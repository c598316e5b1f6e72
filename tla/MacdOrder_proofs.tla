-------------------------- MODULE MacdOrder_proofs --------------------------
(* Proofs about the order path for every number of attempts, every set of   *)
(* lots, every bound, with and without late fills, outages and manual       *)
(* liquidations.                                                            *)
EXTENDS MacdOrder, FiniteSetTheorems, TLAPS

Selling == {"sellRead", "sellSend", "sellConfirm"}
Buying == {"buyCheck", "buyRead", "buySend", "buyConfirm"}

\* Which job is running where, and that a switch carries a signal.
JobInv ==
    /\ pc \in {"idle", "save"} => job.kind = "none"
    /\ pc \in Selling => job.kind \in {"switch", "exit", "liquidate"}
    /\ pc \in Buying \cup {"peek", "verify"} => job.kind = "switch"
    /\ job.kind = "switch" => job.sid \in Sids

\* The worker's own state.
ControlOK ==
    /\ mem \in Book
    /\ pc \in Steps
    /\ job \in Job
    /\ JobInv

\* The account, the histories kept beside it, and that working sell orders are
\* covered by shares.
AccountOK ==
    /\ held \in [ETF -> Nat]
    /\ buying \in [ETF -> Nat]
    /\ selling \in [ETF -> Nat]
    /\ \A s \in ETF : selling[s] <= held[s]
    /\ unbooked \in [{"SELL", "BUY"} -> [ETF -> Int]]
    /\ orders \in [Sids -> Nat]
    /\ stopped \in ETF \cup {None}

\* The state file, the coordinator's records, the market and the counters.
RestOK ==
    /\ disk \in Book
    /\ blocked \subseteq Key
    /\ phase \in {"open", "late", "closed"}
    /\ day \in Nat
    /\ bar \in 0 .. MaxBar
    /\ flag \in ETF \cup {None}
    /\ flag # None => bar # 0
    /\ faults \in Nat
    /\ crashes \in Nat

TypeInv == ControlOK /\ AccountOK /\ RestOK

-----------------------------------------------------------------------------
(* The helpers of the specification. *)

\* The initial values are well formed, and `Other` swaps the two ETFs.
LEMMA BookFacts ==
    /\ EmptyBook \in Book
    /\ NoJob \in Job
    /\ Nothing \in Episodes
    /\ \A s \in ETF : Other(s) \in ETF /\ Other(s) # s /\ Other(Other(s)) = s
BY DEF EmptyBook, Book, NoJob, Job, Nothing, Episodes, Sids, Liquidations, ETF,
       None, Other

\* apply_macd_session_day_rollover returns a well-formed state.
LEMMA RolledType == ASSUME RestOK PROVE Rolled(disk) \in Book
BY BookFacts DEF RestOK, Rolled, EmptyBook, Book, Holding

\* Clearing the position keeps the state well formed.
LEMMA NoPositionType == ASSUME NEW b \in Book PROVE NoPosition(b) \in Book
BY DEF NoPosition, Book

\* An operation that ends with a well-formed state leaves a typed tick.
LEMMA FinishType == ASSUME NEW b \in Book, Finish(b) PROVE ControlOK'
BY BookFacts DEF Finish, ControlOK, JobInv, NoJob, Steps, Selling, Buying

\* force_liquidate_all: the loop over both ETFs and its two endings.
LEMMA NextOfLiquidationType ==
    ASSUME ControlOK, RestOK, NEW ok \in BOOLEAN, job.kind = "liquidate",
           NextOfLiquidation(ok)
    PROVE  ControlOK'
<1>1. CASE job.sym = "LONG"
  <2>1. job' = [job EXCEPT !.sym = "INVERSE", !.allOk = ok] /\ pc' = "sellRead"
        /\ mem' = mem
    BY <1>1 DEF NextOfLiquidation
  <2>2. job' \in Job /\ job'.kind = "liquidate"
    BY <2>1 DEF ControlOK, Job, ETF
  <2> QED
    BY <2>1, <2>2 DEF ControlOK, JobInv, Steps, Selling, Buying
<1>2. CASE job.sym # "LONG"
  <2>1. [NoPosition(mem) EXCEPT !.ep = Nothing, !.pending = FALSE, !.done = day]
            \in Book
    BY BookFacts DEF ControlOK, RestOK, NoPosition, Book
  <2>2. [mem EXCEPT !.pending = TRUE] \in Book
    BY DEF ControlOK, Book
  <2> QED
    BY <1>2, <2>1, <2>2, FinishType DEF NextOfLiquidation, Liquidated
<1> QED
  BY <1>1, <1>2

\* A failed sell attempt: the next ETF, the next attempt or the end.
LEMMA SellAttemptFailsType ==
    ASSUME ControlOK, RestOK, pc \in Selling, SellAttemptFails
    PROVE  ControlOK'
<1>1. CASE job.kind = "liquidate"
  BY <1>1, NextOfLiquidationType DEF SellAttemptFails
<1>2. CASE job.kind # "liquidate" /\ job.attempt < MaxAttempts
  <2>1. job' = [job EXCEPT !.attempt = @ + 1] /\ pc' = "sellRead" /\ mem' = mem
    BY <1>2 DEF SellAttemptFails
  <2>2. job' \in Job /\ job'.kind = job.kind /\ job'.sid = job.sid
    BY <2>1 DEF ControlOK, Job
  <2> QED
    BY <2>1, <2>2 DEF ControlOK, JobInv, Steps, Selling, Buying
<1>3. CASE job.kind # "liquidate" /\ ~ (job.attempt < MaxAttempts)
  BY <1>3, FinishType DEF SellAttemptFails, ControlOK
<1> QED
  BY <1>1, <1>2, <1>3

\* A completed sale: the next ETF, the end of the exit or the verification.
LEMMA SellSucceedsType ==
    ASSUME ControlOK, RestOK, pc \in Selling, SellSucceeds
    PROVE  ControlOK'
<1>1. CASE job.kind = "liquidate"
  <2>1. job.allOk \in BOOLEAN
    BY DEF ControlOK, Job
  <2> QED
    BY <1>1, <2>1, NextOfLiquidationType DEF SellSucceeds
<1>2. CASE job.kind = "exit"
  BY <1>2, FinishType, NoPositionType DEF SellSucceeds, ControlOK
<1>3. CASE job.kind = "switch"
  BY <1>3 DEF SellSucceeds, ControlOK, JobInv, Steps, Selling, Buying
<1> QED
  BY <1>1, <1>2, <1>3 DEF ControlOK, JobInv

\* A failed buy attempt: the next one or the end.
LEMMA BuyAttemptFailsType ==
    ASSUME ControlOK, pc \in Buying, BuyAttemptFails
    PROVE  ControlOK'
<1>1. CASE job.attempt < MaxAttempts
  <2>1. job' = [job EXCEPT !.attempt = @ + 1] /\ pc' = "buyCheck" /\ mem' = mem
    BY <1>1 DEF BuyAttemptFails
  <2>2. job' \in Job /\ job'.kind = job.kind /\ job'.sid = job.sid
    BY <2>1 DEF ControlOK, Job
  <2> QED
    BY <2>1, <2>2 DEF ControlOK, JobInv, Steps, Selling, Buying
<1>2. CASE ~ (job.attempt < MaxAttempts)
  BY <1>2, FinishType DEF BuyAttemptFails, ControlOK
<1> QED
  BY <1>1, <1>2

\* The beginning of the purchase, with its new episode.
LEMMA BeginBuyType ==
    ASSUME ControlOK, job.kind = "switch", BeginBuy
    PROVE  ControlOK'
<1>1. mem' \in Book
  BY DEF BeginBuy, ControlOK, JobInv, NoPosition, Book, Episodes
<1>2. job' \in Job /\ job'.kind = job.kind /\ job'.sid = job.sid
  BY DEF BeginBuy, ControlOK, Job
<1> QED
  BY <1>1, <1>2 DEF BeginBuy, ControlOK, JobInv, Steps, Selling, Buying

\* Taking an order keeps the account well formed.
LEMMA TakeBuyType ==
    ASSUME AccountOK, job.sid \in Sids, NEW s \in ETF, NEW q \in Nat, TakeBuy(s, q)
    PROVE  AccountOK'
<1>1. orders' \in [Sids -> Nat]
  <2>1. orders' = [orders EXCEPT ![job.sid] = orders[job.sid] + 1]
    BY DEF TakeBuy
  <2>2. orders[job.sid] + 1 \in Nat
    BY DEF AccountOK
  <2> QED
    BY <2>1, <2>2 DEF AccountOK
<1>0. stopped' \in ETF \cup {None}
  <2>1. stopped' = None \/ stopped' = stopped
    BY DEF TakeBuy
  <2> QED
    BY <2>1 DEF AccountOK
<1>2. CASE LateFills
  BY <1>0, <1>1, <1>2 DEF TakeBuy, AccountOK
<1>3. CASE ~ LateFills
  BY <1>0, <1>1, <1>3 DEF TakeBuy, AccountOK
<1> QED
  BY <1>2, <1>3

\* Taking a sell order keeps the account well formed: it is covered.
LEMMA TakeSellType ==
    ASSUME AccountOK, NEW s \in ETF, NEW q \in Nat, TakeSell(s, q)
    PROVE  AccountOK'
<1>1. stopped' \in ETF \cup {None}
  BY DEF TakeSell, AccountOK
<1>2. CASE LateFills
  BY <1>1, <1>2 DEF TakeSell, AccountOK
<1>3. CASE ~ LateFills
  BY <1>1, <1>3 DEF TakeSell, AccountOK
<1> QED
  BY <1>2, <1>3
-----------------------------------------------------------------------------
(* Type correctness. *)

\* The steps that start, carry on or end a tick keep its control state typed.
LEMMA ControlStep ==
    ASSUME TypeInv, Worker
    PROVE  ControlOK'
<1> USE DEF TypeInv
<1>1. CASE TickLiquidates
  <2>1. mem' \in Book
    BY <1>1, RolledType DEF TickLiquidates, Book
  <2>2. job' \in Job /\ job'.kind = "liquidate"
    BY <1>1 DEF TickLiquidates, NoJob, Job, RestOK, Liquidations, ETF
  <2> QED
    BY <1>1, <2>1, <2>2 DEF TickLiquidates, ControlOK, JobInv, Steps, Selling, Buying
<1>2. CASE TickSwitches
  <2>1. mem' \in Book /\ pc' = "peek"
    BY <1>2, RolledType DEF TickSwitches
  <2>2. flag \in ETF /\ <<flag, bar>> \in Sids
    BY <1>2 DEF TickSwitches, NewSignal, RestOK, Sids, BoundsAssumption
  <2>3. PICK lot \in Lots :
            job' = [NoJob EXCEPT !.kind = "switch", !.to = flag, !.lot = lot,
                                !.sid = <<flag, bar>>, !.sym = flag]
    BY <1>2 DEF TickSwitches
  <2>4. lot \in Nat
    BY LotsAssumption
  <2>5. job' \in Job /\ job'.kind = "switch" /\ job'.sid = <<flag, bar>>
    BY <2>2, <2>3, <2>4 DEF NoJob, Job
  <2> QED
    BY <2>1, <2>2, <2>5 DEF ControlOK, JobInv, Steps, Selling, Buying
<1>3. CASE TickExits
  <2>1. mem' \in Book /\ pc' = "sellRead"
    BY <1>3, RolledType DEF TickExits
  <2>2. Rolled(disk).sym \in ETF
    BY <1>3, RolledType DEF TickExits, Holding, Book
  <2>3. job' \in Job /\ job'.kind = "exit"
    BY <1>3, <2>2, BookFacts DEF TickExits, Job
  <2> QED
    BY <2>1, <2>3 DEF ControlOK, JobInv, Steps, Selling, Buying
<1>4. CASE TickIdles
  BY <1>4 DEF TickIdles, ControlOK, JobInv
<1>5. CASE Switch
  <2>1. CASE PeekFails \/ VerifyFails
    BY <2>1, FinishType DEF PeekFails, VerifyFails, ControlOK
  <2>2. CASE PeekSkips
    <3>1. job.sid \in Sids /\ job.to \in ETF
      BY <2>2 DEF PeekSkips, ControlOK, JobInv, Job
    <3>2. PICK p \in {mem.processed, mem.processed \cup {job.sid}} :
              Finish([mem EXCEPT !.last = job.to, !.processed = p])
      BY <2>2 DEF PeekSkips
    <3>3. [mem EXCEPT !.last = job.to, !.processed = p] \in Book
      BY <3>1 DEF ControlOK, Book
    <3> QED
      BY <3>2, <3>3, FinishType
  <2>3. CASE PeekGoesOn
    <3>1. job.kind = "switch" /\ job.to \in ETF
      BY <2>3 DEF PeekGoesOn, ControlOK, JobInv, Job
    <3>2. CASE BeginBuy
      BY <3>1, <3>2, BeginBuyType
    <3>3. CASE /\ job' = [job EXCEPT !.sym = Other(job.to), !.attempt = 1]
               /\ pc' = "sellRead"
               /\ UNCHANGED mem
      <4>1. job' \in Job /\ job'.kind = job.kind /\ job'.sid = job.sid
        BY <3>1, <3>3, BookFacts DEF ControlOK, Job
      <4> QED
        BY <3>1, <3>3, <4>1 DEF ControlOK, JobInv, Steps, Selling, Buying
    <3> QED
      BY <2>3, <3>2, <3>3 DEF PeekGoesOn
  <2>4. CASE VerifiedFlat
    BY <2>4, BeginBuyType DEF VerifiedFlat, ControlOK, JobInv
  <2> QED
    BY <1>5, <2>1, <2>2, <2>3, <2>4 DEF Switch
<1>6. CASE Sell
  <2>1. CASE \/ SellQueryFails \/ SellBlocked \/ SellRefused \/ SellReplyLost
             \/ SellUnconfirmed
    BY <2>1, SellAttemptFailsType
       DEF SellQueryFails, SellBlocked, SellRefused, SellReplyLost,
           SellUnconfirmed, Selling
  <2>2. CASE SellFindsNothing \/ SellConfirmed
    BY <2>2, SellSucceedsType DEF SellFindsNothing, SellConfirmed, Selling
  <2>3. CASE SellRead
    <3>1. held[job.sym] \in Nat
      BY DEF ControlOK, AccountOK, Job
    <3>2. job' \in Job /\ job'.kind = job.kind /\ job'.sid = job.sid
      BY <2>3, <3>1 DEF SellRead, ControlOK, Job
    <3> QED
      BY <2>3, <3>2 DEF SellRead, ControlOK, JobInv, Steps, Selling, Buying
  <2>4. CASE SellAccepted
    BY <2>4 DEF SellAccepted, ControlOK, JobInv, Steps, Selling, Buying
  <2> QED
    BY <1>6, <2>1, <2>2, <2>3, <2>4 DEF Sell
<1>7. CASE Buy
  <2>1. CASE BuyQueryFails \/ BuyBlocked \/ BuyRefused \/ BuyReplyLost \/ BuyUnconfirmed
    BY <2>1, BuyAttemptFailsType
       DEF BuyQueryFails, BuyBlocked, BuyRefused, BuyReplyLost, BuyUnconfirmed, Buying
  <2>2. CASE BuyFindsOther \/ BuyRaises
    BY <2>2, FinishType DEF BuyFindsOther, BuyRaises, ControlOK
  <2>3. CASE BuyCheck \/ BuyAccepted
    BY <2>3 DEF BuyCheck, BuyAccepted, ControlOK, JobInv, Steps, Selling, Buying
  <2>4. CASE BuyRead
    <3>1. held[job.to] \in Nat
      BY DEF ControlOK, AccountOK, Job
    <3>2. job' \in Job /\ job'.kind = job.kind /\ job'.sid = job.sid
      BY <2>4, <3>1 DEF BuyRead, ControlOK, Job
    <3> QED
      BY <2>4, <3>2 DEF BuyRead, ControlOK, JobInv, Steps, Selling, Buying
  <2>5. CASE BuyConfirmed
    <3>1. job.sid \in Sids /\ job.to \in ETF
      BY <2>5 DEF BuyConfirmed, ControlOK, JobInv, Job, Buying
    <3>2. Filled \in Nat
      BY <2>5, <3>1 DEF BuyConfirmed, Filled, ControlOK, AccountOK, Job
    <3>3. [mem EXCEPT !.sym = job.to, !.qty = Filled, !.last = job.to,
                     !.processed = @ \cup {job.sid}] \in Book
      BY <3>1, <3>2 DEF ControlOK, Book
    <3> QED
      BY <2>5, <3>3, FinishType DEF BuyConfirmed
  <2> QED
    BY <1>7, <2>1, <2>2, <2>3, <2>4, <2>5 DEF Buy
<1>8. CASE LedgerFails
  BY <1>8, FinishType DEF LedgerFails, ControlOK
<1>9. CASE Save
  BY <1>9, BookFacts DEF Save, ControlOK, JobInv, Steps, Selling, Buying
<1> QED
  BY <1>1, <1>2, <1>3, <1>4, <1>5, <1>6, <1>7, <1>8, <1>9 DEF Worker, Tick

\* The facts about the running job that the account and the records need.
LEMMA JobFacts ==
    ASSUME TypeInv
    PROVE  /\ job.sym \in ETF /\ job.to \in ETF
           /\ job.before \in Nat /\ job.lot \in Nat /\ job.attempt \in Nat
           /\ job.sid \in Sids \cup Liquidations
           /\ pc \in Buying \cup {"peek", "verify"} => job.sid \in Sids
           /\ mem.ep \in Episodes
BY DEF TypeInv, ControlOK, JobInv, Job, Book

\* Steps that leave the account alone.
LEMMA UntouchedAccount == AccountOK /\ Untouched => AccountOK'
BY DEF AccountOK, Untouched, account

\* Every step of the worker keeps the account typed and its sells covered.
LEMMA WorkerAccount ==
    ASSUME TypeInv, Worker
    PROVE  AccountOK'
<1> USE DEF TypeInv
<1>1. CASE Tick \/ LedgerFails \/ Save
  BY <1>1, UntouchedAccount
     DEF Tick, TickLiquidates, TickSwitches, TickExits, TickIdles, LedgerFails, Save
<1>2. CASE Switch
  <2>1. CASE PeekSkips
    <3>1. stopped' = None \/ stopped' = stopped
      BY <2>1 DEF PeekSkips
    <3> QED
      BY <2>1, <3>1 DEF PeekSkips, AccountOK, account
  <2>2. CASE PeekFails \/ PeekGoesOn \/ VerifyFails \/ VerifiedFlat
    BY <2>2, UntouchedAccount DEF PeekFails, PeekGoesOn, VerifyFails, VerifiedFlat
  <2> QED
    BY <1>2, <2>1, <2>2 DEF Switch
<1>3. CASE Sell
  <2>1. CASE \/ SellQueryFails \/ SellFindsNothing \/ SellRead \/ SellBlocked
             \/ SellRefused \/ SellUnconfirmed
    BY <2>1, UntouchedAccount
       DEF SellQueryFails, SellFindsNothing, SellRead, SellBlocked, SellRefused,
           SellUnconfirmed
  <2>2. CASE SellReplyLost \/ SellAccepted
    BY <2>2, TakeSellType, JobFacts DEF SellReplyLost, SellAccepted
  <2>3. CASE SellConfirmed
    <3>1. unbooked' \in [{"SELL", "BUY"} -> [ETF -> Int]]
      BY <2>3, JobFacts DEF SellConfirmed, AccountOK
    <3> QED
      BY <2>3, <3>1 DEF SellConfirmed, AccountOK, account
  <2> QED
    BY <1>3, <2>1, <2>2, <2>3 DEF Sell
<1>4. CASE Buy
  <2>1. CASE \/ BuyQueryFails \/ BuyFindsOther \/ BuyCheck \/ BuyRead \/ BuyBlocked
             \/ BuyRefused \/ BuyRaises \/ BuyUnconfirmed
    BY <2>1, UntouchedAccount
       DEF BuyQueryFails, BuyFindsOther, BuyCheck, BuyRead, BuyBlocked,
           BuyRefused, BuyRaises, BuyUnconfirmed
  <2>2. CASE BuyReplyLost \/ BuyAccepted
    BY <2>2, TakeBuyType, JobFacts DEF BuyReplyLost, BuyAccepted, Buying
  <2>3. CASE BuyConfirmed
    <3>1. unbooked' \in [{"SELL", "BUY"} -> [ETF -> Int]]
      BY <2>3, JobFacts DEF BuyConfirmed, Filled, AccountOK
    <3> QED
      BY <2>3, <3>1 DEF BuyConfirmed, AccountOK, account
  <2> QED
    BY <1>4, <2>1, <2>2, <2>3 DEF Buy
<1> QED
  BY <1>1, <1>2, <1>3, <1>4 DEF Worker

\* A late fill moves one share from the order to the account or back.
LEMMA FillAccount ==
    ASSUME AccountOK, NEW s \in ETF, FillBuy(s) \/ FillSell(s)
    PROVE  AccountOK'
<1>1. CASE FillBuy(s)
  BY <1>1 DEF FillBuy, AccountOK
<1>2. CASE FillSell(s)
  BY <1>2 DEF FillSell, AccountOK
<1> QED
  BY <1>1, <1>2

\* The idempotency keys of the running job.
LEMMA KeyTypes ==
    ASSUME TypeInv
    PROVE  SellKey \in Key /\ (pc \in Buying => BuyKey \in Key)
<1>1. SellKey \in Key
  BY JobFacts DEF SellKey, Key, Episodes
<1>2. ASSUME pc \in Buying PROVE BuyKey \in Key
  BY <1>2, JobFacts DEF BuyKey, Key
<1> QED
  BY <1>1, <1>2

\* Every step of the worker keeps the state file and the records typed.
LEMMA WorkerRest ==
    ASSUME TypeInv, Worker
    PROVE  RestOK'
<1> USE DEF TypeInv
<1> DEFINE Quiet == Calm /\ UNCHANGED <<disk, blocked>>
<1>0. Quiet => RestOK'
  BY DEF Calm, market, RestOK
<1>1. CASE Tick
  <2>1. CASE TickIdles
    BY <2>1, RolledType DEF TickIdles, Calm, market, RestOK
  <2>2. CASE TickLiquidates \/ TickSwitches \/ TickExits
    BY <1>0, <2>2 DEF TickLiquidates, TickSwitches, TickExits
  <2> QED
    BY <1>1, <2>1, <2>2 DEF Tick
<1>2. CASE Switch
  BY <1>0, <1>2 DEF Switch, PeekFails, PeekSkips, PeekGoesOn, VerifyFails, VerifiedFlat
<1>3. CASE Sell
  <2>1. CASE SellReplyLost
    BY <2>1 DEF SellReplyLost, market, RestOK
  <2>2. CASE SellAccepted
    BY <2>2, KeyTypes DEF SellAccepted, Remembered, Calm, market, RestOK
  <2>3. CASE \/ SellQueryFails \/ SellFindsNothing \/ SellRead \/ SellBlocked
             \/ SellRefused \/ SellUnconfirmed \/ SellConfirmed
    BY <1>0, <2>3
       DEF SellQueryFails, SellFindsNothing, SellRead, SellBlocked, SellRefused,
           SellUnconfirmed, SellConfirmed
  <2> QED
    BY <1>3, <2>1, <2>2, <2>3 DEF Sell
<1>4. CASE Buy
  <2>1. CASE BuyReplyLost
    BY <2>1 DEF BuyReplyLost, market, RestOK
  <2>2. CASE BuyAccepted
    BY <2>2, KeyTypes DEF BuyAccepted, Buying, Calm, market, RestOK
  <2>3. CASE \/ BuyQueryFails \/ BuyFindsOther \/ BuyCheck \/ BuyRead \/ BuyBlocked
             \/ BuyRefused \/ BuyRaises \/ BuyUnconfirmed \/ BuyConfirmed
    BY <1>0, <2>3
       DEF BuyQueryFails, BuyFindsOther, BuyCheck, BuyRead, BuyBlocked, BuyRefused,
           BuyRaises, BuyUnconfirmed, BuyConfirmed
  <2> QED
    BY <1>4, <2>1, <2>2, <2>3 DEF Buy
<1>5. CASE LedgerFails
  BY <1>5 DEF LedgerFails, market, RestOK
<1>6. CASE Save
  BY <1>6 DEF Save, ControlOK, Calm, market, RestOK
<1> QED
  BY <1>1, <1>2, <1>3, <1>4, <1>5, <1>6 DEF Worker

\* The initial states are typed.
LEMMA TypeInit == Init => TypeInv
<1> SUFFICES ASSUME Init PROVE TypeInv
  OBVIOUS
<1>1. ControlOK
  BY BookFacts DEF Init, ControlOK, JobInv, NoJob, Steps, Selling, Buying
<1>2. AccountOK
  BY DEF Init, AccountOK
<1>3. RestOK
  BY BookFacts, BoundsAssumption DEF Init, RestOK
<1> QED
  BY <1>1, <1>2, <1>3 DEF TypeInv

\* Every step keeps the types: worker, fills, market, crash and user.
LEMMA TypeStep == TypeInv /\ [Next]_vars => TypeInv'
<1> SUFFICES ASSUME TypeInv, [Next]_vars PROVE TypeInv'
  OBVIOUS
<1> USE DEF TypeInv
<1>1. CASE UNCHANGED vars
  BY <1>1 DEF vars, ControlOK, JobInv, AccountOK, RestOK
<1>2. CASE Worker
  BY <1>2, ControlStep, WorkerAccount, WorkerRest
<1>3. CASE Fill
  <2>1. PICK s \in ETF : FillBuy(s) \/ FillSell(s)
    BY <1>3 DEF Fill
  <2>2. ControlOK' /\ RestOK'
    BY <2>1 DEF FillBuy, FillSell, market, ControlOK, JobInv, RestOK
  <2> QED
    BY <2>1, <2>2, FillAccount
<1>4. CASE Market
  <2>1. CASE NewBar
    <3>1. flag' \in ETF \cup {None} /\ bar' \in 0 .. MaxBar
          /\ (flag' # None => bar' # 0)
      <4>1. flag' \in ETF \cup {None}
        BY <2>1 DEF NewBar, RestOK
      <4>2. bar \in Nat /\ bar' \in {bar, bar + 1} /\ bar' <= MaxBar
            /\ (flag' # None => bar' = bar + 1)
        BY <2>1, BoundsAssumption DEF NewBar, RestOK
      <4> QED
        BY <4>1, <4>2, BoundsAssumption
    <3> QED
      BY <2>1, <3>1 DEF NewBar, account, ControlOK, JobInv, AccountOK, RestOK
  <2>2. CASE Clock
    BY <2>2 DEF Clock, account, ControlOK, JobInv, AccountOK, RestOK
  <2>3. CASE NewDay
    BY <2>3 DEF NewDay, account, ControlOK, JobInv, AccountOK, RestOK
  <2> QED
    BY <1>4, <2>1, <2>2, <2>3 DEF Market
<1>5. CASE Crash
  <2>1. ControlOK'
    BY <1>5, BookFacts DEF Crash, ControlOK, JobInv, NoJob, Steps, Selling, Buying
  <2>2. RestOK'
    BY <1>5 DEF Crash, market, RestOK
  <2> QED
    BY <1>5, <2>1, <2>2, UntouchedAccount DEF Crash
<1>6. CASE RequestLiquidation
  <2>1. disk' \in Book
    BY <1>6 DEF RequestLiquidation, RestOK, Book
  <2>2. RestOK'
    BY <1>6, <2>1 DEF RequestLiquidation, Calm, market, RestOK
  <2>3. ControlOK'
    BY <1>6 DEF RequestLiquidation, ControlOK, JobInv
  <2> QED
    BY <1>6, <2>2, <2>3, UntouchedAccount DEF RequestLiquidation
<1> QED
  BY <1>1, <1>2, <1>3, <1>4, <1>5, <1>6 DEF Next

\* The typed part of the invariant, with what each step of a tick knows of its
\* job, holds in every behaviour.
THEOREM TypeInvariant == Spec => []TypeInv
BY TypeInit, TypeStep, PTL DEF Spec

\* Every variable of the order path keeps its type; in particular no position,
\* holding or working order ever becomes negative.
THEOREM TypeCorrect == Spec => []TypeOK
<1>1. TypeInv => TypeOK
  BY DEF TypeInv, ControlOK, AccountOK, RestOK, TypeOK
<1> QED
  BY TypeInvariant, <1>1, PTL

-----------------------------------------------------------------------------
(* The ledger. *)

\* The steps of an operation between a read balance and its confirmation.
Order == {"sellSend", "sellConfirm", "buySend", "buyConfirm"}

\* What was there before a sell is either still there or in the sales not yet
\* booked; what came since before a buy is among the purchases not yet booked.
LedgerInv ==
    /\ LedgerNeverOverstates
    /\ pc \in {"sellSend", "sellConfirm"} =>
           job.before <= held[job.sym] + unbooked["SELL"][job.sym]
    /\ pc \in {"buySend", "buyConfirm"} =>
           held[job.to] - job.before <= unbooked["BUY"][job.to]

\* However an attempt ends, no order is under way after it.
LEMMA AttemptEnds ==
    /\ \A b : Finish(b) => pc' \notin Order
    /\ SellAttemptFails => pc' \notin Order
    /\ SellSucceeds => pc' \notin Order
    /\ BuyAttemptFails => pc' \notin Order
    /\ BeginBuy => pc' \notin Order
<1>1. \A b : Finish(b) => pc' \notin Order
  BY DEF Finish, Order
<1>2. \A ok : NextOfLiquidation(ok) => pc' \notin Order
  BY <1>1 DEF NextOfLiquidation, Liquidated, Order
<1> QED
  BY <1>1, <1>2 DEF SellAttemptFails, SellSucceeds, BuyAttemptFails, BeginBuy, Order

\* A step that touches neither the account nor the ledger and leaves no order
\* under way keeps the invariant.
LEMMA QuietLedger ==
    ASSUME LedgerInv, UNCHANGED <<held, unbooked>>, pc' \notin Order
    PROVE  LedgerInv'
BY DEF LedgerInv, LedgerNeverOverstates, Order

\* An order the broker takes moves as much into the account as into the ledger's
\* backlog, at once or, with late fills, later.
LEMMA TakeBuyLedger ==
    ASSUME TypeInv, LedgerInv, pc = "buySend", TakeBuy(job.to, job.lot)
    PROVE  /\ LedgerNeverOverstates'
           /\ held'[job.to] - job.before <= unbooked'["BUY"][job.to]
<1> USE JobFacts DEF TypeInv, AccountOK
<1>1. CASE LateFills
  BY <1>1 DEF TakeBuy, LedgerInv, LedgerNeverOverstates
<1>2. CASE ~ LateFills
  BY <1>2 DEF TakeBuy, LedgerInv, LedgerNeverOverstates
<1> QED
  BY <1>1, <1>2

\* The same of a sell order: the shares leave the account for the backlog.
LEMMA TakeSellLedger ==
    ASSUME TypeInv, LedgerInv, pc = "sellSend", TakeSell(job.sym, job.before)
    PROVE  /\ LedgerNeverOverstates'
           /\ job.before <= held'[job.sym] + unbooked'["SELL"][job.sym]
<1> USE JobFacts DEF TypeInv, AccountOK
<1>1. CASE LateFills
  BY <1>1 DEF TakeSell, LedgerInv, LedgerNeverOverstates
<1>2. CASE ~ LateFills
  BY <1>2 DEF TakeSell, LedgerInv, LedgerNeverOverstates
<1> QED
  BY <1>1, <1>2

\* A late fill goes to the account and to the backlog together.
LEMMA FillLedger ==
    ASSUME TypeInv, LedgerInv, NEW s \in ETF, FillBuy(s) \/ FillSell(s)
    PROVE  LedgerInv'
<1> USE JobFacts DEF TypeInv, AccountOK
<1>1. CASE FillBuy(s)
  BY <1>1 DEF FillBuy, LedgerInv, LedgerNeverOverstates
<1>2. CASE FillSell(s)
  BY <1>2 DEF FillSell, LedgerInv, LedgerNeverOverstates
<1> QED
  BY <1>1, <1>2

\* execute_sell_all books no more than the account lost since it was read.
LEMMA SellLedger ==
    ASSUME TypeInv, LedgerInv, Sell
    PROVE  LedgerInv'
<1>1. CASE \/ SellQueryFails \/ SellFindsNothing \/ SellBlocked \/ SellRefused
           \/ SellUnconfirmed
  BY <1>1, QuietLedger, AttemptEnds
     DEF SellQueryFails, SellFindsNothing, SellBlocked, SellRefused,
         SellUnconfirmed, Untouched, account
<1>2. CASE SellRead
  <2>1. job'.before = held[job.sym] /\ job'.sym = job.sym /\ pc' = "sellSend"
    BY <1>2 DEF SellRead, TypeInv, ControlOK, Job
  <2> QED
    BY <1>2, <2>1, JobFacts
       DEF SellRead, Untouched, account, LedgerInv, LedgerNeverOverstates,
           TypeInv, AccountOK
<1>3. CASE SellReplyLost
  BY <1>3, TakeSellLedger, AttemptEnds DEF SellReplyLost, LedgerInv, Order
<1>4. CASE SellAccepted
  BY <1>4, TakeSellLedger DEF SellAccepted, LedgerInv
<1>5. CASE SellConfirmed
  <2>1. job.before <= unbooked["SELL"][job.sym]
    BY <1>5, JobFacts DEF SellConfirmed, LedgerInv, TypeInv, AccountOK
  <2>2. LedgerNeverOverstates'
    BY <1>5, <2>1, JobFacts
       DEF SellConfirmed, LedgerInv, LedgerNeverOverstates, TypeInv, AccountOK
  <2> QED
    BY <1>5, <2>2, AttemptEnds DEF SellConfirmed, LedgerInv, Order
<1> QED
  BY <1>1, <1>2, <1>3, <1>4, <1>5 DEF Sell

\* execute_buy books no more than the account gained since it was read.
LEMMA BuyLedger ==
    ASSUME TypeInv, LedgerInv, Buy
    PROVE  LedgerInv'
<1>1. CASE \/ BuyQueryFails \/ BuyFindsOther \/ BuyCheck \/ BuyBlocked
           \/ BuyRefused \/ BuyRaises \/ BuyUnconfirmed
  BY <1>1, QuietLedger, AttemptEnds
     DEF BuyQueryFails, BuyFindsOther, BuyCheck, BuyBlocked, BuyRefused,
         BuyRaises, BuyUnconfirmed, Untouched, account, Order
<1>2. CASE BuyRead
  <2>1. job'.before = held[job.to] /\ job'.to = job.to /\ pc' = "buySend"
    BY <1>2 DEF BuyRead, TypeInv, ControlOK, Job
  <2> QED
    BY <1>2, <2>1, JobFacts
       DEF BuyRead, Untouched, account, LedgerInv, LedgerNeverOverstates,
           TypeInv, AccountOK
<1>3. CASE BuyReplyLost
  BY <1>3, TakeBuyLedger, AttemptEnds DEF BuyReplyLost, LedgerInv, Order
<1>4. CASE BuyAccepted
  BY <1>4, TakeBuyLedger DEF BuyAccepted, LedgerInv
<1>5. CASE BuyConfirmed
  <2>1. Filled <= unbooked["BUY"][job.to] /\ Filled \in Int
    BY <1>5, JobFacts DEF BuyConfirmed, Filled, LedgerInv, TypeInv, AccountOK
  <2>2. LedgerNeverOverstates'
    BY <1>5, <2>1, JobFacts
       DEF BuyConfirmed, LedgerInv, LedgerNeverOverstates, TypeInv, AccountOK
  <2> QED
    BY <1>5, <2>2, AttemptEnds DEF BuyConfirmed, LedgerInv, Order
<1> QED
  BY <1>1, <1>2, <1>3, <1>4, <1>5 DEF Buy

\* Every step keeps the ledger's invariant.
LEMMA LedgerStep == TypeInv /\ LedgerInv /\ [Next]_vars => LedgerInv'
<1> SUFFICES ASSUME TypeInv, LedgerInv, [Next]_vars PROVE LedgerInv'
  OBVIOUS
<1>1. CASE UNCHANGED vars
  BY <1>1 DEF vars, LedgerInv, LedgerNeverOverstates
<1>2. CASE Tick
  <2>1. CASE TickIdles
    BY <2>1 DEF TickIdles, Untouched, account, LedgerInv, LedgerNeverOverstates
  <2>2. CASE TickLiquidates \/ TickSwitches \/ TickExits
    BY <2>2, QuietLedger
       DEF TickLiquidates, TickSwitches, TickExits, Untouched, account, Order
  <2> QED
    BY <1>2, <2>1, <2>2 DEF Tick
<1>3. CASE Switch
  <2>1. UNCHANGED <<held, unbooked>>
    BY <1>3 DEF Switch, PeekFails, PeekSkips, PeekGoesOn, VerifyFails,
                VerifiedFlat, Untouched, account
  <2>2. pc' \notin Order
    <3>1. CASE PeekGoesOn
      BY <3>1, AttemptEnds DEF PeekGoesOn, Order
    <3>2. CASE PeekFails \/ PeekSkips \/ VerifyFails \/ VerifiedFlat
      BY <3>2, AttemptEnds DEF PeekFails, PeekSkips, VerifyFails, VerifiedFlat
    <3> QED
      BY <1>3, <3>1, <3>2 DEF Switch
  <2> QED
    BY <2>1, <2>2, QuietLedger
<1>4. CASE Sell
  BY <1>4, SellLedger
<1>5. CASE Buy
  BY <1>5, BuyLedger
<1>6. CASE LedgerFails \/ Save \/ Crash
  BY <1>6, QuietLedger, AttemptEnds
     DEF LedgerFails, Save, Crash, Untouched, account, Order
<1>7. CASE Fill
  BY <1>7, FillLedger DEF Fill
<1>8. CASE Market \/ RequestLiquidation
  BY <1>8 DEF Market, NewBar, Clock, NewDay, RequestLiquidation, Untouched,
              account, LedgerInv, LedgerNeverOverstates
<1> QED
  BY <1>1, <1>2, <1>3, <1>4, <1>5, <1>6, <1>7, <1>8 DEF Next, Worker

\* The ledger never shows a share that was not bought or sold: for every number
\* of attempts, every lot, every fault, and also when orders fill late.
THEOREM LedgerTruthful == Spec => []LedgerNeverOverstates
<1>1. Init => LedgerInv
  BY DEF Init, LedgerInv, LedgerNeverOverstates
<1>2. LedgerInv => LedgerNeverOverstates
  BY DEF LedgerInv
<1> QED
  BY <1>1, <1>2, TypeInvariant, LedgerStep, PTL DEF Spec

-----------------------------------------------------------------------------
(* The two ETFs. *)

\* With prompt fills no order is left working, at most one ETF is held, and the
\* other one is still flat where its balance was read before a buy.
ExclusionInv ==
    /\ \A s \in ETF : buying[s] = 0
    /\ NeverBothHeld
    /\ pc \in {"buyRead", "buySend"} => held[Other(job.to)] = 0

\* A step that leaves the account alone and does not end in front of a buy.
LEMMA QuietExclusion ==
    ASSUME ExclusionInv, UNCHANGED <<held, buying>>, pc' \notin {"buyRead", "buySend"}
    PROVE  ExclusionInv'
BY DEF ExclusionInv, NeverBothHeld, Exposure

\* A sale fills at once, so it only takes shares away.
LEMMA TakeSellExclusion ==
    ASSUME LateFills = FALSE, TypeInv, ExclusionInv, pc = "sellSend",
           TakeSell(job.sym, job.before), pc' \notin {"buyRead", "buySend"}
    PROVE  ExclusionInv'
<1>1. /\ buying' = buying
      /\ held' = [held EXCEPT ![job.sym] = @ - job.before]
  BY DEF TakeSell
<1>2. \A s \in ETF : held[s] \in Nat /\ buying[s] = 0 /\ Exposure(s) = held[s]
  BY DEF TypeInv, AccountOK, ExclusionInv, Exposure
<1>3. \A s \in ETF : held'[s] <= held[s] /\ held'[s] \in Int
  BY <1>1, <1>2, JobFacts DEF TypeInv, AccountOK
<1>4. \A s \in ETF : Exposure(s)' = held'[s]
  BY <1>1, <1>2, <1>3 DEF Exposure
<1>5. held' \in [ETF -> Nat]
  BY TakeSellType, JobFacts DEF TypeInv, AccountOK
<1>6. NeverBothHeld'
  BY <1>2, <1>3, <1>4, <1>5, BookFacts DEF ExclusionInv, NeverBothHeld
<1> QED
  BY <1>1, <1>6 DEF ExclusionInv

\* A purchase fills at once, and the other ETF is flat.
LEMMA TakeBuyExclusion ==
    ASSUME LateFills = FALSE, TypeInv, ExclusionInv, pc = "buySend",
           TakeBuy(job.to, job.lot), pc' \notin {"buyRead", "buySend"}
    PROVE  ExclusionInv'
<1>1. /\ buying' = buying
      /\ held' = [held EXCEPT ![job.to] = @ + job.lot]
  BY DEF TakeBuy
<1>2. job.to \in ETF /\ held[Other(job.to)] = 0
  BY JobFacts DEF ExclusionInv
<1>3. \A s \in ETF : s # job.to => s = Other(job.to)
  BY <1>2 DEF ETF, Other
<1>4. \A s \in ETF : s # job.to => Exposure(s)' = 0
  BY <1>1, <1>2, <1>3 DEF TypeInv, AccountOK, ExclusionInv, Exposure
<1>5. NeverBothHeld'
  <2>1. SUFFICES ASSUME NEW s \in ETF, Exposure(s)' > 0
                 PROVE  Exposure(Other(s))' = 0
    BY DEF NeverBothHeld
  <2>2. s = job.to
    BY <1>4, <2>1
  <2> QED
    BY <1>2, <1>4, <2>2, BookFacts
<1> QED
  BY <1>1, <1>5 DEF ExclusionInv

\* Every step keeps the exclusion while orders fill at once.
LEMMA ExclusionStep ==
    ASSUME LateFills = FALSE
    PROVE  TypeInv /\ ExclusionInv /\ [Next]_vars => ExclusionInv'
<1> SUFFICES ASSUME TypeInv, ExclusionInv, [Next]_vars PROVE ExclusionInv'
  OBVIOUS
<1>1. CASE UNCHANGED vars
  BY <1>1 DEF vars, ExclusionInv, NeverBothHeld, Exposure
<1>2. CASE Tick
  <2>1. CASE TickIdles
    BY <2>1 DEF TickIdles, Untouched, account, ExclusionInv, NeverBothHeld, Exposure
  <2>2. CASE TickLiquidates \/ TickSwitches \/ TickExits
    BY <2>2, QuietExclusion
       DEF TickLiquidates, TickSwitches, TickExits, Untouched, account
  <2> QED
    BY <1>2, <2>1, <2>2 DEF Tick
<1>3. CASE Switch
  <2>1. UNCHANGED <<held, buying>>
    BY <1>3 DEF Switch, PeekFails, PeekSkips, PeekGoesOn, VerifyFails,
                VerifiedFlat, Untouched, account
  <2>2. pc' \notin {"buyRead", "buySend"}
    <3>1. CASE PeekGoesOn
      BY <3>1 DEF PeekGoesOn, BeginBuy
    <3>2. CASE PeekFails \/ PeekSkips \/ VerifyFails \/ VerifiedFlat
      BY <3>2, AttemptEnds
         DEF PeekFails, PeekSkips, VerifyFails, VerifiedFlat, Finish, BeginBuy
    <3> QED
      BY <1>3, <3>1, <3>2 DEF Switch
  <2> QED
    BY <2>1, <2>2, QuietExclusion
<1>4. CASE Sell
  <2>1. pc' \notin {"buyRead", "buySend"}
    BY <1>4
       DEF Sell, SellQueryFails, SellFindsNothing, SellRead, SellBlocked,
           SellRefused, SellReplyLost, SellAccepted, SellUnconfirmed, SellConfirmed,
           SellAttemptFails, SellSucceeds, NextOfLiquidation, Liquidated, Finish
  <2>2. CASE SellReplyLost \/ SellAccepted
    BY <2>1, <2>2, TakeSellExclusion DEF SellReplyLost, SellAccepted
  <2>3. CASE \/ SellQueryFails \/ SellFindsNothing \/ SellRead \/ SellBlocked
             \/ SellRefused \/ SellUnconfirmed \/ SellConfirmed
    BY <2>1, <2>3, QuietExclusion
       DEF SellQueryFails, SellFindsNothing, SellRead, SellBlocked, SellRefused,
           SellUnconfirmed, SellConfirmed, Untouched, account
  <2> QED
    BY <1>4, <2>2, <2>3 DEF Sell
<1>5. CASE Buy
  <2>1. CASE BuyCheck
    BY <2>1 DEF BuyCheck, Untouched, account, ExclusionInv, NeverBothHeld, Exposure
  <2>2. CASE BuyRead
    <3>1. job'.to = job.to
      BY <2>2 DEF BuyRead, TypeInv, ControlOK, Job
    <3> QED
      BY <2>2, <3>1
         DEF BuyRead, Untouched, account, ExclusionInv, NeverBothHeld, Exposure
  <2>3. CASE BuyReplyLost \/ BuyAccepted
    BY <2>3, TakeBuyExclusion
       DEF BuyReplyLost, BuyAccepted, BuyAttemptFails, Finish
  <2>4. CASE \/ BuyQueryFails \/ BuyFindsOther \/ BuyBlocked \/ BuyRefused
             \/ BuyRaises \/ BuyUnconfirmed \/ BuyConfirmed
    BY <2>4, QuietExclusion
       DEF BuyQueryFails, BuyFindsOther, BuyBlocked, BuyRefused, BuyRaises,
           BuyUnconfirmed, BuyConfirmed, BuyAttemptFails, Finish, Untouched, account
  <2> QED
    BY <1>5, <2>1, <2>2, <2>3, <2>4 DEF Buy
<1>6. CASE LedgerFails \/ Save \/ Crash
  BY <1>6, QuietExclusion DEF LedgerFails, Save, Crash, Finish, Untouched, account
<1>7. CASE Fill
  <2>1. PICK s \in ETF : FillBuy(s) \/ FillSell(s)
    BY <1>7 DEF Fill
  <2>2. FillSell(s)
    BY <2>1 DEF FillBuy, ExclusionInv
  <2>3. /\ buying' = buying /\ pc' = pc /\ job' = job
        /\ held' = [held EXCEPT ![s] = @ - 1]
    BY <2>2 DEF FillSell
  <2>4. held' \in [ETF -> Nat] /\ \A e \in ETF : held'[e] <= held[e]
    BY <2>2, <2>3, FillAccount DEF TypeInv, AccountOK
  <2>5. NeverBothHeld'
    BY <2>3, <2>4, BookFacts
       DEF ExclusionInv, NeverBothHeld, Exposure, TypeInv, AccountOK
  <2>6. pc \in {"buyRead", "buySend"} => held'[Other(job.to)] = 0
    BY <2>4, JobFacts, BookFacts DEF ExclusionInv, TypeInv, AccountOK
  <2> QED
    BY <2>3, <2>5, <2>6 DEF ExclusionInv
<1>8. CASE Market \/ RequestLiquidation
  BY <1>8 DEF Market, NewBar, Clock, NewDay, RequestLiquidation, Untouched,
              account, ExclusionInv, NeverBothHeld, Exposure
<1> QED
  BY <1>1, <1>2, <1>3, <1>4, <1>5, <1>6, <1>7, <1>8 DEF Next, Worker

\* While the broker fills an order when it takes it, the account never holds both
\* ETFs, whatever is refused, lost, unconfirmed, retried or forgotten in a crash.
THEOREM Exclusion ==
    ASSUME LateFills = FALSE
    PROVE  Spec => []NeverBothHeld
<1>1. Init => ExclusionInv
  BY DEF Init, ExclusionInv, NeverBothHeld, Exposure
<1>2. ExclusionInv => NeverBothHeld
  BY DEF ExclusionInv
<1>3. TypeInv /\ ExclusionInv /\ [Next]_vars => ExclusionInv'
  BY ExclusionStep
<1> QED
  BY <1>1, <1>2, <1>3, TypeInvariant, PTL DEF Spec
-----------------------------------------------------------------------------
(* How an operation goes on and ends. *)

\* The next attempt, ETF or step of the same operation.
GoesOn ==
    /\ mem' = mem
    /\ job'.kind = job.kind /\ job'.to = job.to
    /\ job'.sid = job.sid /\ job'.lot = job.lot

\* The end of an operation that bought nothing: the direction and the session
\* stay, the position stays or is cleared.
Ends ==
    /\ job' = NoJob /\ pc' = "save"
    /\ mem'.last = mem.last /\ mem'.session = mem.session
    /\ mem'.qty = 0 \/ (mem'.sym = mem.sym /\ mem'.qty = mem.qty)

\* An operation that ends with the state it had.
LEMMA FinishEnds == ASSUME Finish(mem) PROVE Ends
BY DEF Finish, Ends

\* However an attempt to sell ends, the operation goes on selling, verifies or
\* is over; only a liquidation turns to another ETF.
LEMMA SellEnds ==
    ASSUME TypeInv, pc \in Selling, SellAttemptFails \/ SellSucceeds
    PROVE  \/ /\ GoesOn /\ pc' \in {"sellRead", "verify"}
              /\ job.kind = "exit" => job'.sym = job.sym
           \/ Ends
<1> USE DEF TypeInv, ControlOK
<1>1. ASSUME job.kind = "liquidate", NEW ok, NextOfLiquidation(ok)
      PROVE  (GoesOn /\ pc' = "sellRead") \/ Ends
  <2>1. CASE job.sym = "LONG"
    BY <1>1, <2>1 DEF NextOfLiquidation, GoesOn, Job
  <2>2. CASE job.sym # "LONG"
    BY <1>1, <2>2
       DEF NextOfLiquidation, Liquidated, Finish, Ends, NoPosition, Book
  <2> QED
    BY <2>1, <2>2
<1>2. CASE job.kind = "liquidate"
  BY <1>1, <1>2 DEF SellAttemptFails, SellSucceeds
<1>3. CASE job.kind # "liquidate" /\ SellAttemptFails
  BY <1>3, FinishEnds DEF SellAttemptFails, GoesOn, Job
<1>4. CASE job.kind # "liquidate" /\ SellSucceeds
  BY <1>4 DEF SellSucceeds, GoesOn, Ends, Finish, NoPosition, Book
<1> QED
  BY <1>2, <1>3, <1>4

\* The same of an attempt to buy, whose number stays within MAX_ORDER_ATTEMPTS.
LEMMA BuyEnds ==
    ASSUME TypeInv, pc \in Buying, BuyAttemptFails
    PROVE  \/ /\ GoesOn /\ pc' = "buyCheck"
              /\ job'.attempt = job.attempt + 1 /\ job.attempt < MaxAttempts
           \/ Ends
<1>1. CASE job.attempt < MaxAttempts
  BY <1>1 DEF BuyAttemptFails, GoesOn, TypeInv, ControlOK, Job
<1>2. CASE ~ (job.attempt < MaxAttempts)
  BY <1>2, FinishEnds DEF BuyAttemptFails
<1> QED
  BY <1>1, <1>2

\* The purchase begins with the first attempt, a new episode and no position.
LEMMA BuyBegins ==
    ASSUME TypeInv, BeginBuy
    PROVE  /\ job'.kind = job.kind /\ job'.to = job.to /\ job'.sid = job.sid
           /\ job'.lot = job.lot /\ job'.attempt = 1 /\ pc' = "buyCheck"
           /\ mem'.ep = job.sid /\ mem'.qty = 0 /\ mem'.last = mem.last
           /\ mem'.session = mem.session /\ mem'.done = mem.done
           /\ mem'.pending = mem.pending
BY DEF BeginBuy, NoPosition, TypeInv, ControlOK, Job, Book

-----------------------------------------------------------------------------
(* The orders of a signal. *)

\* The keys under which the coordinator knows the orders of a signal: one for
\* each attempt and quantity.
Tries == (1 .. MaxAttempts) \X Lots
BuyKeyOf(i, p) == [side |-> "BUY", sym |-> i[1], sid |-> i,
                   attempt |-> p[1], qty |-> p[2], ep |-> i]
Recorded(i, keys) == {p \in Tries : BuyKeyOf(i, p) \in keys}

\* A switch buys the ETF of its signal, in a quantity the budget gives, within
\* the attempts allowed and in the episode the signal began.
SwitchInv ==
    /\ job.kind = "switch" => job.to = job.sid[1] /\ job.lot \in Lots
    /\ pc \in Buying => job.attempt \in 1 .. MaxAttempts /\ mem.ep = job.sid

\* Each order of a signal has a record that still blocks its key, a fault or a
\* crash to account for it.
CountInv ==
    \A i \in Sids : orders[i] <= Cardinality(Recorded(i, blocked))
                                   + Cardinality(Tries) * crashes + faults

\* There are as many keys as attempts times quantities.
LEMMA TriesCount ==
    /\ IsFiniteSet(Tries)
    /\ Cardinality(Tries) \in Nat
    /\ Cardinality(Tries) = MaxAttempts * Cardinality(Lots)
<1>1. IsFiniteSet(1 .. MaxAttempts) /\ Cardinality(1 .. MaxAttempts) = MaxAttempts
  BY AttemptsAssumption, FS_Interval
<1> QED
  BY <1>1, LotsAssumption, FS_Product, FS_CardinalityType DEF Tries

\* The orders the crashes account for, and those of one crash more.
LEMMA CrashOrders ==
    ASSUME NEW c \in Nat
    PROVE  /\ Cardinality(Tries) * c \in Int
           /\ Cardinality(Tries) * (c + 1)
                  = Cardinality(Tries) * c + Cardinality(Tries)
BY TriesCount

\* The records of a signal are finitely many, at most one for each try.
LEMMA RecordedCount ==
    ASSUME NEW i, NEW keys
    PROVE  /\ IsFiniteSet(Recorded(i, keys))
           /\ Cardinality(Recorded(i, keys)) \in Nat
           /\ Cardinality(Recorded(i, keys)) <= Cardinality(Tries)
<1>1. Recorded(i, keys) \in SUBSET Tries
  BY DEF Recorded
<1> QED
  BY <1>1, TriesCount, FS_Subset, FS_CardinalityType

\* More keys, more records.
LEMMA MoreKeys ==
    ASSUME NEW i, NEW keys, NEW more, keys \subseteq more
    PROVE  Cardinality(Recorded(i, keys)) <= Cardinality(Recorded(i, more))
<1>1. Recorded(i, keys) \in SUBSET Recorded(i, more)
  BY DEF Recorded
<1> QED
  BY <1>1, RecordedCount, FS_Subset

\* A new key of the signal is one record more.
LEMMA NewKey ==
    ASSUME NEW i, NEW keys, NEW p \in Tries, BuyKeyOf(i, p) \notin keys
    PROVE  Cardinality(Recorded(i, keys \cup {BuyKeyOf(i, p)}))
               = Cardinality(Recorded(i, keys)) + 1
<1>1. \A q \in Tries : BuyKeyOf(i, q) = BuyKeyOf(i, p) => q = p
  <2>1. SUFFICES ASSUME NEW q \in Tries, BuyKeyOf(i, q) = BuyKeyOf(i, p)
                 PROVE  q = p
    OBVIOUS
  <2>2. q[1] = p[1] /\ q[2] = p[2]
    BY <2>1 DEF BuyKeyOf
  <2> QED
    BY <2>2 DEF Tries
<1>2. Recorded(i, keys \cup {BuyKeyOf(i, p)}) = Recorded(i, keys) \cup {p}
  BY <1>1 DEF Recorded
<1>3. p \notin Recorded(i, keys)
  BY DEF Recorded
<1> QED
  BY <1>2, <1>3, RecordedCount, FS_AddElement

\* A key that is given up is at most one record less.
LEMMA LostKey ==
    ASSUME NEW i, NEW keys, NEW k, NEW fewer, keys \ {k} \subseteq fewer
    PROVE  Cardinality(Recorded(i, keys)) <= Cardinality(Recorded(i, fewer)) + 1
<1>1. CASE \E p \in Recorded(i, keys) : BuyKeyOf(i, p) = k
  <2>1. PICK p \in Recorded(i, keys) : BuyKeyOf(i, p) = k
    BY <1>1
  <2>2. k \notin keys \ {k} /\ p \in Tries
    BY <2>1 DEF Recorded
  <2>3. Cardinality(Recorded(i, (keys \ {k}) \cup {k}))
            = Cardinality(Recorded(i, keys \ {k})) + 1
    BY <2>1, <2>2, NewKey
  <2>4. Cardinality(Recorded(i, keys))
            <= Cardinality(Recorded(i, (keys \ {k}) \cup {k}))
    BY MoreKeys
  <2>5. Cardinality(Recorded(i, keys \ {k})) <= Cardinality(Recorded(i, fewer))
    BY MoreKeys
  <2> QED
    BY <2>3, <2>4, <2>5, RecordedCount
<1>2. CASE ~ \E p \in Recorded(i, keys) : BuyKeyOf(i, p) = k
  <2>1. Recorded(i, keys) \in SUBSET Recorded(i, fewer)
    BY <1>2 DEF Recorded
  <2> QED
    BY <2>1, RecordedCount, FS_Subset
<1> QED
  BY <1>1, <1>2

\* An operation that goes on outside the purchase, or is over, keeps the facts
\* about the switch.
LEMMA SwitchGoesOn ==
    ASSUME SwitchInv, \/ GoesOn /\ pc' \notin Buying
                      \/ GoesOn /\ pc \in Buying /\ job'.attempt = job.attempt
                      \/ Ends
    PROVE  SwitchInv'
BY DEF SwitchInv, GoesOn, Ends, NoJob, Buying

\* The purchase begins with the facts it needs.
LEMMA SwitchBegins ==
    ASSUME TypeInv, SwitchInv, job.kind = "switch", BeginBuy
    PROVE  SwitchInv'
BY BuyBegins, AttemptsAssumption DEF SwitchInv

\* Every step keeps the facts about the switch.
LEMMA SwitchStep == TypeInv /\ SwitchInv /\ [Next]_vars => SwitchInv'
<1> SUFFICES ASSUME TypeInv, SwitchInv, [Next]_vars PROVE SwitchInv'
  OBVIOUS
<1>1. CASE UNCHANGED vars
  BY <1>1 DEF vars, SwitchInv
<1>2. CASE Tick
  <2>1. CASE TickSwitches
    BY <2>1 DEF TickSwitches, NoJob, SwitchInv, Buying
  <2>2. CASE TickLiquidates \/ TickExits
    BY <2>2 DEF TickLiquidates, TickExits, NoJob, SwitchInv, Buying
  <2>3. CASE TickIdles
    BY <2>3 DEF TickIdles, SwitchInv
  <2> QED
    BY <1>2, <2>1, <2>2, <2>3 DEF Tick
<1>3. CASE Switch
  <2>1. CASE PeekFails \/ VerifyFails
    BY <2>1, FinishEnds, SwitchGoesOn DEF PeekFails, VerifyFails
  <2>2. CASE PeekSkips
    BY <2>2 DEF PeekSkips, Finish, NoJob, SwitchInv, Buying
  <2>3. CASE PeekGoesOn
    <3>1. CASE BeginBuy
      BY <2>3, <3>1, SwitchBegins DEF PeekGoesOn, TypeInv, ControlOK, JobInv
    <3>2. CASE /\ job' = [job EXCEPT !.sym = Other(job.to), !.attempt = 1]
               /\ pc' = "sellRead"
               /\ UNCHANGED mem
      BY <3>2, SwitchGoesOn DEF GoesOn, Buying, TypeInv, ControlOK, Job
    <3> QED
      BY <2>3, <3>1, <3>2 DEF PeekGoesOn
  <2>4. CASE VerifiedFlat
    BY <2>4, SwitchBegins DEF VerifiedFlat, TypeInv, ControlOK, JobInv
  <2> QED
    BY <1>3, <2>1, <2>2, <2>3, <2>4 DEF Switch
<1>4. CASE Sell
  <2>1. CASE SellRead \/ SellAccepted
    BY <2>1, SwitchGoesOn
       DEF SellRead, SellAccepted, GoesOn, Buying, TypeInv, ControlOK, Job
  <2>2. CASE \/ SellQueryFails \/ SellFindsNothing \/ SellBlocked \/ SellRefused
             \/ SellReplyLost \/ SellUnconfirmed \/ SellConfirmed
    <3>1. pc \in Selling /\ (SellAttemptFails \/ SellSucceeds)
      BY <2>2 DEF SellQueryFails, SellFindsNothing, SellBlocked, SellRefused,
                  SellReplyLost, SellUnconfirmed, SellConfirmed, Selling
    <3> QED
      BY <3>1, SellEnds, SwitchGoesOn DEF Buying
  <2> QED
    BY <1>4, <2>1, <2>2 DEF Sell
<1>5. CASE Buy
  <2>1. CASE BuyCheck \/ BuyRead \/ BuyAccepted
    BY <2>1, SwitchGoesOn
       DEF BuyCheck, BuyRead, BuyAccepted, GoesOn, Buying, TypeInv, ControlOK, Job
  <2>2. CASE BuyFindsOther \/ BuyRaises
    BY <2>2, FinishEnds, SwitchGoesOn DEF BuyFindsOther, BuyRaises
  <2>3. CASE BuyConfirmed
    BY <2>3 DEF BuyConfirmed, Finish, NoJob, SwitchInv, Buying
  <2>4. CASE BuyQueryFails \/ BuyBlocked \/ BuyRefused \/ BuyReplyLost \/ BuyUnconfirmed
    <3>1. pc \in Buying /\ BuyAttemptFails
      BY <2>4 DEF BuyQueryFails, BuyBlocked, BuyRefused, BuyReplyLost,
                  BuyUnconfirmed, Buying
    <3>2. CASE Ends
      BY <3>2, SwitchGoesOn
    <3>3. CASE /\ GoesOn /\ pc' = "buyCheck"
               /\ job'.attempt = job.attempt + 1 /\ job.attempt < MaxAttempts
      BY <3>1, <3>3, AttemptsAssumption DEF SwitchInv, GoesOn
    <3> QED
      BY <3>1, <3>2, <3>3, BuyEnds
  <2> QED
    BY <1>5, <2>1, <2>2, <2>3, <2>4 DEF Buy
<1>6. CASE LedgerFails \/ Save \/ Crash
  BY <1>6, FinishEnds, SwitchGoesOn
     DEF LedgerFails, Save, Crash, NoJob, SwitchInv, Buying
<1>7. CASE Fill \/ Market \/ RequestLiquidation
  BY <1>7 DEF Fill, FillBuy, FillSell, Market, NewBar, Clock, NewDay,
              RequestLiquidation, SwitchInv
<1> QED
  BY <1>1, <1>2, <1>3, <1>4, <1>5, <1>6, <1>7 DEF Next, Worker

\* A step that leaves the records and the counters alone, or only adds records
\* or faults, keeps the count.
LEMMA QuietCount ==
    ASSUME TypeInv, CountInv, UNCHANGED <<orders, crashes>>,
           \/ blocked \subseteq blocked' /\ faults' \in {faults, faults + 1}
           \/ faults' = faults + 1 /\ \E k : blocked' = blocked \ {k}
    PROVE  CountInv'
<1> USE TriesCount, RecordedCount DEF TypeInv, AccountOK, RestOK
<1>1. SUFFICES ASSUME NEW i \in Sids
               PROVE  orders'[i] <= Cardinality(Recorded(i, blocked'))
                                      + Cardinality(Tries) * crashes' + faults'
  BY DEF CountInv
<1>2. orders[i] <= Cardinality(Recorded(i, blocked))
                     + Cardinality(Tries) * crashes + faults
  BY DEF CountInv
<1>3. Cardinality(Recorded(i, blocked)) + faults
          <= Cardinality(Recorded(i, blocked')) + faults'
  <2>1. CASE blocked \subseteq blocked' /\ faults' \in {faults, faults + 1}
    BY <2>1, MoreKeys
  <2>2. CASE faults' = faults + 1 /\ \E k : blocked' = blocked \ {k}
    <3>1. PICK k : blocked \ {k} \subseteq blocked'
      BY <2>2
    <3>2. Cardinality(Recorded(i, blocked)) <= Cardinality(Recorded(i, blocked')) + 1
      BY <3>1, LostKey, Zenon
    <3> QED
      BY <2>2, <3>2
  <2> QED
    BY <2>1, <2>2
<1>4. orders[i] \in Nat /\ Cardinality(Tries) * crashes \in Int
  BY CrashOrders
<1> QED
  BY <1>2, <1>3, <1>4

\* A buy order the broker takes has a new record, or its reply is a fault.
LEMMA TakeBuyCount ==
    ASSUME TypeInv, SwitchInv, CountInv, pc = "buySend", BuyKey \notin blocked,
           TakeBuy(job.to, job.lot), crashes' = crashes,
           \/ blocked' = blocked \cup {BuyKey} /\ faults' = faults
           \/ blocked' = blocked /\ faults' = faults + 1
    PROVE  CountInv'
<1> USE TriesCount, RecordedCount DEF TypeInv, AccountOK, RestOK
<1>1. job.sid \in Sids /\ job.kind = "switch"
  BY JobFacts DEF Buying, ControlOK, JobInv
<1>2. <<job.attempt, job.lot>> \in Tries
      /\ BuyKey = BuyKeyOf(job.sid, <<job.attempt, job.lot>>)
  BY <1>1 DEF SwitchInv, Tries, Buying, BuyKey, BuyKeyOf
<1>3. orders' = [orders EXCEPT ![job.sid] = @ + 1]
  BY DEF TakeBuy
<1>4. SUFFICES ASSUME NEW i \in Sids
               PROVE  orders'[i] <= Cardinality(Recorded(i, blocked'))
                                      + Cardinality(Tries) * crashes' + faults'
  BY DEF CountInv
<1>5. orders[i] <= Cardinality(Recorded(i, blocked))
                     + Cardinality(Tries) * crashes + faults
  BY DEF CountInv
<1>6. Cardinality(Recorded(i, blocked)) <= Cardinality(Recorded(i, blocked'))
  BY MoreKeys
<1>7. i = job.sid => Cardinality(Recorded(i, blocked)) + faults + 1
                         <= Cardinality(Recorded(i, blocked')) + faults'
  BY <1>2, NewKey
<1>8. orders[i] \in Nat /\ Cardinality(Tries) * crashes \in Int
  BY CrashOrders
<1> QED
  BY <1>1, <1>3, <1>5, <1>6, <1>7, <1>8

\* A crash empties the records: as many orders again become possible.
LEMMA CrashCount ==
    ASSUME TypeInv, CountInv, Crash
    PROVE  CountInv'
<1> USE TriesCount, RecordedCount DEF TypeInv, AccountOK, RestOK
<1>1. SUFFICES ASSUME NEW i \in Sids
               PROVE  orders'[i] <= Cardinality(Recorded(i, blocked'))
                                      + Cardinality(Tries) * crashes' + faults'
  BY DEF CountInv
<1>2. orders[i] <= Cardinality(Recorded(i, blocked))
                     + Cardinality(Tries) * crashes + faults
  BY DEF CountInv
<1>3. orders' = orders /\ crashes' = crashes + 1 /\ faults' = faults
  BY DEF Crash, Untouched
<1>4. Cardinality(Tries) * (crashes + 1) = Cardinality(Tries) * crashes + Cardinality(Tries)
      /\ Cardinality(Tries) * crashes \in Int
  BY CrashOrders
<1> QED
  BY <1>2, <1>3, <1>4

\* Every step keeps the count.
LEMMA CountStep == TypeInv /\ SwitchInv /\ CountInv /\ [Next]_vars => CountInv'
<1> SUFFICES ASSUME TypeInv, SwitchInv, CountInv, [Next]_vars PROVE CountInv'
  OBVIOUS
<1>1. CASE UNCHANGED vars
  BY <1>1, QuietCount DEF vars
<1>2. CASE Tick \/ Switch \/ Save
  BY <1>2, QuietCount
     DEF Tick, TickLiquidates, TickSwitches, TickExits, TickIdles, Switch,
         PeekFails, PeekSkips, PeekGoesOn, VerifyFails, VerifiedFlat, Save,
         Untouched, Calm
<1>3. CASE Sell
  <2>1. CASE \/ SellQueryFails \/ SellFindsNothing \/ SellRead \/ SellBlocked
             \/ SellRefused \/ SellUnconfirmed \/ SellConfirmed
    BY <2>1, QuietCount
       DEF SellQueryFails, SellFindsNothing, SellRead, SellBlocked, SellRefused,
           SellUnconfirmed, SellConfirmed, Untouched, Calm
  <2>2. CASE SellReplyLost \/ SellAccepted
    BY <2>2, QuietCount DEF SellReplyLost, SellAccepted, TakeSell, Calm
  <2> QED
    BY <1>3, <2>1, <2>2 DEF Sell
<1>4. CASE Buy
  <2>1. CASE \/ BuyQueryFails \/ BuyFindsOther \/ BuyCheck \/ BuyRead \/ BuyBlocked
             \/ BuyRefused \/ BuyRaises \/ BuyUnconfirmed \/ BuyConfirmed
    BY <2>1, QuietCount
       DEF BuyQueryFails, BuyFindsOther, BuyCheck, BuyRead, BuyBlocked, BuyRefused,
           BuyRaises, BuyUnconfirmed, BuyConfirmed, Untouched, Calm
  <2>2. CASE BuyReplyLost \/ BuyAccepted
    BY <2>2, TakeBuyCount DEF BuyReplyLost, BuyAccepted, Calm
  <2> QED
    BY <1>4, <2>1, <2>2 DEF Buy
<1>5. CASE LedgerFails
  BY <1>5, QuietCount DEF LedgerFails, Untouched
<1>6. CASE Crash
  BY <1>6, CrashCount
<1>7. CASE Fill \/ Market \/ RequestLiquidation
  BY <1>7, QuietCount
     DEF Fill, FillBuy, FillSell, Market, NewBar, Clock, NewDay,
         RequestLiquidation, Untouched, Calm
<1> QED
  BY <1>1, <1>2, <1>3, <1>4, <1>5, <1>6, <1>7 DEF Next, Worker

\* A signal is not bought without end: for every number of attempts and every
\* set of quantities, retries, ticks, unconfirmed orders, faults and crashes
\* together put no more orders on the market than their records allow.
THEOREM OrdersBounded == Spec => []OrdersPerSignalBounded
<1>1. Init => SwitchInv /\ CountInv
  <2>1. SUFFICES ASSUME Init PROVE SwitchInv /\ CountInv
    OBVIOUS
  <2>2. SwitchInv
    BY <2>1 DEF Init, SwitchInv, NoJob, Buying
  <2>3. CountInv
    BY <2>1, TriesCount, RecordedCount DEF Init, CountInv
  <2> QED
    BY <2>2, <2>3
<1>2. TypeInv /\ CountInv => OrdersPerSignalBounded
  <2>1. SUFFICES ASSUME TypeInv, CountInv, NEW i \in Sids
                 PROVE  orders[i] <= MaxAttempts * Cardinality(Lots) * (1 + crashes)
                                       + faults
    BY DEF OrdersPerSignalBounded
  <2>2. Cardinality(Tries) * (1 + crashes)
            = Cardinality(Tries) * crashes + Cardinality(Tries)
        /\ Cardinality(Tries) * crashes \in Int
    <3>1. crashes \in Nat /\ 1 + crashes = crashes + 1
      BY <2>1 DEF TypeInv, RestOK
    <3> QED
      BY <3>1, CrashOrders
  <2>3. orders[i] <= Cardinality(Tries) * (1 + crashes) + faults
    BY <2>1, <2>2, TriesCount, RecordedCount
       DEF CountInv, TypeInv, AccountOK, RestOK
  <2> QED
    BY <2>3, TriesCount
<1> QED
  BY <1>1, <1>2, TypeInvariant, SwitchStep, CountStep, PTL DEF Spec
-----------------------------------------------------------------------------
(* A direction a price exit has closed. *)

\* What the rollover keeps: the position and its direction, or nothing at all.
LEMMA RolledFacts ==
    ASSUME RestOK
    PROVE  /\ Rolled(disk).session = day
           /\ Holding(Rolled(disk)) <=> Holding(disk)
           /\ Holding(disk) => /\ Rolled(disk).sym = disk.sym
                               /\ Rolled(disk).last = disk.last
           /\ disk.session = day => Rolled(disk) = disk
           /\ Rolled(disk).done \in {disk.done, 0}
           /\ Rolled(disk).pending => disk.pending
BY DEF RestOK, Rolled, Holding, EmptyBook, Book

\* The rollover depends on the position, the direction and the session only.
LEMMA RolledLast ==
    ASSUME RestOK, disk' \in Book, day' = day, disk'.session = disk.session,
           disk'.sym = disk.sym, disk'.qty = disk.qty, disk'.last = disk.last
    PROVE  Rolled(disk)'.last = Rolled(disk).last
BY DEF RestOK, Rolled, Holding, EmptyBook, Book

\* The state file shows a position of the ETF that was not the last direction.
Phantom(b) == Holding(b) /\ b.last # b.sym

\* Such a position is a shadow: the account holds none of it, so a price exit
\* sells only what the last signal bought; and an ETF whose position is in the
\* state file is never bought.
PhantomInv ==
    /\ Phantom(disk) => held[disk.sym] = 0
    /\ Phantom(mem) => held[mem.sym] = 0
    /\ job.kind = "exit" => Holding(mem) /\ job.sym = mem.sym
    /\ pc = "sellSend" => job.before > 0
    /\ pc = "peek" => (Holding(disk) => Holding(mem) /\ mem.sym = disk.sym)
    /\ pc \in Buying => ~ Holding(mem)
    /\ job.kind = "switch" /\ pc # "peek" =>
           ~ (Holding(disk) /\ disk.sym = job.to)

\* The direction a price exit has closed is the last direction, on disk and in
\* the tick's copy, and a switch goes to the other one.
LastInv ==
    /\ stopped # None => Rolled(disk).last = stopped
    /\ pc # "idle" => /\ mem.session = day
                      /\ stopped # None => mem.last = stopped
    /\ pc \notin {"idle", "save"} => mem.last = Rolled(disk).last
    /\ job.kind = "switch" => job.to # mem.last
    /\ pc = "buyConfirm" => stopped = None

\* The account holds no more of either ETF than before.
LessHeld == held' \in [ETF -> Nat] /\ \A s \in ETF : held'[s] <= held[s]

\* A prompt sale takes shares away.
LEMMA TakeSellLess ==
    ASSUME LateFills = FALSE, TypeInv, TakeSell(job.sym, job.before)
    PROVE  LessHeld
<1>1. held' = [held EXCEPT ![job.sym] = @ - job.before]
  BY DEF TakeSell
<1>2. held' \in [ETF -> Nat]
  BY TakeSellType, JobFacts DEF TypeInv, AccountOK
<1> QED
  BY <1>1, <1>2, JobFacts DEF LessHeld, TypeInv, AccountOK

\* So does a step that does not touch the account.
LEMMA UntouchedLess == ASSUME TypeInv, UNCHANGED held PROVE LessHeld
BY DEF LessHeld, TypeInv, AccountOK

\* A shadow stays one while the account only loses shares.
LEMMA ShadowStays ==
    ASSUME TypeInv, LessHeld, NEW b \in Book, Phantom(b) => held[b.sym] = 0
    PROVE  Phantom(b) => held'[b.sym] = 0
BY DEF LessHeld, Phantom, Holding, Book, TypeInv, AccountOK

\* An operation that goes on.
LEMMA PhantomGoesOn ==
    ASSUME TypeInv, PhantomInv, LessHeld, GoesOn, disk' = disk,
           job.kind = "exit" => job'.sym = job.sym,
           pc # "peek", pc' \notin {"peek", "sellSend"},
           pc' \in Buying => pc \in Buying
    PROVE  PhantomInv'
<1>1. disk \in Book /\ mem \in Book
  BY DEF TypeInv, ControlOK, RestOK
<1>2. Phantom(disk)' => held'[disk'.sym] = 0
  BY <1>1, ShadowStays DEF PhantomInv, Phantom, Holding
<1>3. Phantom(mem)' => held'[mem'.sym] = 0
  BY <1>1, ShadowStays DEF PhantomInv, GoesOn, Phantom, Holding
<1> QED
  BY <1>2, <1>3 DEF PhantomInv, GoesOn, Holding

\* An operation that is over.
LEMMA PhantomEnds ==
    ASSUME TypeInv, PhantomInv, LessHeld, Ends, disk' = disk, mem' \in Book
    PROVE  PhantomInv'
<1>1. disk \in Book /\ mem \in Book
  BY DEF TypeInv, ControlOK, RestOK
<1>2. Phantom(disk)' => held'[disk'.sym] = 0
  BY <1>1, ShadowStays DEF PhantomInv, Phantom, Holding
<1>3. Phantom(mem)' => /\ Phantom(mem) /\ mem'.sym = mem.sym
  BY DEF Ends, Phantom, Holding
<1>4. Phantom(mem)' => held'[mem'.sym] = 0
  BY <1>1, <1>3, ShadowStays DEF PhantomInv
<1> QED
  BY <1>2, <1>4 DEF PhantomInv, Ends, NoJob, Buying

\* A purchase that begins.
LEMMA PhantomBegins ==
    ASSUME TypeInv, PhantomInv, LessHeld, BeginBuy, disk' = disk,
           job.kind = "switch", ~ (Holding(disk) /\ disk.sym = job.to)
    PROVE  PhantomInv'
<1>1. disk \in Book /\ mem \in Book
  BY DEF TypeInv, ControlOK, RestOK
<1>2. Phantom(disk)' => held'[disk'.sym] = 0
  BY <1>1, ShadowStays DEF PhantomInv, Phantom, Holding
<1> QED
  BY <1>2, BuyBegins DEF PhantomInv, Phantom, Holding

\* A purchase: neither book shows a position of the ETF that is bought.
LEMMA TakeBuyPhantom ==
    ASSUME LateFills = FALSE, TypeInv, PhantomInv, pc = "buySend",
           TakeBuy(job.to, job.lot)
    PROVE  /\ Phantom(disk) => held'[disk.sym] = 0
           /\ ~ Holding(mem)
<1>1. held' = [held EXCEPT ![job.to] = @ + job.lot]
  BY DEF TakeBuy
<1>2. ~ (Holding(disk) /\ disk.sym = job.to) /\ ~ Holding(mem)
  BY DEF PhantomInv, Buying, TypeInv, ControlOK, JobInv
<1> QED
  BY <1>1, <1>2 DEF PhantomInv, Phantom, Holding, TypeInv, AccountOK, RestOK, Book
\* The beginning of a tick takes the rolled-over state file as it is.
LEMMA TickPhantom ==
    ASSUME TypeInv, PhantomInv, Tick
    PROVE  PhantomInv'
<1>1. disk \in Book /\ Rolled(disk) \in Book
  BY RolledType DEF TypeInv, RestOK
<1>2. Phantom(Rolled(disk)) => held[Rolled(disk).sym] = 0
  BY RolledFacts DEF PhantomInv, Phantom, TypeInv
<1>3. held' = held
  BY DEF Tick, TickLiquidates, TickSwitches, TickExits, TickIdles, Untouched, account
<1>4. CASE TickLiquidates
  <2>1. mem' = [Rolled(disk) EXCEPT !.pending = TRUE] /\ disk' = disk
        /\ job'.kind = "liquidate" /\ pc' = "sellRead"
    BY <1>4 DEF TickLiquidates, NoJob
  <2>2. Phantom(mem)' => held[mem'.sym] = 0
    BY <1>1, <1>2, <2>1 DEF Phantom, Holding, Book
  <2> QED
    BY <1>3, <2>1, <2>2 DEF PhantomInv, Phantom, Holding, Buying
<1>5. CASE TickSwitches
  <2>1. mem' = Rolled(disk) /\ disk' = disk /\ pc' = "peek" /\ job'.kind = "switch"
    BY <1>5 DEF TickSwitches, NoJob
  <2>2. Phantom(mem)' => held[mem'.sym] = 0
    BY <1>2, <2>1 DEF Phantom, Holding
  <2>3. Holding(disk)' => Holding(mem)' /\ mem'.sym = disk'.sym
    BY <2>1, RolledFacts DEF Holding, TypeInv
  <2> QED
    BY <1>3, <2>1, <2>2, <2>3 DEF PhantomInv, Phantom, Holding, Buying
<1>6. CASE TickExits
  <2>1. mem' = Rolled(disk) /\ disk' = disk /\ pc' = "sellRead"
        /\ job'.kind = "exit" /\ job'.sym = Rolled(disk).sym /\ Holding(Rolled(disk))
    BY <1>6 DEF TickExits, NoJob
  <2>2. Phantom(mem)' => held[mem'.sym] = 0
    BY <1>2, <2>1 DEF Phantom, Holding
  <2> QED
    BY <1>3, <2>1, <2>2 DEF PhantomInv, Phantom, Holding, Buying
<1>7. CASE TickIdles
  <2>1. disk' = Rolled(disk) /\ mem' = mem /\ job' = job /\ pc' = "idle" /\ pc = "idle"
    BY <1>7 DEF TickIdles
  <2>2. Phantom(disk)' => held[disk'.sym] = 0
    BY <1>2, <2>1 DEF Phantom, Holding
  <2>3. Holding(disk)' => Holding(disk) /\ disk'.sym = disk.sym
    BY <2>1, RolledFacts DEF Holding, TypeInv
  <2> QED
    BY <1>3, <2>1, <2>2, <2>3 DEF PhantomInv, Phantom, Holding, Buying
<1> QED
  BY <1>4, <1>5, <1>6, <1>7 DEF Tick

\* The steps of switch_to_direction up to the orders.
LEMMA SwitchPhantom ==
    ASSUME TypeInv, PhantomInv, Switch
    PROVE  PhantomInv'
<1>1. LessHeld /\ disk' = disk /\ mem' \in Book /\ job.kind = "switch"
  <2>1. held' = held /\ disk' = disk
    BY DEF Switch, PeekFails, PeekSkips, PeekGoesOn, VerifyFails, VerifiedFlat,
           Untouched, account
  <2>2. mem' \in Book
    BY ControlStep DEF Worker, ControlOK
  <2>3. job.kind = "switch"
    BY DEF Switch, PeekFails, PeekSkips, PeekGoesOn, VerifyFails, VerifiedFlat,
           TypeInv, ControlOK, JobInv
  <2> QED
    BY <2>1, <2>2, <2>3, UntouchedLess
<1>2. CASE PeekFails \/ VerifyFails
  BY <1>1, <1>2, FinishEnds, PhantomEnds DEF PeekFails, VerifyFails
<1>3. CASE PeekSkips
  <2>1. /\ job' = NoJob /\ pc' = "save" /\ held' = held
        /\ mem'.sym = mem.sym /\ mem'.qty = mem.qty /\ mem'.last = job.to
    BY <1>3 DEF PeekSkips, Finish, account, TypeInv, ControlOK, Book
  <2>2. Phantom(mem)' => held'[mem'.sym] = 0
    <3>1. SUFFICES ASSUME Holding(mem), mem.sym # job.to
                   PROVE  held[mem.sym] = 0
      BY <2>1 DEF Phantom, Holding
    <3>2. mem.sym \in ETF /\ job.to \in ETF
      BY <3>1, JobFacts DEF Holding, TypeInv, ControlOK, Book
    <3>3. mem.sym = Other(job.to)
      BY <3>1, <3>2 DEF ETF, Other
    <3> QED
      BY <1>3, <3>1, <3>3 DEF PeekSkips, AlreadyThere
  <2> QED
    BY <1>1, <2>1, <2>2 DEF PhantomInv, Phantom, Holding, NoJob, Buying
<1>4. CASE PeekGoesOn
  <2>1. ~ (Holding(disk) /\ disk.sym = job.to)
    BY <1>4 DEF PeekGoesOn, AlreadyThere, PhantomInv
  <2>2. CASE BeginBuy
    BY <1>1, <2>1, <2>2, PhantomBegins
  <2>3. CASE /\ job' = [job EXCEPT !.sym = Other(job.to), !.attempt = 1]
             /\ pc' = "sellRead"
             /\ UNCHANGED mem
    <3>1. held' = held
      BY <1>4 DEF PeekGoesOn, Untouched, account
    <3>2. job'.kind = "switch" /\ job'.to = job.to
      BY <1>1, <2>3 DEF TypeInv, ControlOK, Job
    <3> QED
      BY <1>1, <2>1, <2>3, <3>1, <3>2 DEF PhantomInv, Phantom, Holding, Buying
  <2> QED
    BY <1>4, <2>2, <2>3 DEF PeekGoesOn
<1>5. CASE VerifiedFlat
  BY <1>1, <1>5, PhantomBegins DEF VerifiedFlat, PhantomInv
<1> QED
  BY <1>2, <1>3, <1>4, <1>5 DEF Switch

\* The steps of execute_sell_all.
LEMMA SellPhantom ==
    ASSUME LateFills = FALSE, TypeInv, PhantomInv, Sell
    PROVE  PhantomInv'
<1>1. LessHeld
  <2>1. CASE SellReplyLost \/ SellAccepted
    BY <2>1, TakeSellLess DEF SellReplyLost, SellAccepted
  <2>2. CASE \/ SellQueryFails \/ SellFindsNothing \/ SellRead \/ SellBlocked
             \/ SellRefused \/ SellUnconfirmed \/ SellConfirmed
    BY <2>2, UntouchedLess
       DEF SellQueryFails, SellFindsNothing, SellRead, SellBlocked, SellRefused,
           SellUnconfirmed, SellConfirmed, Untouched, account
  <2> QED
    BY <2>1, <2>2 DEF Sell
<1>2. disk' = disk /\ mem' \in Book /\ pc \in Selling
  <2>1. mem' \in Book
    BY ControlStep DEF Worker, ControlOK
  <2> QED
    BY <2>1
       DEF Sell, SellQueryFails, SellFindsNothing, SellRead, SellBlocked, SellRefused,
           SellReplyLost, SellAccepted, SellUnconfirmed, SellConfirmed, Selling
<1>3. CASE SellRead
  <2>1. /\ job'.before = held[job.sym] /\ held[job.sym] > 0 /\ pc' = "sellSend"
        /\ job'.kind = job.kind /\ job'.to = job.to /\ job'.sym = job.sym
        /\ mem' = mem /\ held' = held /\ pc = "sellRead"
    BY <1>3 DEF SellRead, Untouched, account, TypeInv, ControlOK, Job
  <2> QED
    BY <1>2, <2>1 DEF PhantomInv, Phantom, Holding, Buying
<1>4. CASE SellAccepted
  BY <1>1, <1>2, <1>4, PhantomGoesOn DEF SellAccepted, GoesOn, Buying
<1>5. CASE \/ SellQueryFails \/ SellFindsNothing \/ SellBlocked \/ SellRefused
           \/ SellReplyLost \/ SellUnconfirmed \/ SellConfirmed
  <2>1. SellAttemptFails \/ SellSucceeds
    BY <1>5 DEF SellQueryFails, SellFindsNothing, SellBlocked, SellRefused,
                SellReplyLost, SellUnconfirmed, SellConfirmed
  <2>2. CASE Ends
    BY <1>1, <1>2, <2>2, PhantomEnds
  <2>3. CASE /\ GoesOn /\ pc' \in {"sellRead", "verify"}
             /\ job.kind = "exit" => job'.sym = job.sym
    BY <1>1, <1>2, <2>3, PhantomGoesOn DEF Selling, Buying
  <2> QED
    BY <1>2, <2>1, <2>2, <2>3, SellEnds
<1> QED
  BY <1>3, <1>4, <1>5 DEF Sell

\* The steps of execute_buy.
LEMMA BuyPhantom ==
    ASSUME LateFills = FALSE, TypeInv, PhantomInv, Buy
    PROVE  PhantomInv'
<1>1. disk' = disk /\ mem' \in Book /\ pc \in Buying /\ job.kind = "switch"
  <2>1. mem' \in Book
    BY ControlStep DEF Worker, ControlOK
  <2>2. disk' = disk /\ pc \in Buying
    BY DEF Buy, BuyQueryFails, BuyFindsOther, BuyCheck, BuyRead, BuyBlocked,
           BuyRefused, BuyRaises, BuyReplyLost, BuyAccepted, BuyUnconfirmed,
           BuyConfirmed, Buying
  <2> QED
    BY <2>1, <2>2 DEF TypeInv, ControlOK, JobInv
<1>2. CASE BuyCheck \/ BuyRead
  <2>1. GoesOn /\ held' = held /\ pc' \notin {"peek", "sellSend"}
    BY <1>2 DEF BuyCheck, BuyRead, GoesOn, Untouched, account, TypeInv, ControlOK, Job
  <2> QED
    BY <1>1, <2>1, UntouchedLess, PhantomGoesOn DEF Buying
<1>3. CASE BuyFindsOther \/ BuyRaises
  <2>1. Ends /\ held' = held
    BY <1>3, FinishEnds DEF BuyFindsOther, BuyRaises, Untouched, account
  <2> QED
    BY <1>1, <2>1, UntouchedLess, PhantomEnds
<1>4. CASE BuyQueryFails \/ BuyBlocked \/ BuyRefused \/ BuyUnconfirmed
  <2>1. BuyAttemptFails /\ held' = held
    BY <1>4 DEF BuyQueryFails, BuyBlocked, BuyRefused, BuyUnconfirmed, Untouched, account
  <2> QED
    BY <1>1, <2>1, BuyEnds, UntouchedLess, PhantomGoesOn, PhantomEnds DEF Buying
<1>5. CASE BuyAccepted
  <2>1. mem' = mem /\ job' = job /\ pc' = "buyConfirm" /\ pc = "buySend"
        /\ (Phantom(disk) => held'[disk.sym] = 0) /\ ~ Holding(mem)
    BY <1>5, TakeBuyPhantom DEF BuyAccepted
  <2> QED
    BY <1>1, <2>1 DEF PhantomInv, Phantom, Holding
<1>6. CASE BuyReplyLost
  <2>1. BuyAttemptFails /\ (Phantom(disk) => held'[disk.sym] = 0) /\ ~ Holding(mem)
    BY <1>6, TakeBuyPhantom DEF BuyReplyLost
  <2>2. CASE Ends
    <3>1. ~ Holding(mem)'
      BY <2>1, <2>2 DEF Ends, Holding
    <3> QED
      BY <1>1, <2>1, <2>2, <3>1 DEF PhantomInv, Ends, NoJob, Phantom, Holding, Buying
  <2>3. CASE GoesOn /\ pc' = "buyCheck"
    BY <1>1, <2>1, <2>3 DEF PhantomInv, GoesOn, Phantom, Holding, Buying
  <2> QED
    BY <1>1, <2>1, <2>2, <2>3, BuyEnds
<1>7. CASE BuyConfirmed
  <2>1. /\ job' = NoJob /\ pc' = "save" /\ held' = held
        /\ mem'.sym = job.to /\ mem'.last = job.to
    BY <1>7 DEF BuyConfirmed, Finish, account, TypeInv, ControlOK, Book
  <2> QED
    BY <1>1, <2>1 DEF PhantomInv, Phantom, Holding, NoJob, Buying
<1> QED
  BY <1>2, <1>3, <1>4, <1>5, <1>6, <1>7 DEF Buy

\* Every step keeps the shadows empty while orders fill at once.
LEMMA PhantomStep ==
    ASSUME LateFills = FALSE
    PROVE  TypeInv /\ ExclusionInv /\ PhantomInv /\ [Next]_vars => PhantomInv'
<1> SUFFICES ASSUME TypeInv, ExclusionInv, PhantomInv, [Next]_vars PROVE PhantomInv'
  OBVIOUS
<1>1. CASE UNCHANGED vars
  BY <1>1 DEF vars, PhantomInv, Phantom, Holding
<1>2. CASE Tick
  BY <1>2, TickPhantom
<1>3. CASE Switch
  BY <1>3, SwitchPhantom
<1>4. CASE Sell
  BY <1>4, SellPhantom
<1>5. CASE Buy
  BY <1>5, BuyPhantom
<1>6. CASE LedgerFails
  <2>1. Ends /\ held' = held /\ disk' = disk /\ mem' = mem
    BY <1>6, FinishEnds DEF LedgerFails, Finish, Untouched, account
  <2> QED
    BY <2>1, UntouchedLess, PhantomEnds DEF TypeInv, ControlOK
<1>7. CASE Save
  BY <1>7 DEF Save, Untouched, account, PhantomInv, Phantom, Holding, EmptyBook,
              Buying, TypeInv, ControlOK, JobInv
<1>8. CASE Crash
  BY <1>8 DEF Crash, Untouched, account, PhantomInv, Phantom, Holding, EmptyBook,
              NoJob, Buying
<1>9. CASE Fill
  <2>1. PICK s \in ETF : FillBuy(s) \/ FillSell(s)
    BY <1>9 DEF Fill
  <2>2. FillSell(s)
    BY <2>1 DEF FillBuy, ExclusionInv
  <2>3. held' = [held EXCEPT ![s] = @ - 1] /\ held' \in [ETF -> Nat]
    BY <2>2, FillAccount DEF FillSell, TypeInv, AccountOK
  <2>4. LessHeld
    BY <2>3 DEF LessHeld, TypeInv, AccountOK
  <2>5. UNCHANGED <<disk, mem, pc, job>>
    BY <2>2 DEF FillSell
  <2>6. (Phantom(disk) => held'[disk.sym] = 0) /\ (Phantom(mem) => held'[mem.sym] = 0)
    BY <2>4, ShadowStays DEF PhantomInv, TypeInv, ControlOK, RestOK
  <2> QED
    BY <2>5, <2>6 DEF PhantomInv, Phantom, Holding
<1>10. CASE Market
  BY <1>10 DEF Market, NewBar, Clock, NewDay, account, PhantomInv, Phantom, Holding
<1>11. CASE RequestLiquidation
  <2>1. /\ disk'.sym = disk.sym /\ disk'.qty = disk.qty /\ disk'.last = disk.last
        /\ held' = held /\ mem' = mem /\ pc' = pc /\ job' = job
    BY <1>11 DEF RequestLiquidation, Untouched, account, TypeInv, RestOK, Book
  <2> QED
    BY <2>1 DEF PhantomInv, Phantom, Holding
<1> QED
  BY <1>1, <1>2, <1>3, <1>4, <1>5, <1>6, <1>7, <1>8, <1>9, <1>10, <1>11
     DEF Next, Worker
\* An operation that goes on, and one that is over, keep the last direction as
\* long as no price exit closes another one.
LEMMA LastGoesOn ==
    ASSUME LastInv, GoesOn, UNCHANGED <<disk, day, stopped>>,
           pc \notin {"idle", "save"}, pc' \notin {"idle", "buyConfirm"}
    PROVE  LastInv'
BY DEF LastInv, GoesOn, Rolled, Holding

LEMMA LastEnds ==
    ASSUME LastInv, Ends, UNCHANGED <<disk, day, stopped>>, pc \notin {"idle", "save"}
    PROVE  LastInv'
BY DEF LastInv, Ends, NoJob, Rolled, Holding

\* The purchase begins.
LEMMA LastBegins ==
    ASSUME TypeInv, LastInv, BeginBuy, UNCHANGED <<disk, day, stopped>>,
           pc \notin {"idle", "save"}
    PROVE  LastInv'
BY BuyBegins DEF LastInv, Rolled, Holding

\* A price exit that sells closes the last direction: the position it sells is
\* not a shadow.
LEMMA TakeSellLast ==
    ASSUME TypeInv, PhantomInv, LastInv, pc = "sellSend",
           TakeSell(job.sym, job.before)
    PROVE  stopped' # None => mem.last = stopped'
<1>1. CASE job.kind # "exit"
  BY <1>1 DEF TakeSell, LastInv
<1>2. CASE job.kind = "exit"
  <2>1. stopped' = job.sym /\ job.sym = mem.sym /\ Holding(mem)
    BY <1>2 DEF TakeSell, PhantomInv
  <2>2. held[job.sym] > 0
    BY JobFacts DEF TakeSell, PhantomInv, TypeInv, AccountOK
  <2>3. ~ Phantom(mem)
    BY <2>1, <2>2 DEF PhantomInv
  <2> QED
    BY <2>1, <2>3 DEF Phantom
<1> QED
  BY <1>1, <1>2

\* A purchase of the other ETF opens the direction again.
LEMMA TakeBuyLast ==
    ASSUME TypeInv, LastInv, pc = "buySend", TakeBuy(job.to, job.lot)
    PROVE  stopped' = None
<1>1. job.kind = "switch" /\ job.to \in ETF
  BY JobFacts DEF Buying, TypeInv, ControlOK, JobInv
<1>2. stopped # job.to /\ stopped \in ETF \cup {None}
  BY <1>1 DEF LastInv, ETF, None, TypeInv, AccountOK
<1>3. stopped \in {Other(job.to), None}
  BY <1>1, <1>2 DEF ETF, Other
<1> QED
  BY <1>3 DEF TakeBuy

\* The beginning of a tick takes the last direction from the state file.
LEMMA TickLast ==
    ASSUME TypeInv, LastInv, Tick
    PROVE  LastInv'
<1>1. Rolled(disk).session = day /\ Rolled(disk) \in Book
  BY RolledFacts, RolledType DEF TypeInv
<1>2. UNCHANGED <<day, stopped>>
  BY DEF Tick, TickLiquidates, TickSwitches, TickExits, TickIdles, Untouched, Calm, market
<1>3. CASE TickLiquidates
  <2>1. /\ mem'.last = Rolled(disk).last /\ mem'.session = day
        /\ disk' = disk /\ job'.kind = "liquidate" /\ pc' = "sellRead"
    BY <1>1, <1>3 DEF TickLiquidates, NoJob, Book
  <2>2. Rolled(disk)' = Rolled(disk)
    BY <1>2, <2>1 DEF Rolled, Holding
  <2> QED
    BY <1>2, <2>1, <2>2 DEF LastInv
<1>4. CASE TickSwitches
  <2>1. /\ mem' = Rolled(disk) /\ disk' = disk /\ pc' = "peek"
        /\ job'.to = flag /\ flag # Rolled(disk).last
    BY <1>4 DEF TickSwitches, NewSignal, NoJob
  <2>2. Rolled(disk)' = Rolled(disk)
    BY <1>2, <2>1 DEF Rolled, Holding
  <2> QED
    BY <1>1, <1>2, <2>1, <2>2 DEF LastInv
<1>5. CASE TickExits
  <2>1. mem' = Rolled(disk) /\ disk' = disk /\ pc' = "sellRead" /\ job'.kind = "exit"
    BY <1>5 DEF TickExits, NoJob
  <2>2. Rolled(disk)' = Rolled(disk)
    BY <1>2, <2>1 DEF Rolled, Holding
  <2> QED
    BY <1>1, <1>2, <2>1, <2>2 DEF LastInv
<1>6. CASE TickIdles
  <2>1. disk' = Rolled(disk) /\ mem' = mem /\ job' = job /\ pc' = "idle" /\ pc = "idle"
    BY <1>6 DEF TickIdles
  <2>2. Rolled(disk)' = disk'
    BY <1>1, <1>2, <2>1 DEF Rolled
  <2> QED
    BY <1>2, <2>1, <2>2 DEF LastInv
<1> QED
  BY <1>3, <1>4, <1>5, <1>6 DEF Tick

\* The steps of switch_to_direction up to the orders.
LEMMA SwitchLast ==
    ASSUME TypeInv, LastInv, Switch
    PROVE  LastInv'
<1>1. UNCHANGED <<disk, day>> /\ pc \in {"peek", "verify"} /\ job.kind = "switch"
  <2>1. UNCHANGED <<disk, day>> /\ pc \in {"peek", "verify"}
    BY DEF Switch, PeekFails, PeekSkips, PeekGoesOn, VerifyFails, VerifiedFlat,
           Calm, market
  <2> QED
    BY <2>1 DEF TypeInv, ControlOK, JobInv
<1>2. CASE PeekFails \/ VerifyFails
  BY <1>1, <1>2, FinishEnds, LastEnds DEF PeekFails, VerifyFails, Untouched
<1>3. CASE PeekSkips
  <2>1. /\ job' = NoJob /\ pc' = "save" /\ mem'.last = job.to
        /\ mem'.session = mem.session
    BY <1>3 DEF PeekSkips, Finish, TypeInv, ControlOK, Book
  <2>2. stopped' = None
    <3>1. stopped # job.to /\ stopped \in ETF \cup {None} /\ job.to \in ETF
      BY <1>1, JobFacts DEF LastInv, ETF, None, TypeInv, AccountOK
    <3>2. stopped \in {Other(job.to), None}
      BY <3>1 DEF ETF, Other
    <3> QED
      BY <1>3, <3>2 DEF PeekSkips
  <2> QED
    BY <1>1, <2>1, <2>2 DEF LastInv, NoJob
<1>4. CASE PeekGoesOn
  <2>1. stopped' = stopped
    BY <1>4 DEF PeekGoesOn, Untouched
  <2>2. CASE BeginBuy
    BY <1>1, <2>1, <2>2, LastBegins
  <2>3. CASE /\ job' = [job EXCEPT !.sym = Other(job.to), !.attempt = 1]
             /\ pc' = "sellRead"
             /\ UNCHANGED mem
    BY <1>1, <2>1, <2>3, LastGoesOn DEF GoesOn, TypeInv, ControlOK, Job
  <2> QED
    BY <1>4, <2>2, <2>3 DEF PeekGoesOn
<1>5. CASE VerifiedFlat
  BY <1>1, <1>5, LastBegins DEF VerifiedFlat, Untouched
<1> QED
  BY <1>2, <1>3, <1>4, <1>5 DEF Switch

\* The steps of execute_sell_all.
LEMMA SellLast ==
    ASSUME TypeInv, PhantomInv, LastInv, Sell
    PROVE  LastInv'
<1>1. UNCHANGED <<disk, day>> /\ pc \in Selling
  BY DEF Sell, SellQueryFails, SellFindsNothing, SellRead, SellBlocked, SellRefused,
         SellReplyLost, SellAccepted, SellUnconfirmed, SellConfirmed, Calm, market,
         Selling
<1>2. CASE SellRead
  BY <1>1, <1>2, LastGoesOn
     DEF SellRead, Untouched, GoesOn, TypeInv, ControlOK, Job
<1>3. CASE SellReplyLost \/ SellAccepted
  <2>1. pc = "sellSend" /\ (stopped' # None => mem.last = stopped')
    BY <1>3, TakeSellLast DEF SellReplyLost, SellAccepted
  <2>2. \/ GoesOn /\ pc' \in {"sellRead", "verify", "sellConfirm"}
        \/ Ends
    BY <1>1, <1>3, SellEnds DEF SellReplyLost, SellAccepted, GoesOn
  <2>3. Rolled(disk)' = Rolled(disk)
    BY <1>1 DEF Rolled, Holding
  <2> QED
    BY <1>1, <2>1, <2>2, <2>3 DEF LastInv, GoesOn, Ends, NoJob
<1>4. CASE \/ SellQueryFails \/ SellFindsNothing \/ SellBlocked \/ SellRefused
           \/ SellUnconfirmed \/ SellConfirmed
  <2>1. (SellAttemptFails \/ SellSucceeds) /\ stopped' = stopped
    BY <1>4 DEF SellQueryFails, SellFindsNothing, SellBlocked, SellRefused,
                SellUnconfirmed, SellConfirmed, Untouched
  <2> QED
    BY <1>1, <2>1, SellEnds, LastGoesOn, LastEnds DEF Selling
<1> QED
  BY <1>2, <1>3, <1>4 DEF Sell

\* The steps of execute_buy.
LEMMA BuyLast ==
    ASSUME TypeInv, LastInv, Buy
    PROVE  LastInv'
<1>1. UNCHANGED <<disk, day>> /\ pc \in Buying
  BY DEF Buy, BuyQueryFails, BuyFindsOther, BuyCheck, BuyRead, BuyBlocked,
         BuyRefused, BuyRaises, BuyReplyLost, BuyAccepted, BuyUnconfirmed,
         BuyConfirmed, Buying, Calm, market
<1>2. CASE BuyCheck \/ BuyRead
  BY <1>1, <1>2, LastGoesOn
     DEF BuyCheck, BuyRead, Untouched, GoesOn, TypeInv, ControlOK, Job
<1>3. CASE BuyFindsOther \/ BuyRaises
  BY <1>1, <1>3, FinishEnds, LastEnds DEF BuyFindsOther, BuyRaises, Untouched, Buying
<1>4. CASE BuyQueryFails \/ BuyBlocked \/ BuyRefused \/ BuyUnconfirmed
  <2>1. BuyAttemptFails /\ stopped' = stopped
    BY <1>4 DEF BuyQueryFails, BuyBlocked, BuyRefused, BuyUnconfirmed, Untouched
  <2> QED
    BY <1>1, <2>1, BuyEnds, LastGoesOn, LastEnds DEF Buying
<1>5. CASE BuyReplyLost \/ BuyAccepted
  <2>1. stopped' = None
    BY <1>5, TakeBuyLast DEF BuyReplyLost, BuyAccepted
  <2>2. (GoesOn /\ pc' \in {"buyCheck", "buyConfirm"}) \/ Ends
    BY <1>1, <1>5, BuyEnds DEF BuyReplyLost, BuyAccepted, GoesOn
  <2>3. Rolled(disk)' = Rolled(disk)
    BY <1>1 DEF Rolled, Holding
  <2> QED
    BY <1>1, <2>1, <2>2, <2>3 DEF LastInv, GoesOn, Ends, NoJob, Buying
<1>6. CASE BuyConfirmed
  <2>1. /\ job' = NoJob /\ pc' = "save" /\ stopped' = stopped /\ stopped = None
        /\ mem'.session = mem.session
    BY <1>6 DEF BuyConfirmed, Finish, LastInv, TypeInv, ControlOK, Book
  <2> QED
    BY <1>1, <2>1 DEF LastInv, NoJob, Buying
<1> QED
  BY <1>2, <1>3, <1>4, <1>5, <1>6 DEF Buy

\* Every step keeps the closed direction the last one.
LEMMA LastStep == TypeInv /\ PhantomInv /\ LastInv /\ [Next]_vars => LastInv'
<1> SUFFICES ASSUME TypeInv, PhantomInv, LastInv, [Next]_vars PROVE LastInv'
  OBVIOUS
<1>1. CASE UNCHANGED vars
  BY <1>1 DEF vars, LastInv, Rolled, Holding
<1>2. CASE Tick
  BY <1>2, TickLast
<1>3. CASE Switch
  BY <1>3, SwitchLast
<1>4. CASE Sell
  BY <1>4, SellLast
<1>5. CASE Buy
  BY <1>5, BuyLast
<1>6. CASE LedgerFails
  BY <1>6, FinishEnds, LastEnds DEF LedgerFails, Untouched, market
<1>7. CASE Save
  <2>1. /\ disk' = mem /\ day' = day /\ stopped' = stopped /\ pc' = "idle"
        /\ mem.session = day /\ job' = job /\ job.kind = "none"
    BY <1>7 DEF Save, Calm, market, Untouched, LastInv, TypeInv, ControlOK, JobInv
  <2>2. Rolled(disk)' = mem
    BY <2>1 DEF Rolled
  <2> QED
    BY <1>7, <2>1, <2>2 DEF Save, LastInv
<1>8. CASE Crash
  <2>1. UNCHANGED <<disk, day, stopped>> /\ pc' = "idle" /\ job' = NoJob
    BY <1>8 DEF Crash, market, Untouched
  <2>2. Rolled(disk)' = Rolled(disk)
    BY <2>1 DEF Rolled, Holding
  <2> QED
    BY <2>1, <2>2 DEF LastInv, NoJob
<1>9. CASE Fill \/ NewBar \/ Clock
  <2>1. UNCHANGED <<disk, mem, pc, job, day, stopped>>
    BY <1>9 DEF Fill, FillBuy, FillSell, NewBar, Clock, market
  <2>2. Rolled(disk)' = Rolled(disk)
    BY <2>1 DEF Rolled, Holding
  <2> QED
    BY <2>1, <2>2 DEF LastInv
<1>10. CASE NewDay
  BY <1>10 DEF NewDay, LastInv
<1>11. CASE RequestLiquidation
  <2>1. /\ disk'.sym = disk.sym /\ disk'.qty = disk.qty /\ disk'.last = disk.last
        /\ disk'.session = disk.session /\ disk' \in Book
        /\ UNCHANGED <<mem, pc, job, day, stopped>>
    BY <1>11 DEF RequestLiquidation, Calm, market, Untouched, TypeInv, RestOK, Book
  <2>2. Rolled(disk)'.last = Rolled(disk).last
    BY <2>1, RolledLast DEF TypeInv
  <2> QED
    BY <2>1, <2>2 DEF LastInv
<1> QED
  BY <1>1, <1>2, <1>3, <1>4, <1>5, <1>6, <1>7, <1>8, <1>9, <1>10, <1>11
     DEF Next, Worker, Market

\* Only a buy order the broker takes adds to what the account holds or has on
\* order, and only of the ETF the switch goes to.
LEMMA OnlyBuysAdd ==
    ASSUME TypeInv, Next, NEW s \in ETF, Exposure(s)' > Exposure(s)
    PROVE  pc = "buySend" /\ s = job.to /\ (BuyReplyLost \/ BuyAccepted)
<1>1. ASSUME UNCHANGED <<held, buying>> PROVE FALSE
  BY <1>1 DEF Exposure, TypeInv, AccountOK
<1>2. CASE Tick \/ Switch \/ LedgerFails \/ Save \/ Crash \/ Market \/ RequestLiquidation
  BY <1>1, <1>2
     DEF Tick, TickLiquidates, TickSwitches, TickExits, TickIdles, Switch, PeekFails,
         PeekSkips, PeekGoesOn, VerifyFails, VerifiedFlat, LedgerFails, Save, Crash,
         Market, NewBar, Clock, NewDay, RequestLiquidation, Untouched, account
<1>3. CASE Sell
  <2>1. CASE \/ SellQueryFails \/ SellFindsNothing \/ SellRead \/ SellBlocked
             \/ SellRefused \/ SellUnconfirmed \/ SellConfirmed
    BY <1>1, <2>1
       DEF SellQueryFails, SellFindsNothing, SellRead, SellBlocked, SellRefused,
           SellUnconfirmed, SellConfirmed, Untouched, account
  <2>2. CASE SellReplyLost \/ SellAccepted
    <3>1. TakeSell(job.sym, job.before)
      BY <2>2 DEF SellReplyLost, SellAccepted
    <3> QED
      BY <3>1, JobFacts DEF TakeSell, Exposure, TypeInv, AccountOK
  <2> QED
    BY <1>3, <2>1, <2>2 DEF Sell
<1>4. CASE Buy
  <2>1. CASE \/ BuyQueryFails \/ BuyFindsOther \/ BuyCheck \/ BuyRead \/ BuyBlocked
             \/ BuyRefused \/ BuyRaises \/ BuyUnconfirmed \/ BuyConfirmed
    BY <1>1, <2>1
       DEF BuyQueryFails, BuyFindsOther, BuyCheck, BuyRead, BuyBlocked, BuyRefused,
           BuyRaises, BuyUnconfirmed, BuyConfirmed, Untouched, account
  <2>2. CASE BuyReplyLost \/ BuyAccepted
    <3>1. TakeBuy(job.to, job.lot) /\ pc = "buySend"
      BY <2>2 DEF BuyReplyLost, BuyAccepted
    <3>2. s = job.to
      BY <3>1, JobFacts DEF TakeBuy, Exposure, TypeInv, AccountOK
    <3> QED
      BY <2>2, <3>1, <3>2
  <2> QED
    BY <1>4, <2>1, <2>2 DEF Buy
<1>5. CASE Fill
  BY <1>5 DEF Fill, FillBuy, FillSell, Exposure, TypeInv, AccountOK
<1> QED
  BY <1>2, <1>3, <1>4, <1>5 DEF Next, Worker

\* After a stop loss or a profit lock the same direction is not bought again
\* before the other one was: through crashes, lost replies, manual liquidations
\* and positions the state file shows and the account does not have, for every
\* number of attempts, bars and days, while orders fill when they are taken.
THEOREM NoReentry ==
    ASSUME LateFills = FALSE
    PROVE  Spec => NoReentryAfterExit
<1>1. Init => ExclusionInv /\ PhantomInv /\ LastInv
  BY DEF Init, ExclusionInv, NeverBothHeld, Exposure, PhantomInv, Phantom, Holding,
         LastInv, EmptyBook, NoJob, Buying
<1>2. TypeInv /\ ExclusionInv /\ [Next]_vars => ExclusionInv'
  BY ExclusionStep
<1>3. TypeInv /\ ExclusionInv /\ PhantomInv /\ [Next]_vars => PhantomInv'
  BY PhantomStep
<1>4. TypeInv /\ LastInv /\ [Next]_vars =>
          [\A s \in ETF : Exposure(s)' > Exposure(s) => stopped # s]_vars
  <2>1. SUFFICES ASSUME TypeInv, LastInv, Next, NEW s \in ETF,
                        Exposure(s)' > Exposure(s)
                 PROVE  stopped # s
    OBVIOUS
  <2>2. pc = "buySend" /\ s = job.to
    BY <2>1, OnlyBuysAdd
  <2>3. job.kind = "switch"
    BY <2>1, <2>2 DEF TypeInv, ControlOK, JobInv, Buying
  <2> QED
    BY <2>1, <2>2, <2>3 DEF LastInv, ETF, None
<1> QED
  BY <1>1, <1>2, <1>3, <1>4, TypeInvariant, LastStep, PTL
     DEF Spec, NoReentryAfterExit
-----------------------------------------------------------------------------
(* The strategy implements HynixBook. *)

\* A day that is recorded as done, on disk or in the tick about to write it,
\* leaves no operation running, nothing asked for and nothing on the account;
\* a liquidation runs after 15:00 only and knows what it has sold so far.
DayInv ==
    /\ day >= 1 /\ disk.done <= day /\ mem.done <= day
    /\ disk.done = day => /\ pc = "idle" /\ ~ disk.pending /\ disk.session = day
                          /\ phase = "closed" /\ Flat
    /\ mem.done = day => /\ pc = "save" /\ ~ mem.pending /\ phase = "closed" /\ Flat
    /\ disk.pending => phase = "closed"
    /\ pc # "idle" => mem.session = day /\ (mem.pending => phase = "closed")
    /\ job.kind = "liquidate" =>
           /\ phase = "closed"
           /\ job.sym = "INVERSE" /\ job.allOk => held["LONG"] = 0

\* While an operation is running the day is not done.
LEMMA NotDone ==
    ASSUME DayInv, pc \notin {"idle", "save"}
    PROVE  disk.done # day /\ mem.done # day /\ mem.session = day
BY DEF DayInv

\* An operation that goes on.
LEMMA DayGoesOn ==
    ASSUME DayInv, GoesOn, UNCHANGED <<disk, day, phase>>, pc \notin {"idle", "save"},
           job.kind = "liquidate" =>
               (job'.sym = "INVERSE" /\ job'.allOk => held'["LONG"] = 0)
    PROVE  DayInv'
BY NotDone DEF DayInv, GoesOn

\* An operation that is over without having recorded the day.
LEMMA DayEnds ==
    ASSUME DayInv, UNCHANGED <<disk, day, phase>>, pc \notin {"idle", "save"},
           job' = NoJob, mem'.done = mem.done, mem'.session = mem.session,
           mem'.pending => mem.pending \/ phase = "closed"
    PROVE  DayInv'
BY NotDone DEF DayInv, NoJob

\* The end of force_liquidate_all with every ETF sold.
LEMMA DayDone ==
    ASSUME TypeInv, ExclusionInv, DayInv, UNCHANGED <<disk, day, phase, held, buying>>,
           pc \in Selling, job.kind = "liquidate", job.sym # "LONG", job.allOk,
           held[job.sym] = 0, Liquidated(TRUE)
    PROVE  DayInv'
<1>1. job.sym = "INVERSE"
  BY JobFacts DEF ETF
<1>2. Flat
  BY <1>1 DEF DayInv, ExclusionInv, Flat, Exposure, ETF
<1>3. Flat'
  BY <1>2 DEF Flat, Exposure
<1>4. /\ job' = NoJob /\ pc' = "save" /\ ~ mem'.pending
      /\ mem'.session = mem.session /\ mem'.done = day
  BY DEF Liquidated, Finish, NoPosition, TypeInv, ControlOK, Book
<1>5. day <= day
  BY DEF TypeInv, RestOK
<1> QED
  BY <1>3, <1>4, <1>5, NotDone DEF DayInv, NoJob, Selling

\* Clearing a position or finishing with the state as it is says nothing about
\* the day.
LEMMA FinishDay ==
    ASSUME TypeInv, Finish(mem) \/ Finish(NoPosition(mem))
    PROVE  /\ job' = NoJob /\ mem'.done = mem.done /\ mem'.session = mem.session
           /\ mem'.pending = mem.pending
BY DEF Finish, NoPosition, TypeInv, ControlOK, Book

\* An attempt to sell that failed.
LEMMA SellFailsDay ==
    ASSUME TypeInv, DayInv, UNCHANGED <<disk, day, phase>>, pc \in Selling,
           SellAttemptFails
    PROVE  DayInv'
<1>0. pc \notin {"idle", "save"}
  BY DEF Selling
<1>1. CASE job.kind = "liquidate" /\ job.sym = "LONG"
  <2>1. GoesOn /\ job'.allOk = FALSE
    BY <1>1 DEF SellAttemptFails, NextOfLiquidation, GoesOn, TypeInv, ControlOK, Job
  <2> QED
    BY <1>0, <2>1, DayGoesOn
<1>2. CASE job.kind = "liquidate" /\ job.sym # "LONG"
  <2>1. /\ job' = NoJob /\ mem'.done = mem.done /\ mem'.session = mem.session
    BY <1>2 DEF SellAttemptFails, NextOfLiquidation, Liquidated, Finish, TypeInv,
                ControlOK, Book
  <2> QED
    BY <1>0, <1>2, <2>1, DayEnds DEF DayInv
<1>3. CASE job.kind # "liquidate" /\ job.attempt < MaxAttempts
  <2>1. GoesOn
    BY <1>3 DEF SellAttemptFails, GoesOn, TypeInv, ControlOK, Job
  <2> QED
    BY <1>0, <1>3, <2>1, DayGoesOn
<1>4. CASE job.kind # "liquidate" /\ ~ (job.attempt < MaxAttempts)
  BY <1>0, <1>4, FinishDay, DayEnds DEF SellAttemptFails
<1> QED
  BY <1>1, <1>2, <1>3, <1>4

\* An ETF that is sold, or was not held.
LEMMA SellSucceedsDay ==
    ASSUME TypeInv, ExclusionInv, DayInv, UNCHANGED <<disk, day, phase, held, buying>>,
           pc \in Selling, held[job.sym] = 0, SellSucceeds
    PROVE  DayInv'
<1>0. pc \notin {"idle", "save"}
  BY DEF Selling
<1>1. CASE job.kind = "liquidate" /\ job.sym = "LONG"
  <2>1. GoesOn
    BY <1>1 DEF SellSucceeds, NextOfLiquidation, GoesOn, TypeInv, ControlOK, Job
  <2> QED
    BY <1>0, <1>1, <2>1, DayGoesOn
<1>2. CASE job.kind = "liquidate" /\ job.sym # "LONG"
  <2>1. Liquidated(job.allOk) /\ job.allOk \in BOOLEAN
    BY <1>2 DEF SellSucceeds, NextOfLiquidation, TypeInv, ControlOK, Job
  <2>2. CASE job.allOk = TRUE
    BY <1>2, <2>1, <2>2, DayDone
  <2>3. CASE job.allOk = FALSE
    <3>1. job' = NoJob /\ mem'.done = mem.done /\ mem'.session = mem.session
      BY <2>1, <2>3 DEF Liquidated, Finish, TypeInv, ControlOK, Book
    <3> QED
      BY <1>0, <1>2, <3>1, DayEnds DEF DayInv
  <2> QED
    BY <2>1, <2>2, <2>3
<1>3. CASE job.kind = "exit"
  BY <1>0, <1>3, FinishDay, DayEnds DEF SellSucceeds
<1>4. CASE job.kind \notin {"liquidate", "exit"}
  BY <1>0, <1>4, DayGoesOn DEF SellSucceeds, GoesOn
<1> QED
  BY <1>1, <1>2, <1>3, <1>4

\* The beginning of a tick.
LEMMA TickDay ==
    ASSUME TypeInv, DayInv, Tick
    PROVE  DayInv'
<1>1. /\ Rolled(disk).session = day /\ Rolled(disk) \in Book
      /\ Rolled(disk).pending => disk.pending
      /\ Rolled(disk).done = day => disk.done = day
      /\ disk.done = day => Rolled(disk) = disk
      /\ Rolled(disk).done <= day
  BY RolledFacts, RolledType DEF TypeInv, RestOK, DayInv
<1>2. UNCHANGED <<day, phase, held, buying>>
  BY DEF Tick, TickLiquidates, TickSwitches, TickExits, TickIdles, Untouched, Calm,
         market, account
<1>3. CASE TickLiquidates
  <2>1. /\ mem'.done = Rolled(disk).done /\ mem'.session = day
        /\ disk' = disk /\ job'.kind = "liquidate" /\ job'.sym = "LONG" /\ pc' = "sellRead"
    BY <1>1, <1>3 DEF TickLiquidates, NoJob, Book
  <2>2. phase = "closed" /\ disk.done # day /\ Rolled(disk).done # day
    BY <1>1, <1>3 DEF TickLiquidates, MustLiquidate, DayInv
  <2>3. mem'.done <= day /\ mem'.done # day
    BY <1>1, <2>1, <2>2
  <2>4. /\ job'.kind = "liquidate" => job'.sym # "INVERSE"
        /\ pc' # "idle" /\ disk' = disk /\ mem'.session = day
    BY <2>1
  <2>5. disk'.done # day' /\ mem'.done # day' /\ phase' = "closed"
    BY <1>2, <2>2, <2>3, <2>4
  <2> QED
    BY <1>2, <2>3, <2>4, <2>5 DEF DayInv
<1>4. CASE TickSwitches \/ TickExits
  <2>1. /\ mem' = Rolled(disk) /\ disk' = disk /\ job'.kind # "liquidate"
        /\ phase # "closed"
    BY <1>4 DEF TickSwitches, TickExits, NewSignal, NoJob
  <2> QED
    BY <1>1, <1>2, <2>1 DEF DayInv
<1>5. CASE TickIdles
  <2>1. disk' = Rolled(disk) /\ UNCHANGED <<mem, pc, job>> /\ pc = "idle"
    BY <1>5 DEF TickIdles
  <2>2. Flat => Flat'
    BY <1>2 DEF Flat, Exposure
  <2> QED
    BY <1>1, <1>2, <2>1, <2>2 DEF DayInv
<1> QED
  BY <1>3, <1>4, <1>5 DEF Tick

\* The steps of switch_to_direction and execute_buy: they run before the day is
\* done and do not end it.
LEMMA SwitchBuyDay ==
    ASSUME TypeInv, DayInv, Switch \/ Buy
    PROVE  DayInv'
<1>1. UNCHANGED <<disk, day, phase>> /\ pc \in {"peek", "verify"} \cup Buying
  BY DEF Switch, PeekFails, PeekSkips, PeekGoesOn, VerifyFails, VerifiedFlat, Buy,
         BuyQueryFails, BuyFindsOther, BuyCheck, BuyRead, BuyBlocked, BuyRefused,
         BuyRaises, BuyReplyLost, BuyAccepted, BuyUnconfirmed, BuyConfirmed, Buying,
         Calm, market
<1>2. job.kind = "switch" /\ pc \notin {"idle", "save"}
  BY <1>1 DEF TypeInv, ControlOK, JobInv, Buying
<1>3. CASE BeginBuy
  BY <1>1, <1>2, <1>3, BuyBegins, NotDone DEF DayInv
<1>4. CASE GoesOn
  BY <1>1, <1>2, <1>4, DayGoesOn
<1>5. CASE Finish(mem)
  BY <1>1, <1>2, <1>5, FinishDay, DayEnds
<1>6. CASE PeekSkips \/ BuyConfirmed
  <2>1. /\ job' = NoJob /\ mem'.done = mem.done /\ mem'.session = mem.session
        /\ mem'.pending = mem.pending
    BY <1>6 DEF PeekSkips, BuyConfirmed, Finish, TypeInv, ControlOK, Book
  <2> QED
    BY <1>1, <1>2, <2>1, DayEnds
<1>7. CASE PeekFails \/ VerifyFails \/ BuyFindsOther \/ BuyRaises
  BY <1>5, <1>7 DEF PeekFails, VerifyFails, BuyFindsOther, BuyRaises
<1>8. CASE PeekGoesOn \/ VerifiedFlat
  BY <1>3, <1>4, <1>8 DEF PeekGoesOn, VerifiedFlat, GoesOn, TypeInv, ControlOK, Job
<1>9. CASE BuyCheck \/ BuyRead \/ BuyAccepted
  BY <1>4, <1>9 DEF BuyCheck, BuyRead, BuyAccepted, GoesOn, TypeInv, ControlOK, Job
<1>10. CASE BuyQueryFails \/ BuyBlocked \/ BuyRefused \/ BuyReplyLost \/ BuyUnconfirmed
  <2>1. BuyAttemptFails
    BY <1>10 DEF BuyQueryFails, BuyBlocked, BuyRefused, BuyReplyLost, BuyUnconfirmed
  <2> QED
    BY <1>4, <1>5, <2>1 DEF BuyAttemptFails, GoesOn, TypeInv, ControlOK, Job
<1> QED
  BY <1>6, <1>7, <1>8, <1>9, <1>10 DEF Switch, Buy

\* The steps of execute_sell_all.
LEMMA SellDay ==
    ASSUME LateFills = FALSE, TypeInv, ExclusionInv, DayInv, Sell
    PROVE  DayInv'
<1>1. UNCHANGED <<disk, day, phase>> /\ pc \in Selling
  BY DEF Sell, SellQueryFails, SellFindsNothing, SellRead, SellBlocked, SellRefused,
         SellReplyLost, SellAccepted, SellUnconfirmed, SellConfirmed, Calm, market,
         Selling
<1>2. CASE SellQueryFails \/ SellBlocked \/ SellRefused \/ SellReplyLost \/ SellUnconfirmed
  BY <1>1, <1>2, SellFailsDay
     DEF SellQueryFails, SellBlocked, SellRefused, SellReplyLost, SellUnconfirmed
<1>3. CASE SellFindsNothing \/ SellConfirmed
  BY <1>1, <1>3, SellSucceedsDay
     DEF SellFindsNothing, SellConfirmed, Untouched, account
<1>4. CASE SellRead
  <2>1. GoesOn /\ job'.sym = job.sym /\ job'.allOk = job.allOk /\ held' = held
    BY <1>4 DEF SellRead, GoesOn, Untouched, account, TypeInv, ControlOK, Job
  <2> QED
    BY <1>1, <2>1, DayGoesOn DEF DayInv, Selling
<1>5. CASE SellAccepted
  <2>1. GoesOn /\ job' = job /\ LessHeld
    BY <1>5, TakeSellLess DEF SellAccepted, GoesOn
  <2>2. held["LONG"] = 0 => held'["LONG"] = 0
    BY <2>1 DEF LessHeld, ETF, TypeInv, AccountOK
  <2> QED
    BY <1>1, <2>1, <2>2, DayGoesOn DEF DayInv, Selling
<1> QED
  BY <1>2, <1>3, <1>4, <1>5 DEF Sell

\* Liquidations are those of 15:00: one by hand is asked for later than that, and
\* none is left over for the next day.
LiquidatesAtClose ==
    /\ RequestLiquidation => phase = "closed"
    /\ NewDay => ~ disk.pending

\* Neither of the two is a stuttering step.
LEMMA DayMoves == ASSUME TypeInv, NewDay PROVE ~ UNCHANGED vars
BY DEF NewDay, vars, market, TypeInv, RestOK

LEMMA RequestMoves == ASSUME TypeInv, RequestLiquidation PROVE ~ UNCHANGED vars
BY DEF RequestLiquidation, vars, TypeInv, RestOK, Book

\* Every step of such days keeps the invariant.
LEMMA DayStep ==
    ASSUME LateFills = FALSE
    PROVE  TypeInv /\ ExclusionInv /\ DayInv /\ [Next]_vars /\ [LiquidatesAtClose]_vars
               => DayInv'
<1> SUFFICES ASSUME TypeInv, ExclusionInv, DayInv, [Next]_vars, [LiquidatesAtClose]_vars
             PROVE  DayInv'
  OBVIOUS
<1>0. 0 <= day /\ 0 # day
  BY DEF DayInv, TypeInv, RestOK
<1>1. CASE UNCHANGED vars
  BY <1>1 DEF vars, DayInv, Flat, Exposure
<1>2. CASE Tick
  BY <1>2, TickDay
<1>3. CASE Switch \/ Buy
  BY <1>3, SwitchBuyDay
<1>4. CASE Sell
  BY <1>4, SellDay
<1>5. CASE LedgerFails
  BY <1>5, FinishDay, DayEnds DEF LedgerFails, market
<1>6. CASE Save
  <2>1. /\ disk' = mem /\ mem' = EmptyBook /\ pc' = "idle" /\ job' = job /\ pc = "save"
        /\ UNCHANGED <<day, phase, held, buying>> /\ job.kind = "none"
        /\ mem'.done = 0 /\ ~ mem'.pending
    BY <1>6 DEF Save, Calm, market, Untouched, account, TypeInv, ControlOK, JobInv, EmptyBook
  <2>2. Flat => Flat'
    BY <2>1 DEF Flat, Exposure
  <2> QED
    BY <1>0, <2>1, <2>2 DEF DayInv
<1>7. CASE Crash
  <2>1. /\ mem'.done = 0 /\ ~ mem'.pending /\ pc' = "idle" /\ job' = NoJob
        /\ UNCHANGED <<disk, day, phase, held, buying>>
    BY <1>7 DEF Crash, market, Untouched, account, EmptyBook
  <2>2. Flat => Flat'
    BY <2>1 DEF Flat, Exposure
  <2> QED
    BY <1>0, <2>1, <2>2 DEF DayInv, NoJob
<1>8. CASE Fill
  <2>1. PICK s \in ETF : FillSell(s)
    BY <1>8 DEF Fill, FillBuy, ExclusionInv
  <2>2. held' = [held EXCEPT ![s] = @ - 1] /\ held' \in [ETF -> Nat]
    BY <2>1, FillAccount DEF FillSell, TypeInv, AccountOK
  <2>3. LessHeld /\ UNCHANGED <<buying, disk, mem, pc, job, day, phase>>
    BY <2>1, <2>2 DEF LessHeld, FillSell, market, TypeInv, AccountOK
  <2>4. (held["LONG"] = 0 => held'["LONG"] = 0) /\ (Flat => Flat')
    BY <2>3 DEF LessHeld, ETF, Flat, Exposure, TypeInv, AccountOK, ExclusionInv
  <2> QED
    BY <2>3, <2>4 DEF DayInv
<1>9. CASE NewBar \/ Clock
  <2>1. UNCHANGED <<disk, mem, pc, job, day, held, buying>> /\ phase # "closed"
    BY <1>9 DEF NewBar, Clock, account
  <2> QED
    BY <2>1 DEF DayInv
<1>10. CASE NewDay
  <2>1. /\ day' = day + 1 /\ phase' = "open" /\ pc = "idle"
        /\ UNCHANGED <<disk, mem, pc, job>>
    BY <1>10 DEF NewDay
  <2>2. ~ disk.pending
    BY <1>10, DayMoves DEF LiquidatesAtClose
  <2>3. day \in Nat /\ disk.done \in Int /\ mem.done \in Int /\ job.kind = "none"
    BY <2>1 DEF TypeInv, ControlOK, RestOK, JobInv, Book
  <2> QED
    BY <2>1, <2>2, <2>3 DEF DayInv
<1>11. CASE RequestLiquidation
  <2>1. /\ UNCHANGED <<mem, pc, job, day, phase, held, buying>> /\ disk.done = 0
        /\ disk'.done = 0 /\ disk'.session = disk.session
    BY <1>11 DEF RequestLiquidation, Untouched, account, Calm, market, TypeInv, RestOK, Book
  <2>2. phase = "closed"
    BY <1>11, RequestMoves DEF LiquidatesAtClose
  <2>3. Flat => Flat'
    BY <2>1 DEF Flat, Exposure
  <2> QED
    BY <2>1, <2>2, <2>3 DEF DayInv
<1> QED
  BY <1>1, <1>2, <1>3, <1>4, <1>5, <1>6, <1>7, <1>8, <1>9, <1>10, <1>11
     DEF Next, Worker, Market

\* What the mapped book is while orders fill at once.
LEMMA BookValue ==
    ASSUME TypeInv, ExclusionInv
    PROVE  /\ BookOf \in ETF \cup {"flat"}
           /\ BookOf = "flat" <=> \A s \in ETF : held[s] = 0
           /\ \A s \in ETF : BookOf = s <=> held[s] > 0
BY DEF BookOf, Exposure, ExclusionInv, NeverBothHeld, Other, ETF, TypeInv, AccountOK

\* The day is shut where the state file records it as done.
LEMMA ShutIsDone ==
    ASSUME DayInv, DayInv', day' = day, disk'.done = disk.done
    PROVE  DayIsShut' = DayIsShut
<1>1. DayIsShut <=> disk.done = day
  BY DEF DayIsShut, DayInv
<1>2. DayIsShut' <=> disk'.done = day'
  BY DEF DayIsShut, DayInv
<1>3. DayIsShut \in BOOLEAN /\ DayIsShut' \in BOOLEAN
  BY DEF DayIsShut
<1> QED
  BY <1>1, <1>2, <1>3

\* A sale is a step to flat, or no step of the book.
LEMMA SaleRefines ==
    ASSUME TypeInv, TypeInv', ExclusionInv, ExclusionInv', LessHeld,
           DayIsShut' = DayIsShut
    PROVE  [Account!Next]_<<BookOf, DayIsShut>>
<1>1. BookOf' = BookOf \/ (BookOf' = "flat" /\ BookOf # "flat")
  <2>1. ASSUME NEW s \in ETF, BookOf' = s PROVE BookOf = s
    <3>1. Exposure(s)' > 0
      BY <2>1 DEF BookOf, ETF
    <3>2. held'[s] > 0
      BY <3>1 DEF Exposure, ExclusionInv, TypeInv, AccountOK
    <3>3. held[s] > 0
      BY <3>2 DEF LessHeld, TypeInv, AccountOK
    <3> QED
      BY <3>3, BookValue
  <2>2. BookOf' \in ETF \cup {"flat"}
    BY DEF BookOf, ETF
  <2> QED
    BY <2>1, <2>2
<1>2. CASE BookOf' = BookOf
  BY <1>2
<1>3. CASE BookOf' = "flat" /\ BookOf # "flat"
  BY <1>3 DEF Account!Next, Account!Leave
<1> QED
  BY <1>1, <1>2, <1>3

\* A purchase is a step from flat to the ETF of the switch, or adds to it.
LEMMA PurchaseRefines ==
    ASSUME LateFills = FALSE, TypeInv, ExclusionInv, DayInv, pc = "buySend",
           TakeBuy(job.to, job.lot), DayIsShut' = DayIsShut
    PROVE  [Account!Next]_<<BookOf, DayIsShut>>
<1>1. /\ buying' = buying /\ held' = [held EXCEPT ![job.to] = @ + job.lot]
      /\ job.to \in ETF /\ job.lot \in Nat /\ held[Other(job.to)] = 0
  BY JobFacts DEF TakeBuy, ExclusionInv
<1>2. BookOf \in {job.to, "flat"}
  BY <1>1, BookValue DEF ETF, Other
<1>3. BookOf' \in {job.to, "flat"} /\ (BookOf = job.to => BookOf' = job.to)
  BY <1>1, BookValue
     DEF BookOf, Exposure, ExclusionInv, ETF, Other, TypeInv, AccountOK
<1>4. ~ DayIsShut
  BY NotDone DEF DayIsShut
<1> QED
  BY <1>1, <1>2, <1>3, <1>4 DEF Account!Next, Account!Enter

\* A step that touches neither the account nor the record of the day is no step
\* of the book.
LEMMA QuietRefines ==
    ASSUME UNCHANGED <<held, buying>>, DayIsShut' = DayIsShut
    PROVE  [Account!Next]_<<BookOf, DayIsShut>>
<1>1. BookOf' = BookOf
  BY DEF BookOf, Exposure
<1> QED
  BY <1>1

\* The end of a tick records the day as done, if it does, on a flat account.
LEMMA SaveRefines ==
    ASSUME DayInv, DayInv', Save
    PROVE  [Account!Next]_<<BookOf, DayIsShut>>
<1>1. /\ UNCHANGED <<held, buying, day, phase>> /\ disk' = mem /\ pc = "save"
      /\ BookOf' = BookOf
  BY DEF Save, Untouched, account, Calm, market, BookOf, Exposure
<1>2. disk.done # day /\ ~ DayIsShut
  BY <1>1 DEF DayInv, DayIsShut
<1>3. CASE mem.done = day
  <2>1. BookOf = "flat" /\ DayIsShut'
    BY <1>1, <1>3 DEF DayInv, DayIsShut, BookOf, Flat, ETF
  <2>2. DayIsShut = FALSE /\ DayIsShut' = TRUE
    BY <1>2, <2>1 DEF DayIsShut
  <2> QED
    BY <1>1, <2>1, <2>2 DEF Account!Next, Account!Shut
<1>4. CASE mem.done # day
  <2>1. DayIsShut = FALSE /\ DayIsShut' = FALSE
    BY <1>1, <1>2, <1>4 DEF DayIsShut
  <2> QED
    BY <1>1, <2>1
<1> QED
  BY <1>3, <1>4

\* Every step of the order path is a step of HynixBook or none.
LEMMA StepRefines ==
    ASSUME LateFills = FALSE, TypeInv, TypeInv', ExclusionInv, ExclusionInv',
           DayInv, DayInv', [Next]_vars
    PROVE  [Account!Next]_<<BookOf, DayIsShut>>
<1> DEFINE Same == day' = day /\ disk'.done = disk.done
<1>1. CASE UNCHANGED vars
  BY <1>1, QuietRefines, ShutIsDone DEF vars
<1>2. CASE Tick
  <2>1. UNCHANGED <<held, buying>> /\ day' = day
    BY <1>2 DEF Tick, TickLiquidates, TickSwitches, TickExits, TickIdles, Untouched,
                Calm, market, account
  <2>2. CASE TickIdles
    <3>1. disk' = Rolled(disk)
      BY <2>2 DEF TickIdles
    <3>2. disk.done = day => disk'.done = day
      BY <3>1, RolledFacts DEF DayInv, TypeInv
    <3>3. disk'.done = day => disk.done = day
      BY <3>1, RolledFacts DEF DayInv, TypeInv
    <3>4. DayIsShut' = DayIsShut
      BY <2>1, <3>2, <3>3 DEF DayIsShut, DayInv
    <3> QED
      BY <2>1, <3>4, QuietRefines
  <2>3. CASE TickLiquidates \/ TickSwitches \/ TickExits
    BY <2>1, <2>3, QuietRefines, ShutIsDone DEF TickLiquidates, TickSwitches, TickExits
  <2> QED
    BY <1>2, <2>2, <2>3 DEF Tick
<1>3. CASE Switch \/ LedgerFails \/ Crash \/ NewBar \/ Clock
  <2>1. UNCHANGED <<held, buying>> /\ Same
    BY <1>3 DEF Switch, PeekFails, PeekSkips, PeekGoesOn, VerifyFails, VerifiedFlat,
                LedgerFails, Crash, NewBar, Clock, Untouched, Calm, market, account
  <2> QED
    BY <2>1, QuietRefines, ShutIsDone
<1>4. CASE Sell
  <2>1. Same
    BY <1>4 DEF Sell, SellQueryFails, SellFindsNothing, SellRead, SellBlocked,
                SellRefused, SellReplyLost, SellAccepted, SellUnconfirmed,
                SellConfirmed, Calm, market
  <2>2. CASE SellReplyLost \/ SellAccepted
    BY <2>1, <2>2, TakeSellLess, SaleRefines, ShutIsDone
       DEF SellReplyLost, SellAccepted
  <2>3. CASE \/ SellQueryFails \/ SellFindsNothing \/ SellRead \/ SellBlocked
             \/ SellRefused \/ SellUnconfirmed \/ SellConfirmed
    BY <2>1, <2>3, QuietRefines, ShutIsDone
       DEF SellQueryFails, SellFindsNothing, SellRead, SellBlocked, SellRefused,
           SellUnconfirmed, SellConfirmed, Untouched, account
  <2> QED
    BY <1>4, <2>2, <2>3 DEF Sell
<1>5. CASE Buy
  <2>1. Same
    BY <1>5 DEF Buy, BuyQueryFails, BuyFindsOther, BuyCheck, BuyRead, BuyBlocked,
                BuyRefused, BuyRaises, BuyReplyLost, BuyAccepted, BuyUnconfirmed,
                BuyConfirmed, Calm, market
  <2>2. CASE BuyReplyLost \/ BuyAccepted
    BY <2>1, <2>2, PurchaseRefines, ShutIsDone DEF BuyReplyLost, BuyAccepted
  <2>3. CASE \/ BuyQueryFails \/ BuyFindsOther \/ BuyCheck \/ BuyRead \/ BuyBlocked
             \/ BuyRefused \/ BuyRaises \/ BuyUnconfirmed \/ BuyConfirmed
    BY <2>1, <2>3, QuietRefines, ShutIsDone
       DEF BuyQueryFails, BuyFindsOther, BuyCheck, BuyRead, BuyBlocked, BuyRefused,
           BuyRaises, BuyUnconfirmed, BuyConfirmed, Untouched, account
  <2> QED
    BY <1>5, <2>2, <2>3 DEF Buy
<1>6. CASE Save
  BY <1>6, SaveRefines
<1>7. CASE Fill
  <2>1. PICK s \in ETF : FillSell(s)
    BY <1>7 DEF Fill, FillBuy, ExclusionInv
  <2>2. held' = [held EXCEPT ![s] = @ - 1] /\ held' \in [ETF -> Nat]
    BY <2>1, FillAccount DEF FillSell, TypeInv, AccountOK
  <2>3. LessHeld /\ Same
    BY <2>1, <2>2 DEF LessHeld, FillSell, market, TypeInv, AccountOK
  <2> QED
    BY <2>3, SaleRefines, ShutIsDone
<1>8. CASE NewDay
  <2>1. UNCHANGED <<held, buying>> /\ DayIsShut' = FALSE
    BY <1>8 DEF NewDay, account, DayIsShut
  <2>2. BookOf' = BookOf
    BY <2>1 DEF BookOf, Exposure
  <2>3. DayIsShut \in BOOLEAN
    BY DEF DayIsShut
  <2> QED
    BY <2>1, <2>2, <2>3 DEF Account!Next, Account!Open
<1>9. CASE RequestLiquidation
  <2>1. UNCHANGED <<held, buying>> /\ Same
    BY <1>9 DEF RequestLiquidation, Untouched, Calm, market, account, TypeInv,
                RestOK, Book
  <2> QED
    BY <2>1, QuietRefines, ShutIsDone
<1> QED
  BY <1>1, <1>2, <1>3, <1>4, <1>5, <1>6, <1>7, <1>8, <1>9 DEF Next, Worker, Market

\* While orders fill when they are taken and liquidations are those of 15:00, the
\* strategy implements HynixBook: whatever is refused, lost, retried or forgotten
\* in a crash, it changes ETF only by way of a flat account, records the day as
\* done only on a flat account and buys nothing before the next one.  Without
\* LiquidatesAtClose it does not: the done date of a liquidation that was asked for
\* in the morning, or was left over from yesterday, stands for the one of 15:00.
THEOREM Refinement ==
    ASSUME LateFills = FALSE
    PROVE  Spec /\ [][LiquidatesAtClose]_vars => ImplementsBook
<1>1. Init => ExclusionInv /\ DayInv
  BY DEF Init, ExclusionInv, NeverBothHeld, Exposure, DayInv, EmptyBook, NoJob
<1>2. Init => Account!Init
  <2>1. ASSUME Init PROVE BookOf = "flat" /\ DayIsShut = FALSE
    BY <2>1 DEF Init, BookOf, DayIsShut, Exposure, ETF
  <2> QED
    BY <2>1 DEF Account!Init
<1>3. TypeInv /\ ExclusionInv /\ [Next]_vars => ExclusionInv'
  BY ExclusionStep
<1>4. TypeInv /\ ExclusionInv /\ DayInv /\ [Next]_vars /\ [LiquidatesAtClose]_vars
          => DayInv'
  BY DayStep
<1>5. /\ TypeInv /\ ExclusionInv /\ DayInv
      /\ TypeInv' /\ ExclusionInv' /\ DayInv' /\ [Next]_vars
      => [Account!Next]_<<BookOf, DayIsShut>>
  BY StepRefines
<1> QED
  BY <1>1, <1>2, <1>3, <1>4, <1>5, TypeInvariant, PTL
     DEF Spec, ImplementsBook, Account!Spec
-----------------------------------------------------------------------------
(* What an order without an answer costs.                                   *)

\* A purchase that the broker may have taken and the code does not know of.
PurchaseUnknown == BuyUnconfirmed \/ BuyReplyLost

\* From the check of the account on until the order is sent, a switch goes to an
\* ETF of which nothing is held.
FreshInv == job.kind = "switch" /\ pc \notin {"peek", "buyConfirm"} => held[job.to] = 0

\* With prompt fills, every step that is not a purchase leaves no ETF with more
\* shares.
LEMMA OthersLess ==
    ASSUME LateFills = FALSE, TypeInv, ExclusionInv, [Next]_vars,
           ~ (BuyReplyLost \/ BuyAccepted)
    PROVE  LessHeld
<1>1. TypeInv' /\ ExclusionInv'
  BY TypeStep, ExclusionStep
<1>2. CASE UNCHANGED vars
  BY <1>2, UntouchedLess DEF vars, account
<1>3. CASE Next
  <2>1. \A s \in ETF : ~ (Exposure(s)' > Exposure(s))
    BY <1>3, OnlyBuysAdd
  <2>2. \A s \in ETF : /\ Exposure(s) = held[s] /\ Exposure(s)' = held'[s]
                       /\ held[s] \in Nat /\ held'[s] \in Nat
    BY <1>1 DEF TypeInv, AccountOK, ExclusionInv, Exposure
  <2>3. held' \in [ETF -> Nat]
    BY <1>1 DEF TypeInv, AccountOK
  <2> QED
    BY <2>1, <2>2, <2>3 DEF LessHeld
<1> QED
  BY <1>2, <1>3

\* A switch that goes on, while the account only loses shares.
LEMMA FreshKeeps ==
    ASSUME TypeInv, FreshInv, LessHeld,
           job'.kind = "switch" =>
               /\ job.kind = "switch" /\ job'.to = job.to
               /\ pc \notin {"peek", "buyConfirm"}
    PROVE  FreshInv'
<1> SUFFICES ASSUME job'.kind = "switch" PROVE held'[job'.to] = 0
  BY DEF FreshInv
<1>1. job.to \in ETF /\ held[job.to] = 0 /\ job'.to = job.to
  BY JobFacts DEF FreshInv
<1> QED
  BY <1>1 DEF LessHeld

\* Every step keeps it but an order without an answer: the attempt that follows
\* that one would meet the shares it bought.
LEMMA FreshStep ==
    ASSUME LateFills = FALSE
    PROVE  TypeInv /\ ExclusionInv /\ FreshInv /\ [Next]_vars /\ [~ PurchaseUnknown]_vars
               => FreshInv'
<1> SUFFICES ASSUME TypeInv, ExclusionInv, FreshInv, Next, ~ PurchaseUnknown
             PROVE  FreshInv'
  BY DEF vars, account, FreshInv
<1>1. ASSUME ~ BuyAccepted PROVE LessHeld
  BY <1>1, OthersLess DEF PurchaseUnknown
<1>2. pc \in {"idle", "save"} => job.kind = "none"
  BY DEF TypeInv, ControlOK, JobInv
<1>3. ASSUME GoesOn, ~ BuyAccepted, pc \notin {"peek", "buyConfirm"} PROVE FreshInv'
  BY <1>1, <1>3, FreshKeeps DEF GoesOn
<1>4. ASSUME job'.kind # "switch" PROVE FreshInv'
  BY <1>4 DEF FreshInv
<1>5. (\A b : Finish(b) => job'.kind # "switch") /\ (Ends => job'.kind # "switch")
  BY DEF Finish, Ends, NoJob
<1>6. CASE Tick
  <2>1. CASE TickSwitches
    BY <2>1 DEF TickSwitches, FreshInv
  <2>2. CASE TickLiquidates \/ TickExits \/ TickIdles
    BY <1>2, <1>4, <2>2 DEF TickLiquidates, TickExits, TickIdles, NoJob
  <2> QED
    BY <1>6, <2>1, <2>2 DEF Tick
<1>7. CASE Switch
  <2>1. CASE PeekFails \/ PeekSkips \/ VerifyFails
    BY <1>4, <1>5, <2>1 DEF PeekFails, PeekSkips, VerifyFails
  <2>2. CASE PeekGoesOn
    <3>1. job.to \in ETF /\ job'.to = job.to /\ held' = held
      BY <2>2, JobFacts, BuyBegins
         DEF PeekGoesOn, Untouched, account, TypeInv, ControlOK, Job
    <3>2. held[job.to] = 0
      BY <2>2, <3>1, BookFacts
         DEF PeekGoesOn, AlreadyThere, ExclusionInv, NeverBothHeld, Exposure,
             TypeInv, AccountOK
    <3> QED
      BY <3>1, <3>2 DEF FreshInv
  <2>3. CASE VerifiedFlat
    BY <1>1, <2>3, BuyBegins, FreshKeeps DEF VerifiedFlat, BuyAccepted
  <2> QED
    BY <1>7, <2>1, <2>2, <2>3 DEF Switch
<1>8. CASE Sell
  <2>1. pc \in Selling /\ pc \notin {"peek", "buyConfirm"} /\ ~ BuyAccepted
    BY <1>8 DEF Sell, SellQueryFails, SellFindsNothing, SellRead, SellBlocked,
                SellRefused, SellReplyLost, SellAccepted, SellUnconfirmed,
                SellConfirmed, Selling, BuyAccepted
  <2>2. CASE SellRead \/ SellAccepted
    BY <1>1, <2>1, <2>2, FreshKeeps
       DEF SellRead, SellAccepted, TypeInv, ControlOK, Job
  <2>3. CASE \/ SellQueryFails \/ SellFindsNothing \/ SellBlocked \/ SellRefused
             \/ SellReplyLost \/ SellUnconfirmed \/ SellConfirmed
    <3>1. SellAttemptFails \/ SellSucceeds
      BY <2>3 DEF SellQueryFails, SellFindsNothing, SellBlocked, SellRefused,
                  SellReplyLost, SellUnconfirmed, SellConfirmed
    <3> QED
      BY <1>3, <1>4, <1>5, <2>1, <3>1, SellEnds
  <2> QED
    BY <1>8, <2>2, <2>3 DEF Sell
<1>9. CASE Buy
  <2>1. CASE BuyAccepted
    BY <2>1 DEF BuyAccepted, FreshInv
  <2>2. CASE BuyCheck \/ BuyRead
    BY <1>1, <2>2, FreshKeeps DEF BuyCheck, BuyRead, BuyAccepted, TypeInv, ControlOK, Job
  <2>3. CASE BuyFindsOther \/ BuyRaises \/ BuyConfirmed
    BY <1>4, <1>5, <2>3 DEF BuyFindsOther, BuyRaises, BuyConfirmed
  <2>4. CASE BuyQueryFails \/ BuyBlocked \/ BuyRefused
    <3>1. pc \in Buying /\ pc # "buyConfirm" /\ pc # "peek" /\ BuyAttemptFails
      BY <2>4 DEF BuyQueryFails, BuyBlocked, BuyRefused, Buying
    <3>2. ~ BuyAccepted
      BY <3>1, AttemptEnds DEF BuyAccepted, Order
    <3> QED
      BY <1>3, <1>4, <1>5, <3>1, <3>2, BuyEnds
  <2> QED
    BY <1>9, <2>1, <2>2, <2>3, <2>4 DEF Buy, PurchaseUnknown
<1>10. CASE LedgerFails \/ Save \/ Crash
  BY <1>2, <1>4, <1>5, <1>10 DEF LedgerFails, Save, Crash, NoJob
<1>11. CASE Fill \/ Market \/ RequestLiquidation
  <2>1. job' = job /\ pc' = pc
    BY <1>11 DEF Fill, FillBuy, FillSell, Market, NewBar, Clock, NewDay,
                 RequestLiquidation
  <2>2. CASE BuyAccepted
    BY <2>2 DEF BuyAccepted, FreshInv
  <2>3. CASE ~ BuyAccepted /\ pc \notin {"peek", "buyConfirm"}
    BY <1>1, <2>1, <2>3, FreshKeeps
  <2> QED
    BY <2>1, <2>2, <2>3 DEF FreshInv
<1> QED
  BY <1>6, <1>7, <1>8, <1>9, <1>10, <1>11 DEF Next, Worker

\* "Same flag held -> 0 duplicate orders" fails for one reason only: an ETF that
\* is held is bought again only after a purchase whose reply was lost or whose
\* fill could not be confirmed.  Refusals, failed queries, crashes, manual
\* liquidations and failed rows of the ledger do not duplicate a purchase.
THEOREM DuplicatesAreUnknown ==
    ASSUME LateFills = FALSE
    PROVE  Spec /\ [][~ PurchaseUnknown]_vars => NoAddWhileHeld
<1>1. Init => ExclusionInv /\ FreshInv
  BY DEF Init, ExclusionInv, NeverBothHeld, Exposure, FreshInv, NoJob
<1>2. TypeInv /\ ExclusionInv /\ [Next]_vars => ExclusionInv'
  BY ExclusionStep
<1>3. TypeInv /\ ExclusionInv /\ FreshInv /\ [Next]_vars /\ [~ PurchaseUnknown]_vars
          => FreshInv'
  BY FreshStep
<1>4. TypeInv /\ ExclusionInv /\ FreshInv /\ [Next]_vars =>
          [\A s \in ETF : Exposure(s)' > Exposure(s) => Exposure(s) = 0]_vars
  <2>1. SUFFICES ASSUME TypeInv, ExclusionInv, FreshInv, Next, NEW s \in ETF,
                        Exposure(s)' > Exposure(s)
                 PROVE  Exposure(s) = 0
    OBVIOUS
  <2>2. pc = "buySend" /\ s = job.to
    BY <2>1, OnlyBuysAdd
  <2>3. job.kind = "switch"
    BY <2>1, <2>2 DEF TypeInv, ControlOK, JobInv, Buying
  <2> QED
    BY <2>1, <2>2, <2>3 DEF FreshInv, ExclusionInv, Exposure
<1> QED
  BY <1>1, <1>2, <1>3, <1>4, TypeInvariant, PTL DEF Spec, NoAddWhileHeld

\* A purchase whose outcome is not recorded: it is not known, its row of the
\* ledger cannot be written, or the process dies before the tick's save.
PurchaseForgotten == PurchaseUnknown \/ LedgerFails \/ Crash

\* What is held is a position of the book b.
Shows(b) == \A s \in ETF : held[s] > 0 => Holding(b) /\ b.sym = s

\* Between ticks the state file shows what is held, during a tick its copy does;
\* a liquidation that has sold everything so far has sold the first ETF.
ShownInv ==
    /\ pc = "idle" => Shows(disk)
    /\ pc \notin {"idle", "buyConfirm"} => Shows(mem)
    /\ job.kind = "liquidate" /\ job.sym = "INVERSE" /\ job.allOk => held["LONG"] = 0

\* A book with the same position shows what is left.
LEMMA ShowsStill ==
    ASSUME TypeInv, LessHeld, NEW b \in Book, NEW c, c.sym = b.sym, c.qty = b.qty, Shows(b)
    PROVE  Shows(c)'
BY DEF Shows, LessHeld, Holding, TypeInv, AccountOK

\* A step of a tick that keeps the copy's position and does not turn a
\* liquidation to its second ETF.
LEMMA ShownKeeps ==
    ASSUME TypeInv, ShownInv, LessHeld, pc \notin {"idle", "buyConfirm"}, pc' # "idle",
           mem'.sym = mem.sym, mem'.qty = mem.qty,
           job'.kind = "liquidate" => /\ job.kind = "liquidate"
                                      /\ job'.sym = job.sym /\ job'.allOk = job.allOk
    PROVE  ShownInv'
<1>1. Shows(mem)'
  BY ShowsStill DEF ShownInv, TypeInv, ControlOK, Shows, Holding, LessHeld, AccountOK
<1>2. "LONG" \in ETF
  BY DEF ETF
<1> QED
  BY <1>1, <1>2 DEF ShownInv, LessHeld, TypeInv, AccountOK

\* The end of a sale.
LEMMA SellShown ==
    ASSUME TypeInv, ExclusionInv, PhantomInv, ShownInv, LessHeld, pc \in Selling,
           SellAttemptFails \/ (SellSucceeds /\ held[job.sym] = 0)
    PROVE  ShownInv'
<1> USE DEF TypeInv, ControlOK
<1>1. pc \notin {"idle", "buyConfirm"}
  BY DEF Selling
<1>2. ASSUME Finish(mem) PROVE ShownInv'
  BY <1>1, <1>2, ShownKeeps DEF Finish, NoJob
<1>3. ASSUME NEW ok \in BOOLEAN, NextOfLiquidation(ok), job.kind = "liquidate",
             ok => held[job.sym] = 0 /\ job.allOk
      PROVE  ShownInv'
  <2>1. CASE job.sym = "LONG"
    <3>1. /\ job' = [job EXCEPT !.sym = "INVERSE", !.allOk = ok] /\ pc' = "sellRead"
          /\ mem' = mem
      BY <1>3, <2>1 DEF NextOfLiquidation
    <3>2. Shows(mem)'
      BY <1>1, <3>1, ShowsStill DEF ShownInv
    <3>3. job'.allOk => held'["LONG"] = 0
      BY <1>3, <2>1, <3>1 DEF LessHeld, AccountOK, Job, ETF
    <3> QED
      BY <3>1, <3>2, <3>3 DEF ShownInv
  <2>2. CASE job.sym # "LONG" /\ ok
    <3>1. \A s \in ETF : held[s] = 0
      BY <1>3, <2>2 DEF ShownInv, Job, ETF
    <3>2. \A s \in ETF : ~ (held'[s] > 0)
      BY <3>1 DEF LessHeld
    <3> QED
      BY <1>3, <2>2, <3>2 DEF NextOfLiquidation, Liquidated, Finish, ShownInv, Shows, NoJob
  <2>3. CASE job.sym # "LONG" /\ ~ ok
    BY <1>1, <1>3, <2>3, ShownKeeps
       DEF NextOfLiquidation, Liquidated, Finish, NoJob, Book
  <2> QED
    BY <2>1, <2>2, <2>3
<1>4. CASE SellAttemptFails
  <2>1. CASE job.kind = "liquidate"
    BY <1>3, <1>4, <2>1 DEF SellAttemptFails
  <2>2. CASE job.kind # "liquidate" /\ job.attempt < MaxAttempts
    BY <1>1, <1>4, <2>2, ShownKeeps DEF SellAttemptFails, Job
  <2>3. CASE job.kind # "liquidate" /\ ~ (job.attempt < MaxAttempts)
    BY <1>2, <1>4, <2>3 DEF SellAttemptFails
  <2> QED
    BY <2>1, <2>2, <2>3
<1>5. CASE SellSucceeds /\ held[job.sym] = 0
  <2>1. CASE job.kind = "liquidate"
    BY <1>3, <1>5, <2>1 DEF SellSucceeds, Job
  <2>2. CASE job.kind = "exit"
    <3>1. job' = NoJob /\ pc' = "save"
      BY <1>5, <2>2 DEF SellSucceeds, Finish
    <3>2. \A s \in ETF : ~ (held[s] > 0)
      BY <1>1, <1>5, <2>2 DEF PhantomInv, ShownInv, Shows
    <3>3. Shows(mem)'
      BY <3>2 DEF Shows, LessHeld, AccountOK
    <3> QED
      BY <3>1, <3>3 DEF ShownInv, NoJob
  <2>3. CASE job.kind = "switch"
    BY <1>1, <1>5, <2>3, ShownKeeps DEF SellSucceeds
  <2> QED
    BY <2>1, <2>2, <2>3 DEF JobInv
<1> QED
  BY <1>4, <1>5

\* A switch sells the other ETF before it verifies that one and buys its own.
OtherInv ==
    job.kind = "switch" /\ pc \in Selling \cup {"verify"} => job.sym = Other(job.to)

\* Every step keeps it.
LEMMA OtherStep == TypeInv /\ OtherInv /\ [Next]_vars => OtherInv'
<1> SUFFICES ASSUME TypeInv, OtherInv, [Next]_vars PROVE OtherInv'
  OBVIOUS
<1>1. job \in Job /\ JobInv
  BY DEF TypeInv, ControlOK
<1>2. \A b : Finish(b) => job'.kind # "switch"
  BY DEF Finish, NoJob
<1>3. ASSUME pc' \notin Selling \cup {"verify"} PROVE OtherInv'
  BY <1>3 DEF OtherInv
<1>4. CASE UNCHANGED vars
  BY <1>4 DEF vars, OtherInv
<1>5. CASE Tick
  <2>1. CASE TickSwitches
    BY <2>1 DEF TickSwitches, OtherInv, Selling
  <2>2. CASE TickLiquidates \/ TickExits \/ TickIdles
    BY <1>1, <2>2 DEF TickLiquidates, TickExits, TickIdles, NoJob, OtherInv, JobInv
  <2> QED
    BY <1>5, <2>1, <2>2 DEF Tick
<1>6. CASE Switch
  <2>1. BeginBuy => OtherInv'
    BY DEF BeginBuy, OtherInv, Selling
  <2>2. PeekGoesOn => OtherInv'
    BY <1>1, <2>1 DEF PeekGoesOn, OtherInv, Job
  <2> QED
    BY <1>2, <1>6, <2>1, <2>2
       DEF Switch, PeekFails, PeekSkips, VerifyFails, VerifiedFlat, OtherInv
<1>7. CASE Sell
  <2>1. pc \in Selling
    BY <1>7 DEF Sell, SellQueryFails, SellFindsNothing, SellRead, SellBlocked,
                SellRefused, SellReplyLost, SellAccepted, SellUnconfirmed,
                SellConfirmed, Selling
  <2>2. SellAttemptFails \/ SellSucceeds => OtherInv'
    BY <1>1, <1>2, <2>1
       DEF SellAttemptFails, SellSucceeds, NextOfLiquidation, Liquidated, OtherInv, Job
  <2>3. SellRead \/ SellAccepted => OtherInv'
    BY <1>1, <2>1 DEF SellRead, SellAccepted, OtherInv, Job
  <2> QED
    BY <1>7, <2>2, <2>3
       DEF Sell, SellQueryFails, SellFindsNothing, SellBlocked, SellRefused,
           SellReplyLost, SellUnconfirmed, SellConfirmed
<1>8. CASE Buy
  <2>1. BuyAttemptFails => OtherInv'
    BY <1>2 DEF BuyAttemptFails, OtherInv, Selling
  <2>2. BuyCheck \/ BuyRead \/ BuyAccepted => OtherInv'
    BY DEF BuyCheck, BuyRead, BuyAccepted, OtherInv, Selling
  <2> QED
    BY <1>2, <1>8, <2>1, <2>2
       DEF Buy, BuyQueryFails, BuyFindsOther, BuyBlocked, BuyRefused, BuyRaises,
           BuyReplyLost, BuyUnconfirmed, BuyConfirmed, OtherInv
<1>9. CASE LedgerFails \/ Save \/ Crash
  BY <1>1, <1>2, <1>9 DEF LedgerFails, Save, Crash, OtherInv, NoJob, JobInv
<1>10. CASE Fill \/ Market \/ RequestLiquidation
  BY <1>10 DEF Fill, FillBuy, FillSell, Market, NewBar, Clock, NewDay,
               RequestLiquidation, OtherInv
<1> QED
  BY <1>4, <1>5, <1>6, <1>7, <1>8, <1>9, <1>10 DEF Next, Worker

\* Every step keeps it but one that forgets a purchase.
LEMMA ShownStep ==
    ASSUME LateFills = FALSE
    PROVE  TypeInv /\ ExclusionInv /\ PhantomInv /\ FreshInv /\ OtherInv /\ ShownInv
               /\ [Next]_vars /\ [~ PurchaseForgotten]_vars => ShownInv'
<1> SUFFICES ASSUME TypeInv, ExclusionInv, PhantomInv, FreshInv, OtherInv, ShownInv, Next,
                    ~ PurchaseForgotten
             PROVE  ShownInv'
  BY DEF vars, account, ShownInv, Shows, Holding
<1>1. ASSUME ~ BuyAccepted PROVE LessHeld
  BY <1>1, OthersLess DEF PurchaseForgotten, PurchaseUnknown
<1>2. /\ disk \in Book /\ mem \in Book /\ job \in Job
      /\ pc \in {"idle", "save"} => job.kind = "none"
  BY DEF TypeInv, ControlOK, RestOK, JobInv
<1>3. ASSUME BuyAttemptFails \/ Finish(mem), pc \notin {"idle", "buyConfirm"}
      PROVE  ShownInv'
  <2>1. LessHeld
    BY <1>1, <1>3, AttemptEnds DEF BuyAccepted, Order
  <2> QED
    BY <1>2, <1>3, <2>1, ShownKeeps DEF BuyAttemptFails, Finish, NoJob, Job
<1>4. ASSUME BeginBuy, pc \in {"peek", "verify"}, held[job.to] = 0,
             held[Other(job.to)] = 0, UNCHANGED held
      PROVE  ShownInv'
  <2>1. \A s \in ETF : ~ (held'[s] > 0)
    BY <1>2, <1>4 DEF ETF, Other, Job
  <2> QED
    BY <1>4, <2>1, BuyBegins DEF ShownInv, Shows, TypeInv, ControlOK, JobInv
<1>5. CASE Tick
  <2>1. pc = "idle" /\ UNCHANGED held
    BY <1>5 DEF Tick, TickLiquidates, TickSwitches, TickExits, TickIdles,
                Untouched, account
  <2>2. Shows(Rolled(disk))
    BY <2>1, RolledFacts DEF ShownInv, Shows, TypeInv
  <2>3. CASE TickIdles
    BY <2>1, <2>2, <2>3 DEF TickIdles, ShownInv, Shows, Holding
  <2>4. CASE TickLiquidates
    <3>1. mem' = [Rolled(disk) EXCEPT !.pending = TRUE] /\ Rolled(disk) \in Book
      BY <2>4, RolledType DEF TickLiquidates, TypeInv
    <3>2. mem'.sym = Rolled(disk).sym /\ mem'.qty = Rolled(disk).qty
      BY <3>1 DEF Book
    <3> QED
      BY <2>1, <2>2, <2>4, <3>2
         DEF TickLiquidates, NoJob, ShownInv, Shows, Holding
  <2>5. CASE TickSwitches \/ TickExits
    <3>1. mem' = Rolled(disk) /\ pc' # "idle" /\ job'.kind # "liquidate"
      BY <2>5 DEF TickSwitches, TickExits, NoJob
    <3>2. Shows(mem)'
      BY <2>1, <2>2, <3>1 DEF Shows, Holding
    <3> QED
      BY <3>1, <3>2 DEF ShownInv
  <2> QED
    BY <1>5, <2>3, <2>4, <2>5 DEF Tick
<1>6. CASE Switch
  <2>1. ~ BuyAccepted /\ UNCHANGED held /\ pc \in {"peek", "verify"}
    BY <1>6 DEF Switch, PeekFails, PeekSkips, PeekGoesOn, VerifyFails, VerifiedFlat,
                BuyAccepted, Untouched, account
  <2>2. CASE PeekFails \/ VerifyFails
    BY <1>3, <2>1, <2>2 DEF PeekFails, VerifyFails
  <2>3. CASE PeekSkips
    BY <1>1, <1>2, <2>1, <2>3, ShownKeeps DEF PeekSkips, Finish, NoJob, Book
  <2>4. CASE PeekGoesOn
    <3>1. CASE held[Other(job.to)] > 0
      BY <1>1, <1>2, <2>1, <2>4, <3>1, ShownKeeps DEF PeekGoesOn, Job, TypeInv, ControlOK, JobInv
    <3>2. CASE ~ (held[Other(job.to)] > 0)
      <4>1. job.to \in ETF /\ Other(job.to) \in ETF
        BY JobFacts, BookFacts
      <4>2. held[Other(job.to)] = 0 /\ held[job.to] = 0
        BY <2>4, <3>2, <4>1 DEF PeekGoesOn, AlreadyThere, TypeInv, AccountOK
      <4> QED
        BY <1>4, <2>1, <2>4, <3>2, <4>2 DEF PeekGoesOn
    <3> QED
      BY <3>1, <3>2
  <2>5. CASE VerifiedFlat
    <3>1. held[job.to] = 0
      BY <2>5 DEF VerifiedFlat, FreshInv, TypeInv, ControlOK, JobInv
    <3>2. held[Other(job.to)] = 0
      BY <2>5 DEF VerifiedFlat, OtherInv, TypeInv, ControlOK, JobInv
    <3> QED
      BY <1>4, <2>1, <2>5, <3>1, <3>2 DEF VerifiedFlat
  <2> QED
    BY <1>6, <2>2, <2>3, <2>4, <2>5 DEF Switch
<1>7. CASE Sell
  <2>1. pc \in Selling /\ ~ BuyAccepted
    BY <1>7 DEF Sell, SellQueryFails, SellFindsNothing, SellRead, SellBlocked,
                SellRefused, SellReplyLost, SellAccepted, SellUnconfirmed,
                SellConfirmed, Selling, BuyAccepted
  <2>2. LessHeld /\ pc \notin {"idle", "buyConfirm"}
    BY <1>1, <2>1 DEF Selling
  <2>3. CASE SellRead \/ SellAccepted
    BY <1>2, <2>2, <2>3, ShownKeeps DEF SellRead, SellAccepted, Job
  <2>4. CASE SellQueryFails \/ SellBlocked \/ SellRefused \/ SellReplyLost \/ SellUnconfirmed
    BY <2>1, <2>2, <2>4, SellShown
       DEF SellQueryFails, SellBlocked, SellRefused, SellReplyLost, SellUnconfirmed
  <2>5. CASE SellFindsNothing \/ SellConfirmed
    BY <2>1, <2>2, <2>5, SellShown DEF SellFindsNothing, SellConfirmed
  <2> QED
    BY <1>7, <2>3, <2>4, <2>5 DEF Sell
<1>8. CASE Buy
  <2>1. CASE BuyAccepted
    BY <1>2, <2>1 DEF BuyAccepted, ShownInv, TypeInv, ControlOK, JobInv, Buying
  <2>2. CASE BuyCheck \/ BuyRead
    BY <1>1, <1>2, <2>2, ShownKeeps DEF BuyCheck, BuyRead, BuyAccepted, Job
  <2>3. CASE BuyFindsOther \/ BuyRaises \/ BuyQueryFails \/ BuyBlocked \/ BuyRefused
    BY <1>3, <2>3
       DEF BuyFindsOther, BuyRaises, BuyQueryFails, BuyBlocked, BuyRefused
  <2>4. CASE BuyConfirmed
    <3>1. mem' = [mem EXCEPT !.sym = job.to, !.qty = Filled, !.last = job.to,
                             !.processed = @ \cup {job.sid}]
          /\ job' = NoJob /\ pc' = "save" /\ held' = held
      BY <2>4 DEF BuyConfirmed, Finish, account
    <3>2. mem'.sym = job.to /\ mem'.qty > 0 /\ job.to \in ETF /\ job.to # None
      BY <1>2, <2>4, <3>1 DEF BuyConfirmed, Book, Job, ETF, None
    <3>3. held[job.to] > 0
      BY <2>4, <3>2, JobFacts DEF BuyConfirmed, Filled, TypeInv, AccountOK
    <3>4. \A s \in ETF : s # job.to => ~ (held[s] > 0)
      BY <3>2, <3>3 DEF ExclusionInv, NeverBothHeld, Exposure, TypeInv, AccountOK, ETF, Other
    <3> QED
      BY <3>1, <3>2, <3>4 DEF ShownInv, Shows, Holding, NoJob
  <2> QED
    BY <1>8, <2>1, <2>2, <2>3, <2>4 DEF Buy, PurchaseForgotten, PurchaseUnknown
<1>9. CASE Save
  BY <1>2, <1>9 DEF Save, Untouched, account, ShownInv, Shows, Holding
<1>10. CASE Fill \/ Market \/ RequestLiquidation
  <2>1. job' = job /\ pc' = pc /\ mem' = mem /\ disk'.sym = disk.sym /\ disk'.qty = disk.qty
    BY <1>2, <1>10 DEF Fill, FillBuy, FillSell, Market, NewBar, Clock, NewDay,
                 RequestLiquidation, Book
  <2>2. LessHeld
    <3>1. CASE BuyAccepted
      BY <2>1, <3>1 DEF BuyAccepted
    <3> QED
      BY <1>1, <3>1
  <2>3. Shows(disk) => Shows(disk)'
    BY <1>2, <2>1, <2>2, ShowsStill
  <2>4. Shows(mem) => Shows(mem)'
    BY <1>2, <2>1, <2>2, ShowsStill
  <2>5. "LONG" \in ETF
    BY DEF ETF
  <2> QED
    BY <2>1, <2>2, <2>3, <2>4, <2>5 DEF ShownInv, LessHeld, TypeInv, AccountOK
<1> QED
  BY <1>5, <1>6, <1>7, <1>8, <1>9, <1>10 DEF Next, Worker, PurchaseForgotten

\* "Every tick values the ETF that is held" fails for four reasons only: between
\* ticks, what the account holds is the position of the state file unless a
\* purchase was not answered, not confirmed, not written to the ledger, or cut off
\* by a crash.  The rollover to a new day, failed sales, signals that are skipped
\* and liquidations by hand lose track of nothing.
THEOREM UntrackedIsForgotten ==
    ASSUME LateFills = FALSE
    PROVE  Spec /\ [][~ PurchaseForgotten]_vars => []HeldIsTracked
<1>1. Init => ExclusionInv /\ PhantomInv /\ FreshInv /\ OtherInv /\ ShownInv
  BY DEF Init, ExclusionInv, NeverBothHeld, Exposure, PhantomInv, Phantom, Holding,
         Buying, FreshInv, OtherInv, ShownInv, Shows, NoJob, EmptyBook
<1>2. TypeInv /\ ExclusionInv /\ [Next]_vars => ExclusionInv'
  BY ExclusionStep
<1>3. TypeInv /\ ExclusionInv /\ PhantomInv /\ [Next]_vars => PhantomInv'
  BY PhantomStep
<1>4. TypeInv /\ ExclusionInv /\ FreshInv /\ [Next]_vars /\ [~ PurchaseUnknown]_vars
          => FreshInv'
  BY FreshStep
<1>5. TypeInv /\ ExclusionInv /\ PhantomInv /\ FreshInv /\ OtherInv /\ ShownInv
          /\ [Next]_vars /\ [~ PurchaseForgotten]_vars => ShownInv'
  BY ShownStep
<1>6. [~ PurchaseForgotten]_vars => [~ PurchaseUnknown]_vars
  BY DEF PurchaseForgotten
<1>7. ShownInv => HeldIsTracked
  BY DEF ShownInv, Shows, HeldIsTracked
<1> QED
  BY <1>1, <1>2, <1>3, <1>4, <1>5, <1>6, <1>7, TypeInvariant, OtherStep, PTL DEF Spec
=============================================================================
