----------------------------- MODULE MacdOrder -----------------------------
(***************************************************************************)
(* The order path of the MACD strategy: one tick of the worker             *)
(* (macd_hynix_worker.run_once inside _worker_loop) and the orders it      *)
(* places through macd_hynix_order_manager (switch_to_direction,           *)
(* exit_position_full and force_liquidate_all, over execute_sell_all and   *)
(* execute_buy), against a broker that may refuse an order, lose a reply,  *)
(* fail a query and, with LateFills, fill an order long after it took it.  *)
(*                                                                         *)
(* The strategy holds one of two ETFs: the leveraged one after an UP       *)
(* signal, the inverse one after a DOWN signal.  A direction is named by   *)
(* its ETF (target_symbol_for_direction is one to one).                    *)
(*                                                                         *)
(* _ORDER_PROCESS_LOCK serialises the three operations and the worker is   *)
(* the one caller here; what several threads do to the state file is the   *)
(* subject of MacdRuntime.  The tick reads the state file at its start,    *)
(* works on the copy in memory and writes it back at its end: a crash in   *)
(* between loses the copy and the coordinator's records, never an order.   *)
(***************************************************************************)
EXTENDS Integers, FiniteSets

CONSTANTS
    MaxAttempts,        \* MAX_ORDER_ATTEMPTS (3 in the code)
    Lots,               \* the quantities a buy may ask for (budget \div price)
    LateFills,          \* may an order fill after the confirmation gave up?
    Outages,            \* may a broker query or a quote fail?
    ManualLiquidation,  \* may the user ask for an immediate liquidation?
    MaxFaults,          \* bound: lost replies, unwritable rows and crashes
    MaxBar,             \* bound: completed 3-minute bars that show a direction
    MaxDay              \* bound: trading days

ASSUME AttemptsAssumption == MaxAttempts \in Nat \ {0}
ASSUME LotsAssumption == Lots \subseteq Nat \ {0} /\ IsFiniteSet(Lots)
ASSUME SwitchesAssumption ==
    LateFills \in BOOLEAN /\ Outages \in BOOLEAN /\ ManualLiquidation \in BOOLEAN
ASSUME BoundsAssumption ==
    MaxFaults \in Nat /\ MaxBar \in Nat /\ MaxDay \in Nat

ETF == {"LONG", "INVERSE"}       \* TRADE_SYMBOLS, in this order
None == "none"
Other(s) == IF s = "LONG" THEN "INVERSE" ELSE "LONG"    \* opposite_symbol

Nothing == <<None, 0>>                   \* no signal
Sids == ETF \X (1 .. MaxBar)             \* signal id: direction and bar
Liquidations == {"FORCE_LIQ"} \X Nat     \* signal id of force_liquidate_all
Episodes == Sids \cup {Nothing}          \* direction_episode.id

(* The part of the state file the orders depend on. The position's own      *)
(* direction_episode_id always equals the episode's while a position is     *)
(* held, so one field stands for both.                                      *)
Book == [sym: ETF \cup {None},           \* position.symbol
         qty: Nat,                       \* position.quantity
         ep: Episodes,                   \* direction_episode.id
         processed: SUBSET Sids,         \* processed_signal_ids
         last: ETF \cup {None},          \* last_signal_direction
         pending: BOOLEAN,               \* force_liquidate_pending
         done: Nat,                      \* force_liquidate_done_date
         session: Nat]                   \* session_date

EmptyBook == [sym |-> None, qty |-> 0, ep |-> Nothing, processed |-> {},
              last |-> None, pending |-> FALSE, done |-> 0, session |-> 0]

(* An idempotency key of the coordinator for this strategy. *)
Key == [side: {"SELL", "BUY"}, sym: ETF, sid: Sids \cup Liquidations,
        attempt: Nat, qty: Nat, ep: Episodes \cup Liquidations]

(* What the tick is doing: a switch to job.to, an exit, a liquidation.      *)
Job == [kind: {"none", "switch", "exit", "liquidate"},
        to: ETF,                \* switch: the ETF to hold
        sid: Sids \cup Liquidations,
        sym: ETF,               \* the ETF of the current order
        attempt: Nat,           \* number of the current attempt
        before: Nat,            \* quantity read before the current order
        lot: Nat,               \* switch: quantity to buy
        allOk: BOOLEAN]         \* liquidate: all_ok so far

VARIABLES
    held, buying, selling,   \* the account at the broker, per ETF: shares held,
                             \* shares of accepted orders not yet filled
    disk, mem,               \* the state file, and the tick's copy of it
    pc, job,                 \* where the tick is
    blocked,                 \* keys whose record is ACCEPTED or FILLED
    phase, day, bar, flag,   \* the market: session phase, date, last completed
                             \* bar that showed a direction, and the direction
                             \* the last completed bar shows
    faults, crashes,         \* how often the bounded failures happened
    unbooked,                \* history: shares filled, not in the ledger
    orders,                  \* history: buy orders the broker took, per signal
    stopped                  \* history: ETF the last price exit sold

account == <<held, buying, selling>>
market == <<phase, day, bar, flag>>
vars == <<held, buying, selling, disk, mem, pc, job, blocked, phase, day, bar,
          flag, faults, crashes, unbooked, orders, stopped>>

Steps == {"idle", "peek", "sellRead", "sellSend", "sellConfirm", "verify",
          "buyCheck", "buyRead", "buySend", "buyConfirm", "save"}

TypeOK ==
    /\ held \in [ETF -> Nat]
    /\ buying \in [ETF -> Nat]
    /\ selling \in [ETF -> Nat]
    /\ disk \in Book
    /\ mem \in Book
    /\ pc \in Steps
    /\ job \in Job
    /\ blocked \subseteq Key
    /\ phase \in {"open", "late", "closed"}
    /\ day \in Nat
    /\ bar \in 0 .. MaxBar
    /\ flag \in ETF \cup {None}
    /\ faults \in Nat
    /\ crashes \in Nat
    /\ unbooked \in [{"SELL", "BUY"} -> [ETF -> Int]]
    /\ orders \in [Sids -> Nat]
    /\ stopped \in ETF \cup {None}

NoJob == [kind |-> "none", to |-> "LONG", sid |-> <<"FORCE_LIQ", 0>>,
          sym |-> "LONG", attempt |-> 0, before |-> 0, lot |-> 0, allOk |-> TRUE]

Init ==
    /\ held = [s \in ETF |-> 0]
    /\ buying = [s \in ETF |-> 0]
    /\ selling = [s \in ETF |-> 0]
    /\ disk = EmptyBook
    /\ mem = EmptyBook
    /\ pc = "idle"
    /\ job = NoJob
    /\ blocked = {}
    /\ phase = "open" /\ day = 1 /\ bar = 0 /\ flag = None
    /\ faults = 0 /\ crashes = 0
    /\ unbooked = [d \in {"SELL", "BUY"} |-> [s \in ETF |-> 0]]
    /\ orders = [i \in Sids |-> 0]
    /\ stopped = None

-----------------------------------------------------------------------------
(* The broker. *)

\* A buy order is taken: filled at once, or left working with LateFills.
TakeBuy(s, qty) ==
    /\ IF LateFills
       THEN buying' = [buying EXCEPT ![s] = @ + qty] /\ UNCHANGED <<held, unbooked>>
       ELSE /\ held' = [held EXCEPT ![s] = @ + qty]
            /\ unbooked' = [unbooked EXCEPT !["BUY"][s] = @ + qty]
            /\ UNCHANGED buying
    /\ orders' = [orders EXCEPT ![job.sid] = @ + 1]
    /\ stopped' = IF stopped = Other(s) THEN None ELSE stopped
    /\ UNCHANGED selling

\* A sell order is taken only for shares no working sell order already covers.
\* One of a price exit closes its direction for the rest of the episode.
TakeSell(s, qty) ==
    /\ selling[s] + qty <= held[s]
    /\ IF LateFills
       THEN selling' = [selling EXCEPT ![s] = @ + qty] /\ UNCHANGED <<held, unbooked>>
       ELSE /\ held' = [held EXCEPT ![s] = @ - qty]
            /\ unbooked' = [unbooked EXCEPT !["SELL"][s] = @ + qty]
            /\ UNCHANGED selling
    /\ stopped' = IF job.kind = "exit" THEN s ELSE stopped
    /\ UNCHANGED <<buying, orders>>

\* One more share of a working order fills, at any time.
FillBuy(s) ==
    /\ buying[s] > 0
    /\ buying' = [buying EXCEPT ![s] = @ - 1]
    /\ held' = [held EXCEPT ![s] = @ + 1]
    /\ unbooked' = [unbooked EXCEPT !["BUY"][s] = @ + 1]
    /\ UNCHANGED <<selling, disk, mem, pc, job, blocked, market, faults,
                   crashes, orders, stopped>>

FillSell(s) ==
    /\ selling[s] > 0
    /\ selling' = [selling EXCEPT ![s] = @ - 1]
    /\ held' = [held EXCEPT ![s] = @ - 1]
    /\ unbooked' = [unbooked EXCEPT !["SELL"][s] = @ + 1]
    /\ UNCHANGED <<buying, disk, mem, pc, job, blocked, market, faults,
                   crashes, orders, stopped>>

FaultLeft == faults + crashes < MaxFaults

Untouched == UNCHANGED <<account, unbooked, orders, stopped>>
Calm == UNCHANGED <<market, faults, crashes>>
-----------------------------------------------------------------------------
(* The beginning of a tick: _worker_loop loads the state file, rolls the    *)
(* day over and run_once decides what to do.                                *)

Holding(b) == b.sym # None /\ b.qty > 0

\* apply_macd_session_day_rollover
Rolled(b) ==
    IF b.session = day THEN b
    ELSE IF Holding(b) THEN [b EXCEPT !.session = day]
    ELSE [EmptyBook EXCEPT !.session = day]

\* Faulty variant: only a position of the state file is worth a liquidation.
MustLiquidateTracked(b) ==
    Holding(b) /\ ((phase = "closed" /\ b.done # day) \/ b.pending)

\* should_force_liquidate, or a liquidation asked for or left unfinished
MustLiquidate(b) == (phase = "closed" /\ b.done # day) \/ b.pending

\* Faulty variant: the direction state is not consulted.
NewSignalAgain(b) ==
    /\ phase = "open"
    /\ flag # None
    /\ <<flag, bar>> \notin b.processed

\* new_signal of evaluate_macd_direction, allow_new_switch and the check of
\* processed_signal_ids.  (last_signal_bar_ts adds nothing: a bar has one
\* direction, and consuming its signal sets last_signal_direction.)
NewSignal(b) ==
    /\ phase = "open"
    /\ flag # None
    /\ flag # b.last
    /\ <<flag, bar>> \notin b.processed

TickLiquidates ==
    /\ pc = "idle"
    /\ MustLiquidate(Rolled(disk))
    /\ mem' = [Rolled(disk) EXCEPT !.pending = TRUE]
    /\ job' = [NoJob EXCEPT !.kind = "liquidate", !.sid = <<"FORCE_LIQ", day>>,
                            !.sym = "LONG", !.attempt = 1]
    /\ pc' = "sellRead"
    /\ UNCHANGED <<disk, blocked>> /\ Untouched /\ Calm

\* A new signal: the worker calls execute_switch within the same tick.
TickSwitches ==
    /\ pc = "idle"
    /\ ~ MustLiquidate(Rolled(disk))
    /\ NewSignal(Rolled(disk))
    /\ mem' = Rolled(disk)
    /\ \E lot \in Lots :
          job' = [NoJob EXCEPT !.kind = "switch", !.to = flag, !.lot = lot,
                              !.sid = <<flag, bar>>, !.sym = flag]
    /\ pc' = "peek"
    /\ UNCHANGED <<disk, blocked>> /\ Untouched /\ Calm

\* The price of the held ETF hits the stop loss or the profit lock.  A new
\* signal for the other ETF goes first.
TickExits ==
    LET b == Rolled(disk) IN
    /\ pc = "idle"
    /\ ~ MustLiquidate(b)
    /\ phase \in {"open", "late"}
    /\ Holding(b)
    /\ ~ (NewSignal(b) /\ flag # b.sym)
    /\ mem' = b
    /\ job' = [NoJob EXCEPT !.kind = "exit", !.sym = b.sym, !.attempt = 1]
    /\ pc' = "sellRead"
    /\ UNCHANGED <<disk, blocked>> /\ Untouched /\ Calm

\* A tick with nothing to do (or a new signal while the quotes are too old)
\* writes the state file back.
TickIdles ==
    LET b == Rolled(disk) IN
    /\ pc = "idle"
    /\ ~ MustLiquidate(b)
    /\ NewSignal(b) => Outages /\ (Holding(b) => flag = b.sym)
    /\ disk' = b
    /\ UNCHANGED <<mem, pc, job, blocked>> /\ Untouched /\ Calm

-----------------------------------------------------------------------------
(* The end of the operation and of the tick. *)

\* The operation is over; its copy of the state becomes `b`.
Finish(b) ==
    /\ mem' = b
    /\ pc' = "save"
    /\ job' = NoJob

\* save_state at the end of run_once
Save ==
    /\ pc = "save"
    /\ disk' = mem
    /\ mem' = EmptyBook
    /\ pc' = "idle"
    /\ UNCHANGED <<job, blocked>> /\ Untouched /\ Calm

NoPosition(b) == [b EXCEPT !.sym = None, !.qty = 0]

\* Liquidation: both ETFs are done.
Liquidated(ok) ==
    Finish(IF ok THEN [NoPosition(mem) EXCEPT !.ep = Nothing, !.pending = FALSE,
                                             !.done = day]
                 ELSE [mem EXCEPT !.pending = TRUE])

\* Faulty variant: the outcome of the second ETF decides alone.
NextOfLiquidationLast(ok) ==
    IF job.sym = "LONG"
    THEN /\ job' = [job EXCEPT !.sym = "INVERSE"]
         /\ pc' = "sellRead"
         /\ UNCHANGED mem
    ELSE Liquidated(ok)

\* Liquidation: go on with the other ETF, or finish.
NextOfLiquidation(ok) ==
    IF job.sym = "LONG"
    THEN /\ job' = [job EXCEPT !.sym = "INVERSE", !.allOk = ok]
         /\ pc' = "sellRead"
         /\ UNCHANGED mem
    ELSE Liquidated(ok)

\* An attempt to sell did not end with a confirmed zero.
SellAttemptFails ==
    CASE job.kind = "liquidate" -> NextOfLiquidation(FALSE)
      [] job.kind # "liquidate" /\ job.attempt < MaxAttempts ->
             /\ job' = [job EXCEPT !.attempt = @ + 1]
             /\ pc' = "sellRead"
             /\ UNCHANGED mem
      [] OTHER -> Finish(mem)

\* The ETF is sold, or was not held.
SellSucceeds ==
    CASE job.kind = "liquidate" -> NextOfLiquidation(job.allOk)
      [] job.kind = "exit" -> Finish(NoPosition(mem))
      [] OTHER -> pc' = "verify" /\ UNCHANGED <<mem, job>>

\* Faulty variant: one attempt too many.
BuyAttemptFailsLate ==
    IF job.attempt <= MaxAttempts
    THEN /\ job' = [job EXCEPT !.attempt = @ + 1]
         /\ pc' = "buyCheck"
         /\ UNCHANGED mem
    ELSE Finish(mem)

BuyAttemptFails ==
    IF job.attempt < MaxAttempts
    THEN /\ job' = [job EXCEPT !.attempt = @ + 1]
         /\ pc' = "buyCheck"
         /\ UNCHANGED mem
    ELSE Finish(mem)

-----------------------------------------------------------------------------
(* switch_to_direction, up to the orders. *)

\* The holdings query fails, the quotes are invalid or the signal is a
\* duplicate: nothing happens.
PeekFails ==
    /\ pc = "peek"
    /\ Outages \/ job.sid \in mem.processed
    /\ Finish(mem)
    /\ UNCHANGED <<disk, blocked>> /\ Untouched /\ Calm

\* Success without an order: the position in the state is the target already,
\* or the account holds the target and not the other ETF.
AlreadyThere ==
    \/ Holding(mem) /\ mem.sym = job.to
    \/ held[job.to] > 0 /\ held[Other(job.to)] = 0

\* execute_switch then marks the direction as consumed.
PeekSkips ==
    /\ pc = "peek"
    /\ job.sid \notin mem.processed
    /\ AlreadyThere
    /\ Finish([mem EXCEPT !.last = job.to,
                          !.processed = IF Holding(mem) /\ mem.sym = job.to
                                        THEN @ ELSE @ \cup {job.sid}])
    /\ stopped' = IF stopped = Other(job.to) THEN None ELSE stopped
    /\ UNCHANGED <<disk, blocked, account, unbooked, orders>> /\ Calm

\* The other ETF is flat: the position is cleared, a new episode starts and
\* the target is bought.
BeginBuy ==
    /\ mem' = [NoPosition(mem) EXCEPT !.ep = job.sid]
    /\ job' = [job EXCEPT !.sym = job.to, !.attempt = 1]
    /\ pc' = "buyCheck"

\* Faulty variant: the state file, not the account, says what is held.
PeekTrustsState ==
    /\ pc = "peek"
    /\ job.sid \notin mem.processed
    /\ ~ AlreadyThere
    /\ IF mem.sym = Other(job.to)
       THEN /\ job' = [job EXCEPT !.sym = Other(job.to), !.attempt = 1]
            /\ pc' = "sellRead"
            /\ UNCHANGED mem
       ELSE /\ mem' = [NoPosition(mem) EXCEPT !.ep = job.sid]
            /\ job' = [job EXCEPT !.sym = job.to, !.attempt = 1]
            /\ pc' = "buyRead"
    /\ UNCHANGED <<disk, blocked>> /\ Untouched /\ Calm

PeekGoesOn ==
    /\ pc = "peek"
    /\ job.sid \notin mem.processed
    /\ ~ AlreadyThere
    /\ IF held[Other(job.to)] > 0
       THEN /\ job' = [job EXCEPT !.sym = Other(job.to), !.attempt = 1]
            /\ pc' = "sellRead"
            /\ UNCHANGED mem
       ELSE BeginBuy
    /\ UNCHANGED <<disk, blocked>> /\ Untouched /\ Calm

\* After the sells the balance is read once more before anything is bought.
VerifyFails ==
    /\ pc = "verify"
    /\ Outages \/ held[job.sym] # 0
    /\ Finish(mem)
    /\ UNCHANGED <<disk, blocked>> /\ Untouched /\ Calm

VerifiedFlat ==
    /\ pc = "verify"
    /\ held[job.sym] = 0
    /\ BeginBuy
    /\ UNCHANGED <<disk, blocked>> /\ Untouched /\ Calm
-----------------------------------------------------------------------------
(* execute_sell_all. *)

\* The time of an exit is part of its signal id, so its keys are always new.
\* A switch and a liquidation name the same key again on every tick.
SellKey == [side |-> "SELL", sym |-> job.sym, sid |-> job.sid,
            attempt |-> job.attempt, qty |-> job.before,
            ep |-> IF mem.ep = Nothing THEN job.sid ELSE mem.ep]

Remembered == IF job.kind = "exit" THEN {} ELSE {SellKey}

SellQueryFails ==
    /\ pc = "sellRead"
    /\ Outages
    /\ SellAttemptFails
    /\ UNCHANGED <<disk, blocked>> /\ Untouched /\ Calm

SellFindsNothing ==
    /\ pc = "sellRead"
    /\ held[job.sym] = 0
    /\ SellSucceeds
    /\ UNCHANGED <<disk, blocked>> /\ Untouched /\ Calm

SellRead ==
    /\ pc = "sellRead"
    /\ held[job.sym] > 0
    /\ job' = [job EXCEPT !.before = held[job.sym]]
    /\ pc' = "sellSend"
    /\ UNCHANGED <<disk, mem, blocked>> /\ Untouched /\ Calm

\* The coordinator refuses a key it knows as ACCEPTED or FILLED.
SellBlocked ==
    /\ pc = "sellSend"
    /\ SellKey \in blocked
    /\ SellAttemptFails
    /\ UNCHANGED <<disk, blocked>> /\ Untouched /\ Calm

\* The broker refuses the order: the record is FAILED.
SellRefused ==
    /\ pc = "sellSend"
    /\ SellKey \notin blocked
    /\ SellAttemptFails
    /\ UNCHANGED <<disk, blocked>> /\ Untouched /\ Calm

\* The broker takes the order and its reply is lost: the record is FAILED.
SellReplyLost ==
    /\ pc = "sellSend"
    /\ SellKey \notin blocked
    /\ FaultLeft
    /\ faults' = faults + 1
    /\ TakeSell(job.sym, job.before)
    /\ SellAttemptFails
    /\ UNCHANGED <<disk, blocked, market, crashes>>

SellAccepted ==
    /\ pc = "sellSend"
    /\ SellKey \notin blocked
    /\ TakeSell(job.sym, job.before)
    /\ blocked' = blocked \cup Remembered
    /\ pc' = "sellConfirm"
    /\ UNCHANGED <<disk, mem, job>> /\ Calm

\* confirm_quantity got no answer, or shares are still there after its last
\* attempt: nothing is booked and the record stays ACCEPTED.
SellUnconfirmed ==
    /\ pc = "sellConfirm"
    /\ Outages \/ held[job.sym] > 0
    /\ SellAttemptFails
    /\ UNCHANGED <<disk, blocked>> /\ Untouched /\ Calm

\* The balance is zero: what was there before is booked as sold.
SellConfirmed ==
    /\ pc = "sellConfirm"
    /\ held[job.sym] = 0
    /\ unbooked' = [unbooked EXCEPT !["SELL"][job.sym] = @ - job.before]
    /\ SellSucceeds
    /\ UNCHANGED <<disk, blocked, account, orders, stopped>> /\ Calm

-----------------------------------------------------------------------------
(* execute_buy. *)

BuyKey == [side |-> "BUY", sym |-> job.to, sid |-> job.sid,
           attempt |-> job.attempt, qty |-> job.lot, ep |-> mem.ep]

\* The other ETF, then the target itself, cannot be queried.
BuyQueryFails ==
    /\ pc \in {"buyCheck", "buyRead"}
    /\ Outages
    /\ BuyAttemptFails
    /\ UNCHANGED <<disk, blocked>> /\ Untouched /\ Calm

\* The other ETF is held: the switch gives up at once.
BuyFindsOther ==
    /\ pc = "buyCheck"
    /\ held[Other(job.to)] > 0
    /\ Finish(mem)
    /\ UNCHANGED <<disk, blocked>> /\ Untouched /\ Calm

BuyCheck ==
    /\ pc = "buyCheck"
    /\ held[Other(job.to)] = 0
    /\ pc' = "buyRead"
    /\ UNCHANGED <<disk, mem, job, blocked>> /\ Untouched /\ Calm

BuyRead ==
    /\ pc = "buyRead"
    /\ job' = [job EXCEPT !.before = held[job.to]]
    /\ pc' = "buySend"
    /\ UNCHANGED <<disk, mem, blocked>> /\ Untouched /\ Calm

BuyBlocked ==
    /\ pc = "buySend"
    /\ BuyKey \in blocked
    /\ BuyAttemptFails
    /\ UNCHANGED <<disk, blocked>> /\ Untouched /\ Calm

BuyRefused ==
    /\ pc = "buySend"
    /\ BuyKey \notin blocked
    /\ BuyAttemptFails
    /\ UNCHANGED <<disk, blocked>> /\ Untouched /\ Calm

\* The token of the broker cannot be renewed: the exception ends the tick.
BuyRaises ==
    /\ pc = "buySend"
    /\ BuyKey \notin blocked
    /\ Outages
    /\ Finish(mem)
    /\ UNCHANGED <<disk, blocked>> /\ Untouched /\ Calm

BuyReplyLost ==
    /\ pc = "buySend"
    /\ BuyKey \notin blocked
    /\ FaultLeft
    /\ faults' = faults + 1
    /\ TakeBuy(job.to, job.lot)
    /\ BuyAttemptFails
    /\ UNCHANGED <<disk, blocked, market, crashes>>

BuyAccepted ==
    /\ pc = "buySend"
    /\ BuyKey \notin blocked
    /\ TakeBuy(job.to, job.lot)
    /\ blocked' = blocked \cup {BuyKey}
    /\ pc' = "buyConfirm"
    /\ UNCHANGED <<disk, mem, job>> /\ Calm

\* Faulty variant: an order without a confirmation counts as failed, and its
\* key may be used again.
BuyUnconfirmedFailed ==
    /\ pc = "buyConfirm"
    /\ Outages \/ held[job.to] <= job.before
    /\ blocked' = blocked \ {BuyKey}
    /\ BuyAttemptFails
    /\ UNCHANGED disk /\ Untouched /\ Calm

BuyUnconfirmed ==
    /\ pc = "buyConfirm"
    /\ Outages \/ held[job.to] <= job.before
    /\ BuyAttemptFails
    /\ UNCHANGED <<disk, blocked>> /\ Untouched /\ Calm

\* Faulty variant: the quantity of the order is booked, not the growth.
FilledAsOrdered == job.lot

\* max(0, after - before)
Filled == held[job.to] - job.before

\* Faulty variant: the position is recorded with the difference the wrong way
\* round.
BuyConfirmedBackwards ==
    /\ pc = "buyConfirm"
    /\ Filled > 0
    /\ unbooked' = [unbooked EXCEPT !["BUY"][job.to] = @ - Filled]
    /\ Finish([mem EXCEPT !.sym = job.to, !.qty = job.before - held[job.to],
                          !.last = job.to, !.processed = @ \cup {job.sid}])
    /\ UNCHANGED <<disk, blocked, account, orders, stopped>> /\ Calm

\* The balance grew: the growth is booked, the position recorded and the
\* signal consumed.
BuyConfirmed ==
    /\ pc = "buyConfirm"
    /\ Filled > 0
    /\ unbooked' = [unbooked EXCEPT !["BUY"][job.to] = @ - Filled]
    /\ Finish([mem EXCEPT !.sym = job.to, !.qty = Filled, !.last = job.to,
                          !.processed = @ \cup {job.sid}])
    /\ UNCHANGED <<disk, blocked, account, orders, stopped>> /\ Calm

\* The row of the ledger cannot be written after an accepted order: the
\* exception marks the record FAILED and ends the tick.
LedgerFails ==
    /\ pc \in {"sellConfirm", "buyConfirm"}
    /\ FaultLeft
    /\ faults' = faults + 1
    /\ blocked' = blocked \ {IF pc = "sellConfirm" THEN SellKey ELSE BuyKey}
    /\ Finish(mem)
    /\ UNCHANGED <<disk, market, crashes>> /\ Untouched

-----------------------------------------------------------------------------
(* Crashes, the market and the user. *)

\* The process dies and comes back with the state file: the copy in memory and
\* the coordinator's records are gone, the orders at the broker are not.
Crash ==
    /\ FaultLeft
    /\ crashes' = crashes + 1
    /\ mem' = EmptyBook
    /\ job' = NoJob
    /\ pc' = "idle"
    /\ blocked' = {}
    /\ UNCHANGED <<disk, market, faults>> /\ Untouched

\* The direction of the last completed bar.  The pattern needs two bars of one
\* sign, so between an UP and a DOWN there is a bar with neither.
NewBar ==
    /\ phase # "closed"
    /\ flag' \in IF flag = None THEN ETF ELSE {flag, None}
    /\ bar' = IF flag' = None THEN bar ELSE bar + 1
    /\ bar' <= MaxBar
    /\ UNCHANGED <<account, disk, mem, pc, job, blocked, phase, day, faults,
                   crashes, unbooked, orders, stopped>>

\* 14:55: no new switch.  15:00: liquidation.
Clock ==
    /\ phase # "closed"
    /\ phase' = IF phase = "open" THEN "late" ELSE "closed"
    /\ UNCHANGED <<account, disk, mem, pc, job, blocked, day, bar, flag, faults,
                   crashes, unbooked, orders, stopped>>

\* The next trading day begins, hours after the last tick of this one.
NewDay ==
    /\ phase = "closed" /\ pc = "idle"
    /\ day < MaxDay
    /\ day' = day + 1
    /\ phase' = "open"
    /\ flag' = None
    /\ stopped' = None
    /\ UNCHANGED <<account, disk, mem, pc, job, blocked, bar, faults, crashes,
                   unbooked, orders>>

\* The page's button for an immediate liquidation (request_force_liquidate):
\* it writes the state file, whatever the worker is doing.  Bound: the model
\* explores requests until the first liquidation is recorded as done.
RequestLiquidation ==
    /\ ManualLiquidation
    /\ disk.done = 0 /\ ~ disk.pending
    /\ disk' = [disk EXCEPT !.pending = TRUE]
    /\ UNCHANGED <<mem, pc, job, blocked>> /\ Untouched /\ Calm

Tick == TickLiquidates \/ TickSwitches \/ TickExits \/ TickIdles
Switch == PeekFails \/ PeekSkips \/ PeekGoesOn \/ VerifyFails \/ VerifiedFlat
Sell == \/ SellQueryFails \/ SellFindsNothing \/ SellRead \/ SellBlocked
        \/ SellRefused \/ SellReplyLost \/ SellAccepted \/ SellUnconfirmed
        \/ SellConfirmed
Buy == \/ BuyQueryFails \/ BuyFindsOther \/ BuyCheck \/ BuyRead \/ BuyBlocked
       \/ BuyRefused \/ BuyRaises \/ BuyReplyLost \/ BuyAccepted \/ BuyUnconfirmed
       \/ BuyConfirmed
Worker == Tick \/ Switch \/ Sell \/ Buy \/ LedgerFails \/ Save
Fill == \E s \in ETF : FillBuy(s) \/ FillSell(s)
Market == NewBar \/ Clock \/ NewDay

Next == Worker \/ Fill \/ Market \/ Crash \/ RequestLiquidation

Spec == Init /\ [][Next]_vars

(* The worker thread ticks every five seconds, the clock moves on, and an    *)
(* order that was taken fills some day.                                      *)
Fairness == WF_vars(Worker) /\ WF_vars(Clock) /\ WF_vars(Fill)

FairSpec == Spec /\ Fairness

-----------------------------------------------------------------------------
(* Properties. *)

Exposure(s) == held[s] + buying[s]
Flat == \A s \in ETF : Exposure(s) = 0

\* Never both ETFs at once: neither held nor on order.  switch_to_direction:
\* "Full switch: sell opposite (if any) -> confirm 0 -> buy target."
NeverBothHeld == \A s \in ETF : Exposure(s) > 0 => Exposure(Other(s)) = 0

\* The ledger never shows a share that was not bought or sold at the broker,
\* however late orders fill: _record_fill, "Record ledger only after broker
\* confirmation".
LedgerNeverOverstates ==
    \A d \in {"SELL", "BUY"}, s \in ETF : unbooked[d][s] >= 0

\* A signal is not bought without end: retries, ticks and unconfirmed orders
\* together put at most MAX_ORDER_ATTEMPTS orders of one size on the market, one
\* more per fault, and as many again after a crash forgot the records.
OrdersPerSignalBounded ==
    \A i \in Sids :
        orders[i] <= MaxAttempts * Cardinality(Lots) * (1 + crashes) + faults

\* After a stop loss or a profit lock the same direction is not bought again
\* before the other one was (signed_hist_two_turn_new_signal: "keep
\* direction_state so same-dir cannot re-enter").  It is claimed for orders that
\* fill when they are taken: the rest of a late one may fill for a direction that
\* is no longer the last, whose exit then closes the wrong one.
NoReentryAfterExit ==
    [][\A s \in ETF : Exposure(s)' > Exposure(s) => stopped # s]_vars

\* The account as HynixBook sees it.
BookOf ==
    IF Exposure("LONG") > 0 THEN "LONG"
    ELSE IF Exposure("INVERSE") > 0 THEN "INVERSE" ELSE "flat"

DayIsShut == phase = "closed" /\ disk.done = day

Account == INSTANCE HynixBook
               WITH Symbols <- ETF, book <- BookOf, shut <- DayIsShut

\* The strategy implements HynixBook: from one ETF to the other only by way of
\* an account seen flat, the 15:00 liquidation recorded as done only when the
\* account is flat, and nothing bought after it until the next day
\* (force_liquidate_all, switch_to_direction).
ImplementsBook == Account!Spec

\* The broker, not the code, is the reason that a sell attempt failed.
BrokerFails ==
    \/ SellQueryFails
    \/ SellRefused
    \/ SellUnconfirmed /\ held[job.sym] = 0

\* 15:00: everything is sold.  Once the broker answers and takes orders again
\* the ticks flatten the account, record the day as done and leave no position
\* in the state file; no key, fault, crash or untracked holding is in the way.
DayEndsFlat ==
    <>[][~ BrokerFails]_vars =>
        (phase = "closed" ~> Flat /\ disk.done = day /\ disk.sym = None)
-----------------------------------------------------------------------------
(* What the documents of the repository say and the code does not keep. *)

\* "Same flag held -> 0 duplicate orders"
\* (data/state/macd_tomorrow_live_checklist.md): nothing is bought of an ETF the
\* account already holds or has on order.
NoAddWhileHeld ==
    [][\A s \in ETF : Exposure(s)' > Exposure(s) => Exposure(s) = 0]_vars

\* Every tick values the ETF that is held and sells it at the stop loss
\* (docs/requirements.md): between ticks, what the last signal bought and the
\* account holds is the position of the state file.
HeldIsTracked ==
    pc = "idle" =>
        \A s \in ETF : held[s] > 0 /\ disk.last = s => disk.sym = s
=============================================================================
