------------------------------ MODULE GapTrader ------------------------------
(***************************************************************************)
(* The gap-up trading of src/app/execution as the page of market judgement *)
(* uses it: an AutoTrader per browser session with its PositionGuard (the  *)
(* positions it watches, in memory), the RiskManager's count of trades,    *)
(* and the OrderExecutor, which sends an order up to three times.          *)
(*                                                                         *)
(* Two sessions trade one account and do not know of each other.  The      *)
(* account is external: it refuses to sell more than it holds and does not *)
(* sell already.  The orders are limit orders: what is accepted is filled  *)
(* later, share by share, or lapses, and the programme, which takes an     *)
(* accepted order for a filled one, is not told.  Prices are left out:     *)
(* what a price decides is a choice.                                       *)
(***************************************************************************)
EXTENDS FiniteSets, Integers

CONSTANTS
    Symbols,
    Sessions,
    MaxOpen,     \* max_positions
    MaxTrades,   \* max_daily_trades
    MaxRetries,  \* MAX_RETRIES of the order executor
    MaxHeld      \* bound: shares of one symbol in the account

ASSUME GapBoundsAssumption ==
    /\ MaxOpen \in Nat /\ MaxTrades \in Nat /\ MaxRetries \in Nat
    /\ MaxHeld \in Nat \ {0}
ASSUME GapSymbolsAssumption == Symbols # {}

VARIABLES
    gtHeld,    \* gtHeld[s]: shares of s in the account
    gtBuying,  \* gtBuying[s]: shares of s in accepted purchases, not filled
    gtSelling, \* gtSelling[s]: the same of sales
    gtQty,     \* gtQty[k][s]: quantity session k watches, 0: not open
    gtTp1,     \* gtTp1[k][s]: tp1_executed
    gtTrades,  \* gtTrades[k]: trade_count, up to MaxTrades
    gtSeen,    \* gtSeen[k][s]: shares of s in the balance that session k has
               \* read and not registered yet, 0 if k watches s
    gtPc,      \* gtPc[k]: "idle", "sync", "loop" in a job, or "order"
    gtJob,     \* gtJob[k]: what the session does
    gtTodo,    \* gtTodo[k]: symbols of the job still to come
    gtOrder,   \* gtOrder[k]: the order being sent
    gtTry,     \* gtTry[k]: attempts that failed
    gtBlur,    \* history: gtBlur[k][s], the quantity that k watches or is
               \* to register is not what the account comes to: a reply about
               \* s was lost, another session traded s, k bought it when the
               \* account had shares of it, its orders were working when k
               \* read the balance, or an accepted order lapsed
    gtHalves   \* history: gtHalves[k][s], take-profit halves that k sold of s
               \* while it watched s with gtBlur[k][s] FALSE

gtAccount == <<gtHeld, gtBuying, gtSelling>>
gtWatch == <<gtQty, gtTp1, gtTrades, gtBlur, gtHalves>>

gtVars == <<gtAccount, gtWatch, gtSeen, gtPc, gtJob, gtTodo, gtOrder, gtTry>>

Shares == 0 .. MaxHeld
Orders == [side: {"buy", "sell"}, sym: Symbols, qty: Shares, tp1: BOOLEAN]

GapTypeOK ==
    /\ gtHeld \in [Symbols -> Shares]
    /\ gtBuying \in [Symbols -> Shares]
    /\ gtSelling \in [Symbols -> Shares]
    /\ gtQty \in [Sessions -> [Symbols -> Shares]]
    /\ gtTp1 \in [Sessions -> [Symbols -> BOOLEAN]]
    /\ gtTrades \in [Sessions -> 0 .. MaxTrades]
    /\ gtSeen \in [Sessions -> [Symbols -> Shares]]
    /\ gtPc \in [Sessions -> {"idle", "sync", "loop", "order"}]
    /\ gtJob \in [Sessions -> {"none", "check", "buy", "sell"}]
    /\ gtTodo \in [Sessions -> SUBSET Symbols]
    /\ gtOrder \in [Sessions -> Orders]
    /\ gtTry \in [Sessions -> 0 .. MaxRetries]
    /\ gtBlur \in [Sessions -> [Symbols -> BOOLEAN]]
    /\ gtHalves \in [Sessions -> [Symbols -> Shares]]

NoOrder == [side |-> "buy", sym |-> CHOOSE s \in Symbols : TRUE, qty |-> 0,
            tp1 |-> FALSE]

\* The account may hold shares the programme did not buy.
GapInit ==
    /\ gtHeld \in [Symbols -> Shares]
    /\ gtBuying = [s \in Symbols |-> 0]
    /\ gtSelling = [s \in Symbols |-> 0]
    /\ gtQty = [k \in Sessions |-> [s \in Symbols |-> 0]]
    /\ gtTp1 = [k \in Sessions |-> [s \in Symbols |-> FALSE]]
    /\ gtTrades = [k \in Sessions |-> 0]
    /\ gtSeen = [k \in Sessions |-> [s \in Symbols |-> 0]]
    /\ gtPc = [k \in Sessions |-> "idle"]
    /\ gtJob = [k \in Sessions |-> "none"]
    /\ gtTodo = [k \in Sessions |-> {}]
    /\ gtOrder = [k \in Sessions |-> NoOrder]
    /\ gtTry = [k \in Sessions |-> 0]
    /\ gtBlur = [k \in Sessions |-> [s \in Symbols |-> FALSE]]
    /\ gtHalves = [k \in Sessions |-> [s \in Symbols |-> 0]]

\* What the account holds of s once its working orders are filled.
Expected(s) == gtHeld[s] + gtBuying[s] - gtSelling[s]

\* Some order of s is working.
Working(s) == gtBuying[s] + gtSelling[s] > 0

\* get_open_positions.
OpenOf(k) == {s \in Symbols : gtQty[k][s] > 0}

\* can_open_new_position: the count of trades is one of sales only.
CanOpen(k) == Cardinality(OpenOf(k)) < MaxOpen /\ gtTrades[k] < MaxTrades

(***************************************************************************)
(* The jobs of a session.                                                  *)
(***************************************************************************)

\* A job of session k has todo still to come, if anything.
RestOfJob(k, todo, job) ==
    /\ gtTodo' = [gtTodo EXCEPT ![k] = todo]
    /\ gtJob' = [gtJob EXCEPT ![k] = IF todo = {} THEN "none" ELSE job]

\* Session k goes on with todo in a job, or is done.
Continue(k, todo, job) ==
    /\ gtPc' = [gtPc EXCEPT ![k] = IF todo = {} THEN "idle" ELSE "loop"]
    /\ RestOfJob(k, todo, job)

\* Session k has the executor send order o.
Place(k, o) ==
    /\ gtOrder' = [gtOrder EXCEPT ![k] = o]
    /\ gtPc' = [gtPc EXCEPT ![k] = "order"]

\* An exit check begins: sync_from_broker reads the balance, which cannot
\* always be read, and which does not show orders that are working.
ReadBalance(k) ==
    /\ gtPc[k] = "idle"
    /\ \E read \in BOOLEAN :
          LET found == {s \in Symbols : read /\ gtHeld[s] > 0 /\ s \notin OpenOf(k)}
          IN
          /\ gtSeen' = [gtSeen EXCEPT ![k] = [s \in Symbols |->
                           IF s \in found THEN gtHeld[s] ELSE 0]]
          /\ gtBlur' = [gtBlur EXCEPT ![k] = [s \in Symbols |->
                           IF s \in found THEN Working(s) ELSE gtBlur[k][s]]]
    /\ gtPc' = [gtPc EXCEPT ![k] = "sync"]
    /\ UNCHANGED <<gtAccount, gtQty, gtTp1, gtTrades, gtHalves, gtJob, gtTodo,
                   gtOrder, gtTry>>

\* What it showed and k does not watch is registered: a new position.  Then
\* every open position is judged.
RegisterFound(k) ==
    LET found == {s \in Symbols : gtSeen[k][s] > 0} IN
    /\ gtPc[k] = "sync"
    /\ gtQty' = [gtQty EXCEPT ![k] = [s \in Symbols |->
                    IF s \in found THEN gtSeen[k][s] ELSE gtQty[k][s]]]
    /\ gtSeen' = [gtSeen EXCEPT ![k] = [s \in Symbols |-> 0]]
    /\ Continue(k, OpenOf(k) \cup found, "check")
    /\ UNCHANGED <<gtAccount, gtTp1, gtTrades, gtBlur, gtHalves, gtOrder, gtTry>>

\* auto_buy_all of the candidates, or sell_all of the open positions.
StartJob(k) ==
    /\ gtPc[k] = "idle"
    /\ \/ \E candidates \in SUBSET Symbols : Continue(k, candidates, "buy")
       \/ Continue(k, OpenOf(k), "sell")
    /\ UNCHANGED <<gtAccount, gtWatch, gtSeen, gtOrder, gtTry>>

\* A candidate's turn: the limits are asked again before each purchase, and
\* end the job; the safety gates pass over the candidate.
BuyNext(k) ==
    /\ gtPc[k] = "loop" /\ gtJob[k] = "buy"
    /\ \/ ~CanOpen(k) /\ Continue(k, {}, "buy") /\ UNCHANGED gtOrder
       \/ /\ CanOpen(k)
          /\ \E s \in gtTodo[k] :
                \/ Continue(k, gtTodo[k] \ {s}, "buy") /\ UNCHANGED gtOrder
                \/ /\ RestOfJob(k, gtTodo[k] \ {s}, "buy")
                   /\ Place(k, [side |-> "buy", sym |-> s, qty |-> 1,
                                tp1 |-> FALSE])
    /\ UNCHANGED <<gtAccount, gtWatch, gtSeen, gtTry>>

\* Faulty variant: the first half is sold again and again.
HalfWithoutLimit(k, s) == TRUE

\* "50% 익절 (최초 1회)": the first take-profit sells half, once.
HalfAllowed(k, s) == ~gtTp1[k][s]

\* max(1, int(quantity * 0.5)).
Half(n) == IF n \div 2 > 1 THEN n \div 2 ELSE 1

\* An open position's turn in the exit check: kept (or without a price), all
\* of it sold, half of it at the first take-profit, or half below the VWAP.
CheckNext(k) ==
    /\ gtPc[k] = "loop" /\ gtJob[k] = "check"
    /\ \E s \in gtTodo[k] :
          LET sale(n, half) == [side |-> "sell", sym |-> s, qty |-> n, tp1 |-> half]
              n == gtQty[k][s]
          IN
          \/ Continue(k, gtTodo[k] \ {s}, "check") /\ UNCHANGED gtOrder
          \/ /\ RestOfJob(k, gtTodo[k] \ {s}, "check")
             /\ \/ Place(k, sale(n, FALSE))
                \/ HalfAllowed(k, s) /\ Place(k, sale(Half(n), TRUE))
                \/ Place(k, sale(Half(n), FALSE))
    /\ UNCHANGED <<gtAccount, gtWatch, gtSeen, gtTry>>

\* A position's turn in sell_all.
SellNext(k) ==
    /\ gtPc[k] = "loop" /\ gtJob[k] = "sell"
    /\ \E s \in gtTodo[k] :
          /\ RestOfJob(k, gtTodo[k] \ {s}, "sell")
          /\ Place(k, [side |-> "sell", sym |-> s, qty |-> gtQty[k][s],
                       tp1 |-> FALSE])
    /\ UNCHANGED <<gtAccount, gtWatch, gtSeen, gtTry>>

\* The page's own buttons: buy_now asks for no limit, manual_sell sells a part.
ManualOrder(k, s) ==
    /\ gtPc[k] = "idle"
    /\ \/ Place(k, [side |-> "buy", sym |-> s, qty |-> 1, tp1 |-> FALSE])
       \/ \E n \in 1 .. gtQty[k][s] :
             Place(k, [side |-> "sell", sym |-> s, qty |-> n, tp1 |-> FALSE])
    /\ UNCHANGED <<gtAccount, gtWatch, gtSeen, gtJob, gtTodo, gtTry>>

(***************************************************************************)
(* The order executor and what its callers do with the result.             *)
(***************************************************************************)

\* The order is over.
OrderDone(k) ==
    /\ gtOrder' = [gtOrder EXCEPT ![k] = NoOrder]
    /\ gtTry' = [gtTry EXCEPT ![k] = 0]
    /\ Continue(k, gtTodo[k], gtJob[k])

\* Session j watches s, or is about to register it.
Concerned(j, s) == gtQty[j][s] > 0 \/ gtSeen[j][s] > 0

\* The account accepts order o of k, which watches left shares of it then;
\* answered or not, the other sessions concerned are out of step from now on,
\* and k itself is when blurs.
Accept(k, o, left, blurs) ==
    /\ IF o.side = "buy"
         THEN gtHeld[o.sym] + gtBuying[o.sym] + o.qty <= MaxHeld
         ELSE gtSelling[o.sym] + o.qty <= gtHeld[o.sym]
    /\ gtBuying' = [gtBuying EXCEPT ![o.sym] =
                       IF o.side = "buy" THEN @ + o.qty ELSE @]
    /\ gtSelling' = [gtSelling EXCEPT ![o.sym] =
                        IF o.side = "sell" THEN @ + o.qty ELSE @]
    /\ gtBlur' = [j \in Sessions |-> [gtBlur[j] EXCEPT ![o.sym] =
                     IF j = k THEN left > 0 /\ (@ \/ blurs)
                     ELSE @ \/ Concerned(j, o.sym)]]
    /\ gtHalves' = [gtHalves EXCEPT ![k][o.sym] =
                     IF left = 0 THEN 0
                     ELSE IF o.tp1 /\ ~gtBlur[k][o.sym] /\ ~blurs THEN @ + 1
                     ELSE @]
    /\ UNCHANGED gtHeld

\* A share of a working order is filled ...
Fills(s) ==
    /\ \/ /\ gtBuying[s] > 0
          /\ gtBuying' = [gtBuying EXCEPT ![s] = @ - 1]
          /\ gtHeld' = [gtHeld EXCEPT ![s] = @ + 1]
          /\ UNCHANGED gtSelling
       \/ /\ gtSelling[s] > 0
          /\ gtSelling' = [gtSelling EXCEPT ![s] = @ - 1]
          /\ gtHeld' = [gtHeld EXCEPT ![s] = @ - 1]
          /\ UNCHANGED gtBuying
    /\ UNCHANGED <<gtWatch, gtSeen, gtPc, gtJob, gtTodo, gtOrder, gtTry>>

\* ... or never will be: the order is cancelled or the day ends.
Lapses(s) ==
    /\ \/ /\ gtBuying[s] > 0
          /\ gtBuying' = [gtBuying EXCEPT ![s] = @ - 1]
          /\ UNCHANGED gtSelling
       \/ /\ gtSelling[s] > 0
          /\ gtSelling' = [gtSelling EXCEPT ![s] = @ - 1]
          /\ UNCHANGED gtBuying
    /\ gtBlur' = [j \in Sessions |-> [gtBlur[j] EXCEPT ![s] = @ \/ Concerned(j, s)]]
    /\ UNCHANGED <<gtHeld, gtQty, gtTp1, gtTrades, gtHalves, gtSeen, gtPc, gtJob,
                   gtTodo, gtOrder, gtTry>>

\* register_position: a symbol that is watched already is left as it is.
Registered(k, o) == IF gtQty[k][o.sym] > 0 THEN gtQty[k][o.sym] ELSE o.qty

\* Faulty variant: the half is rounded down when the position is reduced.
RemainingRounded(k, o) ==
    IF o.qty >= gtQty[k][o.sym] /\ ~o.tp1 THEN 0
    ELSE gtQty[k][o.sym] - (IF o.tp1 THEN gtQty[k][o.sym] \div 2 ELSE o.qty)

\* What is left of the position after a sale.
Remaining(k, o) ==
    IF o.qty >= gtQty[k][o.sym] THEN 0 ELSE gtQty[k][o.sym] - o.qty

\* The broker accepts and answers, and that is taken for a fill: the purchase
\* is registered, or the sale recorded and the position reduced or closed.
GapAccepted(k) ==
    LET o == gtOrder[k]
        left == IF o.side = "buy" THEN Registered(k, o) ELSE Remaining(k, o)
        opens == o.side = "buy" /\ gtQty[k][o.sym] = 0
        more == o.side = "buy" /\ Expected(o.sym) > 0
    IN
    /\ gtPc[k] = "order"
    /\ Accept(k, o, left, more)
    /\ gtQty' = [gtQty EXCEPT ![k][o.sym] = left]
    /\ gtTp1' = [gtTp1 EXCEPT ![k][o.sym] =
                     ~opens /\ left > 0 /\ (@ \/ o.tp1)]
    /\ gtTrades' = [gtTrades EXCEPT ![k] =
                     IF o.side = "sell" /\ @ < MaxTrades THEN @ + 1 ELSE @]
    /\ OrderDone(k)
    /\ UNCHANGED gtSeen

\* Faulty variant: the last attempt is not counted.
MayRetryOnceMore(k) == gtTry[k] <= MaxRetries

\* for attempt in range(MAX_RETRIES + 1).
MayRetry(k) == gtTry[k] < MaxRetries

\* An attempt fails: refused, or accepted with the reply lost.  It is made
\* again, the whole order, until MaxRetries; then the position stays as it is.
GapFailed(k) ==
    LET o == gtOrder[k] IN
    /\ gtPc[k] = "order"
    /\ \/ UNCHANGED <<gtAccount, gtBlur, gtHalves>>
       \/ Accept(k, o, gtQty[k][o.sym], TRUE)
    /\ \/ /\ MayRetry(k)
          /\ gtTry' = [gtTry EXCEPT ![k] = @ + 1]
          /\ UNCHANGED <<gtPc, gtJob, gtTodo, gtOrder>>
       \/ ~MayRetry(k) /\ OrderDone(k)
    /\ UNCHANGED <<gtQty, gtTp1, gtTrades, gtSeen>>

GapStep(k) ==
    \/ ReadBalance(k) \/ RegisterFound(k) \/ StartJob(k) \/ BuyNext(k)
    \/ CheckNext(k) \/ SellNext(k) \/ GapAccepted(k) \/ GapFailed(k)
    \/ \E s \in Symbols : ManualOrder(k, s)

GapNext ==
    \/ \E k \in Sessions : GapStep(k)
    \/ \E s \in Symbols : Fills(s) \/ Lapses(s)

GapSpec == GapInit /\ [][GapNext]_gtVars

(***************************************************************************)
(* Properties.                                                             *)
(***************************************************************************)

\* The quantity a session watches is what the account comes to once the orders
\* it accepted are filled, and what it holds when none is working, whatever
\* halves, parts and retries the position went through.  The exceptions are
\* what no sync corrects (line 88 passes over what is watched): a reply was
\* lost; another session traded the symbol, also between the session's read
\* of the balance and the registration; the session bought it when the
\* account had shares of it or was buying some; the balance was read while
\* orders of it were working; an accepted order lapsed.
WatchedIsExpected ==
    \A k \in Sessions, s \in Symbols :
        gtQty[k][s] > 0 /\ ~gtBlur[k][s] => gtQty[k][s] = Expected(s)

\* "50% 익절 (최초 1회)" (position_guard.py:167): the first take-profit sells
\* one half of a position, also when the order was refused and sent again;
\* only a lost reply or trades outside the watch can make it two.
HalfSoldOnce ==
    \A k \in Sessions, s \in Symbols : gtHalves[k][s] <= 1
=============================================================================
