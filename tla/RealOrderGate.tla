--------------------------- MODULE RealOrderGate ---------------------------
(***************************************************************************)
(* The last gates before a real order: the limits of a KisRealBroker       *)
(* (src/app/trading/kis_real_broker.py), the emergency stop and the lock   *)
(* of real orders (src/app/trading/emergency_stop.py), and the page's stop *)
(* button with its liquidation (src/app/ui/real_emergency_controls.py).    *)
(*                                                                         *)
(* The stop is a file that every process reads; the order lock is one per  *)
(* process.  get_emergency_stop_state asks first whether the file exists   *)
(* and answers "active" for whatever it finds or fails to read after that, *)
(* so the file counts from the moment it is created, empty, until it is    *)
(* deleted: gateFlag says that it exists.                                  *)
(***************************************************************************)
EXTENDS Integers

CONSTANTS
    GateThreads,    \* threads that trade or serve the page
    Processes,
    ProcessOf,      \* ProcessOf[t]: the process of thread t
    PerOrder,       \* the limit of one purchase
    DailyLimit,     \* the limit of one day's purchases
    AutoReduce,     \* a purchase over a limit is made smaller
    MaxBought,      \* bound: amount bought in the day
    MaxPositions    \* bound: positions of the account

ASSUME GateProcessAssumption == ProcessOf \in [GateThreads -> Processes]
ASSUME GateLimitAssumption ==
    /\ PerOrder \in Nat /\ DailyLimit \in Nat /\ AutoReduce \in BOOLEAN
    /\ MaxBought \in Nat /\ MaxPositions \in Nat

NoThread == "none"
ASSUME NoThreadAssumption == NoThread \notin GateThreads

VARIABLES
    gateFlag,     \* the stop file exists
    gateLock,     \* gateLock[p]: the thread that holds _ORDER_LOCK of p
    gatePc,       \* gatePc[t]: where thread t is in its order
    gateSide,     \* gateSide[t]: the side of its order
    gateAmount,   \* gateAmount[t]: the amount of its purchase
    gateAllow,    \* gateAllow[t]: allow_liquidation of thread t
    gateTodo,     \* gateTodo[t]: positions its liquidation has still to sell
    gateSum,      \* gateSum[t]: _daily_ordered_amount of its broker object
    gateBought,   \* the amount bought at the broker in the day
    gateLate      \* history: gateLate[p], orders without the liquidation's
                  \* permission that p sent since the stop was set

gateVars == <<gateFlag, gateLock, gatePc, gateSide, gateAmount, gateAllow,
              gateTodo, gateSum, gateBought, gateLate>>

Sides == {"buy", "sell"}
Amounts == 0 .. PerOrder

GateTypeOK ==
    /\ gateFlag \in BOOLEAN
    /\ gateLock \in [Processes -> GateThreads \cup {NoThread}]
    /\ gatePc \in [GateThreads -> {"idle", "page", "first", "second", "send"}]
    /\ gateSide \in [GateThreads -> Sides]
    /\ gateAmount \in [GateThreads -> Amounts]
    /\ gateAllow \in [GateThreads -> BOOLEAN]
    /\ gateTodo \in [GateThreads -> 0 .. MaxPositions]
    /\ gateSum \in [GateThreads -> 0 .. DailyLimit]
    /\ gateBought \in 0 .. MaxBought
    /\ gateLate \in [Processes -> Nat]

GateInit ==
    /\ gateFlag \in BOOLEAN
    /\ gateLock = [p \in Processes |-> NoThread]
    /\ gatePc = [t \in GateThreads |-> "idle"]
    /\ gateSide = [t \in GateThreads |-> "sell"]
    /\ gateAmount = [t \in GateThreads |-> 0]
    /\ gateAllow = [t \in GateThreads |-> FALSE]
    /\ gateTodo = [t \in GateThreads |-> 0]
    /\ gateSum = [t \in GateThreads |-> 0]
    /\ gateBought = 0
    /\ gateLate = [p \in Processes |-> 0]

GateGo(t, p) == gatePc' = [gatePc EXCEPT ![t] = p]

\* The order of t is over; a liquidation goes on with its next position and
\* ends, permission included, after the last.
OrderOver(t) ==
    /\ IF gateTodo[t] > 1
         THEN GateGo(t, "first") /\ UNCHANGED gateAllow
         ELSE GateGo(t, "idle") /\ gateAllow' = [gateAllow EXCEPT ![t] = FALSE]
    /\ gateTodo' = [gateTodo EXCEPT ![t] = IF @ > 0 THEN @ - 1 ELSE 0]
    /\ gateAmount' = [gateAmount EXCEPT ![t] = 0]
    /\ gateSide' = [gateSide EXCEPT ![t] = IF gateTodo[t] > 1 THEN @ ELSE "sell"]

\* create_broker: most callers make a new broker object for each order, and
\* its sum starts at nought.
NewBroker(t) ==
    /\ gatePc[t] = "idle" /\ gateSum[t] # 0
    /\ gateSum' = [gateSum EXCEPT ![t] = 0]
    /\ UNCHANGED <<gateFlag, gateLock, gatePc, gateSide, gateAmount,
                   gateAllow, gateTodo, gateBought, gateLate>>

\* Faulty variant: the day's sum is not looked at.
WithinOrderLimit(t, a) == a <= PerOrder

\* _check_order_limits.
WithinLimits(t, a) == a <= PerOrder /\ gateSum[t] + a <= DailyLimit

\* The amount a purchase of a is made with: all of it, or with AutoReduce
\* what some smaller number of shares costs.
Sendable(t, a) ==
    IF WithinLimits(t, a) THEN {a}
    ELSE IF AutoReduce THEN {b \in 1 .. a : WithinLimits(t, b)} ELSE {}

\* buy, up to the lock: the limits.
Buy(t) ==
    /\ gatePc[t] = "idle"
    /\ \E a \in 1 .. PerOrder : \E b \in Sendable(t, a) :
           gateAmount' = [gateAmount EXCEPT ![t] = b]
    /\ gateSide' = [gateSide EXCEPT ![t] = "buy"]
    /\ GateGo(t, "first")
    /\ UNCHANGED <<gateFlag, gateLock, gateAllow, gateTodo, gateSum,
                   gateBought, gateLate>>

\* sell, up to the lock.
Sell(t) ==
    /\ gatePc[t] = "idle"
    /\ gateSide' = [gateSide EXCEPT ![t] = "sell"]
    /\ GateGo(t, "first")
    /\ UNCHANGED <<gateFlag, gateLock, gateAmount, gateAllow, gateTodo,
                   gateSum, gateBought, gateLate>>

MayPass(t) == gateFlag => gateSide[t] = "sell" /\ gateAllow[t]

\* real_order_lock, before the lock: the stop is looked at.
FirstCheck(t) ==
    /\ gatePc[t] = "first"
    /\ IF MayPass(t)
         THEN /\ GateGo(t, "second")
              /\ UNCHANGED <<gateAllow, gateTodo, gateAmount, gateSide>>
         ELSE OrderOver(t)
    /\ UNCHANGED <<gateFlag, gateLock, gateSum, gateBought, gateLate>>

\* Faulty variant: what was seen before the lock still counts.
StillMayPass(t) == TRUE

\* The stop as seen under the lock.
MayPassLocked(t) == MayPass(t)

\* ... with the lock taken, it is looked at once more.
SecondCheck(t) ==
    LET p == ProcessOf[t] IN
    /\ gatePc[t] = "second"
    /\ gateLock[p] = NoThread
    /\ IF MayPassLocked(t)
         THEN /\ gateLock' = [gateLock EXCEPT ![p] = t]
              /\ GateGo(t, "send")
              /\ UNCHANGED <<gateAllow, gateTodo, gateAmount, gateSide>>
         ELSE OrderOver(t) /\ UNCHANGED gateLock
    /\ UNCHANGED <<gateFlag, gateSum, gateBought, gateLate>>

\* The order goes to the broker and the lock is released.  The broker takes
\* it or not; a reply that is lost raises, and the sum is not increased.
Send(t) ==
    LET p == ProcessOf[t]
        late == gateFlag /\ ~gateAllow[t]
    IN
    /\ gatePc[t] = "send"
    /\ gateLock' = [gateLock EXCEPT ![p] = NoThread]
    /\ gateLate' = [gateLate EXCEPT ![p] = IF late THEN @ + 1 ELSE @]
    /\ \/ UNCHANGED <<gateBought, gateSum>>
       \/ /\ gateSide[t] = "buy"
          /\ gateBought + gateAmount[t] <= MaxBought
          /\ gateBought' = gateBought + gateAmount[t]
          /\ \/ gateSum' = [gateSum EXCEPT ![t] = @ + gateAmount[t]]
             \/ UNCHANGED gateSum
    /\ OrderOver(t)
    /\ UNCHANGED gateFlag

\* The button: activate_emergency_stop ...
Activate(t) ==
    /\ gatePc[t] = "idle"
    /\ gateFlag' = TRUE
    /\ gateLate' = IF gateFlag THEN gateLate ELSE [p \in Processes |-> 0]
    /\ GateGo(t, "page")
    /\ UNCHANGED <<gateLock, gateSide, gateAmount, gateAllow, gateTodo,
                   gateSum, gateBought>>

\* ... then the auto services are stopped and, with choice B, each position
\* the account shows is sold with permission.
Liquidate(t) ==
    /\ gatePc[t] = "page"
    /\ \E n \in 0 .. MaxPositions :
          /\ gateTodo' = [gateTodo EXCEPT ![t] = n]
          /\ gateAllow' = [gateAllow EXCEPT ![t] = n > 0]
          /\ GateGo(t, IF n > 0 THEN "first" ELSE "idle")
    /\ gateSide' = [gateSide EXCEPT ![t] = "sell"]
    /\ UNCHANGED <<gateFlag, gateLock, gateAmount, gateSum, gateBought,
                   gateLate>>

\* clear_emergency_stop, from the page that shows the stop.
ClearStop(t) ==
    /\ gatePc[t] = "idle" /\ gateFlag
    /\ gateFlag' = FALSE
    /\ UNCHANGED <<gateLock, gatePc, gateSide, gateAmount, gateAllow,
                   gateTodo, gateSum, gateBought, gateLate>>

GateNext == \E t \in GateThreads :
    \/ NewBroker(t) \/ Buy(t) \/ Sell(t) \/ FirstCheck(t) \/ SecondCheck(t)
    \/ Send(t) \/ Activate(t) \/ Liquidate(t) \/ ClearStop(t)

GateSpec == GateInit /\ [][GateNext]_gateVars

(***************************************************************************)
(* Properties.                                                             *)
(***************************************************************************)

\* Once the stop is set, a process sends at most one more order that is not
\* part of the liquidation: that of the thread past the second look at the
\* stop (line 88), however many threads wait for the lock.
StopBarsOrders == \A p \in Processes : gateLate[p] <= 1

\* "max_daily_order_amount ... 일일 최대 주문금액" (config.yaml:97): the
\* purchases of a day stay within the daily limit.
DailyLimitHolds == gateBought <= DailyLimit
=============================================================================
