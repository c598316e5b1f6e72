------------------------ MODULE RealOrderGate_proofs ------------------------
(***************************************************************************)
(* Proofs about the last gates of a real order: the types, and that a stop *)
(* bars all but one order of each process.                                 *)
(***************************************************************************)
EXTENDS RealOrderGate, TLAPS

-----------------------------------------------------------------------------
(* Types.  The sum of a broker object stays within the daily limit because *)
(* nothing comes between the check of a purchase and its addition.         *)

\* What a broker object has bought, and the purchase it sends, fit the limit.
SumFits == \A t \in GateThreads : gateSum[t] + gateAmount[t] <= DailyLimit

TypeInv == GateTypeOK /\ SumFits

LEMMA InitTypes == GateInit => TypeInv
  BY GateLimitAssumption DEF GateInit, TypeInv, GateTypeOK, SumFits, Sides,
     Amounts

\* The end of an order keeps the types of what it changes.
LEMMA OrderOverTypes ==
  ASSUME NEW t \in GateThreads, TypeInv, OrderOver(t)
  PROVE  /\ gatePc' \in [GateThreads -> {"idle", "page", "first", "second", "send"}]
         /\ gateSide' \in [GateThreads -> Sides]
         /\ gateAmount' \in [GateThreads -> Amounts]
         /\ gateAllow' \in [GateThreads -> BOOLEAN]
         /\ gateTodo' \in [GateThreads -> 0 .. MaxPositions]
         /\ gateAmount' = [gateAmount EXCEPT ![t] = 0]
  <1> DEFINE left == IF gateTodo[t] > 0 THEN gateTodo[t] - 1 ELSE 0
  <1>1. gateTodo' = [gateTodo EXCEPT ![t] = left]
    BY DEF OrderOver
  <1>2. left \in 0 .. MaxPositions
    BY GateLimitAssumption DEF TypeInv, GateTypeOK
  <1>3. gateTodo' \in [GateThreads -> 0 .. MaxPositions]
    <2> HIDE DEF left
    <2> QED BY <1>1, <1>2 DEF TypeInv, GateTypeOK
  <1>4. \/ gatePc' = [gatePc EXCEPT ![t] = "first"] /\ gateAllow' = gateAllow
        \/ /\ gatePc' = [gatePc EXCEPT ![t] = "idle"]
           /\ gateAllow' = [gateAllow EXCEPT ![t] = FALSE]
    BY DEF OrderOver, GateGo
  <1>5. /\ gatePc' \in [GateThreads -> {"idle", "page", "first", "second", "send"}]
        /\ gateAllow' \in [GateThreads -> BOOLEAN]
    BY <1>4 DEF TypeInv, GateTypeOK
  <1>6. gateSide' = gateSide \/ gateSide' = [gateSide EXCEPT ![t] = "sell"]
    <2>1. gateSide \in [GateThreads -> Sides]
      BY DEF TypeInv, GateTypeOK
    <2> QED BY <2>1 DEF OrderOver
  <1>7. gateSide' \in [GateThreads -> Sides]
    BY <1>6 DEF TypeInv, GateTypeOK, Sides
  <1>8. gateAmount' = [gateAmount EXCEPT ![t] = 0]
    BY DEF OrderOver
  <1>9. gateAmount' \in [GateThreads -> Amounts]
    BY <1>8, GateLimitAssumption DEF TypeInv, GateTypeOK, Amounts
  <1> QED BY <1>3, <1>5, <1>7, <1>8, <1>9

LEMMA StepTypes == TypeInv /\ [GateNext]_gateVars => TypeInv'
  <1> SUFFICES ASSUME TypeInv, [GateNext]_gateVars PROVE TypeInv'
    OBVIOUS
  <1> USE GateLimitAssumption, GateProcessAssumption
  <1>1. CASE UNCHANGED gateVars
    BY <1>1 DEF gateVars, TypeInv, GateTypeOK, SumFits
  <1>2. ASSUME NEW t \in GateThreads, NewBroker(t) PROVE TypeInv'
    BY <1>2 DEF NewBroker, TypeInv, GateTypeOK, SumFits, Amounts
  <1>3. ASSUME NEW t \in GateThreads, Buy(t) PROVE TypeInv'
    <2>1. PICK a \in 1 .. PerOrder : \E b \in Sendable(t, a) :
              gateAmount' = [gateAmount EXCEPT ![t] = b]
      BY <1>3 DEF Buy
    <2>5. PICK b \in Sendable(t, a) : gateAmount' = [gateAmount EXCEPT ![t] = b]
      BY <2>1
    <2>2. b \in Amounts /\ gateSum[t] + b <= DailyLimit
      BY DEF Sendable, WithinLimits, Amounts
    <2>3. gateAmount' \in [GateThreads -> Amounts] /\ SumFits'
      BY <1>3, <2>5, <2>2 DEF Buy, TypeInv, GateTypeOK, SumFits
    <2>4. gateSide' \in [GateThreads -> Sides]
      BY <1>3 DEF Buy, TypeInv, GateTypeOK, Sides
    <2> QED BY <1>3, <2>3, <2>4 DEF Buy, GateGo, TypeInv, GateTypeOK
  <1>4. ASSUME NEW t \in GateThreads, Sell(t) PROVE TypeInv'
    BY <1>4 DEF Sell, GateGo, TypeInv, GateTypeOK, SumFits, Sides
  <1>5. ASSUME NEW t \in GateThreads, FirstCheck(t) PROVE TypeInv'
    <2>1. CASE OrderOver(t)
      BY <1>5, <2>1, OrderOverTypes DEF FirstCheck, TypeInv, GateTypeOK,
         SumFits, Amounts
    <2>2. CASE GateGo(t, "second")
                 /\ UNCHANGED <<gateAllow, gateTodo, gateAmount, gateSide>>
      BY <1>5, <2>2 DEF FirstCheck, GateGo, TypeInv, GateTypeOK, SumFits
    <2> QED BY <1>5, <2>1, <2>2 DEF FirstCheck
  <1>6. ASSUME NEW t \in GateThreads, SecondCheck(t) PROVE TypeInv'
    <2>1. CASE OrderOver(t) /\ UNCHANGED gateLock
      BY <1>6, <2>1, OrderOverTypes DEF SecondCheck, TypeInv, GateTypeOK,
         SumFits, Amounts
    <2>2. CASE /\ gateLock' = [gateLock EXCEPT ![ProcessOf[t]] = t]
               /\ GateGo(t, "send")
               /\ UNCHANGED <<gateAllow, gateTodo, gateAmount, gateSide>>
      BY <1>6, <2>2 DEF SecondCheck, GateGo, TypeInv, GateTypeOK, SumFits
    <2> QED BY <1>6, <2>1, <2>2 DEF SecondCheck
  <1>7. ASSUME NEW t \in GateThreads, Send(t) PROVE TypeInv'
    <2>1. OrderOver(t) /\ gateFlag' = gateFlag
      BY <1>7 DEF Send
    <2>2. gateLock' \in [Processes -> GateThreads \cup {NoThread}]
          /\ gateLate' \in [Processes -> Nat]
      BY <1>7 DEF Send, TypeInv, GateTypeOK
    <2>3. gateBought' \in 0 .. MaxBought
      BY <1>7 DEF Send, TypeInv, GateTypeOK, Amounts
    <2>4. /\ gateSum' \in [GateThreads -> 0 .. DailyLimit]
          /\ \A u \in GateThreads : gateSum'[u] + gateAmount'[u] <= DailyLimit
      <3>1. gateAmount' = [gateAmount EXCEPT ![t] = 0]
        BY <2>1, OrderOverTypes
      <3>2. gateSum' = gateSum \/ gateSum' = [gateSum EXCEPT ![t] = @ + gateAmount[t]]
        BY <1>7 DEF Send
      <3> QED BY <3>1, <3>2 DEF TypeInv, GateTypeOK, SumFits, Amounts
    <2> QED BY <2>1, <2>2, <2>3, <2>4, OrderOverTypes
            DEF TypeInv, GateTypeOK, SumFits
  <1>8. ASSUME NEW t \in GateThreads, Activate(t) PROVE TypeInv'
    BY <1>8 DEF Activate, GateGo, TypeInv, GateTypeOK, SumFits
  <1>9. ASSUME NEW t \in GateThreads, Liquidate(t) PROVE TypeInv'
    BY <1>9 DEF Liquidate, GateGo, TypeInv, GateTypeOK, SumFits, Sides
  <1>10. ASSUME NEW t \in GateThreads, ClearStop(t) PROVE TypeInv'
    BY <1>10 DEF ClearStop, TypeInv, GateTypeOK, SumFits
  <1> QED BY <1>1, <1>2, <1>3, <1>4, <1>5, <1>6, <1>7, <1>8, <1>9, <1>10
          DEF GateNext

\* The gate's state keeps its types; in particular the sum of a broker object
\* never passes the daily limit (_check_order_limits).
THEOREM GateTyped == GateSpec => []GateTypeOK
  <1>1. TypeInv => GateTypeOK
    BY DEF TypeInv
  <1> QED BY <1>1, InitTypes, StepTypes, PTL DEF GateSpec

-----------------------------------------------------------------------------
(* The stop.                                                               *)

\* A thread that sends holds the lock of its process.
SenderHolds ==
    \A t \in GateThreads : gatePc[t] = "send" => gateLock[ProcessOf[t]] = t

\* Once an order went out late, no other of that process is about to.
NoneFollows ==
    \A t \in GateThreads :
        gateFlag /\ gateLate[ProcessOf[t]] >= 1 /\ gatePc[t] = "send"
            => gateAllow[t]

StopInv == SenderHolds /\ NoneFollows /\ StopBarsOrders

LEMMA InitStop == GateInit => StopInv
  BY GateProcessAssumption DEF GateInit, StopInv, SenderHolds, NoneFollows,
     StopBarsOrders

LEMMA StepStop == TypeInv /\ StopInv /\ [GateNext]_gateVars => StopInv'
  <1> SUFFICES ASSUME TypeInv, StopInv, [GateNext]_gateVars PROVE StopInv'
    OBVIOUS
  <1> USE GateProcessAssumption, NoThreadAssumption
      DEF StopInv, SenderHolds, NoneFollows, StopBarsOrders, TypeInv, GateTypeOK
  <1>1. CASE UNCHANGED gateVars
    BY <1>1 DEF gateVars
  <1>2. ASSUME NEW t \in GateThreads, NewBroker(t) PROVE StopInv'
    BY <1>2 DEF NewBroker
  <1>3. ASSUME NEW t \in GateThreads, Buy(t) PROVE StopInv'
    BY <1>3 DEF Buy, GateGo
  <1>4. ASSUME NEW t \in GateThreads, Sell(t) PROVE StopInv'
    BY <1>4 DEF Sell, GateGo
  <1>5. ASSUME NEW t \in GateThreads, FirstCheck(t) PROVE StopInv'
    BY <1>5 DEF FirstCheck, OrderOver, GateGo
  <1>6. ASSUME NEW t \in GateThreads, SecondCheck(t) PROVE StopInv'
    <2>1. CASE OrderOver(t) /\ UNCHANGED gateLock
      BY <1>6, <2>1 DEF SecondCheck, OrderOver, GateGo
    <2>2. CASE /\ gateLock' = [gateLock EXCEPT ![ProcessOf[t]] = t]
               /\ GateGo(t, "send") /\ MayPass(t)
               /\ UNCHANGED <<gateAllow, gateTodo, gateAmount, gateSide>>
      <3>1. gateLock[ProcessOf[t]] = NoThread /\ UNCHANGED <<gateFlag, gateLate>>
        BY <1>6 DEF SecondCheck
      <3>2. SenderHolds'
        BY <2>2, <3>1 DEF GateGo
      <3>3. NoneFollows' /\ StopBarsOrders'
        BY <2>2, <3>1 DEF GateGo, MayPass
      <3> QED BY <3>2, <3>3
    <2> QED BY <1>6, <2>1, <2>2 DEF SecondCheck, MayPassLocked
  <1>7. ASSUME NEW t \in GateThreads, Send(t) PROVE StopInv'
    <2> DEFINE p == ProcessOf[t]
    <2>1. /\ gatePc[t] = "send" /\ gateLock[p] = t /\ p \in Processes
          /\ gateFlag' = gateFlag
          /\ gateLock' = [gateLock EXCEPT ![p] = NoThread]
          /\ gateLate' = [gateLate EXCEPT ![p] =
                             IF gateFlag /\ ~gateAllow[t] THEN @ + 1 ELSE @]
      BY <1>7 DEF Send
    <2>2. gatePc'[t] # "send" /\ \A u \in GateThreads \ {t} :
              gatePc'[u] = gatePc[u] /\ gateAllow'[u] = gateAllow[u]
      BY <1>7 DEF Send, OrderOver, GateGo
    <2>3. \A u \in GateThreads \ {t} : gatePc[u] = "send" => ProcessOf[u] # p
      BY <2>1
    <2>4. SenderHolds'
      BY <2>1, <2>2, <2>3
    <2>5. NoneFollows'
      BY <2>1, <2>2, <2>3
    <2>6. StopBarsOrders'
      BY <2>1
    <2> QED BY <2>4, <2>5, <2>6
  <1>8. ASSUME NEW t \in GateThreads, Activate(t) PROVE StopInv'
    BY <1>8 DEF Activate, GateGo
  <1>9. ASSUME NEW t \in GateThreads, Liquidate(t) PROVE StopInv'
    BY <1>9 DEF Liquidate, GateGo
  <1>10. ASSUME NEW t \in GateThreads, ClearStop(t) PROVE StopInv'
    BY <1>10 DEF ClearStop
  <1> QED BY <1>1, <1>2, <1>3, <1>4, <1>5, <1>6, <1>7, <1>8, <1>9, <1>10
          DEF GateNext

\* Once the stop is set, a process sends at most one more order that is not
\* part of the liquidation, whatever number of threads waits for its lock.
THEOREM StopBars == GateSpec => []StopBarsOrders
  <1>1. StopInv => StopBarsOrders
    BY DEF StopInv
  <1> QED BY <1>1, InitTypes, StepTypes, InitStop, StepStop, PTL DEF GateSpec
-----------------------------------------------------------------------------
(* The daily limit.                                                        *)

\* Every purchase of the day passes the broker object of thread b, no other is
\* made in its place, and every purchase the broker takes is added to its sum.
OneObject(b) ==
    /\ \A t \in GateThreads : t # b => ~ Buy(t)
    /\ ~ NewBroker(b)
    /\ gateBought' # gateBought => gateSum' # gateSum

\* What was bought is in the sum of b, and no other thread has a purchase on its
\* way.
InSum(b) ==
    /\ gateBought <= gateSum[b]
    /\ \A t \in GateThreads : t # b => gateSide[t] = "sell"

LEMMA InSumStep ==
  ASSUME NEW b \in GateThreads
  PROVE  TypeInv /\ InSum(b) /\ [GateNext]_gateVars /\ [OneObject(b)]_gateVars => InSum(b)'
  <1> SUFFICES ASSUME TypeInv, InSum(b), GateNext, OneObject(b) PROVE InSum(b)'
    BY DEF gateVars, InSum
  <1>1. gateSide \in [GateThreads -> Sides] /\ gateSum \in [GateThreads -> 0 .. DailyLimit]
    BY DEF TypeInv, GateTypeOK
  <1>2. ASSUME NEW t \in GateThreads, OrderOver(t)
        PROVE  \A u \in GateThreads : u # b => gateSide'[u] = "sell"
    BY <1>1, <1>2 DEF OrderOver, InSum
  <1>3. PICK t \in GateThreads :
            \/ NewBroker(t) \/ Buy(t) \/ Sell(t) \/ FirstCheck(t) \/ SecondCheck(t)
            \/ Send(t) \/ Activate(t) \/ Liquidate(t) \/ ClearStop(t)
    BY DEF GateNext
  <1>4. CASE NewBroker(t)
    BY <1>1, <1>4 DEF NewBroker, OneObject, InSum
  <1>5. CASE Buy(t)
    <2>1. t = b
      BY <1>5 DEF OneObject
    <2> QED BY <1>1, <1>5, <2>1 DEF Buy, InSum
  <1>6. CASE Sell(t) \/ Liquidate(t)
    BY <1>1, <1>6 DEF Sell, Liquidate, InSum
  <1>7. CASE FirstCheck(t) \/ SecondCheck(t)
    BY <1>1, <1>2, <1>7 DEF FirstCheck, SecondCheck, InSum
  <1>8. CASE Send(t)
    <2>1. OrderOver(t)
      BY <1>8 DEF Send
    <2>2. gateBought' <= gateSum'[b]
      <3>1. CASE UNCHANGED <<gateBought, gateSum>>
        BY <3>1 DEF InSum
      <3>2. CASE ~ UNCHANGED <<gateBought, gateSum>>
        <4>1. t = b /\ gateBought' = gateBought + gateAmount[b]
          BY <1>8, <3>2 DEF Send, InSum
        <4>2. gateSum' = [gateSum EXCEPT ![b] = @ + gateAmount[b]]
          BY <1>8, <3>2, <4>1 DEF Send, OneObject
        <4> QED BY <1>1, <4>1, <4>2 DEF InSum, TypeInv, GateTypeOK, Amounts
      <3> QED BY <3>1, <3>2
    <2> QED BY <1>2, <2>1, <2>2 DEF InSum
  <1>9. CASE Activate(t) \/ ClearStop(t)
    BY <1>9 DEF Activate, ClearStop, InSum
  <1> QED BY <1>3, <1>4, <1>5, <1>6, <1>7, <1>8, <1>9

\* The daily limit of config.yaml holds of purchases that pass one broker object
\* with their replies, however they meet sales, stops and liquidations of other
\* threads and processes: it is exceeded only by several objects, an object made
\* anew in the day or a reply that was lost (kis_real_broker.py: line 93, line 403).
THEOREM LimitOfOneObject ==
  ASSUME NEW b \in GateThreads
  PROVE  GateSpec /\ [][OneObject(b)]_gateVars => []DailyLimitHolds
  <1>1. GateInit => InSum(b)
    BY DEF GateInit, InSum
  <1>2. TypeInv /\ InSum(b) => DailyLimitHolds
    BY GateLimitAssumption DEF TypeInv, GateTypeOK, InSum, DailyLimitHolds
  <1> QED BY <1>1, <1>2, InitTypes, StepTypes, InSumStep, PTL DEF GateSpec
=============================================================================
