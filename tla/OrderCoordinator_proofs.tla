---------------------- MODULE OrderCoordinator_proofs ----------------------
(* Proofs that the safety of the order coordinator holds for every set of  *)
(* threads and of idempotency keys.                                        *)
EXTENDS OrderCoordinator, TLAPS

\* The lock excludes: a thread is inside the body of an order exactly when it
\* owns the lock, and its record is PENDING for as long as it is there.
LockInv ==
    \A t \in Threads :
        /\ pc[t] # "idle" <=> owner = t
        /\ owner = t => rec[key[t]] = "PENDING"
        /\ pc[t] = "read" => key[t] \in SellKeys

\* A sell about to be sent was cut to what is held.
SellInv ==
    \A t \in Threads :
        pc[t] = "send" /\ key[t] \in SellKeys => sent[t] <= held

\* No order of a key is unaccounted for while the key may still be (re)opened
\* or its order is still to be sent.
TakenInv ==
    /\ \A k \in Keys : rec[k] \in Retryable => acks[k] <= faults[k]
    /\ \A t \in Threads :
           pc[t] \in {"read", "send"} => acks[key[t]] <= faults[key[t]]

IInv ==
    /\ TypeOK
    /\ LockInv
    /\ PendingIsOwned
    /\ SellInv
    /\ NoOversell
    /\ TakenInv
    /\ TakenOncePerKey

-----------------------------------------------------------------------------

\* A free lock has no owner among the threads.
LEMMA OwnerIsThread == None \notin Threads
BY ThreadsAssumption

\* The initial states satisfy the inductive invariant.
LEMMA InitInv == Init => IInv
BY HeldAssumption, ThreadsAssumption
   DEF Init, IInv, TypeOK, LockInv, PendingIsOwned, SellInv, NoOversell,
       TakenInv, TakenOncePerKey, Status, Retryable

\* Every step keeps the variables in their types.
LEMMA TypeStep == TypeOK /\ [Next]_vars => TypeOK'
<1> SUFFICES ASSUME TypeOK, [Next]_vars PROVE TypeOK'
  OBVIOUS
<1> USE DEF TypeOK
<1>1. CASE UNCHANGED vars
  BY <1>1 DEF vars
<1>2. ASSUME NEW t \in Threads, Step(t) PROVE TypeOK'
  <2>1. ASSUME NEW k \in Keys, Refused(t, k) \/ Open(t, k) PROVE TypeOK'
    <3>1. CASE Refused(t, k)
      BY <3>1 DEF Refused, vars
    <3>2. CASE Open(t, k)
      <4>1. Want[k] \in Nat
        BY WantAssumption
      <4> QED
        BY <3>2, <4>1 DEF Open, Status
    <3> QED BY <2>1, <3>1, <3>2
  <2>2. CASE ReadFails(t)
    BY <2>2 DEF ReadFails, Leave, Status
  <2>3. CASE NothingToSell(t)
    BY <2>3 DEF NothingToSell, Leave, Status
  <2>4. CASE ReadHeld(t)
    <3>1. Want[key[t]] \in Nat
      BY WantAssumption
    <3>2. SellQty(key[t]) \in Nat
      BY <2>4, <3>1 DEF ReadHeld, SellQty
    <3> QED
      BY <2>4, <3>2 DEF ReadHeld
  <2>5. CASE SendFails(t)
    BY <2>5 DEF SendFails, Leave, Status
  <2>6. CASE ReplyLost(t)
    BY <2>6 DEF ReplyLost, Taken, Leave, Status
  <2>7. CASE Accepted(t)
    BY <2>7 DEF Accepted, Taken
  <2>8. CASE Confirmed(t)
    BY <2>8 DEF Confirmed, Leave, Status
  <2>9. CASE Unconfirmed(t)
    BY <2>9 DEF Unconfirmed, Leave, Status
  <2>10. CASE BodyRaises(t)
    BY <2>10 DEF BodyRaises, Leave, Status
  <2> QED
    BY <1>2, <2>1, <2>2, <2>3, <2>4, <2>5, <2>6, <2>7, <2>8, <2>9, <2>10 DEF Step
<1> QED
  BY <1>1, <1>2 DEF Next

\* Leaving the lock with a final or a retryable status keeps the lock's part
\* of the invariant.
LEMMA LeaveKeepsLock ==
    ASSUME TypeOK, LockInv, PendingIsOwned,
           NEW t \in Threads, pc[t] # "idle", key' = key,
           NEW s \in Status \ {"PENDING"}, Leave(t, s)
    PROVE  LockInv' /\ PendingIsOwned'
<1> USE DEF TypeOK
<1>1. owner = t /\ key[t] \in Keys
  BY DEF LockInv
<1>2. \A u \in Threads : pc'[u] = "idle"
  BY <1>1 DEF Leave, LockInv
<1>3. owner' = None /\ None \notin Threads
  BY ThreadsAssumption DEF Leave
<1>4. LockInv'
  BY <1>2, <1>3 DEF LockInv
<1>5. ASSUME NEW k \in Keys, rec'[k] = "PENDING" PROVE FALSE
  BY <1>1, <1>5 DEF Leave, PendingIsOwned
<1> QED
  BY <1>4, <1>5 DEF PendingIsOwned

\* The lock's part of the invariant is inductive.
LEMMA LockStep ==
    TypeOK /\ LockInv /\ PendingIsOwned /\ [Next]_vars
        => LockInv' /\ PendingIsOwned'
<1> SUFFICES ASSUME TypeOK, LockInv, PendingIsOwned, [Next]_vars
             PROVE  LockInv' /\ PendingIsOwned'
  OBVIOUS
<1>1. CASE UNCHANGED vars
  BY <1>1 DEF vars, LockInv, PendingIsOwned
<1>2. ASSUME NEW t \in Threads, Step(t) PROVE LockInv' /\ PendingIsOwned'
  <2>1. ASSUME NEW k \in Keys, Refused(t, k) PROVE LockInv' /\ PendingIsOwned'
    BY <2>1 DEF Refused, vars, LockInv, PendingIsOwned
  <2>2. ASSUME NEW k \in Keys, Open(t, k) PROVE LockInv' /\ PendingIsOwned'
    <3>1. \A u \in Threads : pc[u] = "idle"
      BY <2>2, ThreadsAssumption DEF Open, LockFree, LockInv
    <3>2. /\ owner' = t
          /\ key' = [key EXCEPT ![t] = k]
          /\ rec' = [rec EXCEPT ![k] = "PENDING"]
          /\ pc' = [pc EXCEPT ![t] = IF k \in SellKeys THEN "read" ELSE "send"]
      BY <2>2 DEF Open
    <3>3. LockInv'
      BY <3>1, <3>2 DEF LockInv, TypeOK
    <3>4. \A j \in Keys : rec[j] # "PENDING"
      BY <2>2, ThreadsAssumption DEF Open, LockFree, PendingIsOwned
    <3>5. PendingIsOwned'
      BY <3>2, <3>4 DEF PendingIsOwned, TypeOK
    <3> QED BY <3>3, <3>5
  <2>3. CASE ReadHeld(t)
    BY <2>3 DEF ReadHeld, LockInv, PendingIsOwned, TypeOK
  <2>4. CASE Accepted(t)
    BY <2>4 DEF Accepted, Taken, LockInv, PendingIsOwned, TypeOK
  <2>5. CASE \/ ReadFails(t) \/ NothingToSell(t) \/ SendFails(t) \/ ReplyLost(t)
             \/ Confirmed(t) \/ Unconfirmed(t) \/ BodyRaises(t)
    <3>1. pc[t] # "idle" /\ key' = key
      BY <2>5 DEF ReadFails, NothingToSell, SendFails, ReplyLost,
                  Confirmed, Unconfirmed, BodyRaises
    <3>2. \E s \in Status \ {"PENDING"} : Leave(t, s)
      BY <2>5 DEF ReadFails, NothingToSell, SendFails, ReplyLost,
                  Confirmed, Unconfirmed, BodyRaises, Status
    <3> QED
      BY <3>1, <3>2, LeaveKeepsLock
  <2> QED
    BY <1>2, <2>1, <2>2, <2>3, <2>4, <2>5 DEF Step
<1> QED
  BY <1>1, <1>2 DEF Next

\* Only the thread inside the lock reads, sends or confirms.
LEMMA OnlyOwnerMoves ==
    ASSUME TypeOK, LockInv, NEW t \in Threads, pc[t] # "idle"
    PROVE  /\ owner = t
           /\ \A u \in Threads : u # t => pc[u] = "idle"
           /\ rec[key[t]] = "PENDING"
           /\ key[t] \in Keys
BY DEF LockInv, TypeOK

\* The quantities: sells never exceed what is held, and the orders taken under
\* a key never exceed one plus the key's faults.
LEMMA SafetyStep ==
    IInv /\ [Next]_vars => SellInv' /\ NoOversell' /\ TakenInv' /\ TakenOncePerKey'
<1> SUFFICES ASSUME IInv, [Next]_vars
             PROVE  SellInv' /\ NoOversell' /\ TakenInv' /\ TakenOncePerKey'
  OBVIOUS
<1> DEFINE Safe == SellInv /\ NoOversell /\ TakenInv /\ TakenOncePerKey
<1> USE DEF IInv, TypeOK
<1>1. CASE UNCHANGED vars
  BY <1>1 DEF vars, SellInv, NoOversell, TakenInv, TakenOncePerKey
<1>2. ASSUME NEW t \in Threads, Step(t) PROVE Safe'
  <2>1. ASSUME NEW k \in Keys, Refused(t, k) PROVE Safe'
    BY <2>1 DEF Refused, vars, SellInv, NoOversell, TakenInv, TakenOncePerKey
  <2>2. ASSUME NEW k \in Keys, Open(t, k) PROVE Safe'
    <3>1. \A u \in Threads : pc[u] = "idle"
      BY <2>2, ThreadsAssumption DEF Open, LockFree, LockInv
    <3>2. acks[k] <= faults[k]
      BY <2>2 DEF Open, TakenInv
    <3> QED
      BY <2>2, <3>1, <3>2
         DEF Open, SellInv, NoOversell, TakenInv, TakenOncePerKey, Retryable
  <2> DEFINE Inside == \/ ReadFails(t) \/ NothingToSell(t) \/ ReadHeld(t)
                       \/ SendFails(t) \/ ReplyLost(t) \/ Accepted(t)
                       \/ Confirmed(t) \/ Unconfirmed(t) \/ BodyRaises(t)
  <2>3. CASE Inside
    <3>1. pc[t] # "idle"
      BY <2>3 DEF ReadFails, NothingToSell, ReadHeld, SendFails, ReplyLost,
                  Accepted, Confirmed, Unconfirmed, BodyRaises
    <3>2. /\ owner = t
          /\ \A u \in Threads : u # t => pc[u] = "idle"
          /\ rec[key[t]] = "PENDING"
          /\ key[t] \in Keys
      BY <3>1, OnlyOwnerMoves
    <3>3. CASE ReadFails(t) \/ NothingToSell(t) \/ SendFails(t)
      BY <3>2, <3>3 DEF ReadFails, NothingToSell, SendFails, Leave,
                        SellInv, NoOversell, TakenInv, TakenOncePerKey, Retryable
    <3>4. CASE ReadHeld(t)
      <4>1. Want[key[t]] \in Nat
        BY <3>2, WantAssumption
      <4>2. SellQty(key[t]) <= held
        BY <3>4, <4>1 DEF ReadHeld, SellQty
      <4> QED
        BY <3>2, <3>4, <4>2
           DEF ReadHeld, SellInv, NoOversell, TakenInv, TakenOncePerKey
    <3>5. CASE ReplyLost(t) \/ Accepted(t)
      <4>1. pc[t] = "send" /\ Taken(t) /\ key' = key /\ sent' = sent
        BY <3>5 DEF ReplyLost, Accepted
      <4>2. NoOversell'
        BY <4>1 DEF Taken, SellInv, NoOversell
      <4>3. acks[key[t]] <= faults[key[t]]
        BY <4>1 DEF TakenInv
      <4>4. SellInv' /\ TakenInv' /\ TakenOncePerKey'
        BY <3>2, <3>5, <4>1, <4>3
           DEF ReplyLost, Accepted, Taken, Leave, SellInv, TakenInv,
               TakenOncePerKey, Retryable
      <4> QED BY <4>2, <4>4
    <3>6. CASE Confirmed(t) \/ Unconfirmed(t)
      BY <3>2, <3>6 DEF Confirmed, Unconfirmed, Leave,
                        SellInv, NoOversell, TakenInv, TakenOncePerKey, Retryable
    <3>7. CASE BodyRaises(t)
      BY <3>2, <3>7 DEF BodyRaises, Leave,
                        SellInv, NoOversell, TakenInv, TakenOncePerKey, Retryable
    <3> QED
      BY <2>3, <3>3, <3>4, <3>5, <3>6, <3>7
  <2> QED
    BY <1>2, <2>1, <2>2, <2>3 DEF Step
<1> QED
  BY <1>1, <1>2 DEF Next

\* The invariant holds in every behaviour.
THEOREM Inductive == Spec => []IInv
<1>1. IInv /\ [Next]_vars => IInv'
  BY TypeStep, LockStep, SafetyStep DEF IInv
<1> QED
  BY InitInv, <1>1, PTL DEF Spec

\* Every variable of the coordinator keeps its type.
THEOREM TypeCorrect == Spec => []TypeOK
<1>1. IInv => TypeOK
  BY DEF IInv
<1> QED
  BY Inductive, <1>1, PTL

\* However many threads sell the same shares under different keys, the account
\* is never oversold: the claim of coordinated_order's docstring, for orders
\* that fill when they are taken.
THEOREM Oversell == Spec => []NoOversell
<1>1. IInv => NoOversell
  BY DEF IInv
<1> QED
  BY Inductive, <1>1, PTL

\* The broker takes a request once, plus once for every fault that marked a
\* taken order as FAILED.
THEOREM TakenOnce == Spec => []TakenOncePerKey
<1>1. IInv => TakenOncePerKey
  BY DEF IInv
<1> QED
  BY Inductive, <1>1, PTL

\* No error path leaves a PENDING record behind the lock.
THEOREM PendingOwned == Spec => []PendingIsOwned
<1>1. IInv => PendingIsOwned
  BY DEF IInv
<1> QED
  BY Inductive, <1>1, PTL
=============================================================================
