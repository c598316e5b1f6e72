------------------------- MODULE OrderCoordinator -------------------------
(***************************************************************************)
(* The shared order coordinator of src/app/trading/exit_order_coordinator. *)
(* Every order of the Enhanced engine (_execute_sell and _buy_new of       *)
(* hynix_switch_position_manager.py) and of the MACD engine is sent inside *)
(* `with coordinated_order(...)`: one process-wide lock, held from the     *)
(* duplicate check until the order is confirmed, and one record per        *)
(* idempotency key.                                                        *)
(*                                                                         *)
(* The module follows the orders of one symbol.  Threads are the fast      *)
(* worker, the dynamic-exit watcher, the MACD worker and the pages of the  *)
(* user interface.  An idempotency key holds the side, the event and (for  *)
(* a sell) the quantity of the request, so a key determines its request.   *)
(***************************************************************************)
EXTENDS Integers, FiniteSets

CONSTANTS
    Threads,      \* the threads of the process that place orders
    SellKeys,     \* idempotency keys of sell requests
    BuyKeys,      \* idempotency keys of buy requests
    Want,         \* Want[k]: the quantity requested under key k
    InitialHeld,  \* shares on the account at the start
    MaxFaults     \* bound: faults of one key that the model explores

Keys == SellKeys \cup BuyKeys

ASSUME KeysAssumption == SellKeys \cap BuyKeys = {}
ASSUME WantAssumption == Want \in [Keys -> Nat \ {0}]
ASSUME HeldAssumption == InitialHeld \in Nat
ASSUME FaultsAssumption == MaxFaults \in Nat

None == "none"
ASSUME ThreadsAssumption == None \notin Threads

\* ORDER_PENDING ... ORDER_CANCELLED, and "NEW": the key has no record yet.
Status == {"NEW", "PENDING", "ACCEPTED", "FILLED", "FAILED", "CANCELLED"}

\* Faulty variant: an accepted order may be sent again.
RetryableAccepted == {"NEW", "ACCEPTED", "FAILED", "CANCELLED"}

\* TERMINAL_RETRYABLE, and a key without a record.
Retryable == {"NEW", "FAILED", "CANCELLED"}

VARIABLES
    rec,      \* rec[k]: status of the record of key k (_order_records)
    owner,    \* the thread inside _order_lock, or None
    pc,       \* pc[t]: where thread t is in the body of its order
    key,      \* key[t]: the idempotency key thread t last asked for
    sent,     \* sent[t]: the quantity thread t sends (actual_sell_qty)
    held,     \* shares on the account, at the broker
    acks,     \* history: orders the broker took under each key
    faults    \* history: orders taken whose key was marked FAILED anyway

vars == <<rec, owner, pc, key, sent, held, acks, faults>>

TypeOK ==
    /\ rec \in [Keys -> Status]
    /\ owner \in Threads \cup {None}
    /\ pc \in [Threads -> {"idle", "read", "send", "confirm"}]
    /\ key \in [Threads -> Keys]
    /\ sent \in [Threads -> Nat]
    /\ held \in Int
    /\ acks \in [Keys -> Nat]
    /\ faults \in [Keys -> Nat]

Init ==
    /\ rec = [k \in Keys |-> "NEW"]
    /\ owner = None
    /\ pc = [t \in Threads |-> "idle"]
    /\ key \in [Threads -> Keys]
    /\ sent = [t \in Threads |-> 0]
    /\ held = InitialHeld
    /\ acks = [k \in Keys |-> 0]
    /\ faults = [k \in Keys |-> 0]

-----------------------------------------------------------------------------

\* `with _order_lock` lets one thread in.  The lock is an RLock; no body places
\* an order inside another order's body, so it is never re-entered.
LockFree == owner = None

\* `with _order_lock`, then the duplicate check.  A key whose record is not
\* retryable is refused and the lock is left in the same breath.
Refused(t, k) ==
    /\ pc[t] = "idle"
    /\ LockFree
    /\ rec[k] \notin Retryable
    /\ UNCHANGED vars

\* A key with no record, or a FAILED or CANCELLED one, becomes PENDING and
\* the caller's body runs with the lock held.
Open(t, k) ==
    /\ pc[t] = "idle"
    /\ LockFree
    /\ rec[k] \in Retryable
    /\ owner' = t
    /\ key' = [key EXCEPT ![t] = k]
    /\ rec' = [rec EXCEPT ![k] = "PENDING"]
    /\ sent' = [sent EXCEPT ![t] = Want[k]]
    /\ pc' = [pc EXCEPT ![t] = IF k \in SellKeys THEN "read" ELSE "send"]
    /\ UNCHANGED <<held, acks, faults>>

\* Faulty variant: the body ends without a mark and no `finally` closes it.
LeaveUnmarked(t, status) ==
    /\ rec' = rec
    /\ owner' = None
    /\ pc' = [pc EXCEPT ![t] = "idle"]

\* CoordinatedOrder.mark, followed by the end of the `with` block.
Leave(t, status) ==
    /\ rec' = [rec EXCEPT ![key[t]] = status]
    /\ owner' = None
    /\ pc' = [pc EXCEPT ![t] = "idle"]

\* _execute_sell asks the broker what is held, inside the lock (a failed query
\* asks the position manager's own sync; both together are one read here).
\* No answer: the record is FAILED and nothing is sent.
ReadFails(t) ==
    /\ pc[t] = "read"
    /\ Leave(t, "FAILED")
    /\ UNCHANGED <<key, sent, held, acks, faults>>

\* Nothing held: the record is CANCELLED and nothing is sent.  (Left out: a
\* simulation without a position manager then sends the position of the state,
\* and the broker refuses it.)
NothingToSell(t) ==
    /\ pc[t] = "read"
    /\ held <= 0
    /\ Leave(t, "CANCELLED")
    /\ UNCHANGED <<key, sent, held, acks, faults>>

\* Faulty variant: the quantity that should remain is sent, not the one to sell.
SellQtyRemaining(k) == held - Want[k]

\* Faulty variant: the requested quantity is sent as it is.
SellQtyAsked(k) == Want[k]

\* actual_sell_qty = min(sell_qty, broker_held_qty)
SellQty(k) == IF Want[k] <= held THEN Want[k] ELSE held

ReadHeld(t) ==
    /\ pc[t] = "read"
    /\ held > 0
    /\ sent' = [sent EXCEPT ![t] = SellQty(key[t])]
    /\ pc' = [pc EXCEPT ![t] = "send"]
    /\ UNCHANGED <<rec, owner, key, held, acks, faults>>

\* The broker refuses the order, or the call raises before it is taken.
SendFails(t) ==
    /\ pc[t] = "send"
    /\ Leave(t, "FAILED")
    /\ UNCHANGED <<key, sent, held, acks, faults>>

\* The broker takes the order of thread t.  It fills at once, as in
\* dry_run_broker.py; MacdOrder has the orders that fill later.
Taken(t) ==
    /\ held' = IF key[t] \in SellKeys THEN held - sent[t] ELSE held + sent[t]
    /\ acks' = [acks EXCEPT ![key[t]] = @ + 1]

\* The reply is lost: KisMockBroker and KisRealBroker catch the exception and
\* report a failure.
ReplyLost(t) ==
    /\ pc[t] = "send"
    /\ faults[key[t]] < MaxFaults
    /\ Taken(t)
    /\ faults' = [faults EXCEPT ![key[t]] = @ + 1]
    /\ Leave(t, "FAILED")
    /\ UNCHANGED <<key, sent>>

Accepted(t) ==
    /\ pc[t] = "send"
    /\ Taken(t)
    /\ pc' = [pc EXCEPT ![t] = "confirm"]
    /\ UNCHANGED <<rec, owner, key, sent, faults>>

\* The balance is read again: FILLED when the query answers, ACCEPTED if not.
Confirmed(t) ==
    /\ pc[t] = "confirm"
    /\ Leave(t, "FILLED")
    /\ UNCHANGED <<key, sent, held, acks, faults>>

Unconfirmed(t) ==
    /\ pc[t] = "confirm"
    /\ Leave(t, "ACCEPTED")
    /\ UNCHANGED <<key, sent, held, acks, faults>>

\* The body raises after the broker took the order (the ledger row cannot be
\* written).  coordinated_order marks the key FAILED whatever the body had
\* marked before; nobody sees the status in between, the lock is still held.
BodyRaises(t) ==
    /\ pc[t] = "confirm"
    /\ faults[key[t]] < MaxFaults
    /\ faults' = [faults EXCEPT ![key[t]] = @ + 1]
    /\ Leave(t, "FAILED")
    /\ UNCHANGED <<key, sent, held, acks>>

Step(t) ==
    \/ \E k \in Keys : Refused(t, k) \/ Open(t, k)
    \/ ReadFails(t) \/ NothingToSell(t) \/ ReadHeld(t)
    \/ SendFails(t) \/ ReplyLost(t) \/ Accepted(t)
    \/ Confirmed(t) \/ Unconfirmed(t) \/ BodyRaises(t)

Next == \E t \in Threads : Step(t)

Spec == Init /\ [][Next]_vars

-----------------------------------------------------------------------------

\* Overlapping sells never sell more than the account holds, whatever their
\* keys: the held quantity is read, the order sent and the balance confirmed
\* under one lock (docstring of coordinated_order).
NoOversell == held >= 0

\* One request is executed at most once.  The broker takes a second order
\* under the same key only after a fault marked a key whose order had been
\* taken as FAILED (a lost reply, or an exception after the acceptance).
TakenOncePerKey == \A k \in Keys : acks[k] <= 1 + faults[k]

\* A PENDING record belongs to the thread inside the lock.  One left behind by
\* an error path would refuse its key for as long as the process lives.
PendingIsOwned ==
    \A k \in Keys :
        rec[k] = "PENDING" => owner \in Threads /\ key[owner] = k
=============================================================================
