------------------------ MODULE MacdRuntime_proofs ------------------------
(***************************************************************************)
(* Proofs about MacdRuntime, for every number of workers and pages.        *)
(*                                                                         *)
(* HeldOnce is not inductive: it rests on the order lock.  A thread that   *)
(* has asked the account or is about to buy owns the lock, and what it     *)
(* read (nothing held) is still so when it buys, because whoever changes   *)
(* the account owns the lock too.                                          *)
(***************************************************************************)
EXTENDS MacdRuntime, TLAPS

OrderInv ==
    /\ \A x \in Controllers : pc[x] \in {"peek", "buy"} => lock = x
    /\ \A x \in Controllers : pc[x] = "buy" => held = 0
    /\ HeldOnce

-----------------------------------------------------------------------------
(* Type correctness: first the steps that operations share. *)

\* The fresh state is a state, and the three kinds of threads are disjoint.
LEMMA Basics ==
    /\ Fresh \in State
    /\ Workers \subseteq Controllers /\ Pages \subseteq Controllers
    /\ Controllers \subseteq Threads /\ Watchdog \in Threads
    /\ Watchdog \notin Controllers
    /\ None \notin Threads
BY ThreadsAssumption DEF Fresh, State, Controllers, Threads

\* load_state
LEMMA LoadType ==
    ASSUME TypeOK, NEW x \in Threads, NEW s \in State, NEW step \in Steps,
           Load(x, s, step)
    PROVE  TypeOK'
BY DEF TypeOK, Load, Go, threads, past

\* save_state
LEMMA WriteType ==
    ASSUME TypeOK, NEW x \in Threads, NEW step \in Steps, Write(x, step)
    PROVE  TypeOK'
BY Basics DEF TypeOK, Write, Go, threads, past

\* The join of stop_worker keeps or clears _worker_thread.
LEMMA JoinType ==
    ASSUME TypeOK, NEW x \in Threads
    PROVE  Remaining(x) \in Workers \cup {None}
BY DEF TypeOK, Remaining

\* _start_worker_thread_only
LEMMA CreateType ==
    ASSUME TypeOK, NEW x \in Threads, NEW step \in Steps, Create(x, step)
    PROVE  TypeOK'
<1>1. PICK w \in Workers :
          /\ current' = w
          /\ stopEvent' = FALSE
          /\ pc' = [pc EXCEPT ![w] = "top", ![x] = step]
          /\ watching' = TRUE
          /\ UNCHANGED <<disk, copy, target, lock, held, presses, stopped>>
  BY DEF Create
<1>2. pc' \in [Threads -> Steps]
  BY <1>1, Basics DEF TypeOK, Steps
<1> QED
  BY <1>1, <1>2 DEF TypeOK

\* The end of an order.
LEMMA OrderedType ==
    ASSUME TypeOK, NEW x \in Threads, NEW s \in State, NEW n \in Nat,
           Ordered(x, s, n)
    PROVE  TypeOK'
BY DEF TypeOK, Ordered, Go, Steps, threads, past

\* A step that only moves a thread on.
LEMMA GoType ==
    ASSUME TypeOK, NEW x \in Threads, NEW step \in Steps, Go(x, step),
           UNCHANGED <<disk, copy, threads, lock, held, past>>
    PROVE  TypeOK'
BY DEF TypeOK, Go, threads, past

-----------------------------------------------------------------------------
(* Type correctness: the operations. *)

\* run_once keeps the types, whoever calls it.
LEMMA TickType ==
    ASSUME TypeOK, NEW x \in Controllers, Tick(x)
    PROVE  TypeOK'
<1>0. /\ x \in Threads /\ disk \in State /\ copy[x] \in State /\ held \in Nat
      /\ AfterTick(x) \in Steps
  BY Basics DEF TypeOK, AfterTick, Steps
<1>1. CASE TickLoad(x)
  <2>1. CASE Active(disk)
    BY <1>0, <1>1, <2>1, LoadType DEF TickLoad, Steps
  <2>2. CASE ~ Active(disk)
    <3>1. Load(x, IF x \in Workers THEN disk ELSE Fresh,
                  IF x \in Workers THEN "save" ELSE "idle")
      BY <1>1, <2>2 DEF TickLoad
    <3>2. /\ (IF x \in Workers THEN disk ELSE Fresh) \in State
          /\ (IF x \in Workers THEN "save" ELSE "idle") \in Steps
      BY <1>0, Basics DEF Steps
    <3> QED
      BY <1>0, <3>1, <3>2, LoadType
  <2> QED
    BY <2>1, <2>2
<1>2. CASE TickIdles(x) \/ PeekGoesOn(x)
  BY <1>0, <1>2, GoType DEF TickIdles, PeekGoesOn, Steps
<1>3. CASE TickOrders(x)
  BY <1>0, <1>3 DEF TickOrders, TypeOK, Go, Steps, threads, past
<1>4. CASE Liquidate(x)
  <2>1. [copy[x] EXCEPT !.pending = FALSE] \in State
    BY <1>0 DEF State
  <2> QED
    BY <1>0, <1>4, <2>1, OrderedType DEF Liquidate, Left
<1>5. CASE PeekSkips(x) \/ Buy(x)
  <2>1. [copy[x] EXCEPT !.processed = TRUE] \in State
    BY <1>0 DEF State
  <2>2. held + 1 \in Nat
    BY <1>0
  <2> QED
    BY <1>0, <1>5, <2>1, <2>2, OrderedType DEF PeekSkips, Buy
<1>6. CASE TickSave(x)
  BY <1>0, <1>6, WriteType DEF TickSave
<1> QED
  BY <1>1, <1>2, <1>3, <1>4, <1>5, <1>6 DEF Tick

\* So does the rest of the worker's loop.
LEMMA LoopType ==
    ASSUME TypeOK, NEW w \in Workers, Loop(w)
    PROVE  TypeOK'
<1>0. w \in Threads /\ w \in Controllers /\ disk \in State
  BY Basics DEF TypeOK
<1>1. CASE Beat(w) \/ ExitLoad(w)
  BY <1>0, <1>1, LoadType DEF Beat, ExitLoad, Steps
<1>2. CASE BeatSave(w) \/ ExitSave(w)
  BY <1>0, <1>2, WriteType DEF BeatSave, ExitSave, Steps
<1>3. CASE Leave(w)
  BY <1>0, <1>3, GoType DEF Leave, Steps
<1>4. CASE Tick(w)
  BY <1>0, <1>4, TickType
<1> QED
  BY <1>1, <1>2, <1>3, <1>4 DEF Loop

\* The page's operations keep the types.
LEMMA PageType ==
    ASSUME TypeOK, NEW p \in Pages, Press(p) \/ Handle(p)
    PROVE  TypeOK'
<1>0. /\ p \in Threads /\ p \in Controllers /\ disk \in State
      /\ copy[p] \in State /\ Remaining(p) \in Workers \cup {None}
  BY Basics, JoinType DEF TypeOK
<1>2. CASE Start(p)
  <2>1. presses' \in 0 .. MaxPresses
    BY <1>2, PressesAssumption DEF Start, Pressed, TypeOK
  <2>2. stopEvent' \in BOOLEAN /\ stopped' \in BOOLEAN
    BY <1>2, Zenon DEF Start, Signal
  <2>3. /\ pc' \in [Threads -> Steps]
        /\ target' \in [Threads -> Workers \cup {None}]
    BY <1>0, <1>2 DEF Start, Signal, Go, TypeOK, Steps
  <2> QED
    BY <1>2, <2>1, <2>2, <2>3 DEF Start, TypeOK
<1>3. CASE StartRefused(p) \/ Stop(p) \/ Request(p)
  <2>1. /\ [disk EXCEPT !.on = FALSE] \in State
        /\ [disk EXCEPT !.pending = TRUE] \in State
    BY <1>0 DEF State
  <2>2. PICK s \in State, step \in Steps : Command(p, s, step)
    BY <1>0, <1>3, <2>1 DEF StartRefused, Stop, Request, Steps
  <2> QED
    BY <1>0, <2>2, PressesAssumption DEF Command, Pressed, Go, TypeOK, threads
<1>4. CASE StartJoined(p)
  BY <1>0, <1>4 DEF StartJoined, Joined, Go, TypeOK, Steps, past
<1>5. CASE StartCheck(p)
  BY <1>0, <1>5 DEF StartCheck, Go, TypeOK, Steps, threads, past
<1>6. CASE StartCreate(p)
  BY <1>0, <1>6, CreateType DEF StartCreate, Steps
<1>7. CASE StartLoad(p) \/ ResumeLoad(p) \/ BootFails(p)
  <2>1. [disk EXCEPT !.on = TRUE] \in State
    BY <1>0 DEF State
  <2> QED
    BY <1>0, <1>7, <2>1, LoadType DEF StartLoad, ResumeLoad, BootFails, Steps
<1>8. CASE StartSave(p)
  BY <1>0, <1>8 DEF StartSave, Go, TypeOK, Steps, threads, past
<1>9. CASE BootSave(p) \/ ResumeSave(p) \/ RequestSave(p)
  BY <1>0, <1>9, WriteType DEF BootSave, ResumeSave, RequestSave, Steps
<1>10. CASE StopSave(p)
  BY <1>0, <1>10, Basics DEF StopSave, Signal, Go, TypeOK, Steps, past
<1>11. CASE StopJoined(p)
  <2>1. /\ current' \in Workers \cup {None} /\ stopped' \in BOOLEAN
        /\ target' \in [Threads -> Workers \cup {None}]
    BY <1>0, <1>11 DEF StopJoined, TypeOK
  <2>2. pc' \in [Threads -> Steps]
    BY <1>0, <1>11 DEF StopJoined, TypeOK, Go, Steps
  <2> QED
    BY <1>11, <2>1, <2>2 DEF StopJoined, TypeOK
<1>12. CASE Tick(p)
  BY <1>0, <1>12, TickType
<1> QED
  BY <1>2, <1>3, <1>4, <1>5, <1>6, <1>7, <1>8, <1>9, <1>10, <1>11, <1>12
     DEF Press, Handle

\* The watchdog's operations keep the types.
LEMMA WatchType ==
    ASSUME TypeOK, Watch
    PROVE  TypeOK'
<1>0. /\ Watchdog \in Threads /\ disk \in State
      /\ Remaining(Watchdog) \in Workers \cup {None}
  BY Basics, JoinType DEF TypeOK
<1>1. CASE Recover
  <2>1. stopEvent' \in BOOLEAN
    BY <1>1, Zenon DEF Recover, Signal
  <2>2. /\ pc' \in [Threads -> Steps]
        /\ target' \in [Threads -> Workers \cup {None}]
    BY <1>0, <1>1 DEF Recover, Signal, Go, TypeOK, Steps
  <2> QED
    BY <1>1, <2>1, <2>2 DEF Recover, TypeOK, past
<1>2. CASE RecoverJoined
  BY <1>0, <1>2 DEF RecoverJoined, Joined, Go, TypeOK, Steps, past
<1>3. CASE RecoverLoad
  BY <1>0, <1>3, LoadType DEF RecoverLoad, Steps
<1>4. CASE RecoverSave
  <2>1. (IF Active(copy[Watchdog]) THEN "recoverCheck" ELSE "idle") \in Steps
    BY DEF Steps
  <2> QED
    BY <1>0, <1>4, <2>1, WriteType DEF RecoverSave
<1>5. CASE RecoverCheck
  BY <1>0, <1>5 DEF RecoverCheck, Go, TypeOK, Steps, threads, past
<1>6. CASE RecoverCreate
  BY <1>0, <1>6, CreateType DEF RecoverCreate, Steps
<1> QED
  BY <1>1, <1>2, <1>3, <1>4, <1>5, <1>6 DEF Watch

\* Every variable keeps its type.
LEMMA TypeStep == TypeOK /\ [Next]_vars => TypeOK'
<1> SUFFICES ASSUME TypeOK, [Next]_vars PROVE TypeOK'
  OBVIOUS
<1>1. CASE UNCHANGED vars
  BY <1>1 DEF vars, TypeOK
<1>2. CASE Crash
  BY <1>2, Basics DEF Crash, TypeOK, Steps
<1> QED
  BY <1>1, <1>2, LoopType, PageType, WatchType DEF Next

\* Every variable of the threads, the file and the account keeps its type: no
\* sale makes the account negative, no join forgets a thread that is not there.
THEOREM TypeCorrect == Spec => []TypeOK
<1>1. ASSUME Init PROVE TypeOK
  <2>1. /\ stopEvent \in BOOLEAN /\ watching \in BOOLEAN /\ stopped \in BOOLEAN
    BY <1>1, Zenon DEF Init
  <2>2. /\ disk \in State /\ copy \in [Threads -> State] /\ held \in Nat
        /\ pc \in [Threads -> Steps]
    BY <1>1, Basics DEF Init, Steps
  <2>3. /\ current \in Workers \cup {None} /\ lock \in Controllers \cup {None}
        /\ target \in [Threads -> Workers \cup {None}]
        /\ presses \in 0 .. MaxPresses
    BY <1>1, PressesAssumption DEF Init
  <2> QED
    BY <2>1, <2>2, <2>3 DEF TypeOK
<1> QED
  BY <1>1, TypeStep, PTL DEF Spec

-----------------------------------------------------------------------------
(* The lock of the orders. *)

\* A step that leaves the lock and the account alone and brings no thread into
\* an order keeps the invariant.
LEMMA QuietOrder ==
    ASSUME OrderInv, UNCHANGED <<lock, held>>,
           \A x \in Controllers : pc'[x] \in {"peek", "buy"} => pc'[x] = pc[x]
    PROVE  OrderInv'
BY DEF OrderInv, HeldOnce

\* One thread moves, and not into an order.
LEMMA QuietGo ==
    ASSUME TypeOK, NEW x \in Threads, NEW step \in Steps \ {"peek", "buy"}, Go(x, step)
    PROVE  \A y \in Controllers : pc'[y] \in {"peek", "buy"} => pc'[y] = pc[y]
BY Basics DEF TypeOK, Go

\* Nor does the creation of a worker.
LEMMA QuietCreate ==
    ASSUME TypeOK, NEW x \in Threads, NEW step \in Steps \ {"peek", "buy"},
           Create(x, step)
    PROVE  /\ UNCHANGED <<lock, held>>
           /\ \A y \in Controllers : pc'[y] \in {"peek", "buy"} => pc'[y] = pc[y]
<1>1. PICK w \in Workers :
          /\ pc' = [pc EXCEPT ![w] = "top", ![x] = step]
          /\ UNCHANGED <<lock, held>>
  BY DEF Create
<1> QED
  BY <1>1, Basics DEF TypeOK

\* An order ends: its thread was the only one inside.
LEMMA OrderedOrder ==
    ASSUME TypeOK, OrderInv, NEW x \in Controllers, pc[x] \in {"peek", "buy"},
           NEW s, NEW n \in 0 .. 1, Ordered(x, s, n)
    PROVE  OrderInv'
<1>1. \A y \in Controllers : pc'[y] \notin {"peek", "buy"}
  BY Basics DEF OrderInv, Ordered, Go, TypeOK
<1>2. HeldOnce'
  BY DEF Ordered, HeldOnce
<1> QED
  BY <1>1, <1>2 DEF OrderInv

\* run_once keeps the invariant, whoever calls it.
LEMMA TickOrder ==
    ASSUME TypeOK, OrderInv, NEW x \in Controllers, Tick(x)
    PROVE  OrderInv'
<1>0. /\ x \in Threads /\ held \in Nat /\ x # None
      /\ AfterTick(x) \in Steps \ {"peek", "buy"}
  BY Basics DEF TypeOK, AfterTick, Steps
<1>1. CASE TickLoad(x)
  <2>1. \E step \in Steps \ {"peek", "buy"} : Go(x, step)
    BY <1>1 DEF TickLoad, Load, Steps
  <2>2. UNCHANGED <<lock, held>>
    BY <1>1 DEF TickLoad, Load
  <2> QED
    BY <1>0, <2>1, <2>2, QuietGo, QuietOrder
<1>2. CASE TickIdles(x)
  BY <1>0, <1>2, QuietGo, QuietOrder DEF TickIdles, Steps
<1>3. CASE TickOrders(x)
  <2>1. \A y \in Controllers : pc[y] \notin {"peek", "buy"}
    BY <1>3, Basics DEF TickOrders, LockFree, OrderInv
  <2>2. pc' = [pc EXCEPT ![x] = "peek"] /\ lock' = x /\ held' = held
    BY <1>3 DEF TickOrders, Go
  <2> QED
    BY <1>0, <2>1, <2>2, Basics DEF OrderInv, HeldOnce, TypeOK
<1>4. CASE Liquidate(x)
  BY <1>4, OrderedOrder DEF Liquidate, Left
<1>5. CASE PeekSkips(x)
  <2>1. held \in 0 .. 1
    BY <1>0 DEF OrderInv, HeldOnce
  <2> QED
    BY <1>5, <2>1, OrderedOrder DEF PeekSkips
<1>6. CASE PeekGoesOn(x)
  <2>1. /\ pc[x] = "peek" /\ held = 0
        /\ pc' = [pc EXCEPT ![x] = "buy"] /\ lock' = lock /\ held' = held
    BY <1>6 DEF PeekGoesOn, Go
  <2> QED
    BY <1>0, <2>1, Basics DEF OrderInv, HeldOnce, TypeOK
<1>7. CASE Buy(x)
  <2>1. held + 1 \in 0 .. 1
    BY <1>7 DEF Buy, OrderInv
  <2> QED
    BY <1>7, <2>1, OrderedOrder DEF Buy
<1>8. CASE TickSave(x)
  <2>1. Go(x, AfterTick(x)) /\ UNCHANGED <<lock, held>>
    BY <1>8 DEF TickSave, Write
  <2> QED
    BY <1>0, <2>1, QuietGo, QuietOrder
<1> QED
  BY <1>1, <1>2, <1>3, <1>4, <1>5, <1>6, <1>7, <1>8 DEF Tick

\* The other steps of the loop, the page and the watchdog place no orders.
LEMMA OtherOrder ==
    ASSUME TypeOK, OrderInv, NEW x \in Threads,
           UNCHANGED <<lock, held>>,
           NEW step \in Steps \ {"peek", "buy"}, Go(x, step)
    PROVE  OrderInv'
BY QuietGo, QuietOrder

\* Every step keeps the invariant.
LEMMA OrderStep == TypeOK /\ OrderInv /\ [Next]_vars => OrderInv'
<1> SUFFICES ASSUME TypeOK, OrderInv, [Next]_vars PROVE OrderInv'
  OBVIOUS
<1>1. CASE UNCHANGED vars
  BY <1>1 DEF vars, OrderInv, HeldOnce
<1>2. ASSUME NEW w \in Workers, Loop(w) PROVE OrderInv'
  <2>0. w \in Threads /\ w \in Controllers
    BY Basics
  <2>1. CASE Tick(w)
    BY <2>0, <2>1, TickOrder
  <2>2. CASE ~ Tick(w)
    <3>1. /\ UNCHANGED <<lock, held>>
          /\ \E step \in Steps \ {"peek", "buy"} : Go(w, step)
      BY <1>2, <2>2 DEF Loop, Beat, BeatSave, Leave, ExitLoad, ExitSave, Load, Write,
                       Steps
    <3> QED
      BY <2>0, <3>1, OtherOrder
  <2> QED
    BY <2>1, <2>2
<1>3. ASSUME NEW p \in Pages, Press(p) \/ Handle(p) PROVE OrderInv'
  <2>0. p \in Threads /\ p \in Controllers
    BY Basics
  <2>1. CASE Tick(p)
    BY <2>0, <2>1, TickOrder
  <2>2. CASE StartCreate(p)
    BY <2>0, <2>2, QuietCreate, QuietOrder DEF StartCreate, Steps
  <2>3. CASE Press(p)
    <3>1. /\ UNCHANGED <<lock, held>>
          /\ \E step \in Steps \ {"peek", "buy"} : Go(p, step)
      BY <2>3 DEF Press, StartRefused, Start, Stop, Request, Command, Steps
    <3> QED
      BY <2>0, <3>1, OtherOrder
  <2>4. CASE StartSave(p)
    <3>1. PICK step \in Steps \ {"peek", "buy"} : Go(p, step)
      BY <2>4 DEF StartSave, Steps
    <3> QED
      BY <2>0, <2>4, <3>1, OtherOrder DEF StartSave
  <2>5. CASE \/ StartJoined(p) \/ StartCheck(p) \/ StartLoad(p) \/ BootFails(p)
             \/ BootSave(p) \/ ResumeLoad(p) \/ ResumeSave(p) \/ StopSave(p)
             \/ StopJoined(p) \/ RequestSave(p)
    <3>1. /\ UNCHANGED <<lock, held>>
          /\ \E step \in Steps \ {"peek", "buy"} : Go(p, step)
      BY <2>5 DEF StartJoined, StartCheck, StartLoad, BootFails, BootSave, ResumeLoad,
                 ResumeSave, StopSave, StopJoined, RequestSave, Load, Write, Steps
    <3> QED
      BY <2>0, <3>1, OtherOrder
  <2> QED
    BY <1>3, <2>1, <2>2, <2>3, <2>4, <2>5 DEF Press, Handle
<1>4. CASE Watch
  <2>0. Watchdog \in Threads
    BY Basics
  <2>1. CASE RecoverCreate
    BY <2>0, <2>1, QuietCreate, QuietOrder DEF RecoverCreate, Steps
  <2>2. CASE ~ RecoverCreate
    <3>1. /\ UNCHANGED <<lock, held>>
          /\ \E step \in Steps \ {"peek", "buy"} : Go(Watchdog, step)
      BY <1>4, <2>2 DEF Watch, Recover, RecoverJoined, RecoverLoad, RecoverSave,
                       RecoverCheck, Load, Write, Steps
    <3> QED
      BY <2>0, <3>1, OtherOrder
  <2> QED
    BY <2>1, <2>2
<1>5. CASE Crash
  <2>1. \A x \in Controllers : pc'[x] \notin {"peek", "buy"}
    BY <1>5, Basics DEF Crash
  <2> QED
    BY <1>5, <2>1 DEF Crash, OrderInv, HeldOnce
<1> QED
  BY <1>1, <1>2, <1>3, <1>4, <1>5 DEF Next

\* However many workers outlive their stop and however many pages start a first
\* tick, the signal's ETF is not bought while it is held.
THEOREM BoughtOnce == Spec => []HeldOnce
<1>1. Init => OrderInv
  BY Basics DEF Init, OrderInv, HeldOnce
<1>2. OrderInv => HeldOnce
  BY DEF OrderInv
<1> QED
  BY <1>1, <1>2, TypeCorrect, OrderStep, PTL DEF Spec
=============================================================================
