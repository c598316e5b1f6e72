---------------------------- MODULE MacdRuntime ----------------------------
(***************************************************************************)
(* The threads of the MACD strategy and the state file they share          *)
(* (macd_hynix_worker.py): the worker's loop, the watchdog that restarts   *)
(* it, and the page whose buttons start and stop the strategy and ask for  *)
(* a liquidation.                                                          *)
(*                                                                         *)
(* load_state and save_state are atomic, but every operation loads the     *)
(* whole file, changes its copy and later writes the whole copy back, so   *)
(* what other threads wrote in between is overwritten.  The orders of a    *)
(* tick run under _ORDER_PROCESS_LOCK; here one signal is on, the broker   *)
(* answers and fills at once, and a liquidation is the only sale (MacdOrder*)
(* has everything else that orders do).                                    *)
(***************************************************************************)
EXTENDS Integers, FiniteSets

CONSTANTS
    Workers,    \* worker threads; bound: how many exist at the same time
    Pages,      \* sessions of the page
    Watchdog,   \* the watchdog's thread
    MaxPresses  \* bound: buttons pressed

None == "none"
Controllers == Workers \cup Pages        \* they call run_once
Threads == Controllers \cup {Watchdog}

ASSUME ThreadsAssumption ==
    /\ None \notin Threads
    /\ Workers \cap Pages = {}
    /\ Watchdog \notin Controllers

ASSUME PressesAssumption == MaxPresses \in Nat

(* What the state file says of the strategy. *)
State == [on: BOOLEAN,          \* auto_trade_on
          pending: BOOLEAN,     \* force_liquidate_pending, and its command
          processed: BOOLEAN]   \* is the signal in processed_signal_ids?

Active(s) == s.on \/ s.pending

VARIABLES
    disk,       \* the state file
    copy,       \* copy[x]: the state as thread x loaded and changed it
    pc,         \* where each thread is; "dead": the worker does not exist
    current,    \* _worker_thread
    target,     \* target[x]: the thread that x joins in stop_worker
    stopEvent,  \* _stop_event
    lock,       \* the owner of _ORDER_PROCESS_LOCK
    held,       \* how often the signal's ETF was bought and is still held
    watching,   \* does the watchdog's thread exist?
    presses,    \* buttons pressed so far
    stopped     \* history: the last stop_auto_trade returned ok, and no
                \* start_auto_trade was called since

past == <<watching, presses, stopped>>
threads == <<current, target, stopEvent>>
vars == <<disk, copy, pc, current, target, stopEvent, lock, held, watching,
          presses, stopped>>

Steps == {"idle", "dead", "top", "beat", "load", "run", "peek", "buy", "save",
          "exitLoad", "exitSave",
          "startJoin", "startCheck", "startCreate", "startLoad", "startSave",
          "bootBegin", "bootSave", "bootFailed", "resumeLoad", "resumeSave",
          "stopSave", "stopJoin", "requestSave",
          "recoverJoin", "recoverLoad", "recoverSave", "recoverCheck",
          "recoverCreate"}

TypeOK ==
    /\ disk \in State
    /\ copy \in [Threads -> State]
    /\ pc \in [Threads -> Steps]
    /\ current \in Workers \cup {None}
    /\ target \in [Threads -> Workers \cup {None}]
    /\ stopEvent \in BOOLEAN
    /\ lock \in Controllers \cup {None}
    /\ held \in Nat
    /\ watching \in BOOLEAN
    /\ presses \in 0 .. MaxPresses
    /\ stopped \in BOOLEAN

Fresh == [on |-> FALSE, pending |-> FALSE, processed |-> FALSE]

Init ==
    /\ disk = Fresh
    /\ copy = [x \in Threads |-> Fresh]
    /\ pc = [x \in Threads |-> IF x \in Workers THEN "dead" ELSE "idle"]
    /\ current = None
    /\ target = [x \in Threads |-> None]
    /\ stopEvent = FALSE
    /\ lock = None
    /\ held = 0
    /\ watching = FALSE
    /\ presses = 0
    /\ stopped = FALSE

-----------------------------------------------------------------------------
(* Steps that several operations share. *)

Go(x, step) == pc' = [pc EXCEPT ![x] = step]

\* load_state, and the caller's change of its copy
Load(x, s, step) ==
    /\ copy' = [copy EXCEPT ![x] = s]
    /\ Go(x, step)
    /\ UNCHANGED <<disk, threads, lock, held, past>>

\* save_state; the copy is not used again
Write(x, step) ==
    /\ disk' = copy[x]
    /\ copy' = [copy EXCEPT ![x] = Fresh]
    /\ Go(x, step)
    /\ UNCHANGED <<threads, lock, held, past>>

\* stop_worker, up to the join: the event is set, the thread to join is read.
Signal(x) ==
    /\ stopEvent' = TRUE
    /\ target' = [target EXCEPT ![x] = current]

\* stop_worker, from the join on: the thread is dead, or the join timed out.
\* Only a dead thread is forgotten, and it is _worker_thread that is cleared.
Remaining(x) ==
    IF target[x] # None /\ pc[target[x]] = "dead" THEN None ELSE current

Joined(x) ==
    /\ current' = Remaining(x)
    /\ target' = [target EXCEPT ![x] = None]

Alive(t) == t # None /\ pc[t] # "dead"

\* Faulty variant: the event of the last stop stays set.
CreateStopped(x, step) ==
    \E w \in Workers :
        /\ pc[w] = "dead" /\ \A y \in Threads : target[y] # w
        /\ current' = w
        /\ pc' = [pc EXCEPT ![w] = "top", ![x] = step]
        /\ watching' = TRUE
        /\ UNCHANGED <<disk, copy, target, stopEvent, lock, held, presses, stopped>>

\* _start_worker_thread_only, after its check: a new thread, the event cleared,
\* and a watchdog if there is none.
Create(x, step) ==
    \E w \in Workers :
        /\ pc[w] = "dead" /\ \A y \in Threads : target[y] # w
        /\ current' = w
        /\ stopEvent' = FALSE
        /\ pc' = [pc EXCEPT ![w] = "top", ![x] = step]
        /\ watching' = TRUE
        /\ UNCHANGED <<disk, copy, target, lock, held, presses, stopped>>

-----------------------------------------------------------------------------
(* run_once, called by a worker's loop and, for the first tick, by the page. *)

AfterTick(x) == IF x \in Workers THEN "top" ELSE "idle"

\* The tick loads the state.  With nothing on, the loop writes it back; the
\* page's call returns.
TickLoad(x) ==
    /\ pc[x] = "load"
    /\ IF Active(disk) THEN Load(x, disk, "run")
       ELSE Load(x, IF x \in Workers THEN disk ELSE Fresh,
                    IF x \in Workers THEN "save" ELSE "idle")

\* No order: the signal is processed, the quotes are old, an exception.
TickIdles(x) ==
    /\ pc[x] = "run"
    /\ Go(x, "save")
    /\ UNCHANGED <<disk, copy, threads, lock, held, past>>

\* Faulty variant: orders do not wait for each other.
LockFreeAlways == TRUE

\* with _ORDER_PROCESS_LOCK
LockFree == lock = None

TickOrders(x) ==
    /\ pc[x] = "run"
    /\ copy[x].pending \/ ~ copy[x].processed
    /\ LockFree
    /\ lock' = x
    /\ Go(x, "peek")
    /\ UNCHANGED <<disk, copy, threads, held, past>>

\* The order is over: its result goes to the copy, the lock is released.
Ordered(x, s, shares) ==
    /\ copy' = [copy EXCEPT ![x] = s]
    /\ held' = shares
    /\ lock' = None
    /\ Go(x, "save")
    /\ UNCHANGED <<disk, threads, past>>

\* Faulty variant: a sell order for what the state expects, not what is held.
LeftUnread == held - 1

\* force_liquidate_all sells what the broker says is held: all of it.
Left == 0

Liquidate(x) ==
    /\ pc[x] = "peek"
    /\ copy[x].pending
    /\ Ordered(x, [copy[x] EXCEPT !.pending = FALSE], Left)

\* switch_to_direction reads the account: the target is held already ...
PeekSkips(x) ==
    /\ pc[x] = "peek"
    /\ ~ copy[x].pending
    /\ held > 0
    /\ Ordered(x, [copy[x] EXCEPT !.processed = TRUE], held)

\* ... or it is not.
PeekGoesOn(x) ==
    /\ pc[x] = "peek"
    /\ ~ copy[x].pending
    /\ held = 0
    /\ Go(x, "buy")
    /\ UNCHANGED <<disk, copy, threads, lock, held, past>>

\* The quantity is part of the key, and two ticks divide the budget by two
\* prices: the coordinator need not recognise the second order.
Buy(x) ==
    /\ pc[x] = "buy"
    /\ Ordered(x, [copy[x] EXCEPT !.processed = TRUE], held + 1)

TickSave(x) ==
    /\ pc[x] = "save"
    /\ Write(x, AfterTick(x))

Tick(x) ==
    \/ TickLoad(x) \/ TickIdles(x) \/ TickOrders(x) \/ Liquidate(x)
    \/ PeekSkips(x) \/ PeekGoesOn(x) \/ Buy(x) \/ TickSave(x)

-----------------------------------------------------------------------------
(* _worker_loop *)

\* A heartbeat loads the state and writes it back.
Beat(w) ==
    /\ pc[w] = "top"
    /\ ~ stopEvent
    /\ Load(w, disk, "beat")

BeatSave(w) ==
    /\ pc[w] = "beat"
    /\ Write(w, "load")

\* So does the end of the loop.
Leave(w) ==
    /\ pc[w] = "top"
    /\ stopEvent
    /\ Go(w, "exitLoad")
    /\ UNCHANGED <<disk, copy, threads, lock, held, past>>

ExitLoad(w) ==
    /\ pc[w] = "exitLoad"
    /\ Load(w, disk, "exitSave")

ExitSave(w) ==
    /\ pc[w] = "exitSave"
    /\ Write(w, "dead")

Loop(w) ==
    Beat(w) \/ BeatSave(w) \/ Leave(w) \/ ExitLoad(w) \/ ExitSave(w) \/ Tick(w)

-----------------------------------------------------------------------------
(* The page: start_auto_trade, stop_auto_trade, request_force_liquidate. *)

Pressed ==
    /\ presses < MaxPresses
    /\ presses' = presses + 1

\* A button that begins by loading the state.
Command(p, s, step) ==
    /\ pc[p] = "idle"
    /\ Pressed
    /\ copy' = [copy EXCEPT ![p] = s]
    /\ Go(p, step)
    /\ UNCHANGED <<disk, threads, lock, held, watching, stopped>>

\* Refused while a liquidation is pending (can_start_macd): the reason is
\* written to the state file.
StartRefused(p) ==
    /\ disk.pending
    /\ Command(p, disk, "requestSave")

Start(p) ==
    /\ pc[p] = "idle"
    /\ ~ disk.pending
    /\ Pressed
    /\ Signal(p)
    /\ stopped' = FALSE
    /\ Go(p, "startJoin")
    /\ UNCHANGED <<disk, copy, current, lock, held, watching>>

StartJoined(p) ==
    /\ pc[p] = "startJoin"
    /\ Joined(p)
    /\ Go(p, "startCheck")
    /\ UNCHANGED <<disk, copy, stopEvent, lock, held, past>>

\* OLD_WORKER_THREAD_STILL_ALIVE, or on to a new thread
StartCheck(p) ==
    /\ pc[p] = "startCheck"
    /\ Go(p, IF Alive(current) THEN "idle" ELSE "startCreate")
    /\ UNCHANGED <<disk, copy, threads, lock, held, past>>

StartCreate(p) ==
    /\ pc[p] = "startCreate"
    /\ Create(p, "startLoad")

StartLoad(p) ==
    /\ pc[p] = "startLoad"
    /\ Load(p, [disk EXCEPT !.on = TRUE], "startSave")

\* The same copy is saved twice, the second time by bootstrap_macd_history.
StartSave(p) ==
    /\ pc[p] \in {"startSave", "bootBegin"}
    /\ disk' = copy[p]
    /\ Go(p, IF pc[p] = "startSave" THEN "bootBegin" ELSE "bootSave")
    /\ UNCHANGED <<copy, threads, lock, held, past>>

\* bootstrap_macd_history fetches the bars of days.  If that raises, the state
\* is loaded again; if not, the copy of before is saved once more.
BootFails(p) ==
    /\ pc[p] = "bootSave"
    /\ Load(p, disk, "bootFailed")

BootSave(p) ==
    /\ pc[p] \in {"bootSave", "bootFailed"}
    /\ Write(p, "resumeLoad")

ResumeLoad(p) ==
    /\ pc[p] = "resumeLoad"
    /\ Load(p, disk, "resumeSave")

\* "First tick immediately"
ResumeSave(p) ==
    /\ pc[p] = "resumeSave"
    /\ Write(p, "load")

Stop(p) == Command(p, [disk EXCEPT !.on = FALSE], "stopSave")

StopSave(p) ==
    /\ pc[p] = "stopSave"
    /\ disk' = copy[p]
    /\ copy' = [copy EXCEPT ![p] = Fresh]
    /\ Signal(p)
    /\ Go(p, "stopJoin")
    /\ UNCHANGED <<current, lock, held, past>>

\* WORKER_JOIN_TIMEOUT, or the thread is forgotten and the answer is ok
StopJoined(p) ==
    /\ pc[p] = "stopJoin"
    /\ target' = [target EXCEPT ![p] = None]
    /\ current' = IF Alive(Remaining(p)) THEN current ELSE None
    /\ stopped' = (stopped \/ ~ Alive(Remaining(p)))
    /\ Go(p, "idle")
    /\ UNCHANGED <<disk, copy, stopEvent, lock, held, watching, presses>>

Request(p) == Command(p, [disk EXCEPT !.pending = TRUE], "requestSave")

RequestSave(p) ==
    /\ pc[p] = "requestSave"
    /\ Write(p, "idle")

Press(p) == StartRefused(p) \/ Start(p) \/ Stop(p) \/ Request(p)

Handle(p) ==
    \/ StartJoined(p) \/ StartCheck(p) \/ StartCreate(p) \/ StartLoad(p)
    \/ StartSave(p) \/ BootFails(p) \/ BootSave(p) \/ ResumeLoad(p) \/ ResumeSave(p)
    \/ StopSave(p) \/ StopJoined(p) \/ RequestSave(p) \/ Tick(p)

-----------------------------------------------------------------------------
(* The watchdog. *)

\* The loop beats every five seconds unless a tick takes longer: between two
\* ticks the heartbeat of a loop that was not told to stop is recent.
Beating == current # None /\ pc[current] \in {"top", "beat"} /\ ~ stopEvent

\* detect_worker_stall: the strategy is on and the last heartbeat too old (a
\* tick takes 15 s, or no thread is left); recover_stalled_worker begins.
Recover ==
    /\ pc[Watchdog] = "idle"
    /\ watching
    /\ Active(disk)
    /\ ~ Beating
    /\ Signal(Watchdog)
    /\ Go(Watchdog, "recoverJoin")
    /\ UNCHANGED <<disk, copy, current, lock, held, past>>

RecoverJoined ==
    /\ pc[Watchdog] = "recoverJoin"
    /\ Joined(Watchdog)
    /\ Go(Watchdog, "recoverLoad")
    /\ UNCHANGED <<disk, copy, stopEvent, lock, held, past>>

RecoverLoad ==
    /\ pc[Watchdog] = "recoverLoad"
    /\ Load(Watchdog, disk, "recoverSave")

RecoverSave ==
    /\ pc[Watchdog] = "recoverSave"
    /\ Write(Watchdog, IF Active(copy[Watchdog]) THEN "recoverCheck" ELSE "idle")

\* A thread that outlived the join is left to its end: the event stays set.
RecoverCheck ==
    /\ pc[Watchdog] = "recoverCheck"
    /\ Go(Watchdog, IF Alive(current) THEN "idle" ELSE "recoverCreate")
    /\ UNCHANGED <<disk, copy, threads, lock, held, past>>

RecoverCreate ==
    /\ pc[Watchdog] = "recoverCreate"
    /\ Create(Watchdog, "idle")

Watch ==
    \/ Recover \/ RecoverJoined \/ RecoverLoad \/ RecoverSave
    \/ RecoverCheck \/ RecoverCreate

\* The process dies and comes back.  The state file and the account are what
\* they were; no worker and no watchdog exists until the next start.
Crash ==
    /\ copy' = [x \in Threads |-> Fresh]
    /\ pc' = [x \in Threads |-> IF x \in Workers THEN "dead" ELSE "idle"]
    /\ current' = None
    /\ target' = [x \in Threads |-> None]
    /\ stopEvent' = FALSE
    /\ lock' = None
    /\ watching' = FALSE
    /\ UNCHANGED <<disk, held, presses, stopped>>

-----------------------------------------------------------------------------

Next ==
    \/ \E w \in Workers : Loop(w)
    \/ \E p \in Pages : Press(p) \/ Handle(p)
    \/ Watch
    \/ Crash

Spec == Init /\ [][Next]_vars

\* Every thread that can go on does; nobody has to press a button.
Fairness ==
    /\ \A w \in Workers : WF_vars(Loop(w))
    /\ \A p \in Pages : WF_vars(Handle(p))
    /\ WF_vars(Watch)

FairSpec == Spec /\ Fairness

-----------------------------------------------------------------------------
(* Properties. *)

\* The worker's tick and the first tick of start_auto_trade may meet, and a
\* worker may outlive the next start; the account is still asked and the order
\* placed as one step, so the target is not bought while it is held.
HeldOnce == held <= 1

\* An exception, a crashed loop, a join that timed out, an event left set:
\* once nobody presses a button any more, a strategy that stays on keeps
\* ticking, in a process that has started it (recover_stalled_worker).
TicksGoOn ==
    <>[](disk.on /\ watching /\ \A p \in Pages : pc[p] = "idle")
        => []<>(\E w \in Workers : pc[w] = "run")

\* When stop_auto_trade has answered ok, the page says the strategy is stopped
\* ("Stop joins worker", tests/test_macd_hynix_strategy.py): the state file says
\* so until the next start, or the watchdog starts the strategy again.
StopHolds == stopped => ~ disk.on
=============================================================================
