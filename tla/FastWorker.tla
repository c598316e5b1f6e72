----------------------------- MODULE FastWorker -----------------------------
(***************************************************************************)
(* How the three-minute cycle of the Enhanced strategy hands an entry over *)
(* to the five-second fast worker (src/app/services/hynix_switch_engine.py *)
(* and hynix_auto_trade_scheduler.py).  A cycle that wants to buy defers:  *)
(* it notes the deferral in the state file, asks for a tick there, and     *)
(* after it gave back the state lock wakes the watcher thread.  A tick     *)
(* that completes leaves a decision and settles the deferral; a cycle      *)
(* settles one that is past its deadline.                                  *)
(*                                                                         *)
(* What is done under the state lock is one step (EnhancedState says when  *)
(* the lock excludes); the watcher also reads the state without it.  What  *)
(* a tick or a cycle decides and orders is left out, and so is the flag    *)
(* _wake_fast_worker_after_cycle, which only repeats a wake, or a cycle's  *)
(* own tick.                                                               *)
(***************************************************************************)

CONSTANTS
    Runners,       \* threads that run cycles: the cycle thread and the page
    CycleThread

ASSUME CycleThreadAssumption == CycleThread \in Runners

VARIABLES
    fwOn,       \* auto_trade_on and not stopped
    fwDay,      \* entries are open, closed, or the operating window is over
    fwPending,  \* pending_fast_worker_deferral: none, fresh or past 15 seconds
    fwForce,    \* force_fast_worker_tick
    fwSnap,     \* last_fast_worker_decision_snapshot is there and complete
    fwError,    \* last_fast_worker_snapshot_error is there
    fwEvent,    \* the watcher's _wake_event
    fwPc,       \* where the watcher is
    fwWait,     \* how long it decided to wait
    fwRun,      \* fwRun[r]: where the cycle of r is
    fwServed,   \* history: the watcher's tick of this round completed, and
                \* nobody asked for one since
    fwRaced,    \* history: a wake came between the choice of the wait and
                \* the wait
    fwCut       \* history: the last cycle to defer failed after its first save

fwVars == <<fwOn, fwDay, fwPending, fwForce, fwSnap, fwError, fwEvent, fwPc,
            fwWait, fwRun, fwServed, fwRaced, fwCut>>

fwFile == <<fwPending, fwForce, fwSnap, fwError>>

\* The cycle has saved, and has yet to wake the watcher.
Waking == {"wake", "wakeAndTick"}

FastTypeOK ==
    /\ fwOn \in BOOLEAN
    /\ fwDay \in {"open", "closed", "night"}
    /\ fwPending \in {"none", "fresh", "overdue"}
    /\ fwForce \in BOOLEAN /\ fwSnap \in BOOLEAN /\ fwError \in BOOLEAN
    /\ fwEvent \in BOOLEAN
    /\ fwPc \in {"top", "tick", "choose", "clear", "wait"}
    /\ fwWait \in {"zero", "fast", "slow"}
    /\ fwRun \in [Runners -> {"idle", "section", "tick"} \cup Waking]
    /\ fwServed \in BOOLEAN /\ fwRaced \in BOOLEAN /\ fwCut \in BOOLEAN

FastInit ==
    /\ fwOn \in BOOLEAN /\ fwDay = "open"
    /\ fwPending = "none" /\ fwForce = FALSE
    /\ fwSnap = FALSE /\ fwError = FALSE
    /\ fwEvent = FALSE /\ fwPc = "top" /\ fwWait = "slow"
    /\ fwRun = [r \in Runners |-> "idle"]
    /\ fwServed = FALSE /\ fwRaced = FALSE /\ fwCut = FALSE

FastGo(p) == fwPc' = p
RunGo(r, p) == fwRun' = [fwRun EXCEPT ![r] = p]

(***************************************************************************)
(* The user, and the clock.                                                *)
(***************************************************************************)

Toggle ==
    /\ fwOn' = ~fwOn
    /\ UNCHANGED <<fwDay, fwFile, fwEvent, fwPc, fwWait, fwRun, fwServed,
                   fwRaced, fwCut>>

NextPhase ==
    /\ fwDay' \in IF fwDay = "closed" THEN {"open", "night"} ELSE {"closed"}
    /\ UNCHANGED <<fwOn, fwFile, fwEvent, fwPc, fwWait, fwRun, fwServed,
                   fwRaced, fwCut>>

\* Fifteen seconds pass since the cycle that deferred.
DeadlinePasses ==
    /\ fwPending = "fresh" /\ fwPending' = "overdue"
    /\ UNCHANGED <<fwOn, fwDay, fwForce, fwSnap, fwError, fwEvent, fwPc,
                   fwWait, fwRun, fwServed, fwRaced, fwCut>>

(***************************************************************************)
(* A tick (run_early_trend_fast_feed_tick), by the watcher or at the end   *)
(* of a cycle.                                                             *)
(***************************************************************************)

\* Faulty variant: the request outlives the tick that serves it.
TickKeepsForce ==
    /\ fwOn /\ fwSnap' = TRUE /\ fwPending' = "none"
    /\ fwCut' = FALSE /\ UNCHANGED <<fwForce, fwError>>

\* It reaches its decision, which settles the deferral and the request.
TickCompletes ==
    /\ fwOn /\ fwSnap' = TRUE /\ fwPending' = "none" /\ fwForce' = FALSE
    /\ fwCut' = FALSE /\ UNCHANGED fwError

\* The strategy is off, a quote fails, entries are closed, or it raises:
\* neither is settled.
TickGivesUp == UNCHANGED <<fwFile, fwCut>>

(***************************************************************************)
(* The watcher (HynixFastTrendWatcherThread).                              *)
(***************************************************************************)

\* It looks at the state and the time, without the lock.
Look ==
    /\ fwPc = "top" /\ fwServed' = FALSE
    /\ FastGo(IF fwOn /\ fwDay # "night" THEN "tick" ELSE "choose")
    /\ UNCHANGED <<fwOn, fwDay, fwFile, fwEvent, fwWait, fwRun, fwRaced, fwCut>>

WatcherTicks ==
    /\ fwPc = "tick" /\ FastGo("choose")
    /\ \/ TickCompletes /\ fwServed' = TRUE
       \/ TickGivesUp /\ UNCHANGED fwServed
    /\ UNCHANGED <<fwOn, fwDay, fwEvent, fwWait, fwRun, fwRaced>>

\* Faulty variant: the request in the state is left to the wake event.
ChooseByCadence ==
    /\ fwPc = "choose" /\ FastGo("clear")
    /\ fwWait' = IF fwOn THEN "fast" ELSE "slow"
    /\ UNCHANGED <<fwOn, fwDay, fwFile, fwEvent, fwRun, fwServed, fwRaced, fwCut>>

\* A request for a tick comes first, also while no tick can be run
\* (_next_interval_seconds).
ChooseWait ==
    /\ fwPc = "choose" /\ FastGo("clear")
    /\ fwWait' = IF fwForce THEN "zero" ELSE IF fwOn THEN "fast" ELSE "slow"
    /\ UNCHANGED <<fwOn, fwDay, fwFile, fwEvent, fwRun, fwServed, fwRaced, fwCut>>

ClearWake ==
    /\ fwPc = "clear" /\ FastGo("wait")
    /\ fwEvent' = FALSE
    /\ UNCHANGED <<fwOn, fwDay, fwFile, fwWait, fwRun, fwServed, fwRaced, fwCut>>

\* The event is set, or the wait is over.
WakeUp ==
    /\ fwPc = "wait" /\ FastGo("top")
    /\ fwRaced' = FALSE
    /\ UNCHANGED <<fwOn, fwDay, fwFile, fwEvent, fwWait, fwRun, fwServed, fwCut>>

(***************************************************************************)
(* A cycle (update_hynix_auto_trade_loop).                                 *)
(***************************************************************************)

\* The cycle thread looks whether the strategy is on and the window is open;
\* the page's button does not.
BeginCycle(r) ==
    /\ fwRun[r] = "idle"
    /\ r = CycleThread => fwOn /\ fwDay # "night"
    /\ RunGo(r, "section")
    /\ UNCHANGED <<fwOn, fwDay, fwFile, fwEvent, fwPc, fwWait, fwServed,
                   fwRaced, fwCut>>

\* After the section: a tick that is asked for is woken for; with an error on
\* record, of this cycle or an earlier one, the cycle also ticks itself.
EndCycle(r, force, error) ==
    RunGo(r, IF ~force THEN "idle" ELSE IF error THEN "wakeAndTick" ELSE "wake")

\* The strategy is stopped: the section returns at once.
SectionSkips(r) ==
    /\ fwRun[r] = "section" /\ ~fwOn
    /\ EndCycle(r, fwForce, fwError)
    /\ UNCHANGED <<fwOn, fwDay, fwFile, fwEvent, fwPc, fwWait, fwServed,
                   fwRaced, fwCut>>

\* A purchase is wanted while entries are open.
MayDefer == fwOn /\ fwDay = "open"

\* Faulty variant: the deferral stays when the decision is taken over.
SettledLate(pending) ==
    IF pending = "overdue" /\ ~fwSnap THEN "none" ELSE pending

\* The deferral after a cycle: settled by the decision of the fast worker, of
\* whatever time it is, or by the deadline.
Settled(pending) ==
    IF fwSnap \/ pending = "overdue" THEN "none" ELSE pending

\* The section runs to its end.  Deferring again renews the deadline before
\* it is looked at.
SectionEnds(r, defers) ==
    LET pending == IF defers THEN "fresh" ELSE fwPending
        late == pending = "overdue"
        waits == pending = "fresh" /\ ~fwSnap
    IN
    /\ fwRun[r] = "section" /\ defers => MayDefer
    /\ fwPending' = Settled(pending)
    /\ fwError' = (fwError \/ late)
    /\ fwForce' = (fwForce \/ defers \/ late \/ waits)
    /\ EndCycle(r, fwForce', fwError')
    /\ fwServed' = (fwServed /\ fwForce' = fwForce)
    /\ fwCut' = FALSE
    /\ UNCHANGED <<fwOn, fwDay, fwSnap, fwEvent, fwPc, fwWait, fwRaced>>

\* It raises: before its first save, or between its two saves.
SectionRaises(r, defers) ==
    /\ fwRun[r] = "section" /\ RunGo(r, "idle")
    /\ defers => MayDefer
    /\ fwPending' = IF defers THEN "fresh" ELSE fwPending
    /\ fwForce' = (fwForce \/ defers)
    /\ fwServed' = (fwServed /\ fwForce' = fwForce)
    /\ fwCut' = (fwCut \/ defers)
    /\ UNCHANGED <<fwOn, fwDay, fwSnap, fwError, fwEvent, fwPc, fwWait, fwRaced>>

\* wake_fast_trend_watcher, outside the state lock.
Wake(r) ==
    /\ fwRun[r] \in Waking
    /\ RunGo(r, IF fwRun[r] = "wakeAndTick" THEN "tick" ELSE "idle")
    /\ fwEvent' = TRUE
    /\ fwRaced' = (fwRaced \/ fwPc = "clear")
    /\ UNCHANGED <<fwOn, fwDay, fwFile, fwPc, fwWait, fwServed, fwCut>>

\* The tick at the end of a cycle, on the cycle's thread.
CycleTicks(r) ==
    /\ fwRun[r] = "tick" /\ RunGo(r, "idle")
    /\ TickCompletes \/ TickGivesUp
    /\ UNCHANGED <<fwOn, fwDay, fwEvent, fwPc, fwWait, fwServed, fwRaced>>

FastNext ==
    \/ Toggle \/ NextPhase \/ DeadlinePasses
    \/ Look \/ WatcherTicks \/ ChooseWait \/ ClearWake \/ WakeUp
    \/ \E r \in Runners :
          \/ BeginCycle(r) \/ SectionSkips(r) \/ Wake(r) \/ CycleTicks(r)
          \/ \E defers \in BOOLEAN : SectionEnds(r, defers) \/ SectionRaises(r, defers)

FastSpec == FastInit /\ [][FastNext]_fwVars

(***************************************************************************)
(* Properties.                                                             *)
(***************************************************************************)

\* A tick that is asked for never waits for the timer alone, unless the wake
\* came after the watcher chose its wait and before it cleared the event, or
\* the cycle failed before its wake: request in the file and event together
\* leave no other gap ("so main cycle never leaves deferral stranded",
\* hynix_switch_engine.py:573).
WakeLostOnlyIfRaced ==
    fwPc = "wait" /\ fwWait # "zero" /\ fwForce /\ ~fwEvent =>
        fwRaced \/ fwCut \/ \E r \in Runners : fwRun[r] \in Waking

\* A deferral and a complete decision of the fast worker are never left in
\* the file together, whoever ticks and whichever cycle looks, except by a
\* cycle that failed between its two saves: the branch for a decision that
\* comes after the deadline is reached in no other way, and one of before the
\* deferral settles it at once.
AnswerSettlesDeferral == fwPending # "none" /\ fwSnap => fwCut

\* The watcher goes round without a wait only while ticks fail or cannot be
\* run, or somebody asked again: one completed tick ends the hurry, whatever
\* requests came before it.
HurryEndsWithTick == fwPc = "clear" /\ fwWait = "zero" => ~fwServed
=============================================================================
