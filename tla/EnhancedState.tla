--------------------------- MODULE EnhancedState ---------------------------
(***************************************************************************)
(* The state files of the Enhanced strategy                                *)
(* (src/app/services/hynix_switch_state.py): one file per account mode,    *)
(* and a profile shared by the modes, whose auto_trade_on overrides the    *)
(* one of either file.  Every change is a load, a computation and a save.  *)
(* Background threads do it under with_state_lock, a lock of the process   *)
(* and a lock file across processes; the page also saves without a lock.   *)
(* A file that cannot be read is passed over: the profile for the file of  *)
(* the mode, that file for the default state, which is ON.                 *)
(* The MACD strategy and this one are not to run at the same time: each is *)
(* started only after a look at the other's switch.  The MACD strategy's   *)
(* state is loaded and saved by its threads without a lock, so that a save *)
(* may undo a Stop; a mutex file repeats the switch.                       *)
(*                                                                         *)
(* The rest of the file's content is left out: what a save overwrites is   *)
(* told by SectionsExclude, which says whose sections may overlap.         *)
(***************************************************************************)
EXTENDS Integers

CONSTANTS
    StateThreads,
    StateProcesses,
    StateProcessOf,  \* StateProcessOf[t]: the process of thread t
    Modes,           \* account modes: mock and real
    Mock,            \* the mode that an unreadable pointer stands for
    OpsOf            \* OpsOf[t]: what thread t does to the state

(***************************************************************************)
(* "cycle"  update_hynix_auto_trade_loop: the mode is read first and kept  *)
(* "watch"  the exit watcher: the mode is read once for the lock and again *)
(*          for the state                                                  *)
(* "page"   a rerun of the page saves the state it loaded at its top       *)
(* "on"     the page's switch, by which a user turns the strategy on or    *)
(*          takes another mode; it becomes "off" if the MACD strategy is on *)
(* "off"    set_control(auto_trade_on = False)                             *)
(* "reset"  reset_mock_state, which switches the strategy on               *)
(***************************************************************************)
Ops == {"cycle", "watch", "page", "on", "off", "reset"}
NeedsLock(op) == op \notin {"page", "reset"}
MayEnable(op) == op \in {"on", "reset"}

ASSUME StateOpsAssumption == OpsOf \in [StateThreads -> SUBSET Ops]
ASSUME StateProcessAssumption ==
    StateProcessOf \in [StateThreads -> StateProcesses]
ASSUME MockAssumption == Mock \in Modes

NoOwner == "none"
ASSUME NoOwnerAssumption == NoOwner \notin StateThreads

VARIABLES
    esOn,        \* auto_trade_on of the shared profile
    esModeOn,    \* esModeOn[m]: auto_trade_on of the file of mode m
    esActive,    \* the active mode
    esMacd,      \* auto_trade_on of the MACD strategy
    esMutex,     \* the mutex file says that the MACD strategy is on
    esMacdPc,    \* where the start of the MACD strategy is
    esCopies,    \* auto_trade_on in the copies that MACD's threads hold
    esRLock,     \* esRLock[p][m]: who holds the lock of mode m in process p
    esFile,      \* esFile[m]: who created the lock file of mode m, if any
    esOld,       \* esOld[m]: the lock file is older than 30 seconds
    esPc,        \* esPc[t]: where thread t is
    esOp,        \* esOp[t]: what it does
    esMode,      \* esMode[t]: the mode it locks
    esData,      \* esData[t]: the mode whose state it loaded
    esCopy,      \* esCopy[t]: auto_trade_on of its copy
    esOwns,      \* esOwns[t]: it created the lock file
    esIgnored,   \* history: a lock file was given up, aged under a living
                 \* owner, or was removed although it was not old
    esBlind,     \* history: esBlind[t], thread t goes on without having read
                 \* the switch that should have stopped it
    esRaced,     \* history: esRaced[t], that switch was turned after t read it
    esMacdLate   \* history: the same of MACD's start: its check could not
                 \* read the profile, or Enhanced was turned on after it

esSwitch == <<esOn, esModeOn, esActive>>
esMacdVars == <<esMacd, esMutex, esMacdPc, esCopies>>
esLocks == <<esRLock, esFile, esOld>>
esThread == <<esOp, esMode, esData, esCopy, esOwns>>
esHistory == <<esIgnored, esBlind, esRaced, esMacdLate>>

esVars == <<esSwitch, esMacdVars, esLocks, esPc, esThread, esHistory>>

StateTypeOK ==
    /\ esOn \in BOOLEAN /\ esModeOn \in [Modes -> BOOLEAN]
    /\ esActive \in Modes
    /\ esMacd \in BOOLEAN /\ esMutex \in BOOLEAN
    /\ esMacdPc \in {"idle", "checked"} /\ esCopies \in SUBSET BOOLEAN
    /\ esRLock \in [StateProcesses -> [Modes -> StateThreads \cup {NoOwner}]]
    /\ esFile \in [Modes -> StateThreads \cup {NoOwner}]
    /\ esOld \in [Modes -> BOOLEAN]
    /\ esPc \in [StateThreads -> {"idle", "look", "rlock", "lockfile", "steal",
                                  "load", "guard", "profile", "file"}]
    /\ esOp \in [StateThreads -> Ops]
    /\ esMode \in [StateThreads -> Modes]
    /\ esData \in [StateThreads -> Modes]
    /\ esCopy \in [StateThreads -> BOOLEAN]
    /\ esOwns \in [StateThreads -> BOOLEAN]
    /\ esBlind \in [StateThreads -> BOOLEAN]
    /\ esRaced \in [StateThreads -> BOOLEAN]
    /\ esIgnored \in BOOLEAN /\ esMacdLate \in BOOLEAN

\* Thread t is between the load and the last write of the state it works on.
InSection(t) == esPc[t] \in {"guard", "profile", "file"}

StateInit ==
    /\ esOn \in BOOLEAN /\ esModeOn \in [Modes -> BOOLEAN]
    /\ esActive \in Modes
    /\ esMacd \in BOOLEAN /\ esMutex \in BOOLEAN
    /\ esMacdPc = "idle" /\ esCopies = {}
    /\ esRLock = [p \in StateProcesses |-> [m \in Modes |-> NoOwner]]
    /\ esFile = [m \in Modes |-> NoOwner]
    /\ esOld = [m \in Modes |-> FALSE]
    /\ esPc = [t \in StateThreads |-> "idle"]
    /\ esOp = [t \in StateThreads |-> "page"]
    /\ esMode = [t \in StateThreads |-> Mock]
    /\ esData = [t \in StateThreads |-> Mock]
    /\ esCopy = [t \in StateThreads |-> FALSE]
    /\ esOwns = [t \in StateThreads |-> FALSE]
    /\ esBlind = [t \in StateThreads |-> FALSE]
    /\ esRaced = [t \in StateThreads |-> FALSE]
    /\ esIgnored = FALSE /\ esMacdLate = FALSE

StateGo(t, p) == esPc' = [esPc EXCEPT ![t] = p]

\* The operations of the threads ts are over.
Forget(ts) ==
    /\ esPc' = [t \in StateThreads |-> IF t \in ts THEN "idle" ELSE esPc[t]]
    /\ esOp' = [t \in StateThreads |-> IF t \in ts THEN "page" ELSE esOp[t]]
    /\ esMode' = [t \in StateThreads |-> IF t \in ts THEN Mock ELSE esMode[t]]
    /\ esData' = [t \in StateThreads |-> IF t \in ts THEN Mock ELSE esData[t]]
    /\ esCopy' = [t \in StateThreads |-> esCopy[t] /\ t \notin ts]
    /\ esOwns' = [t \in StateThreads |-> esOwns[t] /\ t \notin ts]
    /\ esBlind' = [t \in StateThreads |-> esBlind[t] /\ t \notin ts]
    /\ esRaced' = [t \in StateThreads |-> esRaced[t] /\ t \notin ts]

\* get_active_mode: the pointer, or mock if it cannot be read.
ActiveRead == {esActive, Mock}

\* load_state: a mode file that cannot be read gives the default state, ON;
\* else the profile, if it can be read, overrides the mode file.
Loaded(m, profile, file) ==
    file => IF profile THEN esOn ELSE esModeOn[m]

\* An operation begins.  The page's has loaded the state at the page's top;
\* the page of the mock mode has the button of the reset.
Start(t, op) ==
    /\ esPc[t] = "idle" /\ op \in OpsOf[t]
    /\ \E m \in ActiveRead :
          /\ op = "reset" => m = Mock
          /\ esMode' = [esMode EXCEPT ![t] = m]
          /\ esData' = [esData EXCEPT ![t] = m]
          /\ \E profile, file \in BOOLEAN : esCopy' =
                [esCopy EXCEPT ![t] = op = "on" /\ Loaded(m, profile, file)]
    /\ esOp' = [esOp EXCEPT ![t] = op]
    /\ esBlind' = [esBlind EXCEPT ![t] = op = "reset"]
    /\ StateGo(t, IF op = "on" THEN "look"
                  ELSE IF NeedsLock(op) THEN "rlock" ELSE "load")
    /\ UNCHANGED <<esSwitch, esMacdVars, esLocks, esOwns, esIgnored, esRaced,
                   esMacdLate>>

\* Faulty variant: the mutex file alone is believed.
MacdSeenMutex(state, mutex) == mutex /\ esMutex

\* is_macd_strategy_on: MACD's state or its mutex file, as far as they can be
\* read, says that the strategy is on.
MacdSeen(state, mutex) == (state /\ esMacd) \/ (mutex /\ esMutex)

\* The page's switch with the state of its top: only if that was OFF does the
\* page look at the MACD strategy, and then it may write OFF instead of ON.
PageLooks(t) ==
    /\ esPc[t] = "look" /\ ~esCopy[t]
    /\ \E state, mutex \in BOOLEAN :
          /\ esOp' = [esOp EXCEPT ![t] =
                         IF MacdSeen(state, mutex) THEN "off" ELSE "on"]
          /\ esBlind' = [esBlind EXCEPT ![t] =
                            ~state /\ ~MacdSeen(state, mutex)]

\* If it was ON, the switch is written because the mode is another one.
PageTakesMode(t, m) ==
    /\ esPc[t] = "look" /\ esCopy[t] /\ m # esData[t]
    /\ esBlind' = [esBlind EXCEPT ![t] = TRUE]
    /\ UNCHANGED esOp

\* set_control makes the mode that the page shows the active one, and locks it.
PageWrites(t) ==
    /\ \E m \in Modes :
          /\ PageLooks(t) \/ PageTakesMode(t, m)
          /\ esActive' = m
          /\ esMode' = [esMode EXCEPT ![t] = m]
    /\ StateGo(t, "rlock")
    /\ UNCHANGED <<esOn, esModeOn, esMacdVars, esLocks, esData, esCopy, esOwns,
                   esIgnored, esRaced, esMacdLate>>

\* Nothing is to be written: the page shows what it loaded.
PageIdles(t) ==
    /\ esPc[t] = "look" /\ esCopy[t]
    /\ Forget({t})
    /\ UNCHANGED <<esSwitch, esMacdVars, esLocks, esIgnored, esMacdLate>>

TakeRLock(t) ==
    LET p == StateProcessOf[t] m == esMode[t] IN
    /\ esPc[t] = "rlock" /\ esRLock[p][m] = NoOwner
    /\ esRLock' = [esRLock EXCEPT ![p][m] = t]
    /\ StateGo(t, "lockfile")
    /\ UNCHANGED <<esSwitch, esMacdVars, esFile, esOld, esThread, esHistory>>

\* Faulty variant: the lock file is opened whether it exists or not.
MayCreateAlways(m) == TRUE

\* os.open with O_EXCL succeeds.
MayCreate(m) == esFile[m] = NoOwner

CreateLockFile(t) ==
    LET m == esMode[t] IN
    /\ esPc[t] = "lockfile" /\ MayCreate(m)
    /\ esFile' = [esFile EXCEPT ![m] = t]
    /\ esOld' = [esOld EXCEPT ![m] = FALSE]
    /\ esOwns' = [esOwns EXCEPT ![t] = TRUE]
    /\ StateGo(t, "load")
    /\ UNCHANGED <<esSwitch, esMacdVars, esRLock, esOp, esMode, esData, esCopy,
                   esHistory>>

\* A lock file older than 30 seconds is taken for a crashed owner's ...
SeeOldLock(t) ==
    /\ esPc[t] = "lockfile"
    /\ esFile[esMode[t]] # NoOwner /\ esOld[esMode[t]]
    /\ StateGo(t, "steal")
    /\ UNCHANGED <<esSwitch, esMacdVars, esLocks, esThread, esHistory>>

\* ... and removed, by name: by then the name may be a new owner's.
RemoveLockFile(t) ==
    LET m == esMode[t] IN
    /\ esPc[t] = "steal"
    /\ esFile' = [esFile EXCEPT ![m] = NoOwner]
    /\ esOld' = [esOld EXCEPT ![m] = FALSE]
    /\ esIgnored' = (esIgnored \/ (esFile[m] # NoOwner /\ ~esOld[m]))
    /\ StateGo(t, "lockfile")
    /\ UNCHANGED <<esSwitch, esMacdVars, esRLock, esThread, esBlind, esRaced,
                   esMacdLate>>

\* After 20 seconds of waiting the thread goes on without the lock file.
GiveUpLockFile(t) ==
    /\ esPc[t] = "lockfile"
    /\ esFile[esMode[t]] # NoOwner /\ ~esOld[esMode[t]]
    /\ esIgnored' = TRUE
    /\ StateGo(t, "load")
    /\ UNCHANGED <<esSwitch, esMacdVars, esLocks, esThread, esBlind, esRaced,
                   esMacdLate>>

\* load_state, and auto_trade_on set by the operation.  The watcher and the
\* page read the active mode; the others load the mode they named.
Load(t) ==
    /\ esPc[t] = "load"
    /\ \E m \in IF esOp[t] \in {"watch", "page"} THEN ActiveRead ELSE {esMode[t]} :
          /\ esData' = [esData EXCEPT ![t] = m]
          /\ \E profile, file \in BOOLEAN :
                esCopy' = [esCopy EXCEPT ![t] =
                    \/ MayEnable(esOp[t])
                    \/ esOp[t] # "off" /\ Loaded(m, profile, file)]
    /\ StateGo(t, "guard")
    /\ UNCHANGED <<esSwitch, esMacdVars, esLocks, esOp, esMode, esOwns, esHistory>>

\* _effective_disk_auto_trade_on is False: the profile says so or, if that
\* cannot be read, the file of the mode.  None, if neither can, is not False.
DiskOff(m, profile, file) ==
    IF profile THEN ~esOn ELSE file /\ ~esModeOn[m]

\* Faulty variant: a copy is saved as it is.
GuardedCopyStale(t, profile, file) == esCopy[t]

\* save_state_atomic: only an explicit start may turn OFF into ON.
GuardedCopy(t, profile, file) ==
    esCopy[t] /\ (MayEnable(esOp[t]) \/ ~DiskOff(esData[t], profile, file))

Guard(t) ==
    /\ esPc[t] = "guard"
    /\ \E profile, file \in BOOLEAN :
          /\ esCopy' = [esCopy EXCEPT ![t] = GuardedCopy(t, profile, file)]
          /\ esBlind' = [esBlind EXCEPT ![t] =
                 IF MayEnable(esOp[t]) THEN @
                   ELSE ~profile /\ GuardedCopy(t, profile, file)]
    /\ StateGo(t, "profile")
    /\ UNCHANGED <<esSwitch, esMacdVars, esLocks, esOp, esMode, esData, esOwns,
                   esIgnored, esRaced, esMacdLate>>

\* ... the profile is written first ...
WriteProfile(t) ==
    /\ esPc[t] = "profile"
    /\ esOn' = esCopy[t]
    /\ esRaced' = [u \in StateThreads |-> esRaced[u] \/
                      (/\ ~esCopy[t] /\ u # t /\ esPc[u] = "profile"
                       /\ esCopy[u] /\ ~MayEnable(esOp[u]))]
    /\ esMacdLate' = (esMacdLate \/ (esCopy[t] /\ esMacdPc = "checked"))
    /\ StateGo(t, "file")
    /\ UNCHANGED <<esModeOn, esActive, esMacdVars, esLocks, esThread, esIgnored,
                   esBlind>>

\* ... unless that fails, which is not noticed ...
ProfileFails(t) ==
    /\ esPc[t] = "profile"
    /\ StateGo(t, "file")
    /\ UNCHANGED <<esSwitch, esMacdVars, esLocks, esThread, esHistory>>

\* ... then the file of the mode is replaced, or is not.  The locks are
\* released: the lock file by name, if this thread created one.
WriteFile(t) ==
    LET p == StateProcessOf[t] m == esMode[t] IN
    /\ esPc[t] = "file"
    /\ esModeOn' \in {esModeOn, [esModeOn EXCEPT ![esData[t]] = esCopy[t]]}
    /\ esFile' = [esFile EXCEPT ![m] = IF esOwns[t] THEN NoOwner ELSE @]
    /\ esOld' = [esOld EXCEPT ![m] = @ /\ ~esOwns[t]]
    /\ esIgnored' = (esIgnored \/ (esOwns[t] /\ esFile[m] \notin {t, NoOwner}))
    /\ esRLock' = IF NeedsLock(esOp[t])
                    THEN [esRLock EXCEPT ![p][m] = NoOwner] ELSE esRLock
    /\ Forget({t})
    /\ UNCHANGED <<esOn, esActive, esMacdVars, esMacdLate>>

\* set_active_mode.
SwitchMode ==
    /\ \E m \in Modes \ {esActive} : esActive' = m
    /\ UNCHANGED <<esOn, esModeOn, esMacdVars, esLocks, esPc, esThread, esHistory>>

\* Thirty seconds pass: an update with slow broker calls outlives its lock.
LockAges(m) ==
    /\ esFile[m] # NoOwner /\ ~esOld[m]
    /\ esOld' = [esOld EXCEPT ![m] = TRUE]
    /\ esIgnored' = (esIgnored \/
                        \E t \in StateThreads : esOwns[t] /\ esMode[t] = m)
    /\ UNCHANGED <<esSwitch, esMacdVars, esRLock, esFile, esPc, esThread, esBlind,
                   esRaced, esMacdLate>>

\* A process ends at any point; its lock files stay.
StateCrash(p) ==
    LET gone == {t \in StateThreads : StateProcessOf[t] = p} IN
    /\ \E t \in gone : esPc[t] # "idle"
    /\ Forget(gone)
    /\ esRLock' = [esRLock EXCEPT ![p] = [m \in Modes |-> NoOwner]]
    /\ UNCHANGED <<esSwitch, esMacdVars, esFile, esOld, esIgnored, esMacdLate>>

\* can_start_macd: the switch of Enhanced is loaded and must be off; a mutex
\* file is taken for a leftover if MACD's state does not say ON ...
MacdCheck ==
    /\ esMacdPc = "idle"
    /\ \E profile \in BOOLEAN, m \in ActiveRead :
          /\ ~Loaded(m, profile, TRUE)
          /\ esMacdLate' = ~profile
    /\ \E state \in BOOLEAN : esMutex' = (esMutex /\ state /\ esMacd)
    /\ esMacdPc' = "checked"
    /\ UNCHANGED <<esSwitch, esMacd, esCopies, esLocks, esPc, esThread, esIgnored,
                   esBlind, esRaced>>

\* Starts that have looked at the MACD strategy before it is turned on.
RacedByMacd ==
    [t \in StateThreads |-> esRaced[t] \/
        (~esMacd /\ esPc[t] \notin {"idle", "look"} /\ esOp[t] = "on")]

\* ... and the strategy is started, unless an old worker does not end.
MacdStart ==
    /\ esMacdPc = "checked" /\ esMacdPc' = "idle"
    /\ \/ esMacd' = TRUE /\ esMutex' = TRUE /\ esRaced' = RacedByMacd
       \/ UNCHANGED <<esMacd, esMutex, esRaced>>
    /\ esMacdLate' = FALSE
    /\ UNCHANGED <<esSwitch, esCopies, esLocks, esPc, esThread, esIgnored, esBlind>>

\* stop_auto_trade: the mutex file is cleared, the state is loaded and saved.
MacdStop ==
    /\ esMacd' = FALSE /\ esMutex' = FALSE
    /\ UNCHANGED <<esSwitch, esMacdPc, esCopies, esLocks, esPc, esThread, esHistory>>

\* A tick, the loop or the page loads MACD's state, OFF if it cannot be read ...
MacdLoad ==
    /\ \E state \in BOOLEAN : esCopies' = esCopies \cup {state /\ esMacd}
    /\ UNCHANGED <<esSwitch, esMacd, esMutex, esMacdPc, esLocks, esPc, esThread,
                   esHistory>>

\* ... and saves it, with the switch as it was then.
MacdSave ==
    /\ \E on \in esCopies :
          /\ esMacd' = on
          /\ esRaced' = IF on THEN RacedByMacd ELSE esRaced
          /\ esCopies' \in {esCopies, esCopies \ {on}}
    /\ UNCHANGED <<esSwitch, esMutex, esMacdPc, esLocks, esPc, esThread, esIgnored,
                   esBlind, esMacdLate>>

StateStep(t) ==
    \/ PageWrites(t) \/ PageIdles(t) \/ TakeRLock(t) \/ CreateLockFile(t)
    \/ SeeOldLock(t) \/ RemoveLockFile(t) \/ GiveUpLockFile(t) \/ Load(t)
    \/ Guard(t) \/ WriteProfile(t) \/ ProfileFails(t) \/ WriteFile(t)

MacdStep == MacdCheck \/ MacdStart \/ MacdStop \/ MacdLoad \/ MacdSave

StateNext ==
    \/ \E t \in StateThreads :
          StateStep(t) \/ \E op \in Ops : Start(t, op)
    \/ \E m \in Modes : LockAges(m)
    \/ \E p \in StateProcesses : StateCrash(p)
    \/ SwitchMode \/ MacdStep

StateSpec == StateInit /\ [][StateNext]_esVars

(***************************************************************************)
(* Properties.                                                             *)
(***************************************************************************)

\* "the load-modify-save cycle itself is serialised per mode" (line 53): two
\* threads are between load and save of one mode's state only if one is the
\* page's lockless save, or the watcher that locked the mode that was active
\* before, or they run in two processes and a lock file was not respected.
SectionsExclude ==
    \A t, u \in StateThreads :
        t # u /\ InSection(t) /\ InSection(u) /\ esData[t] = esData[u] =>
            \/ \E v \in {t, u} : ~NeedsLock(esOp[v]) \/ esMode[v] # esData[v]
            \/ StateProcessOf[t] # StateProcessOf[u] /\ esIgnored

\* "stale in-memory snapshots must not restore Enhanced ON" (line 657): what
\* is not an explicit start turns OFF into ON only if it missed the OFF: OFF
\* was written between the guard and the write of its save, or the guard could
\* not read the profile, and did not find OFF in the file of the mode either.
OffRestoredOnlyIfMissed ==
    [][\A t \in StateThreads : WriteProfile(t) /\ ~esOn /\ esOn' =>
           MayEnable(esOp[t]) \/ esRaced[t] \/ esBlind[t]]_esVars

\* No step leaves both strategies on but these: a write of ON to the profile
\* by a thread that missed what should have stopped it (MACD's switch, for a
\* start on the page, which does not look for a reset and for a mode taken
\* while it shows ON; the OFF on disk, for any other save); a start of MACD
\* whose check missed Enhanced's switch; a save of an old copy of MACD's state.
BothOnOnlyIfMissed ==
    [][~(esOn /\ esMacd) /\ (esOn /\ esMacd)' =>
           \/ \E t \in StateThreads : WriteProfile(t) /\ (esBlind[t] \/ esRaced[t])
           \/ MacdStart /\ esMacdLate
           \/ MacdSave]_esVars
=============================================================================
