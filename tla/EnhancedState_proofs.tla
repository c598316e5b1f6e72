------------------------- MODULE EnhancedState_proofs -------------------------
(***************************************************************************)
(* Proofs about the state files of the Enhanced strategy: the switch that  *)
(* no old copy turns on again, the two strategies that are not on          *)
(* together, and the two locks that keep load-modify-save cycles apart;    *)
(* and about the deferral that one of these files holds for the fast       *)
(* worker (FastWorker): the request that is not slept on, the answer that  *)
(* settles it, and the tick that ends the hurry.                           *)
(***************************************************************************)
EXTENDS EnhancedState, FastWorker, TLAPS

PcNames == {"idle", "look", "rlock", "lockfile", "steal", "load", "guard",
            "profile", "file"}

\* The groups of variables are used as the variables they are.
USE DEF esSwitch, esMacdVars, esLocks, esThread, esHistory

-----------------------------------------------------------------------------
(* Types.                                                                  *)

\* What Forget does, thread by thread.
LEMMA Forgets ==
  ASSUME StateTypeOK, NEW ts \in SUBSET StateThreads, Forget(ts)
  PROVE  /\ esPc' \in [StateThreads -> PcNames]
         /\ esOp' \in [StateThreads -> Ops]
         /\ esMode' \in [StateThreads -> Modes]
         /\ esData' \in [StateThreads -> Modes]
         /\ esCopy' \in [StateThreads -> BOOLEAN]
         /\ esOwns' \in [StateThreads -> BOOLEAN]
         /\ esBlind' \in [StateThreads -> BOOLEAN]
         /\ esRaced' \in [StateThreads -> BOOLEAN]
         /\ \A t \in ts : esPc'[t] = "idle" /\ esOp'[t] = "page" /\ ~esOwns'[t]
         /\ \A t \in StateThreads \ ts :
               /\ esPc'[t] = esPc[t] /\ esOp'[t] = esOp[t]
               /\ esMode'[t] = esMode[t] /\ esData'[t] = esData[t]
               /\ esCopy'[t] = esCopy[t] /\ esOwns'[t] = esOwns[t]
               /\ esBlind'[t] = esBlind[t] /\ esRaced'[t] = esRaced[t]
  <1>1. esPc' \in [StateThreads -> PcNames] /\ esOp' \in [StateThreads -> Ops]
    BY DEF Forget, StateTypeOK, PcNames, Ops
  <1>2. /\ esMode' \in [StateThreads -> Modes]
        /\ esData' \in [StateThreads -> Modes]
    BY MockAssumption DEF Forget, StateTypeOK
  <1>3. /\ esCopy' \in [StateThreads -> BOOLEAN]
        /\ esOwns' \in [StateThreads -> BOOLEAN]
        /\ esBlind' \in [StateThreads -> BOOLEAN]
        /\ esRaced' \in [StateThreads -> BOOLEAN]
    BY DEF Forget
  <1>4. \A t \in ts : esPc'[t] = "idle" /\ esOp'[t] = "page" /\ ~esOwns'[t]
    BY DEF Forget
  <1>5. \A t \in StateThreads \ ts :
           /\ esPc'[t] = esPc[t] /\ esOp'[t] = esOp[t]
           /\ esMode'[t] = esMode[t] /\ esData'[t] = esData[t]
    BY DEF Forget
  <1>6. \A t \in StateThreads \ ts :
           /\ esCopy'[t] = esCopy[t] /\ esOwns'[t] = esOwns[t]
           /\ esBlind'[t] = esBlind[t] /\ esRaced'[t] = esRaced[t]
    <2> TAKE t \in StateThreads \ ts
    <2>1. /\ esCopy[t] \in BOOLEAN /\ esOwns[t] \in BOOLEAN
          /\ esBlind[t] \in BOOLEAN /\ esRaced[t] \in BOOLEAN
      BY DEF StateTypeOK
    <2>2. /\ esCopy'[t] = (esCopy[t] /\ t \notin ts)
          /\ esOwns'[t] = (esOwns[t] /\ t \notin ts)
          /\ esBlind'[t] = (esBlind[t] /\ t \notin ts)
          /\ esRaced'[t] = (esRaced[t] /\ t \notin ts)
      BY DEF Forget
    <2> QED BY <2>1, <2>2
  <1> QED BY <1>1, <1>2, <1>3, <1>4, <1>5, <1>6

LEMMA InitTyped == StateInit => StateTypeOK
  <1> SUFFICES ASSUME StateInit PROVE StateTypeOK
    OBVIOUS
  <1>1. /\ esOn \in BOOLEAN /\ esModeOn \in [Modes -> BOOLEAN]
        /\ esActive \in Modes
        /\ esMacd \in BOOLEAN /\ esMutex \in BOOLEAN
        /\ esMacdPc \in {"idle", "checked"} /\ esCopies \in SUBSET BOOLEAN
        /\ esIgnored \in BOOLEAN /\ esMacdLate \in BOOLEAN
    BY DEF StateInit
  <1>2. /\ esRLock \in [StateProcesses -> [Modes -> StateThreads \cup {NoOwner}]]
        /\ esFile \in [Modes -> StateThreads \cup {NoOwner}]
        /\ esOld \in [Modes -> BOOLEAN]
    BY DEF StateInit
  <1>3. /\ esPc \in [StateThreads -> {"idle", "look", "rlock", "lockfile", "steal",
                                     "load", "guard", "profile", "file"}]
        /\ esOp \in [StateThreads -> Ops]
        /\ esMode \in [StateThreads -> Modes]
        /\ esData \in [StateThreads -> Modes]
    BY MockAssumption DEF StateInit, Ops
  <1>4. /\ esCopy \in [StateThreads -> BOOLEAN]
        /\ esOwns \in [StateThreads -> BOOLEAN]
        /\ esBlind \in [StateThreads -> BOOLEAN]
        /\ esRaced \in [StateThreads -> BOOLEAN]
    BY DEF StateInit
  <1> QED BY <1>1, <1>2, <1>3, <1>4 DEF StateTypeOK

LEMMA ActiveTyped ==
  ASSUME StateTypeOK, NEW m \in ActiveRead PROVE m \in Modes
  BY MockAssumption DEF StateTypeOK, ActiveRead

\* The page's switch keeps the types.
LEMMA PageTyped ==
  ASSUME StateTypeOK, NEW t \in StateThreads, PageWrites(t) \/ PageIdles(t)
  PROVE  StateTypeOK'
  <1>1. CASE PageWrites(t)
    <2>1. PICK m \in Modes :
            /\ PageLooks(t) \/ PageTakesMode(t, m)
            /\ esActive' = m /\ esMode' = [esMode EXCEPT ![t] = m]
      BY <1>1 DEF PageWrites
    <2>2. esOp' \in [StateThreads -> Ops] /\ esBlind' \in [StateThreads -> BOOLEAN]
      <3>1. CASE PageLooks(t)
        <4>1. PICK state \in BOOLEAN, mutex \in BOOLEAN :
                /\ esOp' = [esOp EXCEPT ![t] =
                               IF MacdSeen(state, mutex) THEN "off" ELSE "on"]
                /\ esBlind' = [esBlind EXCEPT ![t] =
                                  ~state /\ ~MacdSeen(state, mutex)]
          BY <3>1 DEF PageLooks
        <4> QED BY <4>1 DEF StateTypeOK, Ops
      <3>2. CASE PageTakesMode(t, m)
        BY <3>2 DEF PageTakesMode, StateTypeOK
      <3> QED BY <2>1, <3>1, <3>2
    <2> QED BY <1>1, <2>1, <2>2 DEF PageWrites, StateGo, StateTypeOK
  <1>2. CASE PageIdles(t)
    <2>1. Forget({t}) /\ UNCHANGED <<esSwitch, esMacdVars, esLocks, esIgnored,
                                     esMacdLate>>
      BY <1>2 DEF PageIdles
    <2> QED BY <2>1, Forgets DEF StateTypeOK, PcNames
  <1> QED BY <1>1, <1>2

\* An action of one thread keeps the types.
LEMMA StepTyped ==
  ASSUME StateTypeOK, NEW t \in StateThreads, StateStep(t)
  PROVE  StateTypeOK'
  <1> USE StateProcessAssumption
  <1>1. CASE TakeRLock(t)
    BY <1>1 DEF TakeRLock, StateGo, StateTypeOK
  <1>2. CASE CreateLockFile(t)
    BY <1>2 DEF CreateLockFile, StateGo, StateTypeOK
  <1>3. CASE SeeOldLock(t)
    BY <1>3 DEF SeeOldLock, StateGo, StateTypeOK
  <1>4. CASE RemoveLockFile(t)
    BY <1>4 DEF RemoveLockFile, StateGo, StateTypeOK
  <1>5. CASE GiveUpLockFile(t)
    BY <1>5 DEF GiveUpLockFile, StateGo, StateTypeOK
  <1>6. CASE Load(t)
    <2>1. PICK m \in IF esOp[t] \in {"watch", "page"} THEN ActiveRead
                      ELSE {esMode[t]} :
            /\ esData' = [esData EXCEPT ![t] = m]
            /\ \E profile, file \in BOOLEAN :
                  esCopy' = [esCopy EXCEPT ![t] =
                      \/ MayEnable(esOp[t])
                      \/ esOp[t] # "off" /\ Loaded(m, profile, file)]
      BY <1>6 DEF Load
    <2>2. m \in Modes
      BY <2>1, ActiveTyped DEF StateTypeOK
    <2>3. PICK profile \in BOOLEAN, file \in BOOLEAN :
            esCopy' = [esCopy EXCEPT ![t] =
                \/ MayEnable(esOp[t])
                \/ esOp[t] # "off" /\ Loaded(m, profile, file)]
      BY <2>1
    <2>4. esCopy' \in [StateThreads -> BOOLEAN]
      BY <2>3 DEF StateTypeOK
    <2>5. esData' \in [StateThreads -> Modes]
      BY <2>1, <2>2 DEF StateTypeOK
    <2> QED BY <1>6, <2>4, <2>5 DEF Load, StateGo, StateTypeOK
  <1>7. CASE Guard(t)
    <2>1. PICK profile \in BOOLEAN, file \in BOOLEAN :
            /\ esCopy' = [esCopy EXCEPT ![t] = GuardedCopy(t, profile, file)]
            /\ esBlind' = [esBlind EXCEPT ![t] =
                   IF MayEnable(esOp[t]) THEN @
                     ELSE ~profile /\ GuardedCopy(t, profile, file)]
      BY <1>7 DEF Guard
    <2>2. esCopy' \in [StateThreads -> BOOLEAN]
      BY <2>1 DEF GuardedCopy, StateTypeOK
    <2>3. esBlind' \in [StateThreads -> BOOLEAN]
      BY <2>1 DEF StateTypeOK
    <2> QED BY <1>7, <2>2, <2>3 DEF Guard, StateGo, StateTypeOK
  <1>8. CASE WriteProfile(t)
    BY <1>8 DEF WriteProfile, StateGo, StateTypeOK
  <1>9. CASE ProfileFails(t)
    BY <1>9 DEF ProfileFails, StateGo, StateTypeOK
  <1>10. CASE WriteFile(t)
    <2> DEFINE p == StateProcessOf[t] m == esMode[t]
    <2>1. /\ esModeOn' \in {esModeOn, [esModeOn EXCEPT ![esData[t]] = esCopy[t]]}
          /\ esFile' = [esFile EXCEPT ![m] = IF esOwns[t] THEN NoOwner ELSE esFile[m]]
          /\ esOld' = [esOld EXCEPT ![m] = esOld[m] /\ ~esOwns[t]]
          /\ esRLock' = IF NeedsLock(esOp[t])
                          THEN [esRLock EXCEPT ![p][m] = NoOwner] ELSE esRLock
          /\ esIgnored' \in BOOLEAN
          /\ Forget({t})
          /\ UNCHANGED <<esOn, esActive, esMacdVars, esMacdLate>>
      BY <1>10 DEF WriteFile, StateTypeOK
    <2>2. p \in StateProcesses /\ m \in Modes
      BY DEF StateTypeOK
    <2>3. esFile' \in [Modes -> StateThreads \cup {NoOwner}]
          /\ esOld' \in [Modes -> BOOLEAN]
      BY <2>1, <2>2 DEF StateTypeOK
    <2>4. esRLock' \in [StateProcesses -> [Modes -> StateThreads \cup {NoOwner}]]
      BY <2>1, <2>2 DEF StateTypeOK
    <2>5. esModeOn' \in [Modes -> BOOLEAN]
      BY <2>1 DEF StateTypeOK
    <2> QED BY <2>1, <2>3, <2>4, <2>5, Forgets DEF StateTypeOK, PcNames
  <1> QED BY <1>1, <1>2, <1>3, <1>4, <1>5, <1>6, <1>7, <1>8, <1>9, <1>10,
             PageTyped DEF StateStep

LEMMA RacedTyped ==
  ASSUME StateTypeOK PROVE RacedByMacd \in [StateThreads -> BOOLEAN]
  BY DEF StateTypeOK, RacedByMacd

\* The MACD strategy's steps keep the types.
LEMMA MacdTyped == ASSUME StateTypeOK, MacdStep PROVE StateTypeOK'
  <1>1. CASE MacdCheck
    <2>1. esMacdLate' \in BOOLEAN /\ esMutex' \in BOOLEAN /\ esMacdPc' = "checked"
      BY <1>1 DEF MacdCheck, StateTypeOK
    <2> QED BY <1>1, <2>1 DEF MacdCheck, StateTypeOK
  <1>2. CASE MacdStart
    BY <1>2, RacedTyped DEF MacdStart, StateTypeOK
  <1>3. CASE MacdStop
    BY <1>3 DEF MacdStop, StateTypeOK
  <1>4. CASE MacdLoad
    <2>1. PICK state \in BOOLEAN : esCopies' = esCopies \cup {state /\ esMacd}
      BY <1>4 DEF MacdLoad
    <2>2. (state /\ esMacd) \in BOOLEAN
      OBVIOUS
    <2>3. esCopies' \in SUBSET BOOLEAN
      BY <2>1, <2>2, Zenon DEF StateTypeOK
    <2> QED BY <1>4, <2>3 DEF MacdLoad, StateTypeOK
  <1>5. CASE MacdSave
    <2>1. PICK on \in esCopies :
            /\ esMacd' = on
            /\ esRaced' = IF on THEN RacedByMacd ELSE esRaced
            /\ esCopies' \in {esCopies, esCopies \ {on}}
      BY <1>5 DEF MacdSave
    <2>2. on \in BOOLEAN /\ esCopies' \in SUBSET BOOLEAN
      BY <2>1, Zenon DEF StateTypeOK
    <2>3. esRaced' \in [StateThreads -> BOOLEAN]
      BY <2>1, RacedTyped, Zenon DEF StateTypeOK
    <2> QED BY <1>5, <2>1, <2>2, <2>3 DEF MacdSave, StateTypeOK
  <1> QED BY <1>1, <1>2, <1>3, <1>4, <1>5 DEF MacdStep

LEMMA OthersTyped ==
  ASSUME StateTypeOK,
         \/ \E t \in StateThreads, op \in Ops : Start(t, op)
         \/ \E m \in Modes : LockAges(m)
         \/ \E p \in StateProcesses : StateCrash(p)
         \/ SwitchMode \/ MacdStep
  PROVE  StateTypeOK'
  <1>1. ASSUME NEW t \in StateThreads, NEW op \in Ops, Start(t, op)
        PROVE  StateTypeOK'
    <2>1. PICK m \in ActiveRead :
            /\ esMode' = [esMode EXCEPT ![t] = m]
            /\ esData' = [esData EXCEPT ![t] = m]
            /\ \E profile, file \in BOOLEAN : esCopy' =
                  [esCopy EXCEPT ![t] = op = "on" /\ Loaded(m, profile, file)]
      BY <1>1 DEF Start
    <2>2. PICK profile \in BOOLEAN, file \in BOOLEAN : esCopy' =
            [esCopy EXCEPT ![t] = op = "on" /\ Loaded(m, profile, file)]
      BY <2>1
    <2>3. /\ esMode' \in [StateThreads -> Modes]
          /\ esData' \in [StateThreads -> Modes]
      BY <2>1, ActiveTyped DEF StateTypeOK
    <2>4. esCopy' \in [StateThreads -> BOOLEAN]
      BY <2>2 DEF StateTypeOK
    <2>5. esPc' \in [StateThreads -> PcNames]
      BY <1>1 DEF Start, StateGo, StateTypeOK, PcNames
    <2> QED BY <1>1, <2>3, <2>4, <2>5 DEF Start, StateTypeOK, PcNames
  <1>2. ASSUME NEW m \in Modes, LockAges(m) PROVE StateTypeOK'
    BY <1>2 DEF LockAges, StateTypeOK
  <1>3. ASSUME NEW p \in StateProcesses, StateCrash(p) PROVE StateTypeOK'
    <2> DEFINE gone == {t \in StateThreads : StateProcessOf[t] = p}
    <2>1. /\ Forget(gone) /\ gone \in SUBSET StateThreads
          /\ esRLock' = [esRLock EXCEPT ![p] = [m \in Modes |-> NoOwner]]
          /\ UNCHANGED <<esSwitch, esMacdVars, esFile, esOld, esIgnored,
                         esMacdLate>>
      BY <1>3 DEF StateCrash
    <2>2. esRLock' \in [StateProcesses -> [Modes -> StateThreads \cup {NoOwner}]]
      BY <2>1 DEF StateTypeOK
    <2> HIDE DEF gone
    <2> QED BY <2>1, <2>2, Forgets DEF StateTypeOK, PcNames
  <1>4. CASE SwitchMode
    BY <1>4 DEF SwitchMode, StateTypeOK
  <1> QED BY <1>1, <1>2, <1>3, <1>4, MacdTyped

LEMMA NextTyped == StateTypeOK /\ [StateNext]_esVars => StateTypeOK'
  <1> SUFFICES ASSUME StateTypeOK, [StateNext]_esVars PROVE StateTypeOK'
    OBVIOUS
  <1>1. CASE UNCHANGED esVars
    BY <1>1 DEF esVars, StateTypeOK
  <1>2. CASE StateNext
    BY <1>2, StepTyped, OthersTyped DEF StateNext
  <1> QED BY <1>1, <1>2

\* The state files, the locks and the threads keep their types.
THEOREM StateTyped == StateSpec => []StateTypeOK
  BY InitTyped, NextTyped, PTL DEF StateSpec

-----------------------------------------------------------------------------
(* The switches.                                                           *)

\* A copy that would turn OFF into ON missed the OFF.
CopyGuarded ==
    \A t \in StateThreads :
        esPc[t] = "profile" /\ esCopy[t] /\ ~MayEnable(esOp[t]) /\ ~esOn =>
            esRaced[t] \/ esBlind[t]

\* A start that is on its way while MACD is on missed that.
StartLooked ==
    \A t \in StateThreads : esPc[t] \notin {"idle", "look"} =>
        /\ esOp[t] = "reset" => esBlind[t]
        /\ esOp[t] = "on" /\ esMacd => esRaced[t] \/ esBlind[t]

\* So does a start of MACD while Enhanced is on.
MacdLooked == esMacdPc = "checked" /\ esOn => esMacdLate

SwitchInv == StateTypeOK /\ CopyGuarded /\ StartLooked /\ MacdLooked

LEMMA InitSwitch == StateInit => SwitchInv
  <1> SUFFICES ASSUME StateInit PROVE SwitchInv
    OBVIOUS
  <1>1. StateTypeOK
    BY InitTyped
  <1>2. CopyGuarded /\ StartLooked /\ MacdLooked
    BY DEF StateInit, CopyGuarded, StartLooked, MacdLooked
  <1> QED BY <1>1, <1>2 DEF SwitchInv

\* A step of a thread, past its look at MACD, that writes no switch.
LEMMA SwitchKept ==
  ASSUME SwitchInv, NEW t \in StateThreads, NEW p \in PcNames,
         esPc[t] \notin {"idle", "look"}, StateGo(t, p),
         p = "profile" =>
            (esCopy'[t] => MayEnable(esOp[t]) \/ esOn \/ esBlind'[t]),
         MayEnable(esOp[t]) => esBlind'[t] = esBlind[t],
         \A u \in StateThreads \ {t} :
            esCopy'[u] = esCopy[u] /\ esBlind'[u] = esBlind[u],
         UNCHANGED <<esOn, esMacd, esMacdPc, esOp, esRaced, esMacdLate>>
  PROVE  CopyGuarded' /\ StartLooked' /\ MacdLooked'
  <1>1. esPc'[t] = p /\ \A u \in StateThreads \ {t} : esPc'[u] = esPc[u]
    BY DEF StateGo, SwitchInv, StateTypeOK
  <1>2. CopyGuarded'
    BY <1>1 DEF SwitchInv, CopyGuarded, MayEnable
  <1>3. StartLooked'
    BY <1>1 DEF SwitchInv, StartLooked, MayEnable
  <1>4. MacdLooked'
    BY DEF SwitchInv, MacdLooked
  <1> QED BY <1>2, <1>3, <1>4

\* The page looks at MACD, or does not and is blind.
LEMMA PageSwitch ==
  ASSUME SwitchInv, NEW t \in StateThreads, PageWrites(t)
  PROVE  CopyGuarded' /\ StartLooked' /\ MacdLooked'
  <1>0. StateTypeOK /\ CopyGuarded /\ StartLooked /\ MacdLooked
    BY DEF SwitchInv
  <1>1. PICK m \in Modes : PageLooks(t) \/ PageTakesMode(t, m)
    BY DEF PageWrites
  <1>2. /\ esPc' = [esPc EXCEPT ![t] = "rlock"]
        /\ UNCHANGED <<esOn, esMacd, esMacdPc, esCopy, esRaced, esMacdLate>>
    BY DEF PageWrites, StateGo
  <1>3. esPc'[t] = "rlock" /\ \A u \in StateThreads \ {t} : esPc'[u] = esPc[u]
    BY <1>0, <1>2 DEF StateTypeOK
  <1>4. /\ \A u \in StateThreads \ {t} :
              esOp'[u] = esOp[u] /\ esBlind'[u] = esBlind[u]
        /\ esOp'[t] = "reset" => esBlind'[t]
        /\ esOp'[t] = "on" /\ esMacd => esBlind'[t]
    <2>1. CASE PageLooks(t)
      <3>1. PICK state \in BOOLEAN, mutex \in BOOLEAN :
              /\ esOp' = [esOp EXCEPT ![t] =
                             IF MacdSeen(state, mutex) THEN "off" ELSE "on"]
              /\ esBlind' = [esBlind EXCEPT ![t] =
                                ~state /\ ~MacdSeen(state, mutex)]
        BY <2>1 DEF PageLooks
      <3>2. /\ esOp'[t] = IF MacdSeen(state, mutex) THEN "off" ELSE "on"
            /\ esBlind'[t] = (~state /\ ~MacdSeen(state, mutex))
            /\ \A u \in StateThreads \ {t} :
                  esOp'[u] = esOp[u] /\ esBlind'[u] = esBlind[u]
        BY <1>0, <3>1 DEF StateTypeOK
      <3> QED BY <3>2 DEF MacdSeen
    <2>2. CASE PageTakesMode(t, m)
      BY <1>0, <2>2 DEF PageTakesMode, StateTypeOK
    <2> QED BY <1>1, <2>1, <2>2
  <1>5. CopyGuarded'
    BY <1>0, <1>2, <1>3, <1>4 DEF CopyGuarded, MayEnable
  <1>6. StartLooked'
    BY <1>0, <1>2, <1>3, <1>4 DEF StartLooked
  <1>7. MacdLooked'
    BY <1>0, <1>2 DEF MacdLooked
  <1> QED BY <1>5, <1>6, <1>7

\* The save writes the switch.
LEMMA SwitchWritten ==
  ASSUME SwitchInv, NEW t \in StateThreads, WriteProfile(t)
  PROVE  CopyGuarded' /\ StartLooked' /\ MacdLooked'
  <1>1. StateTypeOK /\ CopyGuarded /\ StartLooked /\ MacdLooked
    BY DEF SwitchInv
  <1>2. /\ esPc[t] = "profile" /\ esOn' = esCopy[t]
        /\ esMacdLate' = (esMacdLate \/ (esCopy[t] /\ esMacdPc = "checked"))
        /\ esPc' = [esPc EXCEPT ![t] = "file"]
        /\ UNCHANGED <<esMacd, esMacdPc, esOp, esCopy, esBlind>>
    BY DEF WriteProfile, StateGo
  <1>3. \A u \in StateThreads :
           esRaced'[u] <=> esRaced[u] \/
              (/\ ~esCopy[t] /\ u # t /\ esPc[u] = "profile"
               /\ esCopy[u] /\ ~MayEnable(esOp[u]))
    BY DEF WriteProfile
  <1>4. esPc'[t] = "file" /\ \A u \in StateThreads \ {t} : esPc'[u] = esPc[u]
    BY <1>1, <1>2 DEF StateTypeOK
  <1>5. CopyGuarded'
    <2> SUFFICES ASSUME NEW u \in StateThreads, esPc'[u] = "profile", esCopy[u],
                        ~MayEnable(esOp[u]), ~esOn'
                 PROVE  esRaced'[u]
      BY <1>2 DEF CopyGuarded, MayEnable
    <2>1. u # t /\ esPc[u] = "profile"
      BY <1>4
    <2>2. ~esCopy[t]
      BY <1>2
    <2> QED BY <1>3, <2>1, <2>2
  <1>6. StartLooked'
    BY <1>1, <1>2, <1>3, <1>4 DEF StartLooked
  <1>7. MacdLooked'
    BY <1>2 DEF MacdLooked
  <1> QED BY <1>5, <1>6, <1>7

\* Threads that are gone leave nothing behind in memory.
LEMMA SwitchForgets ==
  ASSUME SwitchInv, NEW ts \in SUBSET StateThreads, Forget(ts),
         UNCHANGED <<esOn, esMacd, esMacdPc, esMacdLate>>
  PROVE  CopyGuarded' /\ StartLooked' /\ MacdLooked'
  <1>1. StateTypeOK /\ CopyGuarded /\ StartLooked /\ MacdLooked
    BY DEF SwitchInv
  <1>2. /\ \A t \in ts : esPc'[t] = "idle"
        /\ \A t \in StateThreads \ ts :
              /\ esPc'[t] = esPc[t] /\ esOp'[t] = esOp[t]
              /\ esCopy'[t] = esCopy[t] /\ esBlind'[t] = esBlind[t]
              /\ esRaced'[t] = esRaced[t]
    BY <1>1, Forgets
  <1>3. CopyGuarded'
    BY <1>1, <1>2 DEF CopyGuarded, MayEnable
  <1>4. StartLooked'
    BY <1>1, <1>2 DEF StartLooked
  <1>5. MacdLooked'
    BY <1>1 DEF MacdLooked
  <1> QED BY <1>3, <1>4, <1>5

LEMMA SwitchThreads ==
  ASSUME SwitchInv, NEW t \in StateThreads, StateStep(t)
  PROVE  CopyGuarded' /\ StartLooked' /\ MacdLooked'
  <1>0. StateTypeOK
    BY DEF SwitchInv
  <1>1. CASE TakeRLock(t)
    BY <1>1, SwitchKept DEF TakeRLock, PcNames
  <1>2. CASE CreateLockFile(t)
    BY <1>2, SwitchKept DEF CreateLockFile, PcNames
  <1>3. CASE SeeOldLock(t)
    BY <1>3, SwitchKept DEF SeeOldLock, PcNames
  <1>4. CASE RemoveLockFile(t)
    BY <1>4, SwitchKept DEF RemoveLockFile, PcNames
  <1>5. CASE GiveUpLockFile(t)
    BY <1>5, SwitchKept DEF GiveUpLockFile, PcNames
  <1>6. CASE Load(t)
    <2>1. \A u \in StateThreads \ {t} : esCopy'[u] = esCopy[u]
      BY <1>0, <1>6 DEF Load, StateTypeOK
    <2> QED BY <1>6, <2>1, SwitchKept DEF Load, PcNames
  <1>7. CASE Guard(t)
    <2>1. PICK profile \in BOOLEAN, file \in BOOLEAN :
            /\ esCopy' = [esCopy EXCEPT ![t] = GuardedCopy(t, profile, file)]
            /\ esBlind' = [esBlind EXCEPT ![t] =
                   IF MayEnable(esOp[t]) THEN esBlind[t]
                     ELSE ~profile /\ GuardedCopy(t, profile, file)]
      BY <1>0, <1>7 DEF Guard, StateTypeOK
    <2>2. /\ esCopy'[t] = GuardedCopy(t, profile, file)
          /\ esBlind'[t] = IF MayEnable(esOp[t]) THEN esBlind[t]
                             ELSE ~profile /\ GuardedCopy(t, profile, file)
          /\ \A u \in StateThreads \ {t} :
                esCopy'[u] = esCopy[u] /\ esBlind'[u] = esBlind[u]
      BY <1>0, <2>1 DEF StateTypeOK
    <2>3. esCopy'[t] => MayEnable(esOp[t]) \/ esOn \/ esBlind'[t]
      BY <2>2 DEF GuardedCopy, DiskOff
    <2>4. MayEnable(esOp[t]) => esBlind'[t] = esBlind[t]
      BY <2>2
    <2> QED BY <1>7, <2>2, <2>3, <2>4, SwitchKept DEF Guard, PcNames
  <1>8. CASE WriteProfile(t)
    BY <1>8, SwitchWritten
  <1>9. CASE ProfileFails(t)
    BY <1>9, SwitchKept DEF ProfileFails, PcNames
  <1>10. CASE WriteFile(t)
    BY <1>10, SwitchForgets DEF WriteFile
  <1>11. CASE PageIdles(t)
    BY <1>11, SwitchForgets DEF PageIdles
  <1> QED BY <1>1, <1>2, <1>3, <1>4, <1>5, <1>6, <1>7, <1>8, <1>9, <1>10,
             <1>11, PageSwitch DEF StateStep

\* When MACD is turned on, the starts that looked at it are raced.
LEMMA MacdTurns ==
  ASSUME SwitchInv, esRaced' = RacedByMacd \/ (esRaced' = esRaced /\ (esMacd' => esMacd)),
         UNCHANGED <<esOn, esPc, esOp, esCopy, esBlind>>
  PROVE  CopyGuarded' /\ StartLooked'
  <1>0. StateTypeOK /\ CopyGuarded /\ StartLooked
    BY DEF SwitchInv
  <1>1. \A t \in StateThreads :
          /\ esRaced[t] => esRaced'[t]
          /\ \/ esMacd' => esMacd
             \/ esPc[t] \notin {"idle", "look"} /\ esOp[t] = "on" =>
                    esMacd \/ esRaced'[t]
    <2>1. CASE esRaced' = RacedByMacd
      BY <2>1 DEF RacedByMacd
    <2>2. CASE esRaced' = esRaced /\ (esMacd' => esMacd)
      BY <2>2
    <2> QED BY <2>1, <2>2
  <1>2. CopyGuarded'
    BY <1>0, <1>1 DEF CopyGuarded, MayEnable
  <1>3. StartLooked'
    BY <1>0, <1>1 DEF StartLooked
  <1> QED BY <1>2, <1>3

LEMMA SwitchMacd ==
  ASSUME SwitchInv, MacdStep
  PROVE  CopyGuarded' /\ StartLooked' /\ MacdLooked'
  <1>0. StateTypeOK /\ CopyGuarded /\ StartLooked /\ MacdLooked
    BY DEF SwitchInv
  <1>1. CASE MacdCheck
    <2>1. PICK profile \in BOOLEAN, m \in ActiveRead :
            ~Loaded(m, profile, TRUE) /\ esMacdLate' = ~profile
      BY <1>1 DEF MacdCheck
    <2>2. MacdLooked'
      BY <1>1, <2>1 DEF MacdCheck, MacdLooked, Loaded
    <2>3. CopyGuarded' /\ StartLooked'
      BY <1>0, <1>1 DEF MacdCheck, CopyGuarded, StartLooked, MayEnable
    <2> QED BY <2>2, <2>3
  <1>2. CASE MacdStart
    <2>1. MacdLooked'
      BY <1>2 DEF MacdStart, MacdLooked
    <2> QED BY <1>2, <2>1, MacdTurns DEF MacdStart
  <1>3. CASE MacdStop
    <2>1. MacdLooked'
      BY <1>0, <1>3 DEF MacdStop, MacdLooked
    <2> QED BY <1>3, <2>1, MacdTurns DEF MacdStop
  <1>4. CASE MacdLoad
    <2>1. MacdLooked'
      BY <1>0, <1>4 DEF MacdLoad, MacdLooked
    <2> QED BY <1>4, <2>1, MacdTurns DEF MacdLoad
  <1>5. CASE MacdSave
    <2>1. PICK on \in esCopies :
            esMacd' = on /\ esRaced' = IF on THEN RacedByMacd ELSE esRaced
      BY <1>5 DEF MacdSave
    <2>2. MacdLooked'
      BY <1>0, <1>5 DEF MacdSave, MacdLooked
    <2>3. esRaced' = RacedByMacd \/ (esRaced' = esRaced /\ (esMacd' => esMacd))
      BY <2>1, Zenon
    <2> QED BY <1>5, <2>2, <2>3, MacdTurns DEF MacdSave
  <1> QED BY <1>1, <1>2, <1>3, <1>4, <1>5 DEF MacdStep

LEMMA SwitchOthers ==
  ASSUME SwitchInv,
         \/ \E t \in StateThreads, op \in Ops : Start(t, op)
         \/ \E m \in Modes : LockAges(m)
         \/ \E p \in StateProcesses : StateCrash(p)
         \/ SwitchMode \/ MacdStep
  PROVE  CopyGuarded' /\ StartLooked' /\ MacdLooked'
  <1>0. StateTypeOK /\ CopyGuarded /\ StartLooked /\ MacdLooked
    BY DEF SwitchInv
  <1>1. ASSUME NEW t \in StateThreads, NEW op \in Ops, Start(t, op)
        PROVE  CopyGuarded' /\ StartLooked' /\ MacdLooked'
    <2>1. /\ esPc' = [esPc EXCEPT ![t] = IF op = "on" THEN "look"
                           ELSE IF NeedsLock(op) THEN "rlock" ELSE "load"]
          /\ esOp' = [esOp EXCEPT ![t] = op]
          /\ esBlind' = [esBlind EXCEPT ![t] = op = "reset"]
          /\ UNCHANGED <<esOn, esMacd, esMacdPc, esRaced, esMacdLate>>
      BY <1>1 DEF Start, StateGo
    <2>2. /\ esPc'[t] \in {"look", "rlock", "load"} /\ esOp'[t] = op
          /\ op = "on" => esPc'[t] = "look"
          /\ esBlind'[t] = (op = "reset")
          /\ \A u \in StateThreads \ {t} :
                esPc'[u] = esPc[u] /\ esOp'[u] = esOp[u] /\ esBlind'[u] = esBlind[u]
      BY <1>0, <2>1 DEF StateTypeOK
    <2>3. \A u \in StateThreads \ {t} : esCopy'[u] = esCopy[u]
      BY <1>0, <1>1 DEF Start, StateTypeOK
    <2>4. CopyGuarded'
      BY <1>0, <2>1, <2>2, <2>3 DEF CopyGuarded, MayEnable
    <2>5. StartLooked'
      BY <1>0, <2>1, <2>2 DEF StartLooked
    <2>6. MacdLooked'
      BY <1>0, <2>1 DEF MacdLooked
    <2> QED BY <2>4, <2>5, <2>6
  <1>2. ASSUME NEW m \in Modes, LockAges(m)
        PROVE  CopyGuarded' /\ StartLooked' /\ MacdLooked'
    BY <1>0, <1>2 DEF LockAges, CopyGuarded, StartLooked, MacdLooked, MayEnable
  <1>3. ASSUME NEW p \in StateProcesses, StateCrash(p)
        PROVE  CopyGuarded' /\ StartLooked' /\ MacdLooked'
    BY <1>3, SwitchForgets DEF StateCrash
  <1>4. CASE SwitchMode
    BY <1>0, <1>4 DEF SwitchMode, CopyGuarded, StartLooked, MacdLooked, MayEnable
  <1> QED BY <1>1, <1>2, <1>3, <1>4, SwitchMacd

LEMMA StepSwitch == SwitchInv /\ [StateNext]_esVars => SwitchInv'
  <1> SUFFICES ASSUME SwitchInv, [StateNext]_esVars PROVE SwitchInv'
    OBVIOUS
  <1>1. StateTypeOK'
    BY NextTyped DEF SwitchInv
  <1>2. CASE UNCHANGED esVars
    BY <1>1, <1>2 DEF esVars, SwitchInv, CopyGuarded, StartLooked, MacdLooked,
       MayEnable
  <1>3. CASE StateNext
    BY <1>1, <1>3, SwitchThreads, SwitchOthers DEF StateNext, SwitchInv
  <1> QED BY <1>2, <1>3

\* Who writes the two switches.
LEMMA SwitchWriters ==
  ASSUME StateNext
  PROVE  \/ \E t \in StateThreads : WriteProfile(t) /\ esMacd' = esMacd
         \/ (MacdStart \/ MacdStop \/ MacdSave) /\ esOn' = esOn
         \/ UNCHANGED <<esOn, esMacd>>
  <1>1. ASSUME NEW t \in StateThreads, StateStep(t)
        PROVE  (WriteProfile(t) /\ esMacd' = esMacd) \/ UNCHANGED <<esOn, esMacd>>
    BY <1>1 DEF StateStep, PageWrites, PageIdles, TakeRLock, CreateLockFile,
       SeeOldLock, RemoveLockFile, GiveUpLockFile, Load, Guard, WriteProfile,
       ProfileFails, WriteFile
  <1>2. ASSUME NEW t \in StateThreads, NEW op \in Ops, Start(t, op)
        PROVE  UNCHANGED <<esOn, esMacd>>
    BY <1>2 DEF Start
  <1>3. CASE MacdStep
    BY <1>3 DEF MacdStep, MacdCheck, MacdStart, MacdStop, MacdLoad, MacdSave
  <1> QED BY <1>1, <1>2, <1>3 DEF StateNext, LockAges, StateCrash, SwitchMode

\* No step leaves Enhanced and MACD both on but one that missed the switch it
\* had to respect, and the save of an old copy of MACD's state.
THEOREM BothOn == StateSpec => BothOnOnlyIfMissed
  <1> DEFINE Kept ==
        ~(esOn /\ esMacd) /\ (esOn /\ esMacd)' =>
           \/ \E t \in StateThreads : WriteProfile(t) /\ (esBlind[t] \/ esRaced[t])
           \/ MacdStart /\ esMacdLate
           \/ MacdSave
  <1>1. ASSUME SwitchInv, StateNext PROVE Kept
    <2> SUFFICES ASSUME ~(esOn /\ esMacd), esOn', esMacd'
                 PROVE  \/ \E t \in StateThreads :
                             WriteProfile(t) /\ (esBlind[t] \/ esRaced[t])
                        \/ MacdStart /\ esMacdLate
                        \/ MacdSave
      OBVIOUS
    <2>1. CASE \E t \in StateThreads : WriteProfile(t) /\ esMacd' = esMacd
      <3>1. PICK t \in StateThreads : WriteProfile(t) /\ esMacd' = esMacd
        BY <2>1
      <3>2. esPc[t] = "profile" /\ esOn' = esCopy[t] /\ esMacd' = esMacd
        BY <3>1 DEF WriteProfile
      <3>a. esCopy[t] /\ esMacd
        BY <3>2
      <3>b. ~esOn
        BY <3>a
      <3>3. esBlind[t] \/ esRaced[t]
        BY <1>1, <3>2, <3>a, <3>b
           DEF SwitchInv, CopyGuarded, StartLooked, MayEnable
      <3> QED BY <3>1, <3>3
    <2>2. CASE (MacdStart \/ MacdStop \/ MacdSave) /\ esOn' = esOn
      <3>1. MacdStart => esMacdLate
        BY <1>1, <2>2 DEF SwitchInv, MacdLooked, MacdStart
      <3>2. ~MacdStop
        BY DEF MacdStop
      <3> QED BY <2>2, <3>1, <3>2
    <2> QED BY <1>1, <2>1, <2>2, SwitchWriters
  <1> HIDE DEF Kept
  <1>2. SwitchInv /\ [StateNext]_esVars => [Kept]_esVars
    BY <1>1
  <1>3. StateSpec => [][Kept]_esVars
    BY <1>2, InitSwitch, StepSwitch, PTL DEF StateSpec
  <1> QED BY <1>3 DEF BothOnOnlyIfMissed, Kept

\* No copy turns OFF into ON but one that missed the OFF.
THEOREM OffRestored == StateSpec => OffRestoredOnlyIfMissed
  <1> DEFINE Kept ==
        \A t \in StateThreads : WriteProfile(t) /\ ~esOn /\ esOn' =>
            MayEnable(esOp[t]) \/ esRaced[t] \/ esBlind[t]
  <1>1. SwitchInv => Kept
    BY DEF SwitchInv, CopyGuarded, WriteProfile
  <1>2. SwitchInv /\ [StateNext]_esVars => [Kept]_esVars
    BY <1>1
  <1> HIDE DEF Kept
  <1>3. StateSpec => [][Kept]_esVars
    BY <1>2, InitSwitch, StepSwitch, PTL DEF StateSpec
  <1> QED BY <1>3 DEF OffRestoredOnlyIfMissed, Kept

-----------------------------------------------------------------------------
(* The locks.                                                              *)

Before == {"look", "rlock", "lockfile", "steal"}
Past == {"load", "guard", "profile", "file"}
Under == {"lockfile", "steal"} \cup Past

\* A thread that takes the locks, past the lock file.
Locked(t) == esPc[t] \in Past /\ NeedsLock(esOp[t])

\* Who waits for a lock needs it, and who has gone on holds that of its
\* process.
ProcessLock ==
    \A t \in StateThreads :
        /\ esPc[t] \in Before => NeedsLock(esOp[t])
        /\ esPc[t] \in Under /\ NeedsLock(esOp[t]) =>
              esRLock[StateProcessOf[t]][esMode[t]] = t
        /\ esOwns[t] => Locked(t)

\* As long as every lock file was respected, the thread that works is the
\* one that created the file, and its file is not old.
LockFile ==
    ~esIgnored => \A t \in StateThreads : Locked(t) =>
        /\ esOwns[t] /\ esFile[esMode[t]] = t /\ ~esOld[esMode[t]]

LocksInv == StateTypeOK /\ ProcessLock /\ LockFile

LEMMA InitLocks == StateInit => LocksInv
  <1> SUFFICES ASSUME StateInit PROVE LocksInv
    OBVIOUS
  <1>1. StateTypeOK
    BY InitTyped
  <1>2. ProcessLock /\ LockFile
    BY DEF StateInit, ProcessLock, LockFile, Locked, Before, Past, Under
  <1> QED BY <1>1, <1>2 DEF LocksInv

\* A step that takes no lock and gives none up.
LEMMA LocksKept ==
  ASSUME LocksInv, NEW t \in StateThreads, NEW p \in PcNames, StateGo(t, p),
         p \in Under => esPc[t] \in Under,
         p \in Past => esPc[t] \in Past,
         esPc[t] \in Past => p \in Past,
         p \in Before => esPc[t] \in Before,
         UNCHANGED <<esRLock, esFile, esOld, esOp, esMode, esOwns, esIgnored>>
  PROVE  ProcessLock' /\ LockFile'
  <1>1. StateTypeOK /\ ProcessLock /\ LockFile
    BY DEF LocksInv
  <1>2. esPc'[t] = p /\ \A u \in StateThreads \ {t} : esPc'[u] = esPc[u]
    BY <1>1 DEF StateGo, StateTypeOK
  <1>3. ProcessLock'
    BY <1>1, <1>2 DEF ProcessLock, Locked, NeedsLock
  <1>4. LockFile'
    BY <1>1, <1>2 DEF LockFile, Locked, NeedsLock
  <1> QED BY <1>3, <1>4

LEMMA TakesRLock ==
  ASSUME LocksInv, NEW t \in StateThreads, TakeRLock(t)
  PROVE  ProcessLock' /\ LockFile'
  <1> DEFINE q == StateProcessOf[t] m == esMode[t]
  <1>1. StateTypeOK /\ ProcessLock /\ LockFile
    BY DEF LocksInv
  <1>2. q \in StateProcesses /\ m \in Modes
        /\ \A u \in StateThreads :
              StateProcessOf[u] \in StateProcesses /\ esMode[u] \in Modes
    BY <1>1, StateProcessAssumption DEF StateTypeOK
  <1>3. /\ esPc[t] = "rlock" /\ esRLock[q][m] = NoOwner
        /\ esRLock' = [esRLock EXCEPT ![q][m] = t]
        /\ esPc' = [esPc EXCEPT ![t] = "lockfile"]
        /\ UNCHANGED <<esFile, esOld, esOp, esMode, esOwns, esIgnored>>
    BY DEF TakeRLock, StateGo
  <1>4. esPc'[t] = "lockfile" /\ \A u \in StateThreads \ {t} : esPc'[u] = esPc[u]
    BY <1>1, <1>3 DEF StateTypeOK
  <1>5. esRLock'[q][m] = t
    BY <1>1, <1>2, <1>3 DEF StateTypeOK
  <1>6. \A r \in StateProcesses, n \in Modes :
           esRLock[r][n] # NoOwner => esRLock'[r][n] = esRLock[r][n]
    BY <1>1, <1>2, <1>3 DEF StateTypeOK
  <1>7. ProcessLock'
    <2> SUFFICES ASSUME NEW u \in StateThreads
                 PROVE  /\ esPc'[u] \in Before =>
                              NeedsLock(esOp[u])
                        /\ esPc'[u] \in Under /\ NeedsLock(esOp[u]) =>
                              esRLock'[StateProcessOf[u]][esMode[u]] = u
                        /\ esOwns[u] => esPc'[u] \in Past /\ NeedsLock(esOp[u])
      BY <1>3 DEF ProcessLock, Locked, NeedsLock
    <2>1. CASE u = t
      BY <1>1, <1>3, <1>4, <1>5, <2>1 DEF ProcessLock, Locked, Before, Past
    <2>2. CASE u # t
      BY <1>1, <1>2, <1>4, <1>6, <2>2, NoOwnerAssumption DEF ProcessLock, Locked
    <2> QED BY <2>1, <2>2
  <1>8. LockFile'
    BY <1>1, <1>3, <1>4 DEF LockFile, Locked, NeedsLock, Past
  <1> QED BY <1>7, <1>8

LEMMA CreatesLockFile ==
  ASSUME LocksInv, NEW t \in StateThreads, CreateLockFile(t)
  PROVE  ProcessLock' /\ LockFile'
  <1> DEFINE m == esMode[t]
  <1>1. StateTypeOK /\ ProcessLock /\ LockFile
    BY DEF LocksInv
  <1>2. m \in Modes /\ \A u \in StateThreads : esMode[u] \in Modes
    BY <1>1 DEF StateTypeOK
  <1>3. /\ esPc[t] = "lockfile" /\ esFile[m] = NoOwner
        /\ esFile' = [esFile EXCEPT ![m] = t]
        /\ esOld' = [esOld EXCEPT ![m] = FALSE]
        /\ esOwns' = [esOwns EXCEPT ![t] = TRUE]
        /\ esPc' = [esPc EXCEPT ![t] = "load"]
        /\ UNCHANGED <<esRLock, esOp, esMode, esIgnored>>
    BY DEF CreateLockFile, MayCreate, StateGo
  <1>4. /\ esPc'[t] = "load" /\ esOwns'[t] = TRUE
        /\ \A u \in StateThreads \ {t} :
              esPc'[u] = esPc[u] /\ esOwns'[u] = esOwns[u]
    BY <1>1, <1>3 DEF StateTypeOK
  <1>5. /\ esFile'[m] = t /\ esOld'[m] = FALSE
        /\ \A n \in Modes \ {m} : esFile'[n] = esFile[n] /\ esOld'[n] = esOld[n]
    BY <1>1, <1>2, <1>3 DEF StateTypeOK
  <1>6. NeedsLock(esOp[t])
    BY <1>1, <1>3 DEF ProcessLock, Before
  <1>7. ProcessLock'
    <2> SUFFICES ASSUME NEW u \in StateThreads
                 PROVE  /\ esPc'[u] \in Before =>
                              NeedsLock(esOp[u])
                        /\ esPc'[u] \in Under /\ NeedsLock(esOp[u]) =>
                              esRLock[StateProcessOf[u]][esMode[u]] = u
                        /\ esOwns'[u] => esPc'[u] \in Past /\ NeedsLock(esOp[u])
      BY <1>3 DEF ProcessLock, Locked, NeedsLock
    <2>1. CASE u = t
      BY <1>1, <1>3, <1>4, <1>6, <2>1 DEF ProcessLock, Before, Past, Under
    <2>2. CASE u # t
      BY <1>1, <1>4, <2>2 DEF ProcessLock, Locked
    <2> QED BY <2>1, <2>2
  <1>8. LockFile'
    <2> SUFFICES ASSUME ~esIgnored, NEW u \in StateThreads, esPc'[u] \in Past,
                        NeedsLock(esOp[u])
                 PROVE  /\ esOwns'[u] /\ esFile'[esMode[u]] = u
                        /\ ~esOld'[esMode[u]]
      BY <1>3 DEF LockFile, Locked, NeedsLock
    <2>1. CASE u = t
      BY <1>4, <1>5, <2>1
    <2>2. CASE u # t
      <3>1. esOwns[u] /\ esFile[esMode[u]] = u /\ ~esOld[esMode[u]]
        BY <1>1, <1>4, <2>2 DEF LockFile, Locked
      <3>2. esMode[u] # m
        BY <1>3, <3>1, NoOwnerAssumption
      <3> QED BY <1>2, <1>4, <1>5, <2>2, <3>1, <3>2
    <2> QED BY <2>1, <2>2
  <1> QED BY <1>7, <1>8

\* A file that is old was not respected if its owner still works.
LEMMA RemovesLockFile ==
  ASSUME LocksInv, NEW t \in StateThreads, RemoveLockFile(t)
  PROVE  ProcessLock' /\ LockFile'
  <1> DEFINE m == esMode[t]
  <1>1. StateTypeOK /\ ProcessLock /\ LockFile
    BY DEF LocksInv
  <1>2. m \in Modes /\ \A u \in StateThreads : esMode[u] \in Modes
    BY <1>1 DEF StateTypeOK
  <1>3. /\ esPc[t] = "steal"
        /\ esFile' = [esFile EXCEPT ![m] = NoOwner]
        /\ esOld' = [esOld EXCEPT ![m] = FALSE]
        /\ esIgnored' = (esIgnored \/ (esFile[m] # NoOwner /\ ~esOld[m]))
        /\ esPc' = [esPc EXCEPT ![t] = "lockfile"]
        /\ UNCHANGED <<esRLock, esOp, esMode, esOwns>>
    BY DEF RemoveLockFile, StateGo
  <1>4. esPc'[t] = "lockfile" /\ \A u \in StateThreads \ {t} : esPc'[u] = esPc[u]
    BY <1>1, <1>3 DEF StateTypeOK
  <1>5. \A n \in Modes \ {m} : esFile'[n] = esFile[n] /\ esOld'[n] = esOld[n]
    BY <1>1, <1>2, <1>3 DEF StateTypeOK
  <1>6. ProcessLock'
    BY <1>1, <1>3, <1>4 DEF ProcessLock, Locked, NeedsLock, Before, Past, Under
  <1>7. LockFile'
    <2> SUFFICES ASSUME ~esIgnored', NEW u \in StateThreads, esPc'[u] \in Past,
                        NeedsLock(esOp[u])
                 PROVE  /\ esOwns[u] /\ esFile'[esMode[u]] = u
                        /\ ~esOld'[esMode[u]]
      BY <1>3 DEF LockFile, Locked, NeedsLock
    <2>1. u # t
      BY <1>4 DEF Past
    <2>2. ~esIgnored /\ (esFile[m] = NoOwner \/ esOld[m])
      BY <1>3
    <2>3. esOwns[u] /\ esFile[esMode[u]] = u /\ ~esOld[esMode[u]]
      BY <1>1, <1>4, <2>1, <2>2 DEF LockFile, Locked
    <2>4. esMode[u] # m
      BY <2>2, <2>3, NoOwnerAssumption
    <2> QED BY <1>2, <1>5, <2>3, <2>4
  <1> QED BY <1>6, <1>7

LEMMA GivesUpLockFile ==
  ASSUME LocksInv, NEW t \in StateThreads, GiveUpLockFile(t)
  PROVE  ProcessLock' /\ LockFile'
  <1>1. StateTypeOK /\ ProcessLock
    BY DEF LocksInv
  <1>2. /\ esPc[t] = "lockfile" /\ esIgnored' = TRUE
        /\ esPc' = [esPc EXCEPT ![t] = "load"]
        /\ UNCHANGED <<esRLock, esFile, esOld, esOp, esMode, esOwns>>
    BY DEF GiveUpLockFile, StateGo
  <1>3. esPc'[t] = "load" /\ \A u \in StateThreads \ {t} : esPc'[u] = esPc[u]
    BY <1>1, <1>2 DEF StateTypeOK
  <1>4. ProcessLock'
    BY <1>1, <1>2, <1>3 DEF ProcessLock, Locked, NeedsLock, Before, Past, Under
  <1> QED BY <1>2, <1>4 DEF LockFile

\* The end of a save: the thread gives back what it holds, and a lock file
\* of another only if a lock file was not respected.
LEMMA ReleasesLocks ==
  ASSUME LocksInv, NEW t \in StateThreads, WriteFile(t)
  PROVE  ProcessLock' /\ LockFile'
  <1> DEFINE q == StateProcessOf[t] m == esMode[t]
  <1>1. StateTypeOK /\ ProcessLock /\ LockFile
    BY DEF LocksInv
  <1>2. q \in StateProcesses /\ m \in Modes
        /\ \A u \in StateThreads :
              StateProcessOf[u] \in StateProcesses /\ esMode[u] \in Modes
    BY <1>1, StateProcessAssumption DEF StateTypeOK
  <1>3. /\ esPc[t] = "file"
        /\ esFile' = [esFile EXCEPT ![m] = IF esOwns[t] THEN NoOwner ELSE esFile[m]]
        /\ esOld' = [esOld EXCEPT ![m] = esOld[m] /\ ~esOwns[t]]
        /\ esIgnored' = (esIgnored \/ (esOwns[t] /\ esFile[m] \notin {t, NoOwner}))
        /\ esRLock' = IF NeedsLock(esOp[t])
                        THEN [esRLock EXCEPT ![q][m] = NoOwner] ELSE esRLock
        /\ Forget({t})
    BY <1>1, <1>2 DEF WriteFile, StateTypeOK
  <1>4. /\ esPc'[t] = "idle" /\ ~esOwns'[t]
        /\ \A u \in StateThreads \ {t} :
              /\ esPc'[u] = esPc[u] /\ esOp'[u] = esOp[u]
              /\ esMode'[u] = esMode[u] /\ esOwns'[u] = esOwns[u]
    BY <1>1, <1>3, Forgets
  <1>5. NeedsLock(esOp[t]) => esRLock[q][m] = t
    BY <1>1, <1>3 DEF ProcessLock, Before, Past, Under
  <1>6. \A u \in StateThreads \ {t} :
           esRLock[StateProcessOf[u]][esMode[u]] = u =>
              esRLock'[StateProcessOf[u]][esMode[u]] = u
    <2> TAKE u \in StateThreads \ {t}
    <2>1. CASE ~NeedsLock(esOp[t])
      BY <1>3, <2>1
    <2>2. CASE NeedsLock(esOp[t]) /\ (StateProcessOf[u] # q \/ esMode[u] # m)
      BY <1>1, <1>2, <1>3, <2>2 DEF StateTypeOK
    <2>3. CASE NeedsLock(esOp[t]) /\ StateProcessOf[u] = q /\ esMode[u] = m
      BY <1>5, <2>3
    <2> QED BY <2>1, <2>2, <2>3
  <1>7. ProcessLock'
    <2> SUFFICES ASSUME NEW u \in StateThreads
                 PROVE  /\ esPc'[u] \in Before =>
                              NeedsLock(esOp'[u])
                        /\ esPc'[u] \in Under /\ NeedsLock(esOp'[u]) =>
                              esRLock'[StateProcessOf[u]][esMode'[u]] = u
                        /\ esOwns'[u] => esPc'[u] \in Past /\ NeedsLock(esOp'[u])
      BY DEF ProcessLock, Locked, NeedsLock
    <2>1. CASE u = t
      BY <1>4, <2>1 DEF Before, Under, Past
    <2>2. CASE u # t
      <3>1. esPc'[u] = esPc[u] /\ esOp'[u] = esOp[u]
            /\ esMode'[u] = esMode[u] /\ esOwns'[u] = esOwns[u]
        BY <1>4, <2>2
      <3> QED BY <1>1, <1>6, <2>2, <3>1 DEF ProcessLock, Locked
    <2> QED BY <2>1, <2>2
  <1>8. LockFile'
    <2> SUFFICES ASSUME ~esIgnored', NEW u \in StateThreads, esPc'[u] \in Past,
                        NeedsLock(esOp'[u])
                 PROVE  /\ esOwns'[u] /\ esFile'[esMode'[u]] = u
                        /\ ~esOld'[esMode'[u]]
      BY DEF LockFile, Locked, NeedsLock
    <2>1. u # t
      BY <1>4 DEF Past
    <2>2. ~esIgnored /\ (esOwns[t] => esFile[m] \in {t, NoOwner})
      BY <1>3
    <2>3. esPc'[u] = esPc[u] /\ esOp'[u] = esOp[u]
          /\ esMode'[u] = esMode[u] /\ esOwns'[u] = esOwns[u]
      BY <1>4, <2>1
    <2>4. esOwns[u] /\ esFile[esMode[u]] = u /\ ~esOld[esMode[u]]
      BY <1>1, <2>2, <2>3 DEF LockFile, Locked
    <2>5. CASE esMode[u] = m
      <3>1. ~esOwns[t]
        BY <2>1, <2>2, <2>4, <2>5, NoOwnerAssumption
      <3>2. esFile' = [esFile EXCEPT ![m] = esFile[m]]
            /\ esOld' = [esOld EXCEPT ![m] = esOld[m]]
        BY <1>1, <1>2, <1>3, <3>1 DEF StateTypeOK
      <3> QED BY <1>1, <1>2, <2>3, <2>4, <3>2 DEF StateTypeOK
    <2>6. CASE esMode[u] # m
      BY <1>1, <1>2, <1>3, <2>3, <2>4, <2>6 DEF StateTypeOK
    <2> QED BY <2>5, <2>6
  <1> QED BY <1>7, <1>8

\* A process that ends frees its locks; the threads of the others keep theirs.
LEMMA CrashFreesLocks ==
  ASSUME LocksInv, NEW p \in StateProcesses, StateCrash(p)
  PROVE  ProcessLock' /\ LockFile'
  <1> DEFINE gone == {t \in StateThreads : StateProcessOf[t] = p}
  <1>1. StateTypeOK /\ ProcessLock /\ LockFile
    BY DEF LocksInv
  <1>2. /\ Forget(gone) /\ gone \in SUBSET StateThreads
        /\ esRLock' = [esRLock EXCEPT ![p] = [m \in Modes |-> NoOwner]]
        /\ UNCHANGED <<esFile, esOld, esIgnored>>
    BY DEF StateCrash
  <1>3. \A u \in StateThreads \ gone :
           StateProcessOf[u] \in StateProcesses /\ StateProcessOf[u] # p
    BY StateProcessAssumption
  <1> HIDE DEF gone
  <1>4. /\ \A u \in gone : esPc'[u] = "idle" /\ ~esOwns'[u]
        /\ \A u \in StateThreads \ gone :
              /\ esPc'[u] = esPc[u] /\ esOp'[u] = esOp[u]
              /\ esMode'[u] = esMode[u] /\ esOwns'[u] = esOwns[u]
    BY <1>1, <1>2, Forgets
  <1>5. \A u \in StateThreads \ gone :
           esRLock'[StateProcessOf[u]] = esRLock[StateProcessOf[u]]
    BY <1>1, <1>2, <1>3 DEF StateTypeOK
  <1>6. ProcessLock'
    <2> SUFFICES ASSUME NEW u \in StateThreads
                 PROVE  /\ esPc'[u] \in Before =>
                              NeedsLock(esOp'[u])
                        /\ esPc'[u] \in Under /\ NeedsLock(esOp'[u]) =>
                              esRLock'[StateProcessOf[u]][esMode'[u]] = u
                        /\ esOwns'[u] => esPc'[u] \in Past /\ NeedsLock(esOp'[u])
      BY DEF ProcessLock, Locked, NeedsLock
    <2>1. CASE u \in gone
      BY <1>4, <2>1 DEF Before, Under, Past
    <2>2. CASE u \notin gone
      <3>1. esPc'[u] = esPc[u] /\ esOp'[u] = esOp[u]
            /\ esMode'[u] = esMode[u] /\ esOwns'[u] = esOwns[u]
        BY <1>4, <2>2
      <3> QED BY <1>1, <1>5, <2>2, <3>1 DEF ProcessLock, Locked
    <2> QED BY <2>1, <2>2
  <1>7. LockFile'
    <2> SUFFICES ASSUME ~esIgnored, NEW u \in StateThreads, esPc'[u] \in Past,
                        NeedsLock(esOp'[u])
                 PROVE  /\ esOwns'[u] /\ esFile[esMode'[u]] = u
                        /\ ~esOld[esMode'[u]]
      BY <1>2 DEF LockFile, Locked, NeedsLock
    <2>1. u \notin gone
      BY <1>4 DEF Past
    <2>2. esPc'[u] = esPc[u] /\ esOp'[u] = esOp[u]
          /\ esMode'[u] = esMode[u] /\ esOwns'[u] = esOwns[u]
      BY <1>4, <2>1
    <2> QED BY <1>1, <2>2 DEF LockFile, Locked
  <1> QED BY <1>6, <1>7

\* The page goes on to the locks of the mode it shows, holding none yet.
LEMMA PageKeepsLocks ==
  ASSUME LocksInv, NEW t \in StateThreads, PageWrites(t)
  PROVE  ProcessLock' /\ LockFile'
  <1>1. StateTypeOK /\ ProcessLock /\ LockFile
    BY DEF LocksInv
  <1>2. PICK m \in Modes :
          /\ PageLooks(t) \/ PageTakesMode(t, m)
          /\ esMode' = [esMode EXCEPT ![t] = m]
    BY DEF PageWrites
  <1>3. /\ esPc' = [esPc EXCEPT ![t] = "rlock"]
        /\ UNCHANGED <<esRLock, esFile, esOld, esOwns, esIgnored>>
    BY DEF PageWrites, StateGo
  <1>4. esPc[t] = "look"
    BY <1>2 DEF PageLooks, PageTakesMode
  <1>5. /\ NeedsLock(esOp'[t])
        /\ \A u \in StateThreads \ {t} : esOp'[u] = esOp[u]
    <2>1. CASE PageLooks(t)
      <3>1. PICK op \in {"on", "off"} : esOp' = [esOp EXCEPT ![t] = op]
        BY <2>1 DEF PageLooks
      <3> QED BY <1>1, <3>1 DEF StateTypeOK, NeedsLock
    <2>2. CASE PageTakesMode(t, m)
      BY <1>1, <1>4, <2>2 DEF PageTakesMode, ProcessLock, Before
    <2> QED BY <1>2, <2>1, <2>2
  <1>6. /\ esPc'[t] = "rlock"
        /\ \A u \in StateThreads \ {t} :
              esPc'[u] = esPc[u] /\ esMode'[u] = esMode[u]
    BY <1>1, <1>2, <1>3 DEF StateTypeOK
  <1>7. ~esOwns[t]
    BY <1>1, <1>4 DEF ProcessLock, Locked, Past
  <1>8. ProcessLock'
    <2> SUFFICES ASSUME NEW u \in StateThreads
                 PROVE  /\ esPc'[u] \in Before => NeedsLock(esOp'[u])
                        /\ esPc'[u] \in Under /\ NeedsLock(esOp'[u]) =>
                              esRLock[StateProcessOf[u]][esMode'[u]] = u
                        /\ esOwns[u] => esPc'[u] \in Past /\ NeedsLock(esOp'[u])
      BY <1>3 DEF ProcessLock, Locked, NeedsLock
    <2>1. CASE u = t
      BY <1>5, <1>6, <1>7, <2>1 DEF Under, Past
    <2>2. CASE u # t
      BY <1>1, <1>5, <1>6, <2>2 DEF ProcessLock, Locked
    <2> QED BY <2>1, <2>2
  <1>9. LockFile'
    <2> SUFFICES ASSUME ~esIgnored, NEW u \in StateThreads, esPc'[u] \in Past,
                        NeedsLock(esOp'[u])
                 PROVE  /\ esOwns[u] /\ esFile[esMode'[u]] = u
                        /\ ~esOld[esMode'[u]]
      BY <1>3 DEF LockFile, Locked, NeedsLock
    <2>1. u # t
      BY <1>6 DEF Past
    <2> QED BY <1>1, <1>5, <1>6, <2>1 DEF LockFile, Locked
  <1> QED BY <1>8, <1>9

\* A page that writes nothing had taken nothing.
LEMMA PageIdlesLocks ==
  ASSUME LocksInv, NEW t \in StateThreads, PageIdles(t)
  PROVE  ProcessLock' /\ LockFile'
  <1>1. StateTypeOK /\ ProcessLock /\ LockFile
    BY DEF LocksInv
  <1>2. Forget({t}) /\ UNCHANGED <<esRLock, esFile, esOld, esIgnored>>
    BY DEF PageIdles
  <1>3. /\ esPc'[t] = "idle" /\ ~esOwns'[t]
        /\ \A u \in StateThreads \ {t} :
              /\ esPc'[u] = esPc[u] /\ esOp'[u] = esOp[u]
              /\ esMode'[u] = esMode[u] /\ esOwns'[u] = esOwns[u]
    BY <1>1, <1>2, Forgets
  <1>4. ProcessLock'
    BY <1>1, <1>2, <1>3 DEF ProcessLock, Locked, NeedsLock, Before, Past, Under
  <1>5. LockFile'
    BY <1>1, <1>2, <1>3 DEF LockFile, Locked, NeedsLock, Past
  <1> QED BY <1>4, <1>5

LEMMA LocksThreads ==
  ASSUME LocksInv, NEW t \in StateThreads, StateStep(t)
  PROVE  ProcessLock' /\ LockFile'
  <1>1. CASE SeeOldLock(t)
    BY <1>1, LocksKept DEF SeeOldLock, PcNames, Before, Under, Past
  <1>2. CASE Load(t)
    BY <1>2, LocksKept DEF Load, PcNames, Before, Under, Past
  <1>3. CASE Guard(t)
    BY <1>3, LocksKept DEF Guard, PcNames, Before, Under, Past
  <1>4. CASE WriteProfile(t)
    BY <1>4, LocksKept DEF WriteProfile, PcNames, Before, Under, Past
  <1>5. CASE ProfileFails(t)
    BY <1>5, LocksKept DEF ProfileFails, PcNames, Before, Under, Past
  <1> QED BY <1>1, <1>2, <1>3, <1>4, <1>5, TakesRLock, CreatesLockFile,
             RemovesLockFile, GivesUpLockFile, ReleasesLocks, PageKeepsLocks,
             PageIdlesLocks DEF StateStep

LEMMA LocksOthers ==
  ASSUME LocksInv,
         \/ \E t \in StateThreads, op \in Ops : Start(t, op)
         \/ \E m \in Modes : LockAges(m)
         \/ \E p \in StateProcesses : StateCrash(p)
         \/ SwitchMode \/ MacdStep
  PROVE  ProcessLock' /\ LockFile'
  <1>0. StateTypeOK /\ ProcessLock /\ LockFile
    BY DEF LocksInv
  <1>1. ASSUME NEW t \in StateThreads, NEW op \in Ops, Start(t, op)
        PROVE  ProcessLock' /\ LockFile'
    <2>1. /\ esPc[t] = "idle"
          /\ esOp' = [esOp EXCEPT ![t] = op]
          /\ esPc' = [esPc EXCEPT ![t] = IF op = "on" THEN "look"
                           ELSE IF NeedsLock(op) THEN "rlock" ELSE "load"]
          /\ UNCHANGED <<esRLock, esFile, esOld, esOwns, esIgnored>>
          /\ \E m \in ActiveRead : esMode' = [esMode EXCEPT ![t] = m]
      BY <1>1 DEF Start, StateGo
    <2>2. /\ esPc'[t] = IF op = "on" THEN "look"
                        ELSE IF NeedsLock(op) THEN "rlock" ELSE "load"
          /\ esOp'[t] = op
          /\ \A u \in StateThreads \ {t} :
                esPc'[u] = esPc[u] /\ esOp'[u] = esOp[u] /\ esMode'[u] = esMode[u]
      BY <1>0, <2>1 DEF StateTypeOK
    <2>3. ~esOwns[t]
      BY <1>0, <2>1 DEF ProcessLock, Locked, Past
    <2>4. ProcessLock'
      <3> SUFFICES ASSUME NEW u \in StateThreads
                   PROVE  /\ esPc'[u] \in Before =>
                                NeedsLock(esOp'[u])
                          /\ esPc'[u] \in Under /\ NeedsLock(esOp'[u]) =>
                                esRLock[StateProcessOf[u]][esMode'[u]] = u
                          /\ esOwns[u] => esPc'[u] \in Past /\ NeedsLock(esOp'[u])
        BY <2>1 DEF ProcessLock, Locked, NeedsLock
      <3>1. CASE u = t
        BY <2>2, <2>3, <3>1 DEF Before, Under, Past, NeedsLock
      <3>2. CASE u # t
        BY <1>0, <2>2, <3>2 DEF ProcessLock, Locked
      <3> QED BY <3>1, <3>2
    <2>5. LockFile'
      <3> SUFFICES ASSUME ~esIgnored, NEW u \in StateThreads, esPc'[u] \in Past,
                          NeedsLock(esOp'[u])
                   PROVE  /\ esOwns[u] /\ esFile[esMode'[u]] = u
                          /\ ~esOld[esMode'[u]]
        BY <2>1 DEF LockFile, Locked, NeedsLock
      <3>1. u # t
        BY <2>2 DEF Past
      <3> QED BY <1>0, <2>2, <3>1 DEF LockFile, Locked
    <2> QED BY <2>4, <2>5
  <1>2. ASSUME NEW m \in Modes, LockAges(m) PROVE ProcessLock' /\ LockFile'
    <2>1. /\ esOld' = [esOld EXCEPT ![m] = TRUE]
          /\ esIgnored' = (esIgnored \/
                  \E t \in StateThreads : esOwns[t] /\ esMode[t] = m)
          /\ UNCHANGED <<esRLock, esFile, esPc, esOp, esMode, esOwns>>
      BY <1>2 DEF LockAges
    <2>2. ProcessLock'
      BY <1>0, <2>1 DEF ProcessLock, Locked
    <2>3. LockFile'
      <3> SUFFICES ASSUME ~esIgnored', NEW u \in StateThreads, Locked(u)
                   PROVE  /\ esOwns[u] /\ esFile[esMode[u]] = u
                          /\ ~esOld'[esMode[u]]
        BY <2>1 DEF LockFile, Locked, NeedsLock
      <3>1. esOwns[u] /\ esFile[esMode[u]] = u /\ ~esOld[esMode[u]]
        BY <1>0, <2>1 DEF LockFile
      <3>2. esMode[u] # m /\ esMode[u] \in Modes
        BY <1>0, <2>1, <3>1 DEF StateTypeOK
      <3> QED BY <1>0, <2>1, <3>1, <3>2 DEF StateTypeOK
    <2> QED BY <2>2, <2>3
  <1>3. ASSUME NEW p \in StateProcesses, StateCrash(p)
        PROVE  ProcessLock' /\ LockFile'
    BY <1>3, CrashFreesLocks
  <1>4. ASSUME UNCHANGED <<esRLock, esFile, esOld, esPc, esOp, esMode, esOwns,
                           esIgnored>>
        PROVE  ProcessLock' /\ LockFile'
    BY <1>0, <1>4 DEF ProcessLock, LockFile, Locked
  <1>5. SwitchMode \/ MacdStep =>
          UNCHANGED <<esRLock, esFile, esOld, esPc, esOp, esMode, esOwns,
                      esIgnored>>
    BY DEF SwitchMode, MacdStep, MacdCheck, MacdStart, MacdStop, MacdLoad,
       MacdSave
  <1> QED BY <1>1, <1>2, <1>3, <1>4, <1>5

LEMMA StepLocks == LocksInv /\ [StateNext]_esVars => LocksInv'
  <1> SUFFICES ASSUME LocksInv, [StateNext]_esVars PROVE LocksInv'
    OBVIOUS
  <1>1. StateTypeOK'
    BY NextTyped DEF LocksInv
  <1>2. CASE UNCHANGED esVars
    BY <1>1, <1>2 DEF esVars, LocksInv, ProcessLock, LockFile, Locked
  <1>3. CASE StateNext
    BY <1>1, <1>3, LocksThreads, LocksOthers DEF StateNext, LocksInv
  <1> QED BY <1>2, <1>3

\* Load-modify-save cycles of one mode's state overlap only where a lock was
\* not taken, was the one of another mode, or was not respected.
THEOREM SectionsApart == StateSpec => []SectionsExclude
  <1>1. LocksInv => SectionsExclude
    <2> SUFFICES ASSUME LocksInv, NEW t \in StateThreads, NEW u \in StateThreads,
                        t # u, InSection(t), InSection(u), esData[t] = esData[u],
                        NeedsLock(esOp[t]), NeedsLock(esOp[u]),
                        esMode[t] = esData[t], esMode[u] = esData[u]
                 PROVE  StateProcessOf[t] # StateProcessOf[u] /\ esIgnored
      BY DEF SectionsExclude
    <2>1. Locked(t) /\ Locked(u) /\ esPc[t] \in Under /\ esPc[u] \in Under
      BY DEF Locked, InSection, Past, Under
    <2>2. StateProcessOf[t] # StateProcessOf[u]
      BY <2>1 DEF LocksInv, ProcessLock
    <2>3. esIgnored
      BY <2>1 DEF LocksInv, LockFile
    <2> QED BY <2>2, <2>3
  <1> QED BY <1>1, InitLocks, StepLocks, PTL DEF StateSpec

-----------------------------------------------------------------------------
(* The hand-over to the fast worker.                                       *)

\* Who is between the choice of a wait and its end has the request served,
\* raced, unsaid or still to come.
Excused ==
    fwRaced \/ fwCut \/ \E r \in Runners : fwRun[r] \in Waking

\* The two properties of the watcher, from the choice of the wait on; a tick
\* that was completed left no request.
WatcherInv ==
    /\ FastTypeOK
    /\ fwPc = "clear" /\ fwWait # "zero" /\ fwForce => Excused
    /\ WakeLostOnlyIfRaced
    /\ fwServed => ~fwForce
    /\ HurryEndsWithTick

LEMMA FastInitTyped == FastInit => FastTypeOK
  BY DEF FastInit, FastTypeOK, Waking

\* Where a cycle goes after its section.
LEMMA CycleEnds ==
  ASSUME FastTypeOK, NEW r \in Runners, NEW force \in BOOLEAN,
         NEW error \in BOOLEAN, EndCycle(r, force, error)
  PROVE  /\ fwRun' \in [Runners -> {"idle", "section", "tick"} \cup Waking]
         /\ force => fwRun'[r] \in Waking
         /\ \A s \in Runners \ {r} : fwRun'[s] = fwRun[s]
  BY DEF FastTypeOK, EndCycle, RunGo, Waking

LEMMA TicksTyped ==
  ASSUME FastTypeOK, TickCompletes \/ TickGivesUp
  PROVE  /\ fwSnap' \in BOOLEAN /\ fwForce' \in BOOLEAN /\ fwError' \in BOOLEAN
         /\ fwPending' \in {"none", "fresh", "overdue"} /\ fwCut' \in BOOLEAN
  BY DEF FastTypeOK, TickCompletes, TickGivesUp, fwFile

LEMMA FastStepTyped == FastTypeOK /\ [FastNext]_fwVars => FastTypeOK'
  <1> SUFFICES ASSUME FastTypeOK, [FastNext]_fwVars PROVE FastTypeOK'
    OBVIOUS
  <1>1. CASE Toggle
    BY <1>1 DEF Toggle, FastTypeOK, fwFile
  <1>2. CASE NextPhase
    BY <1>2 DEF NextPhase, FastTypeOK, fwFile
  <1>3. CASE DeadlinePasses
    BY <1>3 DEF DeadlinePasses, FastTypeOK
  <1>4. CASE Look
    BY <1>4 DEF Look, FastGo, FastTypeOK, fwFile
  <1>5. CASE WatcherTicks
    <2>1. fwSnap' \in BOOLEAN /\ fwForce' \in BOOLEAN /\ fwError' \in BOOLEAN
      BY <1>5, TicksTyped DEF WatcherTicks
    <2>2. fwPending' \in {"none", "fresh", "overdue"} /\ fwCut' \in BOOLEAN
      BY <1>5, TicksTyped DEF WatcherTicks
    <2>3. fwServed' \in BOOLEAN
      BY <1>5 DEF WatcherTicks, FastTypeOK
    <2> QED BY <1>5, <2>1, <2>2, <2>3 DEF WatcherTicks, FastGo, FastTypeOK
  <1>6. CASE ChooseWait
    BY <1>6 DEF ChooseWait, FastGo, FastTypeOK, fwFile
  <1>7. CASE ClearWake
    BY <1>7 DEF ClearWake, FastGo, FastTypeOK, fwFile
  <1>8. CASE WakeUp
    BY <1>8 DEF WakeUp, FastGo, FastTypeOK, fwFile
  <1>9. ASSUME NEW r \in Runners, BeginCycle(r) PROVE FastTypeOK'
    BY <1>9 DEF BeginCycle, RunGo, FastTypeOK, fwFile
  <1>10. ASSUME NEW r \in Runners, SectionSkips(r) PROVE FastTypeOK'
    <2>1. fwRun' \in [Runners -> {"idle", "section", "tick"} \cup Waking]
      BY <1>10, CycleEnds DEF SectionSkips, FastTypeOK
    <2> QED BY <1>10, <2>1 DEF SectionSkips, FastTypeOK, fwFile
  <1>11. ASSUME NEW r \in Runners, NEW defers \in BOOLEAN, SectionEnds(r, defers)
         PROVE  FastTypeOK'
    <2>1. fwPending' \in {"none", "fresh", "overdue"}
      BY <1>11 DEF SectionEnds, Settled, FastTypeOK
    <2>2. fwError' \in BOOLEAN /\ fwForce' \in BOOLEAN /\ fwServed' \in BOOLEAN
      BY <1>11 DEF SectionEnds
    <2>3. fwRun' \in [Runners -> {"idle", "section", "tick"} \cup Waking]
      BY <1>11, <2>2, CycleEnds DEF SectionEnds
    <2> QED BY <1>11, <2>1, <2>2, <2>3 DEF SectionEnds, FastTypeOK
  <1>12. ASSUME NEW r \in Runners, NEW defers \in BOOLEAN, SectionRaises(r, defers)
         PROVE  FastTypeOK'
    <2>1. fwForce' \in BOOLEAN /\ fwServed' \in BOOLEAN /\ fwCut' \in BOOLEAN
      BY <1>12 DEF SectionRaises
    <2> QED BY <1>12, <2>1 DEF SectionRaises, RunGo, FastTypeOK
  <1>13. ASSUME NEW r \in Runners, Wake(r) PROVE FastTypeOK'
    <2>1. fwRaced' \in BOOLEAN
      BY <1>13 DEF Wake
    <2> QED BY <1>13, <2>1 DEF Wake, RunGo, FastTypeOK, fwFile
  <1>14. ASSUME NEW r \in Runners, CycleTicks(r) PROVE FastTypeOK'
    BY <1>14, TicksTyped DEF CycleTicks, RunGo, FastTypeOK
  <1>15. CASE UNCHANGED fwVars
    BY <1>15 DEF fwVars, FastTypeOK
  <1> QED
    BY <1>1, <1>2, <1>3, <1>4, <1>5, <1>6, <1>7, <1>8, <1>9, <1>10, <1>11,
       <1>12, <1>13, <1>14, <1>15 DEF FastNext

\* Types of the hand-over to the fast worker, for any number of threads that
\* run cycles.
THEOREM FastTyped == FastSpec => []FastTypeOK
  BY FastInitTyped, FastStepTyped, PTL DEF FastSpec

\* A deferral and an answer stand in the file together only after a cycle
\* that failed between its saves (update_hynix_auto_trade_loop and
\* run_early_trend_fast_feed_tick settle it in the save that has both).
THEOREM AnswerSettles == FastSpec => []AnswerSettlesDeferral
  <1>1. FastInit => AnswerSettlesDeferral
    BY DEF FastInit, AnswerSettlesDeferral
  <1>2. AnswerSettlesDeferral /\ [FastNext]_fwVars => AnswerSettlesDeferral'
    <2> SUFFICES ASSUME AnswerSettlesDeferral, [FastNext]_fwVars
                 PROVE  AnswerSettlesDeferral'
      OBVIOUS
    <2> USE DEF AnswerSettlesDeferral
    <2>1. ASSUME UNCHANGED <<fwPending, fwSnap, fwCut>> PROVE AnswerSettlesDeferral'
      BY <2>1
    <2>2. CASE DeadlinePasses
      BY <2>2 DEF DeadlinePasses
    <2>3. CASE WatcherTicks
      <3>1. CASE TickCompletes
        BY <3>1 DEF TickCompletes
      <3>2. CASE TickGivesUp
        BY <2>1, <3>2 DEF TickGivesUp, fwFile
      <3> QED BY <2>3, <3>1, <3>2 DEF WatcherTicks
    <2>4. ASSUME NEW r \in Runners, CycleTicks(r) PROVE AnswerSettlesDeferral'
      <3>1. CASE TickCompletes
        BY <3>1 DEF TickCompletes
      <3>2. CASE TickGivesUp
        BY <2>1, <3>2 DEF TickGivesUp, fwFile
      <3> QED BY <2>4, <3>1, <3>2 DEF CycleTicks
    <2>5. ASSUME NEW r \in Runners, NEW defers \in BOOLEAN, SectionEnds(r, defers)
          PROVE  AnswerSettlesDeferral'
      BY <2>5 DEF SectionEnds, Settled
    <2>6. ASSUME NEW r \in Runners, NEW defers \in BOOLEAN, SectionRaises(r, defers)
          PROVE  AnswerSettlesDeferral'
      BY <2>6 DEF SectionRaises
    <2>7. CASE Toggle \/ NextPhase \/ Look \/ ChooseWait \/ ClearWake \/ WakeUp
      BY <2>1, <2>7 DEF Toggle, NextPhase, Look, ChooseWait, ClearWake, WakeUp, fwFile
    <2>8. ASSUME NEW r \in Runners, BeginCycle(r) \/ SectionSkips(r) \/ Wake(r)
          PROVE  AnswerSettlesDeferral'
      BY <2>1, <2>8 DEF BeginCycle, SectionSkips, Wake, fwFile
    <2>9. CASE UNCHANGED fwVars
      BY <2>1, <2>9 DEF fwVars
    <2> QED BY <2>2, <2>3, <2>4, <2>5, <2>6, <2>7, <2>8, <2>9 DEF FastNext
  <1> QED BY <1>1, <1>2, PTL DEF FastSpec

\* What a step that is not the watcher's does to its request: a new one, or
\* one whose excuse is gone, has a cycle on its way to the wake, or the event.
RequestKept ==
    /\ UNCHANGED <<fwPc, fwWait>>
    /\ fwServed' => fwServed /\ (fwForce' => fwForce)
    /\ fwForce' =>
          \/ Excused'
          \/ fwPc = "wait" /\ fwEvent'
          \/ fwPc \notin {"clear", "wait"}
          \/ fwForce /\ UNCHANGED fwEvent /\ ~Excused

LEMMA KeptIsEnough == WatcherInv /\ RequestKept /\ FastTypeOK' => WatcherInv'
  BY DEF WatcherInv, RequestKept, WakeLostOnlyIfRaced, HurryEndsWithTick, Excused

\* The user, the clock, and the steps of a cycle.
LEMMA OthersKeep ==
  ASSUME FastTypeOK, FastNext,
         ~(Look \/ WatcherTicks \/ ChooseWait \/ ClearWake \/ WakeUp)
  PROVE  RequestKept
  <1>1. CASE Toggle \/ NextPhase \/ DeadlinePasses
    BY <1>1 DEF Toggle, NextPhase, DeadlinePasses, fwFile, Excused, RequestKept
  <1>2. ASSUME NEW r \in Runners, BeginCycle(r) PROVE RequestKept
    <2>1. Excused => Excused'
      BY <1>2 DEF BeginCycle, RunGo, Excused, FastTypeOK, Waking
    <2> QED BY <1>2, <2>1 DEF BeginCycle, fwFile, RequestKept
  <1>3. ASSUME NEW r \in Runners, SectionSkips(r) PROVE RequestKept
    <2>1. Excused => Excused'
      BY <1>3 DEF SectionSkips, EndCycle, RunGo, Excused, FastTypeOK, Waking
    <2> QED BY <1>3, <2>1 DEF SectionSkips, fwFile, RequestKept
  <1>4. ASSUME NEW r \in Runners, NEW defers \in BOOLEAN, SectionEnds(r, defers)
        PROVE  RequestKept
    <2>1. fwForce' \in BOOLEAN /\ fwError' \in BOOLEAN
      BY <1>4 DEF SectionEnds
    <2>2. fwForce' => Excused'
      BY <1>4, <2>1, CycleEnds DEF SectionEnds, Excused
    <2>3. fwServed' => fwServed /\ fwForce' = fwForce
      BY <1>4 DEF SectionEnds, FastTypeOK
    <2> QED BY <1>4, <2>2, <2>3 DEF SectionEnds, RequestKept
  <1>5. ASSUME NEW r \in Runners, NEW defers \in BOOLEAN, SectionRaises(r, defers)
        PROVE  RequestKept
    <2>1. CASE defers
      BY <1>5, <2>1 DEF SectionRaises, RequestKept, Excused, FastTypeOK
    <2>2. CASE ~defers
      <3>1. Excused => Excused'
        BY <1>5, <2>2 DEF SectionRaises, RunGo, Excused, FastTypeOK, Waking
      <3>2. fwServed' => fwServed /\ fwForce' = fwForce
        BY <1>5 DEF SectionRaises, FastTypeOK
      <3> QED BY <1>5, <2>2, <3>1, <3>2 DEF SectionRaises, RequestKept
    <2> QED BY <2>1, <2>2
  <1>6. ASSUME NEW r \in Runners, Wake(r) PROVE RequestKept
    BY <1>6 DEF Wake, fwFile, RequestKept, Excused
  <1>7. ASSUME NEW r \in Runners, CycleTicks(r) PROVE RequestKept
    <2>1. CASE TickCompletes
      BY <1>7, <2>1 DEF CycleTicks, TickCompletes, RequestKept
    <2>2. CASE TickGivesUp
      <3>1. Excused => Excused'
        BY <1>7, <2>2 DEF CycleTicks, TickGivesUp, RunGo, Excused, FastTypeOK, Waking
      <3>2. UNCHANGED fwForce
        BY <2>2 DEF TickGivesUp, fwFile
      <3> QED BY <1>7, <3>1, <3>2 DEF CycleTicks, RequestKept
    <2> QED BY <1>7, <2>1, <2>2 DEF CycleTicks
  <1> QED BY <1>1, <1>2, <1>3, <1>4, <1>5, <1>6, <1>7 DEF FastNext

\* The watcher's own steps.
LEMMA WatcherKeeps ==
  ASSUME WatcherInv, FastTypeOK',
         Look \/ WatcherTicks \/ ChooseWait \/ ClearWake \/ WakeUp
  PROVE  WatcherInv'
  <1> USE DEF WatcherInv, WakeLostOnlyIfRaced, HurryEndsWithTick
  <1>1. CASE Look
    BY <1>1 DEF Look, FastGo
  <1>2. CASE WatcherTicks
    <2>1. fwPc' = "choose"
      BY <1>2 DEF WatcherTicks, FastGo
    <2>2. CASE TickCompletes
      BY <2>1, <2>2 DEF TickCompletes
    <2>3. CASE TickGivesUp /\ UNCHANGED fwServed
      BY <2>1, <2>3 DEF TickGivesUp, fwFile
    <2> QED BY <1>2, <2>2, <2>3 DEF WatcherTicks
  <1>3. CASE ChooseWait
    BY <1>3 DEF ChooseWait, FastGo, fwFile, FastTypeOK
  <1>4. CASE ClearWake
    <2>1. Excused => fwRaced' \/ fwCut' \/ \E r \in Runners : fwRun'[r] \in Waking
      BY <1>4 DEF ClearWake, Excused
    <2> QED BY <1>4, <2>1 DEF ClearWake, FastGo, fwFile
  <1>5. CASE WakeUp
    BY <1>5 DEF WakeUp, FastGo, fwFile
  <1> QED BY <1>1, <1>2, <1>3, <1>4, <1>5

LEMMA WatcherInvariant == FastSpec => []WatcherInv
  <1>1. FastInit => WatcherInv
    BY FastInitTyped DEF FastInit, WatcherInv, WakeLostOnlyIfRaced, HurryEndsWithTick
  <1>2. WatcherInv /\ [FastNext]_fwVars => WatcherInv'
    <2> SUFFICES ASSUME WatcherInv, [FastNext]_fwVars PROVE WatcherInv'
      OBVIOUS
    <2>1. FastTypeOK /\ FastTypeOK'
      BY FastStepTyped DEF WatcherInv
    <2>2. CASE Look \/ WatcherTicks \/ ChooseWait \/ ClearWake \/ WakeUp
      BY <2>1, <2>2, WatcherKeeps
    <2>3. CASE FastNext /\ ~(Look \/ WatcherTicks \/ ChooseWait \/ ClearWake \/ WakeUp)
      BY <2>1, <2>3, OthersKeep, KeptIsEnough
    <2>4. CASE UNCHANGED fwVars
      BY <2>1, <2>4 DEF fwVars, WatcherInv, WakeLostOnlyIfRaced,
         HurryEndsWithTick, Excused
    <2> QED BY <2>2, <2>3, <2>4
  <1> QED BY <1>1, <1>2, PTL DEF FastSpec

\* A request the watcher sleeps on was raced by the wake, cut off by a failing
\* cycle, or is about to be woken for (run, _next_interval_seconds and
\* wake_fast_trend_watcher).
THEOREM WakeLost == FastSpec => []WakeLostOnlyIfRaced
  <1>1. WatcherInv => WakeLostOnlyIfRaced
    BY DEF WatcherInv
  <1> QED BY <1>1, WatcherInvariant, PTL

\* One completed tick ends the rounds without a wait (_next_interval_seconds
\* and the settling of force_fast_worker_tick).
THEOREM HurryEnds == FastSpec => []HurryEndsWithTick
  <1>1. WatcherInv => HurryEndsWithTick
    BY DEF WatcherInv
  <1> QED BY <1>1, WatcherInvariant, PTL
=============================================================================
