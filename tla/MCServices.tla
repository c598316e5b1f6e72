----------------------------- MODULE MCServices -----------------------------
(***************************************************************************)
(* Small instances of the order coordinator and of the services around it: *)
(* token, last gates, state files, the hand-over to the fast worker, quote *)
(* cache and gap-up trading.                                               *)
(* They share no state, so one run checks them one after the other: the    *)
(* subject is chosen at the start, its component takes its own steps, and  *)
(* the variables of the others stay as one initial state has them.         *)
(***************************************************************************)
EXTENDS OrderCoordinator, KisToken, RealOrderGate, EnhancedState, FastWorker,
        QuoteCache, GapTrader, TLC

CONSTANTS t1, t2, t3, stopLoss, profitLock, entry,   \* the coordinator
          n1, n2, n3, c1, c2, p1, p2,    \* threads, clients and processes
          mock, real, hynix, u1, u2, wk, k1, k2

\* The coordinator: two sell requests that together ask for more than is held,
\* one purchase, three threads.
MCThreads == {t1, t2, t3}
MCSellKeys == {stopLoss, profitLock}
MCBuyKeys == {entry}
MCWant == [k \in {stopLoss, profitLock, entry} |->
              IF k = profitLock THEN 2 ELSE 3]

\* Two threads of one process or client, and one of another.
MCWorkers == {n1, n2, n3}
MCClientOf == n1 :> c1 @@ n2 :> c1 @@ n3 :> c2
MCProcessOf == n1 :> p1 @@ n2 :> p1 @@ n3 :> p2

\* The exit watcher and the page in one process, the cycle in another.
MCOpsOf == n1 :> {"watch"} @@ n2 :> {"page", "on", "off", "reset"}
           @@ n3 :> {"cycle"}

VARIABLE subject

Subjects ==
    {"coordinator", "token", "gate", "state", "modes", "rerun", "both", "taken",
     "fast", "quotes", "gap"}
StateSubjects == {"state", "modes", "rerun", "both", "taken"}

mcVars == <<subject, vars, kisVars, gateVars, esVars, fwVars, qcVars, gtVars>>

MCInit ==
    /\ subject \in Subjects
    /\ Init /\ KisInit /\ GateInit /\ StateInit /\ FastInit /\ QuoteInit /\ GapInit
    /\ subject # "coordinator" => key = [t \in Threads |-> entry]
    /\ subject # "gate" => ~gateFlag
    /\ subject \notin StateSubjects => ~esOn /\ esModeOn = [m \in Modes |-> FALSE]
    /\ subject \in {"state", "modes", "rerun"} => esModeOn[mock]
    /\ ~esModeOn[real] /\ esActive = mock
    /\ ~esMacd /\ ~esMutex
    /\ subject # "fast" => ~fwOn
    /\ subject # "gap" => gtHeld = [s \in Symbols |-> 0]

\* Without the MACD strategy and without a change of the mode files: all
\* threads, one mode and no rerun of the page, where the locks age; or the
\* threads of one process, both modes and a switch to OFF or a rerun.  With
\* the MACD strategy: the exit watcher and the page's buttons in one mode; or
\* a page that takes modes.
StateScenario ==
    LET only(ops) ==
          \A t \in StateThreads : esPc'[t] # "idle" => esOp'[t] \in ops
        noMacd == UNCHANGED <<esMacdVars, esModeOn>>
    IN
    /\ subject # "state" => UNCHANGED esOld
    /\ CASE subject = "state" -> noMacd /\ UNCHANGED esActive /\ only(Ops \ {"page"})
         [] subject = "modes" -> noMacd /\ only({"watch", "off"})
         [] subject = "rerun" -> noMacd /\ only({"watch", "page"})
         [] subject = "both" -> UNCHANGED esActive /\ only({"watch", "on", "off", "reset"})
         [] subject = "taken" -> UNCHANGED esCopies /\ only({"on", "off"})

CoordinatorStep ==
    /\ subject = "coordinator" /\ Next
    /\ UNCHANGED <<subject, kisVars, gateVars, esVars, fwVars, qcVars, gtVars>>

TokenStep ==
    /\ subject = "token" /\ KisNext
    /\ UNCHANGED <<subject, vars, gateVars, esVars, fwVars, qcVars, gtVars>>

GateStep ==
    /\ subject = "gate" /\ GateNext
    /\ UNCHANGED <<subject, vars, kisVars, esVars, fwVars, qcVars, gtVars>>

EnhancedStep ==
    /\ subject \in StateSubjects /\ StateNext /\ StateScenario
    /\ UNCHANGED <<subject, vars, kisVars, gateVars, fwVars, qcVars, gtVars>>

FastStep ==
    /\ subject = "fast" /\ FastNext
    /\ UNCHANGED <<subject, vars, kisVars, gateVars, esVars, qcVars, gtVars>>

QuoteStep ==
    /\ subject = "quotes" /\ QuoteNext
    /\ UNCHANGED <<subject, vars, kisVars, gateVars, esVars, fwVars, gtVars>>

GapTraderStep ==
    /\ subject = "gap" /\ GapNext
    /\ UNCHANGED <<subject, vars, kisVars, gateVars, esVars, fwVars, qcVars>>

MCNext ==
    \/ CoordinatorStep \/ TokenStep \/ GateStep
    \/ EnhancedStep \/ FastStep \/ QuoteStep \/ GapTraderStep

MCSpec == MCInit /\ [][MCNext]_mcVars
=============================================================================
