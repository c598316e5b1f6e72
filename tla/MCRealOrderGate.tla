--------------------------- MODULE MCRealOrderGate ---------------------------
(* Two trading threads of one process, each with its own broker object.    *)
EXTENDS RealOrderGate, TLC

CONSTANTS n1, n2, p1

MCProcessOf == n1 :> p1 @@ n2 :> p1
=============================================================================
