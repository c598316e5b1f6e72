--------------------------- MODULE MCMacdRuntime ---------------------------
(* Two worker threads at a time (one may outlive its stop), one session of   *)
(* the page and the watchdog.                                                *)
EXTENDS MacdRuntime

CONSTANTS w1, w2, page

MCWorkers == {w1, w2}
MCPages == {page}
=============================================================================
