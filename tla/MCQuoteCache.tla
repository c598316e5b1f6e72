---------------------------- MODULE MCQuoteCache ----------------------------
(* Two symbols, one updater thread and the worker.                         *)
EXTENDS QuoteCache

CONSTANTS hynix, inverse, u1, wk
=============================================================================
