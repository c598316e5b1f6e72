----------------------------- MODULE HynixBook -----------------------------
(***************************************************************************)
(* What the MACD strategy promises about the account, day by day, with     *)
(* nothing of how orders are sent, confirmed, retried or lost: the account *)
(* is flat or holds one ETF, it changes ETF only by way of flat, the day   *)
(* is shut when it is flat, and nothing is bought until the next one opens *)
(* (docs/requirements.md: sell-confirm-then-buy; 15:00, everything sold).  *)
(***************************************************************************)
CONSTANT Symbols        \* the ETFs the strategy may hold

VARIABLES
    book,               \* the ETF on the account, or "flat"
    shut                \* is the day's liquidation done?

Init == book = "flat" /\ shut = FALSE

Enter(s) ==
    /\ book = "flat" /\ ~ shut
    /\ book' = s
    /\ UNCHANGED shut

Leave ==
    /\ book # "flat"
    /\ book' = "flat"
    /\ UNCHANGED shut

Shut ==
    /\ book = "flat" /\ ~ shut
    /\ shut' = TRUE
    /\ UNCHANGED book

Open ==
    /\ shut
    /\ shut' = FALSE
    /\ UNCHANGED book

Next == (\E s \in Symbols : Enter(s)) \/ Leave \/ Shut \/ Open

Spec == Init /\ [][Next]_<<book, shut>>
=============================================================================
