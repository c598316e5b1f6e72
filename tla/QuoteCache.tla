----------------------------- MODULE QuoteCache -----------------------------
(***************************************************************************)
(* The quote cache of the MACD strategy and the threads that fill it       *)
(* (src/app/trading/macd_pipeline/market_data.py).  An updater thread      *)
(* fetches one quote after the other, stores the round and waits; the      *)
(* worker reads the cache, and fetches a round itself when nothing in it   *)
(* is usable.  A start sets the stop flag, joins the old thread for two    *)
(* seconds, clears the flag and creates a new one.                         *)
(*                                                                         *)
(* A price is known by its age in ticks of the clock; ages above MaxAge +  *)
(* RoundTime look alike.  NoPrice stands for a quote that failed or is     *)
(* missing, and for a stamp that was never set.                            *)
(***************************************************************************)
EXTENDS Integers

CONSTANTS
    Slots,       \* the symbols that are quoted
    Updaters,    \* updater threads that exist in the run of the programme
    Worker,      \* the worker thread
    MaxAge,      \* QUOTE_ORDER_MAX_AGE_SEC, in ticks
    RoundTime    \* bound: ticks that one round of fetching takes

ASSUME QuoteTimeAssumption == MaxAge \in Nat /\ RoundTime \in Nat
ASSUME QuoteWorkerAssumption == Worker \notin Updaters

Writers == Updaters \cup {Worker}
NoPrice == -1
OldAge == MaxAge + RoundTime + 1
Ages == 0 .. OldAge
NoThreadYet == "none"
ASSUME NoThreadYetAssumption == NoThreadYet \notin Writers

VARIABLES
    qcQuote,    \* qcQuote[s]: age of the price in "quotes", or NoPrice
    qcStamp,    \* age of updated_mono
    qcGood,     \* qcGood[s]: age of the price in "last_good"
    qcGoodStamp,\* age of last_good_mono
    qcPc,       \* qcPc[w]: where thread w is
    qcLeft,     \* qcLeft[w]: slots of its round not yet fetched
    qcGot,      \* qcGot[w]: ages of the prices it got in this round
    qcSpent,    \* qcSpent[w]: ticks since its round began
    qcStop,     \* _quote_stop is set
    qcThread,   \* _quote_thread
    qcPage      \* where start_quote_updater is

qcVars == <<qcQuote, qcStamp, qcGood, qcGoodStamp, qcPc, qcLeft, qcGot,
            qcSpent, qcStop, qcThread, qcPage>>

qcCache == <<qcQuote, qcStamp, qcGood, qcGoodStamp>>

Prices == [Slots -> Ages \cup {NoPrice}]

QuoteTypeOK ==
    /\ qcQuote \in Prices /\ qcGood \in Prices
    /\ qcStamp \in Ages \cup {NoPrice} /\ qcGoodStamp \in Ages \cup {NoPrice}
    /\ qcPc \in [Writers -> {"none", "check", "fetch", "wait", "left"}]
    /\ qcLeft \in [Writers -> SUBSET Slots]
    /\ qcGot \in [Writers -> Prices]
    /\ qcSpent \in [Writers -> 0 .. RoundTime]
    /\ qcStop \in BOOLEAN
    /\ qcThread \in Updaters \cup {NoThreadYet}
    /\ qcPage \in {"idle", "join", "create"}

Nothing == [s \in Slots |-> NoPrice]

QuoteInit ==
    /\ qcQuote = Nothing /\ qcGood = Nothing
    /\ qcStamp = NoPrice /\ qcGoodStamp = NoPrice
    /\ qcPc = [w \in Writers |-> IF w = Worker THEN "wait" ELSE "none"]
    /\ qcLeft = [w \in Writers |-> {}]
    /\ qcGot = [w \in Writers |-> Nothing]
    /\ qcSpent = [w \in Writers |-> 0]
    /\ qcStop = FALSE /\ qcThread = NoThreadYet /\ qcPage = "idle"

QuoteGo(w, p) == qcPc' = [qcPc EXCEPT ![w] = p]

(***************************************************************************)
(* What read_quote_cache gives for a slot.                                 *)
(***************************************************************************)

Recent(age) == age # NoPrice /\ age <= MaxAge

\* The quote of the last round is used ...
FromRound(s) == qcQuote[s] # NoPrice /\ Recent(qcStamp)

\* ... otherwise the last good one, which is "ok" as long as its stamp is
\* recent.
Usable(s) == FromRound(s) \/ (qcGood[s] # NoPrice /\ Recent(qcGoodStamp))

\* The age of the price itself.
PriceAge(s) == IF FromRound(s) THEN qcQuote[s] ELSE qcGood[s]

(***************************************************************************)
(* The writers.                                                            *)
(***************************************************************************)

Alive(u) == qcPc[u] \in {"check", "fetch", "wait"}

\* The loop of an updater looks at the stop flag; a round begins.
BeginRound(u) ==
    /\ u \in Updaters /\ qcPc[u] = "check"
    /\ QuoteGo(u, IF qcStop THEN "left" ELSE "fetch")
    /\ qcLeft' = [qcLeft EXCEPT ![u] = IF qcStop THEN {} ELSE Slots]
    /\ qcSpent' = [qcSpent EXCEPT ![u] = 0]
    /\ UNCHANGED <<qcCache, qcGot, qcStop, qcThread, qcPage>>

\* The worker's tick: with any slot usable it only reads (_refresh_quotes).
ColdRound ==
    /\ qcPc[Worker] = "wait"
    /\ \A s \in Slots : ~Usable(s)
    /\ QuoteGo(Worker, "fetch")
    /\ qcLeft' = [qcLeft EXCEPT ![Worker] = Slots]
    /\ qcSpent' = [qcSpent EXCEPT ![Worker] = 0]
    /\ UNCHANGED <<qcCache, qcGot, qcStop, qcThread, qcPage>>

\* _quote_one: a price, or a failure.
FetchOne(w, s) ==
    /\ qcPc[w] = "fetch" /\ s \in qcLeft[w]
    /\ w \in Updaters => ~qcStop
    /\ \E a \in {0, NoPrice} : qcGot' = [qcGot EXCEPT ![w][s] = a]
    /\ qcLeft' = [qcLeft EXCEPT ![w] = @ \ {s}]
    /\ UNCHANGED <<qcCache, qcPc, qcSpent, qcStop, qcThread, qcPage>>

\* The stop flag ends a round early; nothing is stored if nothing was tried.
CutShort(u) ==
    /\ u \in Updaters /\ qcPc[u] = "fetch" /\ qcLeft[u] # {} /\ qcStop
    /\ IF qcLeft[u] = Slots
         THEN QuoteGo(u, "wait") /\ qcLeft' = [qcLeft EXCEPT ![u] = {}]
         ELSE UNCHANGED qcPc /\ qcLeft' = [qcLeft EXCEPT ![u] = {}]
    /\ UNCHANGED <<qcCache, qcGot, qcSpent, qcStop, qcThread, qcPage>>

\* Faulty variant: a quote that failed keeps the entry of the round before.
RoundMerged(w) == [s \in Slots |-> IF qcGot[w][s] # NoPrice THEN qcGot[w][s]
                                                            ELSE qcQuote[s]]

\* The quotes of the round as they are.
Round(w) == qcGot[w]

\* store_quotes: the stamp of the last good quotes is renewed whenever there
\* are any, whether this round had one or not.
StoreQuotes(w) ==
    LET good == [s \in Slots |-> IF qcGot[w][s] # NoPrice THEN qcGot[w][s]
                                                         ELSE qcGood[s]]
    IN
    /\ qcPc[w] = "fetch" /\ qcLeft[w] = {}
    /\ qcQuote' = Round(w) /\ qcStamp' = 0
    /\ qcGood' = good
    /\ qcGoodStamp' = IF good # Nothing THEN 0 ELSE qcGoodStamp
    /\ qcGot' = [qcGot EXCEPT ![w] = Nothing]
    /\ qcSpent' = [qcSpent EXCEPT ![w] = 0]
    /\ QuoteGo(w, "wait")
    /\ UNCHANGED <<qcLeft, qcStop, qcThread, qcPage>>

\* The broker could not be created: the round is not begun.
RoundFails(u) ==
    /\ u \in Updaters /\ qcPc[u] = "fetch" /\ qcLeft[u] = Slots
    /\ QuoteGo(u, "wait")
    /\ qcLeft' = [qcLeft EXCEPT ![u] = {}]
    /\ UNCHANGED <<qcCache, qcGot, qcSpent, qcStop, qcThread, qcPage>>

\* The wait between two rounds is over.
WaitOver(u) ==
    /\ u \in Updaters /\ qcPc[u] = "wait"
    /\ QuoteGo(u, "check")
    /\ UNCHANGED <<qcCache, qcLeft, qcGot, qcSpent, qcStop, qcThread, qcPage>>

(***************************************************************************)
(* Start and stop, called by the start, stop and recovery of the worker.   *)
(***************************************************************************)

\* stop_quote_updater sets the flag ...
StopUpdater ==
    /\ qcPage = "idle"
    /\ qcStop' = TRUE /\ qcPage' = "join"
    /\ UNCHANGED <<qcCache, qcPc, qcLeft, qcGot, qcSpent, qcThread>>

\* ... and joins for two seconds at most; a thread that still runs stays the
\* one on record.  A stop ends here, a start goes on.
Joined ==
    /\ qcPage = "join"
    /\ qcThread' = IF qcThread # NoThreadYet /\ ~Alive(qcThread)
                     THEN NoThreadYet ELSE qcThread
    /\ \E p \in {"idle", "create"} : qcPage' = p
    /\ UNCHANGED <<qcCache, qcPc, qcLeft, qcGot, qcSpent, qcStop>>

\* start_quote_updater clears the flag, also for a thread that outlived the
\* join, and creates the next one.
CreateUpdater(u) ==
    /\ qcPage = "create" /\ qcPc[u] = "none"
    /\ qcStop' = FALSE /\ qcThread' = u /\ qcPage' = "idle"
    /\ QuoteGo(u, "check")
    /\ UNCHANGED <<qcCache, qcLeft, qcGot, qcSpent>>

\* Faulty variant: a price that is not there ages like one that is.
OlderAlways(age) == age + 1

\* The age of a price or a stamp one tick later.
Older(age) == IF age = NoPrice \/ age = OldAge THEN age ELSE age + 1

\* One tick of the clock; no round takes longer than RoundTime.
QuoteTick ==
    /\ \A w \in Writers : qcPc[w] = "fetch" => qcSpent[w] < RoundTime
    /\ qcSpent' = [w \in Writers |->
                      IF qcPc[w] = "fetch" THEN qcSpent[w] + 1 ELSE qcSpent[w]]
    /\ qcQuote' = [s \in Slots |-> Older(qcQuote[s])]
    /\ qcGood' = [s \in Slots |-> Older(qcGood[s])]
    /\ qcGot' = [w \in Writers |-> [s \in Slots |-> Older(qcGot[w][s])]]
    /\ qcStamp' = Older(qcStamp) /\ qcGoodStamp' = Older(qcGoodStamp)
    /\ UNCHANGED <<qcPc, qcLeft, qcStop, qcThread, qcPage>>

QuoteNext ==
    \/ \E w \in Writers :
          \/ BeginRound(w) \/ CutShort(w) \/ RoundFails(w) \/ WaitOver(w)
          \/ StoreQuotes(w) \/ \E s \in Slots : FetchOne(w, s)
    \/ ColdRound \/ StopUpdater \/ Joined \/ QuoteTick
    \/ \E u \in Updaters : CreateUpdater(u)

QuoteSpec == QuoteInit /\ [][QuoteNext]_qcVars

(***************************************************************************)
(* Properties.                                                             *)
(***************************************************************************)

\* The gate for orders: what the cache calls usable is no older than
\* QUOTE_ORDER_MAX_AGE_SEC and the round that fetched it ("QUOTE_ERROR /
\* stale ..." blocks orders, data/state/macd_pipeline_audit_AG.md:67).
UsableIsFresh == \A s \in Slots : Usable(s) => PriceAge(s) <= MaxAge + RoundTime

\* An old price is called usable only for a slot that failed in the last
\* round, or was cut from it: a slot that was answered is fresh, whichever of
\* two updaters and the worker stored last.
OldOnlyAfterFailure ==
    \A s \in Slots : Usable(s) /\ PriceAge(s) > MaxAge + RoundTime =>
        qcQuote[s] = NoPrice \/ ~Recent(qcStamp)
=============================================================================
