--------------------------- MODULE QuoteCache_proofs ---------------------------
(***************************************************************************)
(* Proofs about the quote cache: its types, and that only a slot that      *)
(* failed in the last round can be old while it is called usable.          *)
(***************************************************************************)
EXTENDS QuoteCache, TLAPS

\* A thread has a price only for the slots it fetched in the round it is in,
\* and none is older than that round.
GotInRound ==
    \A w \in Writers, s \in Slots :
        /\ qcGot[w][s] <= qcSpent[w]
        /\ qcPc[w] # "fetch" \/ s \in qcLeft[w] => qcGot[w][s] = NoPrice

\* A quote of the cache is older than its stamp by one round at most.
StampedInRound ==
    \A s \in Slots : qcQuote[s] # NoPrice =>
        qcStamp # NoPrice /\ qcQuote[s] <= qcStamp + RoundTime

QuoteInv == QuoteTypeOK /\ GotInRound /\ StampedInRound

LEMMA InitQuote == QuoteInit => QuoteInv
  <1> SUFFICES ASSUME QuoteInit PROVE QuoteInv
    OBVIOUS
  <1>1. Nothing \in Prices
    BY DEF Nothing, Prices
  <1>2. QuoteTypeOK
    <2>1. qcPc \in [Writers -> {"none", "check", "fetch", "wait", "left"}]
      BY DEF QuoteInit
    <2>2. /\ qcLeft \in [Writers -> SUBSET Slots]
          /\ qcGot \in [Writers -> Prices]
          /\ qcSpent \in [Writers -> 0 .. RoundTime]
      BY <1>1, QuoteTimeAssumption DEF QuoteInit
    <2> QED BY <1>1, <2>1, <2>2 DEF QuoteInit, QuoteTypeOK
  <1>3. GotInRound
    <2>1. \A w \in Writers, s \in Slots : qcGot[w][s] = NoPrice /\ qcSpent[w] = 0
      BY DEF QuoteInit, Nothing
    <2> QED BY <2>1 DEF GotInRound, NoPrice
  <1>4. StampedInRound
    BY DEF QuoteInit, StampedInRound, Nothing
  <1> QED BY <1>2, <1>3, <1>4 DEF QuoteInv

\* A tick makes an age one older, unless there is none or it is the oldest.
LEMMA OlderTyped ==
  ASSUME NEW a \in Ages \cup {NoPrice}
  PROVE  /\ Older(a) \in Ages \cup {NoPrice}
         /\ Older(a) = NoPrice <=> a = NoPrice
         /\ Older(a) <= a + 1
         /\ Older(a) = a + 1 \/ Older(a) \in {NoPrice, OldAge}
  BY QuoteTimeAssumption DEF Older, Ages, OldAge, NoPrice

-----------------------------------------------------------------------------

\* What leaves the cache and what the threads got alone.
LEMMA CacheKept ==
  ASSUME QuoteInv, QuoteTypeOK', UNCHANGED <<qcCache, qcGot>>,
         \A w \in Writers : qcSpent'[w] = qcSpent[w] \/ qcPc[w] # "fetch",
         \A w \in Writers, s \in Slots :
            qcPc'[w] # "fetch" \/ s \in qcLeft'[w] =>
               qcPc[w] # "fetch" \/ s \in qcLeft[w]
  PROVE  QuoteInv'
  <1>1. StampedInRound'
    BY DEF QuoteInv, StampedInRound, qcCache
  <1>2. GotInRound'
    <2> SUFFICES ASSUME NEW w \in Writers, NEW s \in Slots
                 PROVE  /\ qcGot[w][s] <= qcSpent'[w]
                        /\ qcPc'[w] # "fetch" \/ s \in qcLeft'[w] =>
                              qcGot[w][s] = NoPrice
      BY DEF GotInRound
    <2>1. qcSpent'[w] \in Nat
      BY QuoteTimeAssumption DEF QuoteTypeOK
    <2>2. qcPc[w] # "fetch" => qcGot[w][s] = NoPrice
      BY DEF QuoteInv, GotInRound
    <2> QED BY <2>1, <2>2 DEF QuoteInv, GotInRound, NoPrice
  <1> QED BY <1>1, <1>2 DEF QuoteInv

LEMMA StepRound ==
  ASSUME QuoteInv, NEW u \in Writers,
         \/ BeginRound(u) \/ CutShort(u) \/ RoundFails(u) \/ WaitOver(u)
         \/ ColdRound
  PROVE  QuoteInv'
  <1> USE QuoteTimeAssumption
  <1>1. QuoteTypeOK
    BY DEF QuoteInv
  <1>2. CASE BeginRound(u)
    <2>1. QuoteTypeOK'
      BY <1>1, <1>2 DEF BeginRound, QuoteGo, QuoteTypeOK, qcCache
    <2> QED BY <1>1, <1>2, <2>1, CacheKept
            DEF BeginRound, QuoteGo, QuoteTypeOK, qcCache
  <1>3. CASE CutShort(u)
    <2>1. QuoteTypeOK'
      BY <1>1, <1>3 DEF CutShort, QuoteGo, QuoteTypeOK, qcCache
    <2> QED BY <1>1, <1>3, <2>1, CacheKept
            DEF CutShort, QuoteGo, QuoteTypeOK, qcCache
  <1>4. CASE RoundFails(u)
    <2>1. QuoteTypeOK'
      BY <1>1, <1>4 DEF RoundFails, QuoteGo, QuoteTypeOK, qcCache
    <2> QED BY <1>1, <1>4, <2>1, CacheKept
            DEF RoundFails, QuoteGo, QuoteTypeOK, qcCache
  <1>5. CASE WaitOver(u)
    <2>1. QuoteTypeOK'
      BY <1>1, <1>5 DEF WaitOver, QuoteGo, QuoteTypeOK, qcCache
    <2> QED BY <1>1, <1>5, <2>1, CacheKept
            DEF WaitOver, QuoteGo, QuoteTypeOK, qcCache
  <1>6. CASE ColdRound
    <2>1. QuoteTypeOK' /\ Worker \in Writers
      BY <1>1, <1>6 DEF ColdRound, QuoteGo, QuoteTypeOK, qcCache, Writers
    <2> QED BY <1>1, <1>6, <2>1, CacheKept
            DEF ColdRound, QuoteGo, QuoteTypeOK, qcCache
  <1> QED BY <1>2, <1>3, <1>4, <1>5, <1>6

\* The threads of the page and the stop flag.
LEMMA StepPage ==
  ASSUME QuoteInv, StopUpdater \/ Joined \/ \E u \in Updaters : CreateUpdater(u)
  PROVE  QuoteInv'
  <1>1. QuoteTypeOK
    BY DEF QuoteInv
  <1>2. CASE StopUpdater
    <2>1. QuoteTypeOK'
      BY <1>1, <1>2 DEF StopUpdater, QuoteTypeOK, qcCache
    <2> QED BY <1>2, <2>1, CacheKept DEF StopUpdater, qcCache
  <1>3. CASE Joined
    <2>1. QuoteTypeOK'
      BY <1>1, <1>3 DEF Joined, QuoteTypeOK, qcCache
    <2> QED BY <1>3, <2>1, CacheKept DEF Joined, qcCache
  <1>4. ASSUME NEW u \in Updaters, CreateUpdater(u) PROVE QuoteInv'
    <2>1. QuoteTypeOK' /\ u \in Writers
      BY <1>1, <1>4 DEF CreateUpdater, QuoteGo, QuoteTypeOK, qcCache, Writers
    <2> QED BY <1>1, <1>4, <2>1, CacheKept
            DEF CreateUpdater, QuoteGo, QuoteTypeOK, qcCache
  <1> QED BY <1>2, <1>3, <1>4

LEMMA StepFetch ==
  ASSUME QuoteInv, NEW w \in Writers, NEW s \in Slots, FetchOne(w, s)
  PROVE  QuoteInv'
  <1>1. QuoteTypeOK /\ GotInRound /\ StampedInRound
    BY DEF QuoteInv
  <1>2. PICK a \in {0, NoPrice} : qcGot' = [qcGot EXCEPT ![w][s] = a]
    BY DEF FetchOne
  <1>3. /\ qcPc[w] = "fetch"
        /\ qcLeft' = [qcLeft EXCEPT ![w] = @ \ {s}]
        /\ UNCHANGED <<qcCache, qcPc, qcSpent, qcStop, qcThread, qcPage>>
    BY DEF FetchOne
  <1>4. a \in Ages \cup {NoPrice}
    BY <1>2, QuoteTimeAssumption DEF Ages, OldAge
  <1>5. QuoteTypeOK'
    BY <1>1, <1>2, <1>3, <1>4 DEF QuoteTypeOK, Prices, qcCache
  <1>6. /\ qcGot'[w][s] = a
        /\ \A v \in Writers, r \in Slots :
              v # w \/ r # s => qcGot'[v][r] = qcGot[v][r]
    BY <1>1, <1>2 DEF QuoteTypeOK, Prices
  <1>7. /\ s \notin qcLeft'[w]
        /\ \A v \in Writers : qcLeft'[v] \subseteq qcLeft[v]
    BY <1>1, <1>3 DEF QuoteTypeOK
  <1>8. a <= qcSpent[w]
    BY <1>1, <1>2, QuoteTimeAssumption DEF QuoteTypeOK, NoPrice
  <1>9. GotInRound'
    BY <1>1, <1>3, <1>6, <1>7, <1>8 DEF GotInRound
  <1>10. StampedInRound'
    BY <1>1, <1>3 DEF StampedInRound, qcCache
  <1> QED BY <1>5, <1>9, <1>10 DEF QuoteInv

LEMMA StepStore ==
  ASSUME QuoteInv, NEW w \in Writers, StoreQuotes(w)
  PROVE  QuoteInv'
  <1> DEFINE good == [s \in Slots |-> IF qcGot[w][s] # NoPrice THEN qcGot[w][s]
                                                               ELSE qcGood[s]]
  <1>1. QuoteTypeOK /\ GotInRound /\ StampedInRound
    BY DEF QuoteInv
  <1>2. qcGot[w] \in Prices /\ qcGood \in Prices
    BY <1>1 DEF QuoteTypeOK
  <1>3. good \in Prices /\ Nothing \in Prices
    BY <1>2 DEF Prices, Nothing
  <1>4. 0 \in Ages /\ 0 \in 0 .. RoundTime
    BY QuoteTimeAssumption DEF Ages, OldAge
  <1>5. /\ qcQuote' = qcGot[w] /\ qcStamp' = 0
        /\ qcGood' = good
        /\ qcGoodStamp' \in {0, qcGoodStamp}
        /\ qcGot' = [qcGot EXCEPT ![w] = Nothing]
        /\ qcSpent' = [qcSpent EXCEPT ![w] = 0]
        /\ qcPc' = [qcPc EXCEPT ![w] = "wait"]
        /\ UNCHANGED <<qcLeft, qcStop, qcThread, qcPage>>
    BY DEF StoreQuotes, Round, QuoteGo
  <1> HIDE DEF good
  <1>6. QuoteTypeOK'
    BY <1>1, <1>2, <1>3, <1>4, <1>5 DEF QuoteTypeOK
  <1>7. \A s \in Slots : qcGot'[w][s] = NoPrice
    BY <1>1, <1>5 DEF QuoteTypeOK, Nothing
  <1>8. qcSpent'[w] = 0
    BY <1>1, <1>5 DEF QuoteTypeOK
  <1>9. \A v \in Writers \ {w} :
           qcGot'[v] = qcGot[v] /\ qcSpent'[v] = qcSpent[v] /\ qcPc'[v] = qcPc[v]
    BY <1>1, <1>5 DEF QuoteTypeOK
  <1>10. GotInRound'
    BY <1>1, <1>5, <1>7, <1>8, <1>9 DEF GotInRound, NoPrice
  <1>11. StampedInRound'
    <2> SUFFICES ASSUME NEW s \in Slots
                 PROVE  qcGot[w][s] <= RoundTime
      BY <1>5, QuoteTimeAssumption DEF StampedInRound, NoPrice
    <2>1. qcGot[w][s] <= qcSpent[w] /\ qcSpent[w] \in 0 .. RoundTime
      BY <1>1 DEF GotInRound, QuoteTypeOK
    <2>2. qcGot[w][s] \in Int
      BY <1>2 DEF Prices, Ages, NoPrice
    <2> QED BY <2>1, <2>2, QuoteTimeAssumption
  <1> QED BY <1>6, <1>10, <1>11 DEF QuoteInv

LEMMA StepTick ==
  ASSUME QuoteInv, QuoteTick
  PROVE  QuoteInv'
  <1>1. QuoteTypeOK /\ GotInRound /\ StampedInRound
    BY DEF QuoteInv
  <1>2. \A s \in Slots : qcQuote[s] \in Ages \cup {NoPrice}
                         /\ qcGood[s] \in Ages \cup {NoPrice}
    BY <1>1 DEF QuoteTypeOK, Prices
  <1>3. \A w \in Writers, s \in Slots : qcGot[w][s] \in Ages \cup {NoPrice}
    BY <1>1 DEF QuoteTypeOK, Prices
  <1>4. qcQuote' \in Prices /\ qcGood' \in Prices
    BY <1>2, OlderTyped DEF QuoteTick, Prices
  <1>5. qcGot' \in [Writers -> Prices]
    BY <1>3, OlderTyped DEF QuoteTick, Prices
  <1>6. qcStamp' \in Ages \cup {NoPrice} /\ qcGoodStamp' \in Ages \cup {NoPrice}
    BY <1>1, OlderTyped DEF QuoteTick, QuoteTypeOK
  <1>7. /\ qcSpent' \in [Writers -> 0 .. RoundTime]
        /\ \A w \in Writers : qcPc[w] = "fetch" => qcSpent'[w] = qcSpent[w] + 1
    BY <1>1, QuoteTimeAssumption DEF QuoteTick, QuoteTypeOK
  <1>8. UNCHANGED <<qcPc, qcLeft, qcStop, qcThread, qcPage>>
    BY DEF QuoteTick
  <1>9. QuoteTypeOK'
    BY <1>1, <1>4, <1>5, <1>6, <1>7, <1>8 DEF QuoteTypeOK
  <1>10. GotInRound'
    <2> SUFFICES ASSUME NEW w \in Writers, NEW s \in Slots
                 PROVE  /\ qcGot'[w][s] <= qcSpent'[w]
                        /\ qcPc[w] # "fetch" \/ s \in qcLeft[w] =>
                              qcGot'[w][s] = NoPrice
      BY <1>8 DEF GotInRound
    <2>1. qcGot'[w][s] = Older(qcGot[w][s])
      BY DEF QuoteTick
    <2>2. /\ Older(qcGot[w][s]) = NoPrice <=> qcGot[w][s] = NoPrice
          /\ Older(qcGot[w][s]) <= qcGot[w][s] + 1
          /\ Older(qcGot[w][s]) \in Ages \cup {NoPrice}
      BY <1>3, OlderTyped
    <2>3. qcPc[w] # "fetch" \/ s \in qcLeft[w] => qcGot'[w][s] = NoPrice
      BY <1>1, <2>1, <2>2 DEF GotInRound
    <2>4. qcGot[w][s] <= qcSpent[w] /\ qcSpent[w] \in Nat /\ qcSpent'[w] \in Nat
      BY <1>1, <1>7, QuoteTimeAssumption DEF GotInRound, QuoteTypeOK
    <2>5. qcGot[w][s] \in Int /\ qcGot'[w][s] \in Int
      BY <1>3, <2>1, <2>2 DEF Ages, NoPrice
    <2>6. CASE qcPc[w] = "fetch"
      BY <1>7, <2>1, <2>2, <2>3, <2>4, <2>5, <2>6
    <2>7. CASE qcPc[w] # "fetch"
      BY <2>3, <2>4, <2>7 DEF NoPrice
    <2> QED BY <2>6, <2>7
  <1>11. StampedInRound'
    <2> SUFFICES ASSUME NEW s \in Slots, qcQuote'[s] # NoPrice
                 PROVE  qcStamp' # NoPrice /\ qcQuote'[s] <= qcStamp' + RoundTime
      BY DEF StampedInRound
    <2>1. qcQuote'[s] = Older(qcQuote[s]) /\ qcStamp' = Older(qcStamp)
      BY DEF QuoteTick
    <2>2. qcQuote[s] # NoPrice
      BY <1>2, <2>1, OlderTyped
    <2>3. /\ qcStamp # NoPrice /\ qcQuote[s] <= qcStamp + RoundTime
          /\ qcStamp \in Ages /\ qcQuote[s] \in Ages
      BY <1>1, <1>2, <2>2 DEF StampedInRound, QuoteTypeOK
    <2> QED BY <2>1, <2>3, QuoteTimeAssumption DEF Older, Ages, OldAge, NoPrice
  <1> QED BY <1>9, <1>10, <1>11 DEF QuoteInv

LEMMA StepQuote == QuoteInv /\ [QuoteNext]_qcVars => QuoteInv'
  <1> SUFFICES ASSUME QuoteInv, [QuoteNext]_qcVars PROVE QuoteInv'
    OBVIOUS
  <1>1. CASE UNCHANGED qcVars
    BY <1>1 DEF qcVars, QuoteInv, QuoteTypeOK, GotInRound, StampedInRound
  <1>2. CASE QuoteNext
    BY <1>2, StepRound, StepPage, StepFetch, StepStore, StepTick
       DEF QuoteNext, Writers
  <1> QED BY <1>1, <1>2

-----------------------------------------------------------------------------
(* The theorems.                                                           *)

\* The cache and its threads keep their types: no price is older than the
\* oldest, and none of a missing one.
THEOREM QuoteTyped == QuoteSpec => []QuoteTypeOK
  <1>1. QuoteInv => QuoteTypeOK
    BY DEF QuoteInv
  <1> QED BY <1>1, InitQuote, StepQuote, PTL DEF QuoteSpec

\* An old price is called usable only for a slot that failed in the last
\* round, whatever updaters and worker stored their rounds in what order.
THEOREM OldAfterFailure == QuoteSpec => []OldOnlyAfterFailure
  <1>1. QuoteInv => OldOnlyAfterFailure
    <2> SUFFICES ASSUME QuoteTypeOK, StampedInRound, NEW s \in Slots,
                        FromRound(s)
                 PROVE  ~(PriceAge(s) > MaxAge + RoundTime)
      BY DEF QuoteInv, OldOnlyAfterFailure, FromRound, PriceAge
    <2>1. /\ qcQuote[s] <= qcStamp + RoundTime /\ qcStamp <= MaxAge
          /\ qcStamp \in Ages /\ qcQuote[s] \in Ages
          /\ PriceAge(s) = qcQuote[s]
      BY DEF FromRound, Recent, StampedInRound, QuoteTypeOK, Prices, PriceAge
    <2> QED BY <2>1, QuoteTimeAssumption DEF Ages, OldAge
  <1> QED BY <1>1, InitQuote, StepQuote, PTL DEF QuoteSpec
=============================================================================
