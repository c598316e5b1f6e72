--------------------------- MODULE KisToken_proofs ---------------------------
(***************************************************************************)
(* Proofs about the token of the KIS client: the double-checked lock, and  *)
(* the second try of a request whose token was rejected.                   *)
(***************************************************************************)
EXTENDS KisToken, TLAPS

PcStates == {"idle", "fast", "return", "lock", "locked", "tokenP", "save",
             "send", "expired", "lost"}

\* Only the first try of a request is answered by another.
ExpiredFirst == \A t \in KisThreads : kisPc[t] = "expired" => kisTry[t] = 1

\* A thread under the lock is the one that holds it.
Holders ==
    \A t \in KisThreads :
        kisPc[t] \in {"locked", "tokenP", "save"} => kisLock[ClientOf[t]] = t

LockInv == KisTypeOK /\ ExpiredFirst /\ Holders /\ RenewedOnlyWhenStale

LEMMA InitLock == KisInit => LockInv
  BY KisClientOfAssumption, KisBoundsAssumption
     DEF KisInit, LockInv, KisTypeOK, ExpiredFirst, Holders,
         RenewedOnlyWhenStale, Tokens

-----------------------------------------------------------------------------
(* What a step does to the other threads: nothing, except that it may race *)
(* with them; and a client's memory is changed under its lock, or emptied. *)

\* Noting a race keeps the type, and notes it for every other second try.
LEMMA Races ==
  ASSUME KisTypeOK, NEW t \in KisThreads, RaceOthers(t)
  PROVE  /\ kisRaced' \in [KisThreads -> BOOLEAN]
         /\ \A u \in KisThreads \ {t} : kisTry[u] = 2 => kisRaced'[u]
         /\ kisRaced'[t] = kisRaced[t]
  BY DEF RaceOthers, KisTypeOK

LEMMA StepLock == LockInv /\ [KisNext]_kisVars => LockInv'
  <1> SUFFICES ASSUME LockInv, [KisNext]_kisVars PROVE LockInv'
    OBVIOUS
  <1> USE KisClientOfAssumption, KisBoundsAssumption, KisNobodyAssumption
      DEF LockInv, ExpiredFirst, Holders, RenewedOnlyWhenStale
  <1>1. CASE UNCHANGED kisVars
    BY <1>1 DEF kisVars, KisTypeOK, Fresh
  <1>2. ASSUME NEW t \in KisThreads, Request(t) PROVE LockInv'
    BY <1>2 DEF Request, KisGo, KisTypeOK, Fresh
  <1>3. ASSUME NEW t \in KisThreads, FastPath(t) PROVE LockInv'
    BY <1>3 DEF FastPath, KisGo, KisTypeOK, Fresh
  <1>4. ASSUME NEW t \in KisThreads, FastReturn(t) PROVE LockInv'
    BY <1>4 DEF FastReturn, KisGo, KisTypeOK, Fresh
  <1>5. ASSUME NEW t \in KisThreads, TakeLock(t) PROVE LockInv'
    BY <1>5 DEF TakeLock, KisGo, KisTypeOK, Fresh
  <1>6. ASSUME NEW t \in KisThreads, UnderLock(t) PROVE LockInv'
    <2> DEFINE c == ClientOf[t]
    <2>0. kisPc[t] = "locked" /\ kisLock[c] = t /\ c \in KisClients
      BY <1>6 DEF UnderLock
    <2>1. CASE /\ kisHdr' = [kisHdr EXCEPT ![t] = kisMem[c]]
               /\ KisGo(t, "send") /\ Release(t)
               /\ UNCHANGED <<kisMem, kisRaced>>
      BY <1>6, <2>0, <2>1 DEF UnderLock, KisGo, Release, KisTypeOK, Fresh
    <2>2. CASE /\ kisMem' = [kisMem EXCEPT ![c] = kisFile]
               /\ kisHdr' = [kisHdr EXCEPT ![t] = kisFile]
               /\ KisGo(t, "send") /\ Release(t) /\ RaceOthers(t)
      <3>1. KisTypeOK'
        BY <1>6, <2>0, <2>2, Races DEF UnderLock, KisGo, Release, KisTypeOK
      <3> QED BY <1>6, <2>0, <2>2, <3>1
              DEF UnderLock, KisGo, Release, KisTypeOK, Fresh
    <2>3. CASE /\ ~Recheck(t)
               /\ KisGo(t, "tokenP")
               /\ UNCHANGED <<kisMem, kisHdr, kisLock, kisRaced>>
      BY <1>6, <2>0, <2>3 DEF UnderLock, KisGo, Recheck, KisTypeOK, Fresh
    <2> QED BY <1>6, <2>1, <2>2, <2>3 DEF UnderLock
  <1>7. ASSUME NEW t \in KisThreads, Issue(t) PROVE LockInv'
    <2> DEFINE c == ClientOf[t]
    <2>0. kisPc[t] = "tokenP" /\ kisLock[c] = t /\ c \in KisClients
      BY <1>7 DEF Issue
    <2>1. KisTypeOK'
      <3>1. kisRaced' \in [KisThreads -> BOOLEAN]
        BY <1>7, Races DEF Issue
      <3>2. CASE kisFile' = 0 /\ KisGo(t, "save") /\ UNCHANGED kisLock
        BY <1>7, <3>1, <3>2 DEF Issue, KisGo, KisTypeOK, Tokens
      <3>3. CASE UNCHANGED kisFile /\ KisGo(t, "send") /\ Release(t)
        BY <1>7, <3>1, <3>3 DEF Issue, KisGo, Release, KisTypeOK, Tokens
      <3> QED BY <1>7, <3>2, <3>3 DEF Issue
    <2>2. CASE KisGo(t, "save") /\ UNCHANGED kisLock
      BY <1>7, <2>0, <2>1, <2>2 DEF Issue, KisGo, KisTypeOK, Fresh
    <2>3. CASE KisGo(t, "send") /\ Release(t)
      BY <1>7, <2>0, <2>1, <2>3 DEF Issue, KisGo, Release, KisTypeOK, Fresh
    <2> QED BY <1>7, <2>2, <2>3 DEF Issue
  <1>8. ASSUME NEW t \in KisThreads, IssueRefused(t) PROVE LockInv'
    <2> DEFINE c == ClientOf[t]
    <2>0. kisPc[t] = "tokenP" /\ kisLock[c] = t /\ c \in KisClients
      BY <1>8 DEF IssueRefused
    <2>1. CASE /\ kisMem' = [kisMem EXCEPT ![c] = kisFile]
               /\ kisHdr' = [kisHdr EXCEPT ![t] = kisFile]
               /\ KisGo(t, "send") /\ RaceOthers(t) /\ UNCHANGED kisTry
      <3>1. KisTypeOK'
        BY <1>8, <2>0, <2>1, Races
           DEF IssueRefused, KisGo, Release, KisTypeOK
      <3> QED BY <1>8, <2>0, <2>1, <3>1
              DEF IssueRefused, KisGo, Release, KisTypeOK, Fresh
    <2>2. CASE RequestOver(t) /\ UNCHANGED kisMem
      BY <1>8, <2>0, <2>2 DEF IssueRefused, RequestOver, KisGo, Release,
         KisTypeOK, Fresh, Tokens
    <2> QED BY <1>8, <2>1, <2>2 DEF IssueRefused
  <1>9. ASSUME NEW t \in KisThreads, SaveFile(t) PROVE LockInv'
    <2>1. KisTypeOK'
      BY <1>9, Races DEF SaveFile, KisGo, Release, KisTypeOK
    <2> QED BY <1>9, <2>1 DEF SaveFile, KisGo, Release, KisTypeOK, Fresh
  <1>10. ASSUME NEW t \in KisThreads, Answer(t) PROVE LockInv'
    <2>1. CASE RequestOver(t)
      BY <1>10, <2>1 DEF Answer, RequestOver, KisGo, KisTypeOK, Fresh, Tokens
    <2>2. CASE /\ KisGo(t, IF MaySendAgain(t) THEN "expired" ELSE "lost")
               /\ kisHdr' = [kisHdr EXCEPT ![t] = 0]
               /\ UNCHANGED <<kisTry, kisRaced>>
      BY <1>10, <2>2 DEF Answer, MaySendAgain, KisGo, KisTypeOK, Fresh, Tokens
    <2> QED BY <1>10, <2>1, <2>2 DEF Answer
  <1>11. ASSUME NEW t \in KisThreads, Invalidate(t) PROVE LockInv'
    <2>0. kisTry[t] = 1
      BY <1>11 DEF Invalidate
    <2>1. kisTry' = [kisTry EXCEPT ![t] = 2]
      <3>1. kisTry' = [kisTry EXCEPT ![t] = kisTry[t] + 1]
        BY <1>11 DEF Invalidate
      <3>2. kisTry[t] + 1 = 2
        BY <2>0
      <3> QED BY <3>1, <3>2, Zenon
    <2>2. KisTypeOK'
      BY <1>11, <2>1, Races DEF Invalidate, FileDeleted, KisGo, KisTypeOK, Tokens
    <2> QED BY <1>11, <2>1, <2>2 DEF Invalidate, KisGo, KisTypeOK, Fresh
  <1>12. CASE BrokerKills
    BY <1>12 DEF BrokerKills, KisTypeOK, Fresh, Tokens
  <1>13. CASE TokenAges
    BY <1>13 DEF TokenAges, KisTypeOK, Fresh, Tokens
  <1>14. ASSUME NEW c \in KisClients, NewClient(c) PROVE LockInv'
    BY <1>14 DEF NewClient, KisTypeOK, Fresh, Tokens
  <1> QED BY <1>1, <1>2, <1>3, <1>4, <1>5, <1>6, <1>7, <1>8, <1>9, <1>10,
             <1>11, <1>12, <1>13, <1>14 DEF KisNext, KisStep

\* The state of the clients keeps its types; in particular no request is sent
\* a third time.
THEOREM KisTyped == KisSpec => []KisTypeOK
  <1>1. LockInv => KisTypeOK
    BY DEF LockInv
  <1> QED BY <1>1, InitLock, StepLock, PTL DEF KisSpec

\* The double-checked lock works: a thread asks for a new token only while it
\* holds the lock of its client, whose token is not usable.
THEOREM RenewsStale == KisSpec => []RenewedOnlyWhenStale
  <1>1. LockInv => RenewedOnlyWhenStale
    BY DEF LockInv
  <1> QED BY <1>1, InitLock, StepLock, PTL DEF KisSpec

-----------------------------------------------------------------------------
(* The second try.                                                         *)

\* A second try with which nobody raced finds memory and file empty, so it
\* takes a new token, and the broker still accepts that one.
Alone(t) ==
    /\ kisPc[t] \in {"fast", "lock", "locked", "tokenP"} =>
           kisMem[ClientOf[t]] = 0 /\ kisFile = 0
    /\ kisPc[t] \in {"save", "send"} => kisHdr[t] = kisLive /\ kisLive # 0
    /\ kisPc[t] \notin {"return", "lost"}

SecondTry ==
    \A t \in KisThreads : kisTry[t] = 2 /\ ~kisRaced[t] => Alone(t)

LEMMA InitSecond == KisInit => SecondTry
  BY DEF KisInit, SecondTry

\* A thread keeps what SecondTry says of it when another changes a token.
LEMMA OthersRaced ==
  ASSUME KisTypeOK, SecondTry, NEW t \in KisThreads, RaceOthers(t),
         \A u \in KisThreads \ {t} : kisTry'[u] = kisTry[u]
  PROVE  \A u \in KisThreads \ {t} : kisTry'[u] = 2 /\ ~kisRaced'[u] => Alone(u)'
  BY Races

LEMMA StepSecond ==
    LockInv /\ SecondTry /\ [KisNext]_kisVars => SecondTry'
  <1> SUFFICES ASSUME LockInv, SecondTry, [KisNext]_kisVars PROVE SecondTry'
    OBVIOUS
  <1>t. KisTypeOK /\ kisAged \in Nat
    BY KisBoundsAssumption DEF LockInv, KisTypeOK, Tokens
  <1>1. CASE UNCHANGED kisVars
    BY <1>1 DEF kisVars, SecondTry, Alone
  <1>2. ASSUME NEW t \in KisThreads, Request(t) PROVE SecondTry'
    BY <1>2, <1>t DEF Request, KisGo, KisTypeOK, SecondTry, Alone
  <1>3. ASSUME NEW t \in KisThreads, FastPath(t) PROVE SecondTry'
    BY <1>3, <1>t DEF FastPath, KisGo, KisTypeOK, SecondTry, Alone, Fresh
  <1>4. ASSUME NEW t \in KisThreads, FastReturn(t) PROVE SecondTry'
    BY <1>4, <1>t DEF FastReturn, KisGo, KisTypeOK, SecondTry, Alone
  <1>5. ASSUME NEW t \in KisThreads, TakeLock(t) PROVE SecondTry'
    BY <1>5, <1>t DEF TakeLock, KisGo, KisTypeOK, SecondTry, Alone
  <1>6. ASSUME NEW t \in KisThreads, UnderLock(t) PROVE SecondTry'
    <2>1. CASE Recheck(t) /\ KisGo(t, "send") /\ UNCHANGED <<kisMem, kisRaced>>
               /\ kisHdr' = [kisHdr EXCEPT ![t] = kisMem[ClientOf[t]]]
      BY <1>6, <2>1, <1>t
         DEF UnderLock, Recheck, KisGo, KisTypeOK, SecondTry, Alone, Fresh
    <2>2. CASE Fresh(kisFile) /\ RaceOthers(t)
      <3>1. UNCHANGED kisTry /\ kisPc[t] = "locked"
        BY <1>6 DEF UnderLock
      <3>2. kisTry[t] = 2 => kisRaced[t] /\ kisRaced'[t]
        BY <2>2, <3>1, <1>t, Races DEF SecondTry, Alone, Fresh
      <3> QED BY <2>2, <3>1, <3>2, <1>t, OthersRaced DEF SecondTry
    <2>3. CASE KisGo(t, "tokenP")
               /\ UNCHANGED <<kisMem, kisHdr, kisLock, kisRaced>>
      BY <1>6, <2>3, <1>t DEF UnderLock, KisGo, KisTypeOK, SecondTry, Alone
    <2> QED BY <1>6, <2>1, <2>2, <2>3 DEF UnderLock
  <1>7. ASSUME NEW t \in KisThreads, Issue(t) PROVE SecondTry'
    <2>1. RaceOthers(t) /\ UNCHANGED kisTry
      BY <1>7 DEF Issue
    <2>2. Alone(t)'
      BY <1>7, <1>t, KisBoundsAssumption
         DEF Issue, KisGo, KisTypeOK, Alone, Tokens
    <2> QED BY <2>1, <2>2, <1>t, OthersRaced DEF SecondTry
  <1>8. ASSUME NEW t \in KisThreads, IssueRefused(t) PROVE SecondTry'
    <2>1. CASE Fresh(kisFile) /\ RaceOthers(t) /\ UNCHANGED kisTry
      <3>1. kisPc[t] = "tokenP"
        BY <1>8 DEF IssueRefused
      <3>2. kisTry[t] = 2 => kisRaced[t] /\ kisRaced'[t]
        BY <2>1, <3>1, <1>t, Races DEF SecondTry, Alone, Fresh
      <3> QED BY <2>1, <3>2, <1>t, OthersRaced DEF SecondTry
    <2>2. CASE RequestOver(t) /\ UNCHANGED kisMem
      BY <1>8, <2>2, <1>t
         DEF IssueRefused, RequestOver, KisGo, KisTypeOK, SecondTry, Alone
    <2> QED BY <1>8, <2>1, <2>2 DEF IssueRefused
  <1>9. ASSUME NEW t \in KisThreads, SaveFile(t) PROVE SecondTry'
    <2>1. RaceOthers(t) /\ UNCHANGED kisTry
      BY <1>9 DEF SaveFile
    <2>2. kisTry[t] = 2 /\ ~kisRaced[t] => Alone(t)'
      BY <1>9, <1>t DEF SaveFile, KisGo, KisTypeOK, SecondTry, Alone
    <2>3. kisRaced'[t] = kisRaced[t]
      BY <2>1, <1>t, Races
    <2> QED BY <2>1, <2>2, <2>3, <1>t, OthersRaced DEF SecondTry
  <1>10. ASSUME NEW t \in KisThreads, Answer(t) PROVE SecondTry'
    <2>1. CASE RequestOver(t)
      BY <1>10, <2>1, <1>t
         DEF Answer, RequestOver, KisGo, KisTypeOK, SecondTry, Alone
    <2>2. CASE /\ kisHdr[t] # kisLive \/ kisLive = 0
               /\ KisGo(t, IF MaySendAgain(t) THEN "expired" ELSE "lost")
               /\ UNCHANGED <<kisTry, kisRaced>>
      <3>1. kisPc[t] = "send" /\ UNCHANGED <<kisMem, kisFile, kisLive>>
            /\ \A u \in KisThreads \ {t} : kisHdr'[u] = kisHdr[u]
        BY <1>10, <1>t DEF Answer, RequestOver, KisTypeOK
      <3>2. kisTry[t] = 2 => kisRaced[t]
        BY <2>2, <3>1 DEF SecondTry, Alone
      <3> QED BY <2>2, <3>1, <3>2, <1>t DEF KisGo, KisTypeOK, SecondTry, Alone
    <2> QED BY <1>10, <2>1, <2>2 DEF Answer
  <1>11. ASSUME NEW t \in KisThreads, Invalidate(t) PROVE SecondTry'
    <2>1. RaceOthers(t) /\ \A u \in KisThreads \ {t} : kisTry'[u] = kisTry[u]
      BY <1>11, <1>t DEF Invalidate, KisTypeOK
    <2>2. Alone(t)'
      BY <1>11, <1>t, KisClientOfAssumption
         DEF Invalidate, FileDeleted, KisGo, KisTypeOK, Alone
    <2> QED BY <2>1, <2>2, <1>t, OthersRaced DEF SecondTry
  <1>12. CASE BrokerKills
    BY <1>12, <1>t DEF BrokerKills, KisTypeOK, SecondTry
  <1>13. CASE TokenAges
    BY <1>13 DEF TokenAges, SecondTry, Alone
  <1>14. ASSUME NEW c \in KisClients, NewClient(c) PROVE SecondTry'
    BY <1>14, <1>t DEF NewClient, KisTypeOK, SecondTry, Alone
  <1> QED BY <1>1, <1>2, <1>3, <1>4, <1>5, <1>6, <1>7, <1>8, <1>9, <1>10,
             <1>11, <1>12, <1>13, <1>14 DEF KisNext, KisStep

\* A query is rejected a second time only if another thread or the broker
\* changed a token while it was sent again.
THEOREM RejectedTwiceRaced == KisSpec => []RejectedTwiceOnlyIfRaced
  <1> DEFINE LostTry == \A t \in KisThreads : kisPc[t] = "lost" => kisTry[t] = 2
  <1>1. KisInit => LostTry
    BY DEF KisInit
  <1>2. LockInv /\ LostTry /\ [KisNext]_kisVars => LostTry'
    <2> SUFFICES ASSUME LockInv, LostTry, [KisNext]_kisVars PROVE LostTry'
      OBVIOUS
    <2>1. CASE UNCHANGED kisVars
      BY <2>1 DEF kisVars
    <2>2. ASSUME NEW t \in KisThreads, Request(t) \/ KisStep(t) PROVE LostTry'
      BY <2>2 DEF LockInv, KisTypeOK, Request, KisStep, FastPath, FastReturn,
         TakeLock, UnderLock, Issue, IssueRefused, SaveFile, Answer,
         MaySendAgain, Invalidate, RequestOver, KisGo
    <2>3. CASE BrokerKills \/ TokenAges
      BY <2>3 DEF BrokerKills, TokenAges
    <2>4. ASSUME NEW c \in KisClients, NewClient(c) PROVE LostTry'
      BY <2>4 DEF NewClient
    <2> QED BY <2>1, <2>2, <2>3, <2>4 DEF KisNext
  <1>3. SecondTry /\ LostTry => RejectedTwiceOnlyIfRaced
    BY DEF SecondTry, Alone, RejectedTwiceOnlyIfRaced
  <1> QED BY <1>1, <1>2, <1>3, InitLock, StepLock, InitSecond, StepSecond, PTL
          DEF KisSpec
=============================================================================
