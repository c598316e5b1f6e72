------------------------------ MODULE KisToken ------------------------------
(***************************************************************************)
(* The access token of the KIS client (src/app/trading/kis_client.py): the *)
(* token in a client's memory, the token file that every client of the     *)
(* same mode shares, the lock of one client, and a request that is         *)
(* answered "expired token" and sent once more under a new token.          *)
(*                                                                         *)
(* broker_factory builds a client for each caller, so several clients, and *)
(* several threads of one client, use one set of credentials.  Issuing a   *)
(* token makes the broker reject the one before it (the comment at line    *)
(* 440).  Tokens are numbered in the order of their issue; 0 is "no token".*)
(***************************************************************************)
EXTENDS Integers

CONSTANTS
    KisThreads,   \* threads that send requests
    KisClients,   \* instances of KISClient
    ClientOf,     \* ClientOf[t]: the client thread t uses
    MaxIssues,    \* bound: tokens the broker issues
    MaxKills      \* bound: times the broker rejects a token on its own

ASSUME KisClientOfAssumption == ClientOf \in [KisThreads -> KisClients]
ASSUME KisBoundsAssumption == MaxIssues \in Nat /\ MaxKills \in Nat

KisNobody == "nobody"
ASSUME KisNobodyAssumption == KisNobody \notin KisThreads

Tokens == 0 .. MaxIssues

VARIABLES
    kisMem,     \* kisMem[c]: _token of client c
    kisFile,    \* the token in the cache file, 0 when there is none
    kisAged,    \* tokens up to this one are within five minutes of expiry
    kisLive,    \* the token the broker accepts
    kisIssued,  \* tokens issued so far
    kisKills,   \* tokens rejected by the broker on its own so far
    kisLock,    \* kisLock[c]: the thread that holds _token_lock of client c
    kisPc,      \* kisPc[t]: where thread t is in its request
    kisHdr,     \* kisHdr[t]: the token in the header of the request
    kisTry,     \* kisTry[t]: 1, or 2 once the request is sent again
    kisRaced    \* history: another thread or the broker changed a token
                \* while thread t sends its request a second time

kisVars == <<kisMem, kisFile, kisAged, kisLive, kisIssued, kisKills,
             kisLock, kisPc, kisHdr, kisTry, kisRaced>>

KisTypeOK ==
    /\ kisMem \in [KisClients -> Tokens]
    /\ kisFile \in Tokens
    /\ kisAged \in Tokens
    /\ kisLive \in Tokens
    /\ kisIssued \in Tokens
    /\ kisKills \in 0 .. MaxKills
    /\ kisLock \in [KisClients -> KisThreads \cup {KisNobody}]
    /\ kisPc \in [KisThreads -> {"idle", "fast", "return", "lock", "locked",
                     "tokenP", "save", "send", "expired", "lost"}]
    /\ kisHdr \in [KisThreads -> Tokens]
    /\ kisTry \in [KisThreads -> {1, 2}]
    /\ kisRaced \in [KisThreads -> BOOLEAN]

\* A token the client itself still trusts.
Fresh(n) == n > kisAged

KisInit ==
    /\ kisMem = [c \in KisClients |-> 0]
    /\ kisFile = 0 /\ kisAged = 0 /\ kisLive = 0
    /\ kisIssued = 0 /\ kisKills = 0
    /\ kisLock = [c \in KisClients |-> KisNobody]
    /\ kisPc = [t \in KisThreads |-> "idle"]
    /\ kisHdr = [t \in KisThreads |-> 0]
    /\ kisTry = [t \in KisThreads |-> 1]
    /\ kisRaced = [t \in KisThreads |-> FALSE]

\* Thread t moves to p.
KisGo(t, p) == kisPc' = [kisPc EXCEPT ![t] = p]

\* Every other thread notes that a token changed under it.
RaceOthers(t) ==
    kisRaced' = [u \in KisThreads |-> kisRaced[u] \/ (u # t /\ kisTry[u] = 2)]

\* The request of thread t is over, with or without an answer.
RequestOver(t) ==
    /\ KisGo(t, "idle")
    /\ kisHdr' = [kisHdr EXCEPT ![t] = 0]
    /\ kisTry' = [kisTry EXCEPT ![t] = 1]
    /\ kisRaced' = [kisRaced EXCEPT ![t] = FALSE]

Release(t) == kisLock' = [kisLock EXCEPT ![ClientOf[t]] = KisNobody]

\* A request begins: _auth_headers -> get_access_token.
Request(t) ==
    /\ kisPc[t] \in {"idle", "lost"}
    /\ KisGo(t, "fast")
    /\ kisTry' = [kisTry EXCEPT ![t] = 1]
    /\ kisRaced' = [kisRaced EXCEPT ![t] = FALSE]
    /\ UNCHANGED <<kisMem, kisFile, kisAged, kisLive, kisIssued, kisKills,
                   kisLock, kisHdr>>

\* The fast path tests the token without the lock ...
FastPath(t) ==
    /\ kisPc[t] = "fast"
    /\ KisGo(t, IF Fresh(kisMem[ClientOf[t]]) THEN "return" ELSE "lock")
    /\ UNCHANGED <<kisMem, kisFile, kisAged, kisLive, kisIssued, kisKills,
                   kisLock, kisHdr, kisTry, kisRaced>>

\* ... and reads it again to return it: by then it may be another or none.
FastReturn(t) ==
    /\ kisPc[t] = "return"
    /\ kisHdr' = [kisHdr EXCEPT ![t] = kisMem[ClientOf[t]]]
    /\ KisGo(t, "send")
    /\ UNCHANGED <<kisMem, kisFile, kisAged, kisLive, kisIssued, kisKills,
                   kisLock, kisTry, kisRaced>>

TakeLock(t) ==
    /\ kisPc[t] = "lock"
    /\ kisLock[ClientOf[t]] = KisNobody
    /\ kisLock' = [kisLock EXCEPT ![ClientOf[t]] = t]
    /\ KisGo(t, "locked")
    /\ UNCHANGED <<kisMem, kisFile, kisAged, kisLive, kisIssued, kisKills,
                   kisHdr, kisTry, kisRaced>>

\* Faulty variant: the memory is not tested again under the lock.
NoRecheck(t) == FALSE

\* The second test of the memory, by the thread that now holds the lock.
Recheck(t) == Fresh(kisMem[ClientOf[t]])

\* Under the lock: the memory again, then the file, then tokenP.
UnderLock(t) ==
    LET c == ClientOf[t] IN
    /\ kisPc[t] = "locked"
    /\ \/ /\ Recheck(t)
          /\ kisHdr' = [kisHdr EXCEPT ![t] = kisMem[c]]
          /\ KisGo(t, "send") /\ Release(t)
          /\ UNCHANGED <<kisMem, kisRaced>>
       \/ /\ ~Recheck(t) /\ Fresh(kisFile)
          /\ kisMem' = [kisMem EXCEPT ![c] = kisFile]
          /\ kisHdr' = [kisHdr EXCEPT ![t] = kisFile]
          /\ KisGo(t, "send") /\ Release(t) /\ RaceOthers(t)
       \/ /\ ~Recheck(t) /\ ~Fresh(kisFile)
          /\ KisGo(t, "tokenP")
          /\ UNCHANGED <<kisMem, kisHdr, kisLock, kisRaced>>
    /\ UNCHANGED <<kisFile, kisAged, kisLive, kisIssued, kisKills, kisTry>>

\* tokenP answers with a token; opening the cache file empties it, or fails.
Issue(t) ==
    LET c == ClientOf[t]
        n == kisIssued + 1
    IN
    /\ kisPc[t] = "tokenP"
    /\ n \in Tokens
    /\ kisIssued' = n /\ kisLive' = n
    /\ kisMem' = [kisMem EXCEPT ![c] = n]
    /\ kisHdr' = [kisHdr EXCEPT ![t] = n]
    /\ \/ kisFile' = 0 /\ KisGo(t, "save") /\ UNCHANGED kisLock
       \/ UNCHANGED kisFile /\ KisGo(t, "send") /\ Release(t)
    /\ RaceOthers(t)
    /\ UNCHANGED <<kisAged, kisKills, kisTry>>

\* tokenP refuses.  After a 403 the file is read once more; otherwise, and
\* when it holds no fresh token, KISTokenError is raised.
IssueRefused(t) ==
    /\ kisPc[t] = "tokenP"
    /\ \/ /\ Fresh(kisFile)
          /\ kisMem' = [kisMem EXCEPT ![ClientOf[t]] = kisFile]
          /\ kisHdr' = [kisHdr EXCEPT ![t] = kisFile]
          /\ KisGo(t, "send") /\ RaceOthers(t) /\ UNCHANGED kisTry
       \/ RequestOver(t) /\ UNCHANGED kisMem
    /\ Release(t)
    /\ UNCHANGED <<kisFile, kisAged, kisLive, kisIssued, kisKills>>

\* _save_token_cache writes the token of the client's memory.
SaveFile(t) ==
    /\ kisPc[t] = "save"
    /\ kisFile' = kisMem[ClientOf[t]]
    /\ KisGo(t, "send") /\ Release(t) /\ RaceOthers(t)
    /\ UNCHANGED <<kisMem, kisAged, kisLive, kisIssued, kisKills, kisHdr,
                   kisTry>>

\* Faulty variant: a request is sent again as long as it is rejected.
MaySendAgainAlways(t) == TRUE

\* A query whose token is rejected is sent once more.
MaySendAgain(t) == kisTry[t] = 1

\* The answer to the request: done, or the token is rejected.  A query is
\* sent once more (_request_with_token_retry); an order is not (_place_order).
Answer(t) ==
    /\ kisPc[t] = "send"
    /\ \/ kisHdr[t] = kisLive /\ kisLive # 0 /\ RequestOver(t)
       \/ /\ kisHdr[t] # kisLive \/ kisLive = 0
          /\ \/ kisTry[t] = 1 /\ RequestOver(t)      \* an order
             \/ /\ KisGo(t, IF MaySendAgain(t) THEN "expired" ELSE "lost")
                /\ kisHdr' = [kisHdr EXCEPT ![t] = 0]
                /\ UNCHANGED <<kisTry, kisRaced>>
    /\ UNCHANGED <<kisMem, kisFile, kisAged, kisLive, kisIssued, kisKills,
                   kisLock>>

\* Faulty variant: the rejected token stays in the file.
FileKept == kisFile

\* Invalidation deletes the file, whatever token it holds by now.
FileDeleted == 0

\* _invalidate_token, under the lock; then the request starts over, with its
\* second try.
Invalidate(t) ==
    /\ kisPc[t] = "expired"
    /\ kisLock[ClientOf[t]] = KisNobody
    /\ kisMem' = [kisMem EXCEPT ![ClientOf[t]] = 0]
    /\ kisFile' = FileDeleted
    /\ kisTry' = [kisTry EXCEPT ![t] = @ + 1]
    /\ RaceOthers(t)
    /\ KisGo(t, "fast")
    /\ UNCHANGED <<kisAged, kisLive, kisIssued, kisKills, kisLock, kisHdr>>

\* The broker stops accepting the token (another programme with the same
\* key took a new one, or it expired there).
BrokerKills ==
    /\ kisLive # 0 /\ kisKills < MaxKills
    /\ kisKills' = kisKills + 1
    /\ kisLive' = 0
    /\ kisRaced' = [u \in KisThreads |-> kisTry[u] = 2]
    /\ UNCHANGED <<kisMem, kisFile, kisAged, kisIssued, kisLock, kisPc,
                   kisHdr, kisTry>>

\* The last five minutes of the newest token begin.
TokenAges ==
    /\ kisAged < kisIssued
    /\ kisAged' = kisIssued
    /\ UNCHANGED <<kisMem, kisFile, kisLive, kisIssued, kisKills, kisLock,
                   kisPc, kisHdr, kisTry, kisRaced>>

\* create_kis_client: the callers of a client get a new instance.
NewClient(c) ==
    /\ \A t \in KisThreads : ClientOf[t] = c => kisPc[t] \in {"idle", "lost"}
    /\ kisMem[c] # 0
    /\ kisMem' = [kisMem EXCEPT ![c] = 0]
    /\ UNCHANGED <<kisFile, kisAged, kisLive, kisIssued, kisKills, kisLock,
                   kisPc, kisHdr, kisTry, kisRaced>>

KisStep(t) ==
    \/ FastPath(t) \/ FastReturn(t) \/ TakeLock(t) \/ UnderLock(t)
    \/ Issue(t) \/ IssueRefused(t) \/ SaveFile(t) \/ Answer(t)
    \/ Invalidate(t)

KisNext ==
    \/ \E t \in KisThreads : Request(t) \/ KisStep(t)
    \/ BrokerKills \/ TokenAges
    \/ \E c \in KisClients : NewClient(c)

KisSpec == KisInit /\ [][KisNext]_kisVars

(***************************************************************************)
(* Properties.                                                             *)
(***************************************************************************)

\* A query that is rejected a second time was overtaken: while it was sent
\* again, another thread or the broker changed a token.  Alone, the renewal
\* of _request_with_token_retry (line 472) always ends with a token the
\* broker takes, although memory and file both held the dead one.
RejectedTwiceOnlyIfRaced == \A t \in KisThreads : kisPc[t] = "lost" => kisRaced[t]

\* The double-checked lock of get_access_token (line 343): a thread that asks
\* tokenP holds the lock of its client, and its client has no usable token;
\* two threads that both found the token stale do not both renew it.
RenewedOnlyWhenStale ==
    \A t \in KisThreads : kisPc[t] = "tokenP" =>
        kisLock[ClientOf[t]] = t /\ ~Fresh(kisMem[ClientOf[t]])
=============================================================================
