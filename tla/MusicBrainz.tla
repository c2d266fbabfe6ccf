----------------------------- MODULE MusicBrainz -----------------------------
(* The lookups at MusicBrainz and AcoustID: the limit on their rate, the    *)
(* cache of the answers and the threads that share both.                    *)
(* src/desktop/src/net/musicbrainz.cpp                                      *)
(*                                                                          *)
(* A request is [kind, id]. A body that the server sends is named by the    *)
(* request it answers and the time it came. The time of the rate limiter    *)
(* and of the cache is the same steady clock, and starts past its epoch.    *)
EXTENDS Integers, Sequences, FiniteSets

CONSTANTS
    Threads,
    Requests,
    Period,      \* 1 s
    Ttl,         \* 24 h
    MaxEntries,  \* 4096
    MaxTime,     \* bound on the clock
    None

VARIABLES
    now,
    tokens, nextToken,   \* tokens_, next_token_ of the RateLimiter
    at, request,
    cache,               \* entries_: request -> [body, expires]
    result,
    answered             \* history: when the server last answered a request
vars == <<now, tokens, nextToken, at, request, cache, result, answered>>

Epoch == 0
Init ==
    /\ now = 1 /\ tokens = 0 /\ nextToken = Epoch
    /\ at = [t \in Threads |-> "idle"] /\ request = [t \in Threads |-> None]
    /\ cache = <<>> /\ result = [t \in Threads |-> None]
    /\ answered = <<>>

Tick ==
    /\ now < MaxTime /\ now' = now + 1
    /\ UNCHANGED <<tokens, nextToken, at, request, cache, result, answered>>
LookUp(t, q) ==
    /\ at[t] = "idle" /\ at' = [at EXCEPT ![t] = "limited"]
    /\ request' = [request EXCEPT ![t] = q] /\ result' = [result EXCEPT ![t] = None]
    /\ UNCHANGED <<now, tokens, nextToken, cache, answered>>

-----------------------------------------------------------------------------
(* The rate                                                                 *)

\* Without a token it waits for the next one; nobody can cancel the wait.
Waits == tokens = 0 /\ nextToken > now
\* A token is put down for the next request by one that found none.
Acquire(t) ==
    /\ at[t] = "limited" /\ ~Waits
    /\ IF tokens = 0 THEN tokens' = 1 /\ nextToken' = now + Period
       ELSE tokens' = 0 /\ UNCHANGED nextToken
    /\ at' = [at EXCEPT ![t] = "granted"]
    /\ UNCHANGED <<now, request, cache, result, answered>>
\* The waits of the others end, and the client may be used again.
Close ==
    /\ tokens' = 1 /\ nextToken' = Epoch
    /\ UNCHANGED <<now, at, request, cache, result, answered>>

-----------------------------------------------------------------------------
(* The answers                                                              *)

\* The text of an answer, in tokens: a name stands in quotes before its colon,
\* and a title may hold a name and a colon side by side.
Text(body) == <<"{", "'", "id", "'", ":", "'", "value", "'", ",",
                "'", "title", "'", ":", "'", "id", ":", "'", "}">>
\* The name is looked for with its colon right behind it, and what is read as
\* the rest begins with the name itself, where the colon should be.
Field(body, key) ==
    LET text == Text(body)
        found == {i \in 1..Len(text) - 1 : text[i] = key /\ text[i + 1] = ":"}
        rest == CHOOSE i \in found : \A j \in found : i <= j
    IN  IF found # {} /\ text[rest] = ":" THEN text[rest + 1] ELSE None
Parsed(q, body) == [id |-> Field(body, "id"), title |-> Field(body, "title"), source |-> "musicbrainz"]
\* A match is kept for its score and its id; an id it never has.
Matches(body) == SelectSeq(<<[id |-> Field(body, "id")]>>, LAMBDA r : r.id # None)

Returns(t, value) ==
    /\ at' = [at EXCEPT ![t] = "idle"] /\ request' = [request EXCEPT ![t] = None]
    /\ result' = [result EXCEPT ![t] = value]
\* What is handed out, and (history) for what, from which body and when.
Reading(q, body, value) == [value |-> value, to |-> q, body |-> body, read |-> now]

GoodForever(q) == q \in DOMAIN cache   \* mutant: nothing expires
Good(q) == q \in DOMAIN cache /\ now <= cache[q].expires
Cached(t) ==
    /\ at[t] = "granted" /\ Good(request[t])
    /\ Returns(t, Reading(request[t], cache[request[t]].body, Parsed(request[t], cache[request[t]].body)))
    /\ UNCHANGED <<now, tokens, nextToken, cache, answered>>
Send(t) ==
    /\ at[t] = "granted" /\ ~Good(request[t]) /\ at' = [at EXCEPT ![t] = "sent"]
    /\ UNCHANGED <<now, tokens, nextToken, request, cache, result, answered>>

\* A cache that is too large loses what has expired for half the time of a stay.
StaysOrNot(entry) == entry.expires >= now + Ttl \div 2   \* mutant: what is not fresh goes
Stays(entry) == entry.expires >= now - Ttl \div 2
Evict(entries) ==
    IF Cardinality(DOMAIN entries) <= MaxEntries THEN entries
    ELSE [q \in {r \in DOMAIN entries : Stays(entries[r])} |-> entries[q]]
Put(q, body) ==
    Evict([r \in DOMAIN cache \cup {q} |-> IF r = q THEN [body |-> body, expires |-> now + Ttl] ELSE cache[r]])

Body(q) == [of |-> q, time |-> now]
\* A recording, a release or an artist.
Answer(t) ==
    LET q == request[t]
    IN  /\ at[t] = "sent" /\ q.kind # "fingerprint" /\ Returns(t, Reading(q, Body(q), Parsed(q, Body(q))))
        /\ cache' = Put(q, Body(q))
        /\ answered' = [r \in DOMAIN answered \cup {q} |-> IF r = q THEN now ELSE answered[r]]
        /\ UNCHANGED <<now, tokens, nextToken>>
\* A fingerprint is posted each time, and what it matches is not kept.
AnswerFingerprint(t) ==
    LET q == request[t]
    IN  /\ at[t] = "sent" /\ q.kind = "fingerprint" /\ Returns(t, Reading(q, Body(q), Matches(Body(q))))
        /\ UNCHANGED <<now, tokens, nextToken, cache, answered>>
\* The transport failed, or the server said other than 200.
Fail(t) ==
    /\ at[t] = "sent" /\ Returns(t, [failed |-> TRUE])
    /\ UNCHANGED <<now, tokens, nextToken, cache, answered>>

Next ==
    \/ Tick \/ Close
    \/ \E t \in Threads :
        \/ \E q \in Requests : LookUp(t, q)
        \/ Acquire(t) \/ Cached(t) \/ Send(t) \/ Answer(t) \/ AnswerFingerprint(t) \/ Fail(t)
Spec == Init /\ [][Next]_vars

-----------------------------------------------------------------------------

\* Whatever a thread is handed was read from an answer to its own request that
\* is not older than the cache may keep it; a fingerprint is asked anew each
\* time. An answer that is still good is there for the next lookup, however full
\* the cache has become. Of the rate at which requests leave nothing is said:
\* the limiter lets three go within a period.
LookupsHold ==
    /\ \A t \in Threads : result[t] # None /\ "body" \in DOMAIN result[t] =>
         /\ result[t].body.of = result[t].to /\ result[t].read - result[t].body.time <= Ttl
         /\ result[t].to.kind = "fingerprint" => result[t].read = result[t].body.time
    /\ \A q \in DOMAIN answered : now <= answered[q] + Ttl =>
         q \in DOMAIN cache /\ cache[q].body.time = answered[q]

-----------------------------------------------------------------------------
(* The inductive invariant                                                  *)

TypeOK ==
    /\ now \in Nat /\ tokens \in {0, 1} /\ nextToken \in Int
    /\ at \in [Threads -> {"idle", "limited", "granted", "sent"}]
    /\ request \in [Threads -> Requests \cup {None}] /\ DOMAIN result = Threads
    /\ \A t \in Threads : at[t] # "idle" => request[t] \in Requests
    /\ answered \in [DOMAIN answered -> Nat]

\* An entry is the latest answer to its request and no fingerprint's, and lives
\* as long as it is good and half as long again.
CacheInv ==
    /\ \A q \in DOMAIN cache :
         /\ q.kind # "fingerprint" /\ cache[q].body.of = q
         /\ cache[q].body.time \in Nat /\ cache[q].expires = cache[q].body.time + Ttl
    /\ \A q \in DOMAIN answered : answered[q] <= now
LookupInv == TypeOK /\ CacheInv /\ LookupsHold
=============================================================================
