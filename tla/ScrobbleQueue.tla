---------------------------- MODULE ScrobbleQueue ----------------------------
(***************************************************************************)
(* The scrobbler (net/scrobble.cpp): listens are submitted into a SQLite   *)
(* queue by the player and sent to their services by flush(), which a      *)
(* timer calls on a thread of its own.  The program may crash between any  *)
(* two steps; what SQLite has committed survives.                          *)
(*                                                                         *)
(* Both threads use one connection, so what one of them writes while the   *)
(* other has a transaction open belongs to that transaction.  A listen is  *)
(* a row: no listen is submitted twice by the player.  SQLite itself never *)
(* fails here.                                                             *)
(***************************************************************************)
EXTENDS Naturals, SequencesExt, FiniteSets

CONSTANTS
    Listen,          \* plays to be scrobbled
    Source,          \* listen -> its source field
    Service,         \* the sources flush() knows: Last.fm, ListenBrainz
    MaxCrashes,      \* bound: crashes
    MaxLostAnswers   \* bound: answers lost on the way back

VARIABLES
    queue,       \* scrobble_queue as the connection sees it, by id
    committed,   \* scrobble_queue on disk
    inTxn,       \* between BEGIN and COMMIT
    pc, batch,   \* flush(): where it is, and the items it has still to handle
    token,       \* what credentials() returned for the item being sent
    answer,      \* the answer to the request being sent
    loggedIn,    \* the services with credentials in the secret store
    reachable,   \* does the network work and do the services accept?
    submitted,   \* history: listens for which submit() has returned ok
    accepted,    \* history: listen -> times its service took it
    unanswered,  \* history: listen -> times the answer to that was lost
    dropped,     \* history: listens flush() passed over for their source
    lost,        \* history: listens a crash has wiped out
    lateSends,   \* history: service -> requests since its credentials went
    crashes

storeVars == <<queue, committed, inTxn>>
flushVars == <<pc, batch, token, answer>>
envVars   == <<loggedIn, reachable>>
history   == <<submitted, accepted, unanswered, dropped, lost, lateSends, crashes>>
vars      == <<storeVars, flushVars, envVars, history>>

Init ==
    /\ queue = <<>> /\ committed = <<>> /\ inTxn = FALSE
    /\ pc = "idle" /\ batch = <<>> /\ token = "none" /\ answer = "none"
    /\ loggedIn = {} /\ reachable = FALSE
    /\ submitted = {} /\ dropped = {} /\ lost = {} /\ crashes = 0
    /\ accepted = [l \in Listen |-> 0]
    /\ unanswered = [l \in Listen |-> 0]
    /\ lateSends = [s \in Service |-> 0]

(* enqueue(): an INSERT is on disk at once unless a transaction is open.   *)
Enqueue(l) ==
    /\ queue' = Append(queue, l)
    /\ committed' = IF inTxn THEN committed ELSE queue'
    /\ UNCHANGED inTxn

-----------------------------------------------------------------------------
(* submit(), on the player's thread.                                       *)
Submit(l) ==
    /\ l \notin submitted
    /\ Enqueue(l)
    /\ submitted' = submitted \cup {l}
    /\ UNCHANGED <<flushVars, envVars, accepted, unanswered, dropped, lost,
                   lateSends, crashes>>

-----------------------------------------------------------------------------
(* flush() begins with drain(): it reads all rows, and then deletes those  *)
(* it has read in one transaction.                                         *)
Select ==
    /\ pc = "idle"
    /\ batch' = queue
    /\ pc' = "begin"
    /\ UNCHANGED <<storeVars, token, answer, envVars, history>>

BeginDelete ==
    /\ pc = "begin"
    /\ inTxn' = TRUE
    /\ pc' = "delete"
    /\ UNCHANGED <<queue, committed, batch, token, answer, envVars, history>>

DeleteAllRows ==
    /\ pc = "delete"
    /\ queue' = <<>>
    /\ pc' = "commit"
    /\ UNCHANGED <<committed, inTxn, batch, token, answer, envVars, history>>

(* By id: the rows it has read come first, for submit() only appends.      *)
DeleteSelected ==
    /\ pc = "delete"
    /\ queue' = SubSeq(queue, Len(batch) + 1, Len(queue))
    /\ pc' = "commit"
    /\ UNCHANGED <<committed, inTxn, batch, token, answer, envVars, history>>

CommitRollsBack ==
    /\ pc = "commit"
    /\ inTxn' = FALSE
    /\ pc' = "item"
    /\ UNCHANGED <<queue, committed, batch, token, answer, envVars, history>>

Commit ==
    /\ pc = "commit"
    /\ committed' = queue /\ inTxn' = FALSE
    /\ pc' = "item"
    /\ UNCHANGED <<queue, batch, token, answer, envVars, history>>

(* The loop over the items.                                                *)
NextItem ==
    /\ batch' = Tail(batch)
    /\ pc' = "item" /\ token' = "none" /\ answer' = "none"

ItemSource == Source[Head(batch)]

SkipUnknownSource ==
    /\ pc = "item" /\ batch # <<>>
    /\ ItemSource \notin Service
    /\ dropped' = dropped \cup {Head(batch)}
    /\ NextItem
    /\ UNCHANGED <<storeVars, envVars, submitted, accepted, unanswered, lost,
                   lateSends, crashes>>

RequeueWithoutCredentials ==
    /\ pc = "item" /\ batch # <<>>
    /\ ItemSource \in Service \ loggedIn
    /\ Enqueue(Head(batch))
    /\ NextItem
    /\ UNCHANGED <<envVars, history>>

LoadCredentialsUnchecked ==
    /\ pc = "item" /\ batch # <<>>
    /\ ItemSource \in Service
    /\ token' = "stored"
    /\ pc' = "send"
    /\ UNCHANGED <<storeVars, batch, answer, envVars, history>>

(* credentials() copies each field from a string_view of a temporary that  *)
(* is gone by then (net/scrobble.cpp:534): the token may be garbage.       *)
LoadCredentials ==
    /\ pc = "item" /\ batch # <<>>
    /\ ItemSource \in Service \cap loggedIn
    /\ token' \in {"stored", "garbage"}
    /\ pc' = "send"
    /\ UNCHANGED <<storeVars, batch, answer, envVars, history>>

(* The request: taken and answered, taken with the answer lost, or not     *)
(* taken.  A service takes nothing under a garbage token.                  *)
Send ==
    LET l == Head(batch) IN
    /\ pc = "send"
    /\ pc' = "answered"
    /\ lateSends' = IF ItemSource \in loggedIn THEN lateSends
                    ELSE [lateSends EXCEPT ![ItemSource] = @ + 1]
    /\ \/ /\ reachable /\ token = "stored"
          /\ accepted' = [accepted EXCEPT ![l] = @ + 1]
          /\ answer' = "2xx" /\ UNCHANGED unanswered
       \/ /\ reachable /\ token = "stored"
          /\ \A k \in Listen : unanswered[k] < MaxLostAnswers
          /\ accepted' = [accepted EXCEPT ![l] = @ + 1]
          /\ answer' = "failed"
          /\ unanswered' = [unanswered EXCEPT ![l] = @ + 1]
       \/ /\ ~reachable \/ token = "garbage"
          /\ answer' = "failed" /\ UNCHANGED <<accepted, unanswered>>
    /\ UNCHANGED <<storeVars, batch, token, envVars, submitted, dropped, lost,
                   crashes>>

ForgetSubmittedRequeues ==
    /\ pc = "answered" /\ answer = "2xx"
    /\ Enqueue(Head(batch))
    /\ NextItem
    /\ UNCHANGED <<envVars, history>>

ForgetSubmitted ==
    /\ pc = "answered" /\ answer = "2xx"
    /\ NextItem
    /\ UNCHANGED <<storeVars, envVars, history>>

RequeueFailedForgets ==
    /\ pc = "answered" /\ answer = "failed"
    /\ NextItem
    /\ UNCHANGED <<storeVars, envVars, history>>

RequeueFailed ==
    /\ pc = "answered" /\ answer = "failed"
    /\ Enqueue(Head(batch))
    /\ NextItem
    /\ UNCHANGED <<envVars, history>>

FlushReturns ==
    /\ pc = "item" /\ batch = <<>>
    /\ pc' = "idle"
    /\ UNCHANGED <<storeVars, batch, token, answer, envVars, history>>

FlushStep ==
    \/ Select \/ BeginDelete \/ DeleteSelected \/ Commit
    \/ SkipUnknownSource \/ RequeueWithoutCredentials \/ LoadCredentials
    \/ Send \/ ForgetSubmitted \/ RequeueFailed \/ FlushReturns

-----------------------------------------------------------------------------
(* set_credentials(), with a token and with none.                          *)
LogIn(s) ==
    /\ loggedIn' = loggedIn \cup {s}
    /\ lateSends' = [lateSends EXCEPT ![s] = 0]
    /\ UNCHANGED <<storeVars, flushVars, reachable, submitted, accepted,
                   unanswered, dropped, lost, crashes>>

LogOut(s) ==
    /\ loggedIn' = loggedIn \ {s}
    /\ UNCHANGED <<storeVars, flushVars, reachable, history>>

NetworkChanges ==
    /\ reachable' = ~reachable
    /\ UNCHANGED <<storeVars, flushVars, loggedIn, history>>

(* A crash and the next start: SQLite rolls an open transaction back, and  *)
(* the items in the hands of flush() are gone.                             *)
Crash ==
    /\ crashes < MaxCrashes
    /\ crashes' = crashes + 1
    /\ lost' = lost \cup ((ToSet(queue) \cup ToSet(batch)) \ ToSet(committed))
    /\ queue' = committed /\ inTxn' = FALSE
    /\ pc' = "idle" /\ batch' = <<>> /\ token' = "none" /\ answer' = "none"
    /\ UNCHANGED <<committed, envVars, submitted, accepted, unanswered,
                   dropped, lateSends>>

Next ==
    \/ \E l \in Listen : Submit(l)
    \/ FlushStep
    \/ \E s \in Service : LogIn(s) \/ LogOut(s)
    \/ NetworkChanges
    \/ Crash

(* The timer keeps calling flush(), and flush() goes on.                   *)
Spec == Init /\ [][Next]_vars /\ WF_vars(FlushStep)

-----------------------------------------------------------------------------
(* The listens flush() alone holds: read, and no longer in the queue.      *)
InFlight ==
    IF pc \in {"commit", "item", "send", "answered"} THEN ToSet(batch) ELSE {}

(* The queue loses listens in two ways, both against REQ-NET-042: flush()  *)
(* passes over a row of an unknown source it has deleted already           *)
(* (scrobble.cpp:497), and a crash wipes out what flush() holds or what an *)
(* open transaction has not committed. There is no third: otherwise a      *)
(* listen submitted is in the queue or in the hands of flush() until its   *)
(* service takes it, whichever request fails and whatever is submitted     *)
(* while flush() drains.                                                   *)
NoOtherLoss ==
    \A l \in submitted :
        \/ l \in ToSet(queue) \cup InFlight
        \/ accepted[l] > 0 \/ l \in dropped \/ l \in lost

(* A listen is in one place, once, so a service takes it a second time     *)
(* only if its answer to the first was lost. A crash does not bring it     *)
(* back either: the rows are gone from the disk before the first request   *)
(* leaves.                                                                 *)
NoDoubleScrobble ==
    /\ Cardinality(ToSet(queue)) = Len(queue)
    /\ ToSet(queue) \cap InFlight = {}
    /\ ~inTxn => InFlight \cap ToSet(committed) = {}
    /\ \A l \in Listen : accepted[l] <= 1 + unanswered[l]

(* After a log out at most the one request whose credentials had been read *)
(* still leaves (REQ-NET-043).                                             *)
LogOutStopsSending == \A s \in Service : lateSends[s] <= 1

(* While the network works, the user is logged in and the token is read    *)
(* back as it was stored, every queued listen of a known service is taken  *)
(* (REQ-NET-042): a failure of one never keeps flush() from the others.    *)
Healthy == reachable /\ loggedIn = Service /\ token # "garbage"

EventuallySubmitted ==
    <>[]Healthy =>
        \A l \in Listen :
            (l \in ToSet(queue) /\ Source[l] \in Service) ~>
                (accepted[l] > 0 \/ l \in lost)

(* The queue persists a listen before submit() returns, so a crash right   *)
(* after the call still counts (net/ports/scrobble_port.hpp:94).           *)
PersistedBeforeReturn ==
    [][\A l \in submitted' \ submitted : l \in ToSet(committed')]_vars
==============================================================================
