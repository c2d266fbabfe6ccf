----------------------------- MODULE RadioClient -----------------------------
(***************************************************************************)
(* RadioClient (net/radio.cpp): a worker thread of the host is inside      *)
(* open(), which connects, demultiplexes what the station sent and         *)
(* returns, while other threads of the host - the window, the media keys - *)
(* call close(), pause() and resume().  When a connection fails, the       *)
(* host's timer opens the same station again.                              *)
(*                                                                         *)
(* A station answers with units of audio; an "icy" one puts a metadata     *)
(* block after every unit and says so in icy-metaint; an "hls" one answers *)
(* with a playlist and no audio.  The steps are the accesses to state_,    *)
(* active_ and the cancellation token, and the callbacks with audio.       *)
(*                                                                         *)
(* The host opens one station at a time, and no close() runs while open()  *)
(* assigns the fields it begins with: those accesses are unsynchronised.   *)
(***************************************************************************)
EXTENDS Naturals, Sequences

CONSTANTS
    Station,      \* the stations the user opens
    Kind,         \* station -> "plain", "icy" or "hls"
    Controller,   \* the threads that call close(), pause() and resume()
    MaxUnits,     \* bound: units of audio in an answer
    MaxOpens,     \* bound: stations opened by the user
    MaxCalls      \* bound: calls of close(), pause() and resume()

VARIABLES
    pc,           \* where the worker is in open()
    station,      \* station_ ("none" before the first)
    cancelled,    \* cancel_token_
    active,       \* active_
    attempt,      \* attempt_
    metaint,      \* metaint_ > 0
    state,        \* state_
    answer,       \* what http_->send() returned
    body,         \* the units of the answer still to handle
    result,       \* what open() returned last
    call,         \* controller -> where it is in its call
    online,       \* does the network work?
    delivered,    \* history: the units this open() gave to on_audio
    expected,     \* history: the audio units of the answer to this open()
    stale,        \* history: metaint_ is set and the station has none
    closed,       \* history: a close() begun after open() began has returned
    closedFirst,  \* history: ... and none was running, when the answer came
    touched,      \* history: some call ran since this open() began
    badPlaylist,  \* history: this open() failed on an HLS playlist
    opens, calls  \* counts, for the bounds

clientVars == <<station, cancelled, active, attempt, metaint, state>>
openVars   == <<pc, answer, body, result>>
history    == <<delivered, expected, stale, closed, closedFirst,
                touched, badPlaylist>>
vars == <<clientVars, openVars, call, online, history, opens, calls>>

Init ==
    /\ pc = "idle" /\ answer = "none" /\ body = <<>> /\ result = "none"
    /\ station = "none" /\ cancelled = FALSE /\ active = FALSE
    /\ attempt = 0 /\ metaint = FALSE /\ state = "Idle"
    /\ call = [c \in Controller |-> "none"] /\ online = TRUE
    /\ delivered = 0 /\ expected = 0 /\ stale = FALSE
    /\ closed = FALSE /\ closedFirst = FALSE /\ touched = FALSE
    /\ badPlaylist = FALSE
    /\ opens = 0 /\ calls = 0

NoneClosing ==
    \A c \in Controller : call[c] \notin {"close", "clear", "cancel", "idle"}

-----------------------------------------------------------------------------
(* What open() begins with.                                                *)
Open(s) ==
    /\ pc = "idle" /\ NoneClosing
    /\ station' = s /\ cancelled' = FALSE /\ active' = TRUE /\ attempt' = 0
    /\ pc' = "connect" /\ result' = "none"
    /\ delivered' = 0 /\ expected' = 0 /\ closed' = FALSE
    /\ closedFirst' = FALSE /\ badPlaylist' = FALSE
    /\ touched' = (\E c \in Controller : call[c] # "none")
    /\ UNCHANGED <<metaint, state, answer, body, call, online, stale, calls>>

UserOpens(s) == opens < MaxOpens /\ opens' = opens + 1 /\ Open(s)

(* The host's timer, after open() has returned an error and left the state *)
(* at Reconnecting.                                                        *)
TimerOpens ==
    /\ result = "error" /\ state = "Reconnecting"
    /\ Open(station)
    /\ UNCHANGED opens

Connect ==
    /\ pc = "connect"
    /\ state' = "Connecting"
    /\ pc' = "send"
    /\ UNCHANGED <<station, cancelled, active, attempt, metaint, answer, body,
                   result, call, online, history, opens, calls>>

(* http_->send(): a transport error when the network is down or the token  *)
(* cancelled.  Any status counts as an answer.                             *)
Send ==
    /\ pc = "send"
    /\ \/ online /\ answer' = "response"
       \/ (~online \/ cancelled) /\ answer' = "error"
    /\ pc' = "check"
    /\ UNCHANGED <<clientVars, body, result, call, online, history, opens,
                   calls>>

Return(value) == pc' = "idle" /\ result' = value

(* Once it has the answer, open() asks whether it was cancelled.           *)
CheckCancelled ==
    /\ pc = "check" /\ cancelled
    /\ closedFirst' = (closed /\ NoneClosing)
    /\ Return("ok")
    /\ UNCHANGED <<clientVars, answer, body, call, online, delivered, expected,
                   stale, closed, touched, badPlaylist, opens, calls>>

NextAfterAnswer ==
    IF answer = "error" THEN "reconnect"
    ELSE IF Kind[station] = "hls" THEN "playlist" ELSE "headers"

CheckAnswerUnasked ==
    /\ pc = "check"
    /\ closedFirst' = (closed /\ NoneClosing)
    /\ pc' = NextAfterAnswer
    /\ UNCHANGED <<clientVars, answer, body, result, call, online, delivered,
                   expected, stale, closed, touched, badPlaylist,
                   opens, calls>>

CheckAnswer ==
    /\ pc = "check" /\ ~cancelled
    /\ closedFirst' = (closed /\ NoneClosing)
    /\ pc' = NextAfterAnswer
    /\ UNCHANGED <<clientVars, answer, body, result, call, online, delivered,
                   expected, stale, closed, touched, badPlaylist,
                   opens, calls>>

(* schedule_reconnect(): the wait it looks up is left to the host.         *)
ScheduleReconnectSwallows ==
    /\ pc = "reconnect"
    /\ attempt' = attempt + 1 /\ state' = "Reconnecting"
    /\ Return("ok")
    /\ UNCHANGED <<station, cancelled, active, metaint, answer, body, call,
                   online, history, opens, calls>>

ScheduleReconnect ==
    /\ pc = "reconnect"
    /\ attempt' = attempt + 1 /\ state' = "Reconnecting"
    /\ Return("error")
    /\ UNCHANGED <<station, cancelled, active, metaint, answer, body, call,
                   online, history, opens, calls>>

-----------------------------------------------------------------------------
(* run_icy().  icy-metaint sets metaint_; nothing ever resets it.          *)
Blocks(n) == [k \in 1 .. 2 * n - 1 |-> IF k % 2 = 1 THEN "audio" ELSE "meta"]
Audio(n)  == [k \in 1..n |-> "audio"]

ReadHeadersIgnoringMetaint ==
    /\ pc = "headers"
    /\ \E n \in 1..MaxUnits :
          /\ body' = IF Kind[station] = "icy" THEN Blocks(n) ELSE Audio(n)
          /\ expected' = n
    /\ pc' = "buffer"
    /\ UNCHANGED <<clientVars, answer, result, call, online, delivered,
                   stale, closed, closedFirst, touched, badPlaylist, opens,
                   calls>>

ReadHeaders ==
    /\ pc = "headers"
    /\ \E n \in 1..MaxUnits :
          /\ body' = IF Kind[station] = "icy" THEN Blocks(n) ELSE Audio(n)
          /\ expected' = n
    /\ metaint' = (metaint \/ Kind[station] = "icy")
    /\ stale' = (metaint' /\ Kind[station] # "icy")
    /\ pc' = "buffer"
    /\ UNCHANGED <<station, cancelled, active, attempt, state, answer, result,
                   call, online, delivered, closed, closedFirst,
                   touched, badPlaylist, opens, calls>>

Buffer ==
    /\ pc = "buffer"
    /\ state' = "Buffering"
    /\ pc' = IF metaint THEN "demux" ELSE "whole"
    /\ UNCHANGED <<station, cancelled, active, attempt, metaint, answer, body,
                   result, call, online, history, opens, calls>>

(* Not an ICY stream: the body goes to the audio engine whole.             *)
DeliverWhole ==
    /\ pc = "whole"
    /\ delivered' = delivered + Len(body) /\ body' = <<>>
    /\ pc' = "play"
    /\ UNCHANGED <<clientVars, answer, result, call, online, expected,
                   stale, closed, closedFirst, touched, badPlaylist, opens,
                   calls>>

(* One turn of the loop: a unit to on_audio, and the metadata block after  *)
(* it skipped.  A unit of audio taken for the length of a block hides the  *)
(* block, or is so large that the rest counts as truncated.                *)
Demux ==
    /\ pc = "demux" /\ body # <<>> /\ ~cancelled
    /\ delivered' = delivered + 1
    /\ \/ body' = SubSeq(body, 3, Len(body))
       \/ Len(body) > 1 /\ body[2] = "audio" /\ body' = <<>>
    /\ UNCHANGED <<clientVars, pc, answer, result, call, online, expected,
                   stale, closed, closedFirst, touched, badPlaylist,
                   opens, calls>>

DemuxEnds ==
    /\ pc = "demux"
    /\ body = <<>> \/ cancelled
    /\ pc' = "play"
    /\ UNCHANGED <<clientVars, answer, body, result, call, online, history,
                   opens, calls>>

Play ==
    /\ pc = "play"
    /\ state' = "Playing"
    /\ Return("ok")
    /\ UNCHANGED <<station, cancelled, active, attempt, metaint, answer, body,
                   call, online, history, opens, calls>>

(* run_hls(): a playlist that does not parse ends open() where it is.      *)
PlaylistParses ==
    /\ pc = "playlist"
    /\ state' = "Buffering"
    /\ pc' = "play"
    /\ UNCHANGED <<station, cancelled, active, attempt, metaint, answer, body,
                   result, call, online, history, opens, calls>>

PlaylistIsBad ==
    /\ pc = "playlist"
    /\ badPlaylist' = TRUE
    /\ Return("error")
    /\ UNCHANGED <<clientVars, answer, body, call, online, delivered, expected,
                   stale, closed, closedFirst, touched, opens, calls>>

WorkerStep ==
    \/ Connect \/ Send \/ CheckCancelled \/ CheckAnswer
    \/ ScheduleReconnect
    \/ ReadHeaders \/ Buffer \/ DeliverWhole \/ Demux \/ DemuxEnds \/ Play
    \/ PlaylistParses \/ PlaylistIsBad

-----------------------------------------------------------------------------
(* The calls of the other threads.                                         *)
Goto(c, place) == call' = [call EXCEPT ![c] = place]

Begin(c, place) ==
    /\ call[c] = "none" /\ calls < MaxCalls
    /\ Goto(c, place)
    /\ calls' = calls + 1 /\ touched' = TRUE
    /\ UNCHANGED <<clientVars, openVars, online, delivered, expected, stale,
                   closed, closedFirst, badPlaylist, opens>>

CloseLooks(c) ==
    /\ call[c] = "close"
    /\ Goto(c, IF active THEN "clear" ELSE "idle")
    /\ UNCHANGED <<clientVars, openVars, online, history, opens, calls>>

CloseClears(c) ==
    /\ call[c] = "clear"
    /\ active' = FALSE
    /\ Goto(c, "cancel")
    /\ UNCHANGED <<station, cancelled, attempt, metaint, state, openVars,
                   online, history, opens, calls>>

CloseCancels(c) ==
    /\ call[c] = "cancel"
    /\ cancelled' = TRUE
    /\ Goto(c, "idle")
    /\ UNCHANGED <<station, active, attempt, metaint, state, openVars, online,
                   history, opens, calls>>

CloseReturns(c) ==
    /\ call[c] = "idle"
    /\ state' = "Idle"
    /\ Goto(c, "none")
    /\ closed' = TRUE
    /\ UNCHANGED <<station, cancelled, active, attempt, metaint, openVars,
                   online, delivered, expected, stale, closedFirst,
                   touched, badPlaylist, opens, calls>>

(* pause() and resume() look at the state and then set it.                 *)
SwapLooks(c, name, from, next) ==
    /\ call[c] = name
    /\ Goto(c, IF state = from THEN next ELSE "none")
    /\ UNCHANGED <<clientVars, openVars, online, history, opens, calls>>

SwapSets(c, name, to) ==
    /\ call[c] = name
    /\ state' = to
    /\ Goto(c, "none")
    /\ UNCHANGED <<station, cancelled, active, attempt, metaint, openVars,
                   online, history, opens, calls>>

ControllerStep(c) ==
    \/ CloseLooks(c) \/ CloseClears(c) \/ CloseCancels(c) \/ CloseReturns(c)
    \/ SwapLooks(c, "pause", "Playing", "pauseSets")
    \/ SwapSets(c, "pauseSets", "Paused")
    \/ SwapLooks(c, "resume", "Paused", "resumeSets")
    \/ SwapSets(c, "resumeSets", "Playing")

NetworkChanges ==
    /\ online' = ~online
    /\ UNCHANGED <<clientVars, openVars, call, history, opens, calls>>

Next ==
    \/ \E s \in Station : UserOpens(s)
    \/ TimerOpens
    \/ WorkerStep
    \/ \E c \in Controller :
          \/ \E place \in {"close", "pause", "resume"} : Begin(c, place)
          \/ ControllerStep(c)
    \/ NetworkChanges

(* Threads inside a call go on (send() has a timeout), and the timer fires.*)
Spec == /\ Init /\ [][Next]_vars
        /\ WF_vars(WorkerStep) /\ WF_vars(TimerOpens)
        /\ \A c \in Controller : WF_vars(ControllerStep(c))

-----------------------------------------------------------------------------
(* Connecting can be aborted (REQ-NET-012): when every close() begun has   *)
(* returned before open() looks at the answer, nothing of it is heard,     *)
(* however late it comes.  One of two at once may return too early.        *)
CancelledConnectIsSilent == closedFirst => delivered = 0

(* When nobody interferes, what open() returns tells the state: ok means   *)
(* playing, an error that the host's timer has to try again, as            *)
(* radio_port.hpp:73 promises of errors.  It does not look at a playlist   *)
(* that fails to parse, where the code breaks that promise.                *)
ResultTellsState ==
    pc = "idle" /\ ~touched /\ ~badPlaylist =>
        /\ result = "ok" => state = "Playing"
        /\ result = "error" => state = "Reconnecting"

(* A station that is opened and not closed is heard to the last unit of    *)
(* its answer and no metadata is, unless it has no icy-metaint and an      *)
(* earlier station of this client had one.                                 *)
WholeAudioHeard ==
    pc = "idle" /\ result = "ok" /\ ~cancelled /\ ~stale =>
        delivered = expected

(* A client that lost its station plays it again once the network stays up *)
(* (REQ-NET-013), unless it is closed, the playlist is bad, or a pause()   *)
(* that saw the station play before it was lost parks the client in Paused,*)
(* where the timer forgets it.                                             *)
Reconnects ==
    <>[]online =>
        (state = "Reconnecting" ~>
            state \in {"Playing", "Paused"} \/ closed \/ badPlaylist)

(* close() stops streaming at once (net/ports/radio_port.hpp:102): when it *)
(* and open() have returned, the client is idle.                           *)
ClosedIsIdle ==
    pc = "idle" /\ closed /\ (\A c \in Controller : call[c] = "none") =>
        state = "Idle"
==============================================================================
