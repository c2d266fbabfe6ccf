--------------------------- MODULE PlaybackService ---------------------------
(***************************************************************************)
(* PlaybackService::play_file (audio/playback_service.cpp) playing one     *)
(* file after another on the player thread through PlaybackGraph           *)
(* (audio/graph/playback_graph.cpp) into a NullSink                        *)
(* (audio/sink/null_sink.cpp), while another thread may call stop().       *)
(*                                                                         *)
(* The player thread both fills and drains the ring, so the ring is the    *)
(* plain queue that SpscRing implements.  A frame is its number in the     *)
(* track.  The flags of the graph are plain bools that both threads read   *)
(* and write: the steps are the accesses a stop() can fall between.        *)
(* A decoder or a sink may fail in any call that can return an error.      *)
(***************************************************************************)
EXTENDS Naturals, Sequences, FiniteSetsExt

CONSTANTS
    RingFrames,     \* ring_capacity_frames_
    ChunkFrames,    \* chunk_frames, the argument of play_file
    TrackFrames,    \* frames in the file
    MaxPlays,       \* bound: calls of play_file
    MaxStops,       \* bound: calls of stop()
    OverlapCalls    \* may play_file be called again while a stop() is running?

ASSUME RingFramesAssumption == RingFrames \in Nat \ {0}
ASSUME ChunkFramesAssumption == ChunkFrames \in Nat \ {0}
ASSUME TrackFramesAssumption == TrackFrames \in Nat

VARIABLES
    pc,             \* where the player thread is in play_file
    decoder,        \* "closed" or "open"
    position,       \* frames the decoder has delivered
    sink,           \* "closed", "open" or "started"
    opened, sinkStarted, atEnd,       \* opened_, sink_started_, at_end_
    queue,          \* the frames in ring_
    batch,          \* the planes produce() or consume() is working on
    result,         \* what play_file returned or is about to return
    closing,        \* thread -> where it is in close()
    heard,          \* history: the frames the sink accepted in this play
    stopped,        \* history: a stop() that found playback open has returned
    admitted,       \* history: frames the sink had heard or let in by then
    formatRejected, \* history: this play failed on an invalid format
    plays, stops    \* calls so far

Thread == {"player", "stopper"}

graphVars == <<opened, sinkStarted, atEnd>>
callVars  == <<stopped, admitted, formatRejected, plays, stops>>
vars == <<pc, decoder, position, sink, graphVars, queue, batch, result,
          closing, heard, callVars>>

Frames(first, n) == [k \in 1..n |-> first + k]

Init ==
    /\ pc = "idle" /\ decoder = "closed" /\ position = 0 /\ sink = "closed"
    /\ opened = FALSE /\ sinkStarted = FALSE /\ atEnd = FALSE
    /\ queue = <<>> /\ batch = <<>> /\ result = "none"
    /\ closing = [t \in Thread |-> "idle"]
    /\ heard = <<>> /\ stopped = FALSE /\ admitted = 0 /\ formatRejected = FALSE
    /\ plays = 0 /\ stops = 0

Return(value) == pc' = "idle" /\ result' = value

-----------------------------------------------------------------------------
(* WavDecoder closes what it had open before it opens the next file, and   *)
(* closes the file again when its header is no good.                       *)
DecoderOpens == decoder' = "open" /\ position' = 0
DecoderCloses == decoder' = "closed" /\ position' = 0

(* NullSink: opening stops it, and only an open sink starts.               *)
SinkOpens == sink' = "open"
SinkStarts == sink # "closed" /\ sink' = "started"
SinkStops == sink' = IF sink = "started" THEN "open" ELSE sink
SinkCloses == sink' = "closed"

-----------------------------------------------------------------------------
(* PlaybackGraph::open.                                                    *)

PlayFile ==
    /\ pc = "idle" /\ plays < MaxPlays
    /\ OverlapCalls \/ closing["stopper"] = "idle"
    /\ pc' = "openDecoder" /\ plays' = plays + 1 /\ result' = "none"
    /\ heard' = <<>> /\ stopped' = FALSE /\ admitted' = 0 /\ formatRejected' = FALSE
    /\ UNCHANGED <<decoder, position, sink, graphVars, queue, batch, closing,
                   stops>>

OpenDecoder ==
    /\ pc = "openDecoder"
    /\ \/ DecoderOpens /\ pc' = "validate" /\ UNCHANGED result
       \/ DecoderCloses /\ Return("error")
    /\ UNCHANGED <<sink, graphVars, queue, batch, closing, heard, callVars>>

(* An unusable format returns without closing the decoder; a good one gets *)
(* a fresh ring.                                                           *)
ValidateFormatKeepsRing ==
    /\ pc = "validate"
    /\ \/ pc' = "openSink" /\ UNCHANGED <<result, formatRejected>>
       \/ Return("error") /\ formatRejected' = TRUE
    /\ UNCHANGED <<decoder, position, sink, graphVars, queue, batch, closing,
                   heard, stopped, admitted, plays, stops>>

ValidateFormat ==
    /\ pc = "validate"
    /\ \/ /\ queue' = <<>> /\ batch' = <<>>
          /\ pc' = "openSink" /\ UNCHANGED <<result, formatRejected>>
       \/ /\ Return("error") /\ formatRejected' = TRUE
          /\ UNCHANGED <<queue, batch>>
    /\ UNCHANGED <<decoder, position, sink, graphVars, closing, heard,
                   stopped, admitted, plays, stops>>

OpenSink ==
    /\ pc = "openSink"
    /\ \/ /\ SinkOpens
          /\ pc' = "startSink" /\ UNCHANGED <<decoder, position, result>>
       \/ DecoderCloses /\ Return("error") /\ UNCHANGED sink
    /\ UNCHANGED <<graphVars, queue, batch, closing, heard, callVars>>

StartSinkLeavesDecoder ==
    /\ pc = "startSink"
    /\ \/ SinkStarts /\ pc' = "markOpened" /\ UNCHANGED result
       \/ SinkCloses /\ Return("error")
    /\ UNCHANGED <<decoder, position, graphVars, queue, batch, closing, heard,
                   callVars>>

StartSink ==
    /\ pc = "startSink"
    /\ \/ /\ SinkStarts
          /\ pc' = "markOpened" /\ UNCHANGED <<decoder, position, result>>
       \/ SinkCloses /\ DecoderCloses /\ Return("error")
    /\ UNCHANGED <<graphVars, queue, batch, closing, heard, callVars>>

MarkOpened ==
    /\ pc = "markOpened"
    /\ opened' = TRUE
    /\ pc' = "markStarted"
    /\ UNCHANGED <<decoder, position, sink, sinkStarted, atEnd, queue, batch,
                   result, closing, heard, callVars>>

MarkStarted ==
    /\ pc = "markStarted"
    /\ sinkStarted' = TRUE /\ atEnd' = FALSE
    /\ pc' = "loop"
    /\ UNCHANGED <<decoder, position, sink, opened, queue, batch, result,
                   closing, heard, callVars>>

-----------------------------------------------------------------------------
(* play_file's loop: produce() one chunk, then consume() until the ring is *)
(* empty; any error closes the graph and ends the play.                    *)

CloseAndReturn(value) ==
    /\ pc' = "close" /\ result' = value
    /\ closing' = [closing EXCEPT !["player"] = "check"]

LoopContinues ==
    /\ pc = "loop"
    /\ ~atEnd \/ queue # <<>>
    /\ pc' = IF atEnd THEN "drain" ELSE "produce"
    /\ UNCHANGED <<decoder, position, sink, graphVars, queue, batch, result,
                   closing, heard, callVars>>

LoopEnds ==
    /\ pc = "loop"
    /\ atEnd /\ queue = <<>>
    /\ CloseAndReturn("ok")
    /\ UNCHANGED <<decoder, position, sink, graphVars, queue, batch, heard,
                   callVars>>

Produce ==
    /\ pc = "produce"
    /\ IF ~opened
       THEN CloseAndReturn("error")
       ELSE /\ pc' = IF Len(queue) = RingFrames \/ atEnd
                     THEN "drain" ELSE "decode"
            /\ UNCHANGED <<result, closing>>
    /\ UNCHANGED <<decoder, position, sink, graphVars, queue, batch, heard,
                   callVars>>

(* decoder_.read() into the request: a short read is allowed, and only the *)
(* end of the track reads nothing.                                         *)
Request == Min({ChunkFrames, RingFrames - Len(queue), TrackFrames - position})

DecodeIgnoresEnd ==
    /\ pc = "decode"
    /\ decoder = "open"
    /\ batch' = Frames(position, Request)
    /\ position' = position + Request
    /\ pc' = IF Request = 0 THEN "drain" ELSE "push"
    /\ UNCHANGED <<result, closing, atEnd>>
    /\ UNCHANGED <<decoder, sink, opened, sinkStarted, queue, heard, callVars>>

Decode ==
    /\ pc = "decode"
    /\ \/ /\ decoder = "open"
          /\ \E n \in (IF Request = 0 THEN {0} ELSE 1..Request) :
                /\ batch' = Frames(position, n)
                /\ position' = position + n
                /\ atEnd' = (atEnd \/ n = 0)
                /\ pc' = IF n = 0 THEN "drain" ELSE "push"
          /\ UNCHANGED <<result, closing>>
       \/ /\ CloseAndReturn("error")
          /\ UNCHANGED <<batch, position, atEnd>>
    /\ UNCHANGED <<decoder, sink, opened, sinkStarted, queue, heard, callVars>>

(* ring_->push() takes what fits; produce() makes a partial push an error. *)
Push ==
    /\ pc = "push"
    /\ LET n == Min({Len(batch), RingFrames - Len(queue)}) IN
          /\ queue' = queue \o SubSeq(batch, 1, n)
          /\ IF n = Len(batch)
             THEN pc' = "drain" /\ UNCHANGED <<result, closing>>
             ELSE CloseAndReturn("error")
    /\ UNCHANGED <<decoder, position, sink, graphVars, batch, heard, callVars>>

Drain ==
    /\ pc = "drain"
    /\ pc' = IF queue = <<>> THEN "loop" ELSE "consume"
    /\ UNCHANGED <<decoder, position, sink, graphVars, queue, batch, result,
                   closing, heard, callVars>>

ConsumeStoppedIsOk ==
    /\ pc = "consume"
    /\ IF ~opened
       THEN CloseAndReturn("ok") /\ UNCHANGED <<queue, batch>>
       ELSE LET n == Min({ChunkFrames, Len(queue)}) IN
            /\ batch' = SubSeq(queue, 1, n)
            /\ queue' = SubSeq(queue, n + 1, Len(queue))
            /\ pc' = "write"
            /\ UNCHANGED <<result, closing>>
    /\ UNCHANGED <<decoder, position, sink, graphVars, heard, callVars>>

Consume ==
    /\ pc = "consume"
    /\ IF ~opened
       THEN CloseAndReturn("error") /\ UNCHANGED <<queue, batch>>
       ELSE LET n == Min({ChunkFrames, Len(queue)}) IN
            /\ batch' = SubSeq(queue, 1, n)
            /\ queue' = SubSeq(queue, n + 1, Len(queue))
            /\ pc' = "write"
            /\ UNCHANGED <<result, closing>>
    /\ UNCHANGED <<decoder, position, sink, graphVars, heard, callVars>>

(* sink_.write() looks whether the sink is open and started, and takes the *)
(* frames after that: all of a stop() may come between the two.  A device  *)
(* may refuse the frames as well.                                          *)
WriteUnchecked ==
    /\ pc = "write"
    /\ pc' = "accept"
    /\ UNCHANGED <<decoder, position, sink, graphVars, queue, batch, result,
                   closing, heard, callVars>>

Write ==
    /\ pc = "write"
    /\ \/ sink = "started" /\ pc' = "accept" /\ UNCHANGED <<result, closing>>
       \/ CloseAndReturn("error")
    /\ UNCHANGED <<decoder, position, sink, graphVars, queue, batch, heard,
                   callVars>>

Accept ==
    /\ pc = "accept"
    /\ heard' = heard \o batch
    /\ pc' = "drain"
    /\ UNCHANGED <<decoder, position, sink, graphVars, queue, batch, result,
                   closing, callVars>>

\* Frames that the sink has let in and not taken yet.
InSink == IF pc = "accept" THEN Len(batch) ELSE 0

-----------------------------------------------------------------------------
(* PlaybackGraph::close, by the player thread or by stop().                *)

At(t, place) == closing[t] = place
Goto(t, place) == closing' = [closing EXCEPT ![t] = place]

Stop ==
    /\ At("stopper", "idle") /\ stops < MaxStops
    /\ stops' = stops + 1
    /\ Goto("stopper", "check")
    /\ UNCHANGED <<pc, decoder, position, sink, graphVars, queue, batch,
                   result, heard, stopped, admitted, formatRejected, plays>>

CloseCheck(t) ==
    /\ At(t, "check")
    /\ Goto(t, IF opened THEN "stopSink" ELSE "done")
    /\ UNCHANGED <<pc, decoder, position, sink, graphVars, queue, batch,
                   result, heard, callVars>>

CloseStopSink(t) ==
    /\ At(t, "stopSink")
    /\ IF sinkStarted THEN SinkStops ELSE UNCHANGED sink
    /\ sinkStarted' = FALSE
    /\ Goto(t, "closeSink")
    /\ UNCHANGED <<pc, decoder, position, opened, atEnd, queue, batch, result,
                   heard, callVars>>

CloseSink(t) ==
    /\ At(t, "closeSink")
    /\ SinkCloses
    /\ Goto(t, "closeDecoder")
    /\ UNCHANGED <<pc, decoder, position, graphVars, queue, batch, result,
                   heard, callVars>>

CloseDecoder(t) ==
    /\ At(t, "closeDecoder")
    /\ DecoderCloses
    /\ Goto(t, "clear")
    /\ UNCHANGED <<pc, sink, graphVars, queue, batch, result, heard,
                   callVars>>

CloseClear(t) ==
    /\ At(t, "clear")
    /\ opened' = FALSE /\ atEnd' = FALSE
    /\ Goto(t, "done")
    /\ stopped' = (stopped \/ t = "stopper")
    /\ admitted' = IF t = "stopper" /\ ~stopped THEN Len(heard) + InSink ELSE admitted
    /\ UNCHANGED <<pc, decoder, position, sink, sinkStarted, queue, batch,
                   result, heard, formatRejected, plays, stops>>

CloseStep(t) == \/ CloseCheck(t) \/ CloseStopSink(t) \/ CloseSink(t)
                \/ CloseDecoder(t) \/ CloseClear(t)

PlayReturns ==
    /\ pc = "close" /\ At("player", "done")
    /\ pc' = "idle"
    /\ Goto("player", "idle")
    /\ UNCHANGED <<decoder, position, sink, graphVars, queue, batch, result,
                   heard, callVars>>

StopReturns ==
    /\ At("stopper", "done")
    /\ Goto("stopper", "idle")
    /\ UNCHANGED <<pc, decoder, position, sink, graphVars, queue, batch,
                   result, heard, callVars>>

-----------------------------------------------------------------------------
PlayerStep ==
    \/ OpenDecoder \/ ValidateFormat \/ OpenSink \/ StartSink
    \/ MarkOpened \/ MarkStarted
    \/ LoopContinues \/ LoopEnds \/ Produce \/ Decode \/ Push
    \/ Drain \/ Consume \/ Write \/ Accept
    \/ CloseStep("player") \/ PlayReturns

StopperStep == CloseStep("stopper") \/ StopReturns

Next == PlayFile \/ Stop \/ PlayerStep \/ StopperStep

(* A thread inside a call goes on; nobody has to call.                     *)
Spec == /\ Init /\ [][Next]_vars
        /\ WF_vars(PlayerStep) /\ WF_vars(StopperStep)

-----------------------------------------------------------------------------
(* The sink hears the track from its first frame on, each frame once and   *)
(* in order, whatever short reads, full rings, errors and stops happen     *)
(* (test_playback_graph.cpp, ProducesAndConsumesAllFrames).                *)
HeardInOrder == heard = Frames(0, Len(heard))

(* A play that reports success was heard to its last frame: no frame still *)
(* queued when the decoder ends is dropped, and a play cut short by stop() *)
(* is not reported as complete.                                            *)
SuccessMeansHeard ==
    pc = "idle" /\ result = "ok" => Len(heard) = TrackFrames

(* However play_file ends - the end of the track, an error at any step, a  *)
(* stop() - the sink and the decoder are closed when both threads are out, *)
(* except that an invalid format leaves the decoder open.                  *)
ReturnLeavesAllClosed ==
    pc = "idle" /\ At("stopper", "idle") =>
        /\ sink = "closed" /\ ~opened
        /\ decoder = "open" => formatRejected

(* Once a stop() that found playback open has returned, that play sounds   *)
(* no more but for the batch that the sink had let in before: none is let  *)
(* in after, wherever in its loop the player was.                          *)
StopAdmitsNothing == stopped => Len(heard) <= admitted

(* play_file always returns.                                               *)
PlayAlwaysReturns == (pc # "idle") ~> (pc = "idle")
==============================================================================
