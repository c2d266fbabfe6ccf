---------------------------- MODULE PlaybackProofs ----------------------------
(***************************************************************************)
(* Proofs about the playback service, for any track, ring and chunk, any   *)
(* number of plays and stops, and failures at any step; and about what a   *)
(* track says of the frames to skip at its ends, for any values in it; and *)
(* about the settings of the equalizer it is heard through.                *)
(***************************************************************************)
EXTENDS PlaybackService, SequenceTheorems, TLAPS

CONSTANTS
    Max32, Unknown, NoHex, Slack,   \* what Gapless is parameterised by
    None,                           \* what Levels is
    Types                           \* EqBandType

Skips == INSTANCE Gapless
Gains == INSTANCE Levels

-----------------------------------------------------------------------------
(* Runs of frames                                                          *)

LEMMA FramesLength ==
    ASSUME NEW a \in Nat, NEW n \in Nat
    PROVE  Frames(a, n) \in Seq(Nat) /\ Len(Frames(a, n)) = n
  BY DEF Frames

(* A run followed by the run where it ends is one run.                     *)
LEMMA FramesJoin ==
    ASSUME NEW a \in Nat, NEW n \in Nat, NEW m \in Nat
    PROVE  Frames(a, n) \o Frames(a + n, m) = Frames(a, n + m)
  <1> DEFINE s == Frames(a, n)
             t == Frames(a + n, m)
             u == Frames(a, n + m)
  <1>1. /\ s \in Seq(Nat) /\ Len(s) = n /\ t \in Seq(Nat) /\ Len(t) = m
        /\ u \in Seq(Nat) /\ Len(u) = n + m
    <2>1. a + n \in Nat /\ n + m \in Nat
      OBVIOUS
    <2> QED
      BY <2>1, FramesLength
  <1>2. /\ \A i \in 1..n : s[i] = a + i
        /\ \A i \in 1..m : t[i] = (a + n) + i
        /\ \A i \in 1..n + m : u[i] = a + i
    BY DEF Frames
  <1>3. \A i \in 1..n + m : (s \o t)[i] = u[i]
    <2> SUFFICES ASSUME NEW i \in 1..n + m PROVE (s \o t)[i] = u[i]
      OBVIOUS
    <2> HIDE DEF s, t, u
    <2>1. CASE i <= n
      BY <1>1, <1>2, <2>1
    <2>2. CASE ~(i <= n)
      <3>1. i - n \in 1..m /\ (a + n) + (i - n) = a + i
        BY <2>2
      <3>2. (s \o t)[i] = t[i - n]
        <4>1. ~(i <= Len(s)) /\ i \in 1..Len(s) + Len(t)
          BY <1>1, <2>2
        <4>2. \A k \in 1..Len(s) + Len(t) : (s \o t)[k] = IF k <= Len(s) THEN s[k] ELSE t[k - Len(s)]
          BY <1>1, ConcatProperties, ZenonT(30)
        <4>3. (s \o t)[i] = t[i - Len(s)]
          BY <4>1, <4>2, Zenon
        <4> QED
          BY <1>1, <4>3, Zenon
      <3> QED
        BY <1>2, <3>1, <3>2
    <2> QED
      BY <2>1, <2>2
  <1>4. s \o t \in Seq(Nat) /\ Len(s \o t) = n + m
    <2> HIDE DEF s, t
    <2> QED
      BY <1>1, ConcatProperties
  <1>5. s \o t = u
    <2> HIDE DEF s, t, u
    <2> QED
      BY <1>1, <1>3, <1>4, SeqEqual
  <1> QED
    BY <1>5

(* A part of a run is a run.                                               *)
LEMMA FramesPart ==
    ASSUME NEW a \in Nat, NEW n \in Nat, NEW m \in Nat, m <= n
    PROVE  /\ SubSeq(Frames(a, n), 1, m) = Frames(a, m)
           /\ SubSeq(Frames(a, n), m + 1, n) = Frames(a + m, n - m)
  <1> DEFINE s == Frames(a, n)
             p == SubSeq(s, 1, m)
             q == SubSeq(s, m + 1, n)
  <1>1. n - m \in Nat /\ a + m \in Nat
    OBVIOUS
  <1>2. /\ s \in Seq(Nat) /\ Len(s) = n
        /\ Len(Frames(a, m)) = m /\ Frames(a, m) \in Seq(Nat)
        /\ Len(Frames(a + m, n - m)) = n - m /\ Frames(a + m, n - m) \in Seq(Nat)
    BY <1>1, FramesLength
  <1>3. /\ \A i \in 1..n : s[i] = a + i
        /\ \A i \in 1..m : Frames(a, m)[i] = a + i
        /\ \A i \in 1..n - m : Frames(a + m, n - m)[i] = (a + m) + i
    BY DEF Frames
  <1>4. p = Frames(a, m)
    <2>1. 1 \in Int /\ m \in Int /\ \A i \in 1..m : s[i] \in Nat
      BY <1>3
    <2>2. /\ p \in Seq(Nat) /\ Len(p) = IF 1 <= m THEN m - 1 + 1 ELSE 0
          /\ \A i \in 1..m - 1 + 1 : p[i] = s[1 + i - 1]
      BY <2>1, SubSeqProperties
    <2>3. Len(p) = m
      <3>1. CASE 1 <= m
        BY <2>2, <3>1
      <3>2. CASE ~(1 <= m)
        <4>1. m = 0
          BY <3>2
        <4> QED
          BY <2>2, <4>1
      <3> QED
        BY <3>1, <3>2
    <2>4. \A i \in 1..m : i \in 1..m - 1 + 1 /\ 1 + i - 1 = i /\ i \in 1..n
      OBVIOUS
    <2>5. \A i \in 1..m : p[i] = Frames(a, m)[i]
      BY <1>3, <2>2, <2>4
    <2> HIDE DEF p
    <2> QED
      BY <1>2, <2>2, <2>3, <2>5, SeqEqual
  <1>5. q = Frames(a + m, n - m)
    <2>1. m + 1 \in Int /\ n \in Int /\ \A i \in m + 1 .. n : s[i] \in Nat
      BY <1>3
    <2>2. /\ q \in Seq(Nat) /\ Len(q) = IF m + 1 <= n THEN n - (m + 1) + 1 ELSE 0
          /\ \A i \in 1 .. n - (m + 1) + 1 : q[i] = s[(m + 1) + i - 1]
      BY <2>1, SubSeqProperties
    <2>3. Len(q) = n - m
      <3>1. CASE m + 1 <= n
        BY <2>2, <3>1
      <3>2. CASE ~(m + 1 <= n)
        <4>1. n - m = 0
          BY <3>2
        <4> QED
          BY <2>2, <3>2, <4>1
      <3> QED
        BY <3>1, <3>2
    <2>4. \A i \in 1..n - m : /\ i \in 1 .. n - (m + 1) + 1 /\ (m + 1) + i - 1 = m + i
                              /\ m + i \in 1..n /\ a + (m + i) = (a + m) + i
      OBVIOUS
    <2>5. \A i \in 1..n - m : q[i] = Frames(a + m, n - m)[i]
      BY <1>3, <2>2, <2>4
    <2> HIDE DEF q
    <2> QED
      BY <1>2, <2>2, <2>3, <2>5, SeqEqual
  <1> QED
    BY <1>4, <1>5

(* The least of two numbers, and of three.                                 *)
LEMMA LeastOfTwo ==
    ASSUME NEW a \in Int, NEW b \in Int
    PROVE  Min({a, b}) \in {a, b} /\ Min({a, b}) <= a /\ Min({a, b}) <= b
  <1>1. \E x \in {a, b} : \A y \in {a, b} : x <= y
    <2>1. CASE a <= b
      BY <2>1
    <2>2. CASE ~(a <= b)
      BY <2>2
    <2> QED
      BY <2>1, <2>2
  <1> QED
    BY <1>1 DEF Min

LEMMA LeastOfThree ==
    ASSUME NEW a \in Int, NEW b \in Int, NEW c \in Int
    PROVE  /\ Min({a, b, c}) \in {a, b, c}
           /\ Min({a, b, c}) <= a /\ Min({a, b, c}) <= b /\ Min({a, b, c}) <= c
  <1>1. \E x \in {a, b, c} : \A y \in {a, b, c} : x <= y
    <2>1. (a <= b /\ a <= c) \/ (b <= a /\ b <= c) \/ (c <= a /\ c <= b)
      OBVIOUS
    <2> QED
      BY <2>1
  <1> QED
    BY <1>1 DEF Min

-----------------------------------------------------------------------------
(* The invariant                                                           *)

Opening == {"openDecoder", "validate", "openSink", "startSink", "markOpened"}
Playing == {"loop", "produce", "decode", "push", "drain", "consume", "write", "accept"}

TypeOK ==
    /\ pc \in {"idle", "markStarted", "close"} \cup Opening \cup Playing
    /\ decoder \in {"closed", "open"} /\ sink \in {"closed", "open", "started"}
    /\ opened \in BOOLEAN /\ sinkStarted \in BOOLEAN /\ atEnd \in BOOLEAN
    /\ position \in 0..TrackFrames
    /\ queue \in Seq(Nat) /\ batch \in Seq(Nat) /\ heard \in Seq(Nat)
    /\ closing \in [Thread -> {"idle", "check", "stopSink", "closeSink",
                               "closeDecoder", "clear", "done"}]
    /\ stopped \in BOOLEAN /\ admitted \in Nat /\ formatRejected \in BOOLEAN

(* What has been heard, what is in the planes, what is in the ring and     *)
(* what the decoder gives next are one run of frames from the first on.    *)
InHand == IF pc \in {"push", "write", "accept"} THEN Len(batch) ELSE 0
Played == Len(heard) + Len(queue) + InHand
HearInv ==
    /\ HeardInOrder
    /\ pc \in Opening \cup {"markStarted"} => heard = <<>>
    /\ pc \in {"validate", "openSink", "startSink", "markOpened", "markStarted"}
            => position = 0
    /\ pc \in {"openSink", "startSink", "markOpened", "markStarted"} => queue = <<>>
    /\ pc \in Playing \ {"write", "accept"} => queue = Frames(Len(heard), Len(queue))
    /\ pc = "push" => batch = Frames(Len(heard) + Len(queue), Len(batch))
    /\ pc \in {"write", "accept"} => /\ batch = Frames(Len(heard), Len(batch))
                                     /\ queue = Frames(Len(heard) + Len(batch), Len(queue))
    /\ pc \in Playing /\ decoder = "open" => position = Played
    /\ pc \in Playing /\ atEnd => Played = TrackFrames
    /\ pc \in {"decode", "push"} => ~atEnd
    /\ pc = "decode" => Len(queue) # RingFrames
    /\ pc \in {"close", "idle"} /\ result = "ok" => Len(heard) = TrackFrames

(* While the graph is being opened no stop() finds it open; afterwards, if *)
(* it is not open any more, what it had open is closed, and stays closed.  *)
CloseInv ==
    /\ pc \in Opening \cup {"idle"} => ~opened
    /\ pc \in Opening => closing["stopper"] \in {"idle", "check", "done"} /\ ~stopped
    /\ pc \in {"idle", "openDecoder", "validate", "openSink"} => sink = "closed"
    /\ pc = "idle" /\ decoder = "open" => formatRejected
    /\ pc \in {"markStarted", "close"} \cup Playing /\ ~opened
            => sink = "closed" /\ decoder = "closed"
    /\ \A t \in Thread :
            /\ closing[t] \in {"closeDecoder", "clear"} => sink = "closed"
            /\ closing[t] = "clear" => decoder = "closed"
    /\ pc # "close" => closing["player"] = "idle"
    /\ closing["player"] = "done" => ~opened
    /\ stopped => sink = "closed"

(* What the sink has heard and what it has let in were so when stop() came *)
(* back, or are as they were.                                              *)
AdmitInv == stopped => Len(heard) + InSink <= admitted

(* The inductive invariants.                                               *)
SoundInv == TypeOK /\ HearInv
QuietInv == TypeOK /\ CloseInv

(* A request is what the chunk, the room and the track leave.              *)
LEMMA RequestFits ==
    ASSUME TypeOK
    PROVE  /\ Request \in Int
           /\ Request <= RingFrames - Len(queue) /\ Request <= TrackFrames - position
           /\ Len(queue) # RingFrames /\ Request = 0 => position = TrackFrames
  <1> DEFINE room == RingFrames - Len(queue)
             left == TrackFrames - position
  <1>1. /\ ChunkFrames \in Int /\ ChunkFrames # 0 /\ room \in Int /\ left \in Int
        /\ Len(queue) \in Nat
    BY RingFramesAssumption, ChunkFramesAssumption, TrackFramesAssumption DEF TypeOK
  <1>2. /\ Request \in {ChunkFrames, room, left}
        /\ Request <= room /\ Request <= left
    <2>1. Request = Min({ChunkFrames, room, left})
      BY DEF Request
    <2> HIDE DEF room, left
    <2> QED
      BY <1>1, <2>1, LeastOfThree
  <1>3. Len(queue) # RingFrames => RingFrames - Len(queue) # 0
    BY <1>1, RingFramesAssumption
  <1>4. TrackFrames - position = 0 => position = TrackFrames
    BY TrackFramesAssumption DEF TypeOK
  <1> QED
    BY <1>1, <1>2, <1>3, <1>4

(* Every step keeps the types.                                             *)
LEMMA TypeKeeps == ASSUME TypeOK, [Next]_vars PROVE TypeOK'
  <1> USE DEF graphVars, callVars
  <1>0. <<>> \in Seq(Nat)
    OBVIOUS
  <1>1. CASE PlayFile
    BY <1>0, <1>1, TrackFramesAssumption DEF PlayFile, TypeOK, Thread, Opening, Playing
  <1>2. CASE OpenDecoder
    BY <1>2, TrackFramesAssumption DEF OpenDecoder, DecoderOpens, DecoderCloses, Return, TypeOK, Thread, Opening, Playing
  <1>3. CASE ValidateFormat
    BY <1>0, <1>3, TrackFramesAssumption DEF ValidateFormat, Return, TypeOK, Thread, Opening, Playing
  <1>4. CASE OpenSink
    BY <1>4, TrackFramesAssumption DEF OpenSink, SinkOpens, DecoderCloses, Return, TypeOK, Thread, Opening, Playing
  <1>5. CASE StartSink
    BY <1>5, TrackFramesAssumption DEF StartSink, SinkStarts, SinkCloses, DecoderCloses, Return, TypeOK, Thread, Opening, Playing
  <1>6. CASE MarkOpened
    BY <1>6, TrackFramesAssumption DEF MarkOpened, TypeOK, Thread, Opening, Playing
  <1>7. CASE MarkStarted
    BY <1>7, TrackFramesAssumption DEF MarkStarted, TypeOK, Thread, Opening, Playing
  <1>8. CASE LoopContinues
    BY <1>8, TrackFramesAssumption DEF LoopContinues, TypeOK, Thread, Opening, Playing
  <1>9. CASE LoopEnds
    BY <1>9, TrackFramesAssumption DEF LoopEnds, CloseAndReturn, TypeOK, Thread, Opening, Playing
  <1>10. CASE Produce
    BY <1>10, TrackFramesAssumption DEF Produce, CloseAndReturn, TypeOK, Thread, Opening, Playing
  <1>11. CASE Drain
    BY <1>11, TrackFramesAssumption DEF Drain, TypeOK, Thread, Opening, Playing
  <1>12. CASE PlayReturns
    BY <1>12, TrackFramesAssumption DEF PlayReturns, At, Goto, TypeOK, Thread, Opening, Playing
  <1>13. CASE Stop
    BY <1>13, TrackFramesAssumption DEF Stop, At, Goto, TypeOK, Thread, Opening, Playing
  <1>14. CASE StopReturns
    BY <1>14, TrackFramesAssumption DEF StopReturns, At, Goto, TypeOK, Thread, Opening, Playing
  <1>15. CASE Decode
    <2>1. CASE /\ decoder = "open"
               /\ \E k \in (IF Request = 0 THEN {0} ELSE 1..Request) :
                    /\ batch' = Frames(position, k) /\ position' = position + k
                    /\ atEnd' = (atEnd \/ k = 0)
                    /\ pc' = IF k = 0 THEN "drain" ELSE "push"
               /\ UNCHANGED <<closing, decoder, sink, opened, sinkStarted, queue, heard, callVars>>
      <3>1. PICK k \in (IF Request = 0 THEN {0} ELSE 1..Request) :
                /\ batch' = Frames(position, k) /\ position' = position + k
                /\ atEnd' = (atEnd \/ k = 0) /\ pc' = IF k = 0 THEN "drain" ELSE "push"
        BY <2>1
      <3>2. k \in Nat /\ k <= TrackFrames - position
        BY <3>1, RequestFits, TrackFramesAssumption DEF TypeOK
      <3>3. Frames(position, k) \in Seq(Nat) /\ position + k \in 0..TrackFrames
        BY <3>2, FramesLength, TrackFramesAssumption DEF TypeOK
      <3> QED
        BY <2>1, <3>1, <3>3 DEF TypeOK, Playing
    <2>2. CASE /\ CloseAndReturn("error")
               /\ UNCHANGED <<batch, position, atEnd, decoder, sink, opened, sinkStarted, queue,
                              heard, callVars>>
      BY <2>2 DEF CloseAndReturn, TypeOK, Thread
    <2> QED
      BY <1>15, <2>1, <2>2 DEF Decode
  <1>16. CASE Push
    <2> DEFINE k == Min({Len(batch), RingFrames - Len(queue)})
    <2>1. SubSeq(batch, 1, k) \in Seq(Nat)
      <3>1. k \in Int /\ k <= Len(batch)
        <4>1. Len(batch) \in Int /\ RingFrames - Len(queue) \in Int
          BY RingFramesAssumption DEF TypeOK
        <4> QED
          BY <4>1, LeastOfTwo
      <3>2. \A i \in 1..k : batch[i] \in Nat
        BY <3>1 DEF TypeOK
      <3> HIDE DEF k
      <3> QED
        BY <3>1, <3>2, SubSeqProperties
    <2>2. queue' \in Seq(Nat)
      <3> HIDE DEF k
      <3>1. queue' = queue \o SubSeq(batch, 1, k)
        BY <1>16 DEF Push, k
      <3> QED
        BY <2>1, <3>1, ConcatProperties DEF TypeOK
    <2>3. pc' \in {"drain", "close"} /\ closing' \in {closing, [closing EXCEPT !["player"] = "check"]}
      BY <1>16 DEF Push, CloseAndReturn
    <2> QED
      BY <1>16, <2>2, <2>3, ZenonT(30) DEF Push, TypeOK, Thread, Playing
  <1>17. CASE Consume
    <2> DEFINE k == Min({ChunkFrames, Len(queue)})
    <2>1. SubSeq(queue, 1, k) \in Seq(Nat) /\ SubSeq(queue, k + 1, Len(queue)) \in Seq(Nat)
      <3>1. k \in Nat /\ k <= Len(queue) /\ Len(queue) \in Nat
        <4>1. ChunkFrames \in Nat /\ Len(queue) \in Nat
          BY ChunkFramesAssumption DEF TypeOK
        <4>2. ChunkFrames \in Int /\ Len(queue) \in Int
          BY <4>1
        <4>3. k \in {ChunkFrames, Len(queue)} /\ k <= Len(queue)
          BY <4>2, LeastOfTwo
        <4> QED
          BY <4>1, <4>3
      <3>2. (\A i \in 1..k : queue[i] \in Nat) /\ (\A i \in k + 1 .. Len(queue) : queue[i] \in Nat)
        <4> HIDE DEF k
        <4> QED
          BY <3>1, SMTT(30) DEF TypeOK
      <3>3. 1 \in Int /\ k \in Int /\ k + 1 \in Int /\ Len(queue) \in Int
        BY <3>1
      <3> HIDE DEF k
      <3> QED
        BY <3>2, <3>3, SubSeqProperties
    <2>2. CASE opened
      <3>1. /\ batch' = SubSeq(queue, 1, k) /\ queue' = SubSeq(queue, k + 1, Len(queue))
            /\ pc' = "write" /\ closing' = closing
        BY <1>17, <2>2 DEF Consume
      <3> HIDE DEF k
      <3> QED
        BY <1>17, <2>1, <3>1 DEF Consume, TypeOK, Playing
    <2>3. CASE ~opened
      BY <1>17, <2>3 DEF Consume, CloseAndReturn, TypeOK, Thread
    <2> QED
      BY <2>2, <2>3 DEF TypeOK
  <1>18. CASE Write
    <2>1. pc' \in {"accept", "close"} /\ closing' \in {closing, [closing EXCEPT !["player"] = "check"]}
      BY <1>18 DEF Write, CloseAndReturn
    <2> QED
      BY <1>18, <2>1 DEF Write, TypeOK, Thread, Playing
  <1>21. CASE Accept
    <2>1. heard' \in Seq(Nat)
      BY <1>21, ConcatProperties, ZenonT(30) DEF Accept, TypeOK
    <2> QED
      BY <1>21, <2>1 DEF Accept, TypeOK, Playing
  <1>19. ASSUME NEW t \in Thread, CloseStep(t) PROVE TypeOK'
    <2>1. \E place \in {"stopSink", "done", "closeSink", "closeDecoder", "clear"} :
              closing' = [closing EXCEPT ![t] = place]
      BY <1>19 DEF CloseStep, CloseCheck, CloseStopSink, CloseSink, CloseDecoder, CloseClear, Goto
    <2>2. closing' \in [Thread -> {"idle", "check", "stopSink", "closeSink",
                                   "closeDecoder", "clear", "done"}]
      BY <2>1 DEF TypeOK
    <2>3. /\ UNCHANGED <<pc, queue, batch, heard, formatRejected>>
          /\ decoder' \in {decoder, "closed"} /\ position' \in {position, 0}
          /\ sink' \in {sink, "open", "closed"}
      BY <1>19 DEF CloseStep, CloseCheck, CloseStopSink, CloseSink, CloseDecoder, CloseClear,
                   SinkStops, SinkCloses, DecoderCloses
    <2>5. /\ opened' \in BOOLEAN /\ sinkStarted' \in BOOLEAN /\ atEnd' \in BOOLEAN
          /\ stopped' \in BOOLEAN
      BY <1>19 DEF CloseStep, CloseCheck, CloseStopSink, CloseSink, CloseDecoder, CloseClear,
                   TypeOK
    <2>6. admitted' \in Nat
      <3>1. admitted' = admitted \/ admitted' = Len(heard) + InSink
        BY <1>19 DEF CloseStep, CloseCheck, CloseStopSink, CloseSink, CloseDecoder, CloseClear
      <3>2. Len(heard) \in Nat /\ InSink \in Nat
        BY DEF TypeOK, InSink
      <3> QED
        BY <3>1, <3>2 DEF TypeOK
    <2>4. 0 \in 0..TrackFrames
      BY TrackFramesAssumption
    <2> QED
      BY <2>2, <2>3, <2>4, <2>5, <2>6 DEF TypeOK
  <1>20. CASE UNCHANGED vars
    BY <1>20 DEF vars, TypeOK
  <1> QED
    BY <1>1, <1>2, <1>3, <1>4, <1>5, <1>6, <1>7, <1>8, <1>9, <1>10, <1>11, <1>12, <1>13, <1>14, <1>15, <1>16, <1>17, <1>18, <1>19, <1>20, <1>21
    DEF Next, PlayerStep, StopperStep, Thread

(* The frames between the decoder and the ear stay one run.                *)
LEMMA HearKeeps == ASSUME SoundInv, TypeOK', [Next]_vars PROVE HearInv'
  <1> USE DEF SoundInv, graphVars, callVars
  <1>0. TypeOK
    OBVIOUS
  <1>1. ASSUME UNCHANGED <<pc, queue, batch, result, heard>>, atEnd' => atEnd,
               (decoder' = decoder /\ position' = position)
                   \/ (decoder' = "closed" /\ position' = 0)
        PROVE  HearInv'
    <2>1. Played' = Played /\ heard' = heard
      BY <1>1 DEF Played, InHand
    <2> QED
      BY <1>1, <2>1 DEF HearInv, HeardInOrder
  <1>2. CASE (\E t \in Thread : CloseStep(t)) \/ Stop \/ StopReturns \/ UNCHANGED vars
    <2>1. UNCHANGED <<pc, queue, batch, result, heard>>
      BY <1>2 DEF CloseStep, CloseCheck, CloseStopSink, CloseSink, CloseDecoder, CloseClear,
                  Stop, StopReturns, vars
    <2>2. atEnd' => atEnd
      BY <1>2 DEF CloseStep, CloseCheck, CloseStopSink, CloseSink, CloseDecoder, CloseClear,
                  Stop, StopReturns, vars
    <2>3. (decoder' = decoder /\ position' = position) \/ (decoder' = "closed" /\ position' = 0)
      BY <1>2 DEF CloseStep, CloseCheck, CloseStopSink, CloseSink, CloseDecoder, CloseClear,
                  DecoderCloses, Stop, StopReturns, vars
    <2> QED
      BY <1>1, <2>1, <2>2, <2>3
  <1>3. CASE PlayReturns
    BY <1>3 DEF PlayReturns, HearInv, HeardInOrder, Opening, Playing
  <1>4. CASE PlayFile
    <2>1. Frames(0, 0) = <<>>
      BY DEF Frames
    <2> QED
      BY <1>4, <2>1 DEF PlayFile, HearInv, HeardInOrder, Opening, Playing
  <1>5. CASE OpenDecoder
    BY <1>5 DEF OpenDecoder, DecoderOpens, DecoderCloses, Return, HearInv, HeardInOrder,
                Opening, Playing
  <1>6. CASE ValidateFormat
    BY <1>6 DEF ValidateFormat, Return, HearInv, HeardInOrder, Opening, Playing
  <1>7. CASE OpenSink
    BY <1>7 DEF OpenSink, DecoderCloses, Return, HearInv, HeardInOrder, Opening, Playing
  <1>8. CASE StartSink
    BY <1>8 DEF StartSink, DecoderCloses, Return, HearInv, HeardInOrder, Opening, Playing
  <1>9. CASE MarkOpened
    BY <1>9 DEF MarkOpened, HearInv, HeardInOrder, Opening, Playing
  <1>10. CASE MarkStarted
    <2>1. /\ heard = <<>> /\ queue = <<>> /\ position = 0 /\ heard' = heard /\ queue' = queue
          /\ position' = position /\ pc' = "loop" /\ ~atEnd' /\ decoder' = decoder
      BY <1>10 DEF MarkStarted, HearInv, Opening
    <2>2. Frames(0, 0) = <<>>
      BY DEF Frames
    <2>3. Played' = 0 /\ Len(<<>>) = 0
      BY <2>1 DEF Played, InHand
    <2> QED
      BY <2>1, <2>2, <2>3 DEF HearInv, HeardInOrder, Opening, Playing
  <1>11. CASE LoopContinues \/ Drain
    <2>1. /\ pc \in {"loop", "drain"} /\ pc' \in {"loop", "drain", "produce", "consume"}
          /\ UNCHANGED <<decoder, position, atEnd, queue, batch, result, heard>>
      BY <1>11 DEF LoopContinues, Drain
    <2>2. Played' = Played
      BY <2>1 DEF Played, InHand
    <2> QED
      BY <2>1, <2>2 DEF HearInv, HeardInOrder, Opening, Playing
  <1>12. CASE LoopEnds
    <2>1. /\ atEnd /\ queue = <<>> /\ pc = "loop" /\ pc' = "close" /\ heard' = heard
      BY <1>12 DEF LoopEnds, CloseAndReturn
    <2>2. Played = TrackFrames /\ Played = Len(heard)
      BY <2>1 DEF HearInv, Playing, Played, InHand, TypeOK
    <2> QED
      BY <2>1, <2>2 DEF HearInv, HeardInOrder, Opening, Playing
  <1>13. ASSUME pc' = "close", result' = "error", heard' = heard PROVE HearInv'
    BY <1>13 DEF HearInv, HeardInOrder, Opening, Playing
  <1>14. CASE Produce
    <2>1. CASE ~opened
      BY <1>13, <1>14, <2>1 DEF Produce, CloseAndReturn
    <2>2. CASE opened
      <3>1. /\ pc = "produce" /\ UNCHANGED <<decoder, position, atEnd, queue, batch, result, heard>>
            /\ pc' \in {"drain", "decode"}
            /\ pc' = "decode" => Len(queue) # RingFrames /\ ~atEnd
        BY <1>14, <2>2 DEF Produce
      <3>2. Played' = Played
        BY <3>1 DEF Played, InHand
      <3> QED
        BY <3>1, <3>2 DEF HearInv, HeardInOrder, Opening, Playing
    <2> QED
      BY <2>1, <2>2 DEF TypeOK
  <1>15. CASE Decode
    <2>1. CASE CloseAndReturn("error") /\ heard' = heard
      BY <1>13, <2>1 DEF CloseAndReturn
    <2>2. CASE /\ decoder = "open"
               /\ \E k \in (IF Request = 0 THEN {0} ELSE 1..Request) :
                    /\ batch' = Frames(position, k) /\ position' = position + k
                    /\ atEnd' = (atEnd \/ k = 0)
                    /\ pc' = IF k = 0 THEN "drain" ELSE "push"
               /\ UNCHANGED <<result, decoder, queue, heard>>
      <3>1. PICK k \in (IF Request = 0 THEN {0} ELSE 1..Request) :
                /\ batch' = Frames(position, k) /\ position' = position + k
                /\ atEnd' = (atEnd \/ k = 0) /\ pc' = IF k = 0 THEN "drain" ELSE "push"
        BY <2>2
      <3>2. /\ Request \in Int /\ Request <= RingFrames - Len(queue)
            /\ Len(queue) # RingFrames /\ Request = 0 => position = TrackFrames
        BY RequestFits
      <3>3. /\ position = Len(heard) + Len(queue) /\ ~atEnd /\ Len(queue) # RingFrames
            /\ queue = Frames(Len(heard), Len(queue)) /\ pc = "decode"
        <4>1. pc = "decode"
          BY <1>15 DEF Decode
        <4> QED
          BY <2>2, <4>1 DEF HearInv, Played, InHand, Playing, TypeOK
      <3>4. k \in Nat /\ position \in Nat /\ (k = 0 => Request = 0)
        BY <3>1, <3>2, TrackFramesAssumption DEF TypeOK
      <3>5. Len(batch') = k
        BY <3>1, <3>4, FramesLength
      <3>6. /\ heard' = heard /\ queue' = queue /\ Len(heard) \in Nat /\ Len(queue) \in Nat
        BY <2>2 DEF TypeOK
      <3>7. CASE k = 0
        <4>1. pc' = "drain" /\ position' = position /\ position = TrackFrames
          BY <3>1, <3>2, <3>3, <3>4, <3>7
        <4>2. Played' = Len(heard) + Len(queue)
          BY <3>6, <4>1 DEF Played, InHand
        <4> QED
          BY <3>3, <3>6, <4>1, <4>2 DEF HearInv, HeardInOrder, Opening, Playing
      <3>8. CASE k # 0
        <4>1. /\ pc' = "push" /\ position' = position + k /\ ~atEnd'
              /\ batch' = Frames(Len(heard) + Len(queue), Len(batch'))
          BY <3>1, <3>3, <3>5, <3>8
        <4>2. Played' = Len(heard) + Len(queue) + k
          BY <3>5, <3>6, <4>1 DEF Played, InHand
        <4> QED
          BY <3>3, <3>6, <4>1, <4>2 DEF HearInv, HeardInOrder, Opening, Playing
      <3> QED
        BY <3>7, <3>8
    <2> QED
      BY <1>15, <2>1, <2>2 DEF Decode
  <1>16. CASE Push
    <2> DEFINE k == Min({Len(batch), RingFrames - Len(queue)})
    <2>1. CASE k = Len(batch)
      <3>1. /\ pc = "push" /\ pc' = "drain" /\ queue' = queue \o SubSeq(batch, 1, Len(batch))
            /\ UNCHANGED <<decoder, position, atEnd, result, heard, batch>>
        BY <1>16, <2>1 DEF Push
      <3> HIDE DEF k
      <3> DEFINE h == Len(heard)
                 q == Len(queue)
                 n == Len(batch)
      <3>2. /\ h \in Nat /\ q \in Nat /\ n \in Nat /\ h + q \in Nat /\ q + n \in Nat
            /\ queue = Frames(h, q) /\ batch = Frames(h + q, n)
        BY <3>1 DEF HearInv, TypeOK, Playing
      <3>3. SubSeq(batch, 1, n) = batch
        BY <3>2, FramesPart
      <3>4. queue' = Frames(h, q + n)
        <4>1. Frames(h, q) \o Frames(h + q, n) = Frames(h, q + n)
          BY <3>2, FramesJoin, ZenonT(30)
        <4> QED
          BY <3>1, <3>2, <3>3, <4>1
      <3>5. Len(queue') = q + n
        BY <3>2, <3>4, FramesLength
      <3>6. Played' = h + (q + n) /\ Played = h + q + n
        BY <3>1, <3>5 DEF Played, InHand
      <3>7. Played' = Played
        BY <3>2, <3>6
      <3> QED
        BY <3>1, <3>4, <3>5, <3>7 DEF HearInv, HeardInOrder, Opening, Playing
    <2>2. CASE k # Len(batch)
      BY <1>13, <1>16, <2>2 DEF Push, CloseAndReturn
    <2> QED
      BY <2>1, <2>2
  <1>17. CASE Consume
    <2>1. CASE ~opened
      BY <1>13, <1>17, <2>1 DEF Consume, CloseAndReturn
    <2>2. CASE opened
      <3> DEFINE k == Min({ChunkFrames, Len(queue)})
                 h == Len(heard)
                 q == Len(queue)
      <3>1. /\ pc = "consume" /\ pc' = "write" /\ batch' = SubSeq(queue, 1, k)
            /\ queue' = SubSeq(queue, k + 1, Len(queue))
            /\ UNCHANGED <<decoder, position, atEnd, result, heard>>
        BY <1>17, <2>2 DEF Consume
      <3>2. k \in Nat /\ k <= q
        <4>1. ChunkFrames \in Nat /\ Len(queue) \in Nat
          BY ChunkFramesAssumption DEF TypeOK
        <4>2. ChunkFrames \in Int /\ Len(queue) \in Int
          BY <4>1
        <4>3. k \in {ChunkFrames, Len(queue)} /\ k <= Len(queue)
          BY <4>2, LeastOfTwo
        <4> QED
          BY <4>1, <4>3
      <3> HIDE DEF k
      <3>3. h \in Nat /\ q \in Nat /\ queue = Frames(h, q)
        BY <3>1 DEF HearInv, TypeOK, Playing
      <3>4. batch' = Frames(h, k) /\ queue' = Frames(h + k, q - k)
        <4>1. /\ SubSeq(Frames(h, q), 1, k) = Frames(h, k)
              /\ SubSeq(Frames(h, q), k + 1, q) = Frames(h + k, q - k)
          BY <3>2, <3>3, FramesPart
        <4>2. batch' = SubSeq(queue, 1, k) /\ queue' = SubSeq(queue, k + 1, q)
          BY <3>1
        <4> HIDE DEF h, q
        <4> QED
          BY <3>3, <4>1, <4>2
      <3>5. Len(batch') = k /\ Len(queue') = q - k
        <4>1. h + k \in Nat /\ q - k \in Nat
          BY <3>2, <3>3
        <4> QED
          BY <3>2, <3>3, <3>4, <4>1, FramesLength
      <3>6. Played' = h + (q - k) + k /\ Played = h + q + 0
        BY <3>1, <3>5 DEF Played, InHand
      <3>7. Played' = Played
        BY <3>2, <3>3, <3>6
      <3> QED
        BY <3>1, <3>4, <3>5, <3>7 DEF HearInv, HeardInOrder, Opening, Playing
    <2> QED
      BY <2>1, <2>2 DEF TypeOK
  <1>18. CASE Write
    <2>1. CASE CloseAndReturn("error") /\ heard' = heard
      BY <1>13, <2>1 DEF CloseAndReturn
    <2>2. CASE pc' = "accept"
      <3>1. /\ pc = "write" /\ UNCHANGED <<decoder, position, atEnd, queue, batch, result, heard>>
        BY <1>18, <2>2 DEF Write, CloseAndReturn
      <3>2. Played' = Played
        BY <2>2, <3>1 DEF Played, InHand
      <3> QED
        BY <2>2, <3>1, <3>2 DEF HearInv, HeardInOrder, Opening, Playing
    <2> QED
      BY <1>18, <2>1, <2>2 DEF Write
  <1>19. CASE Accept
    <2>2. heard' = heard \o batch /\ pc' = "drain" /\ UNCHANGED result
      BY <1>19 DEF Accept
    <2> DEFINE h == Len(heard)
               q == Len(queue)
               n == Len(batch)
    <2>3. /\ pc = "accept" /\ UNCHANGED <<decoder, position, atEnd, queue, batch>>
      BY <1>19 DEF Accept
    <2>4. /\ h \in Nat /\ q \in Nat /\ n \in Nat /\ h + n \in Nat
          /\ heard = Frames(0, h) /\ batch = Frames(h, n) /\ queue = Frames(h + n, q)
      BY <2>3 DEF HearInv, HeardInOrder, TypeOK
    <2>5. heard' = Frames(0, h + n)
      <3>1. Frames(0, h) \o Frames(0 + h, n) = Frames(0, h + n)
        BY <2>4, FramesJoin, ZenonT(30)
      <3>2. 0 + h = h
        BY <2>4
      <3>3. heard' = heard \o batch
        BY <2>2
      <3> HIDE DEF h, n
      <3> QED
        BY <2>4, <3>1, <3>2, <3>3
    <2>6. Len(heard') = h + n
      BY <2>4, <2>5, FramesLength
    <2>7. Played' = (h + n) + q + 0 /\ Played = h + q + n
      BY <2>2, <2>3, <2>6 DEF Played, InHand
    <2>8. Played' = Played
      BY <2>4, <2>7
    <2> QED
      BY <2>2, <2>3, <2>4, <2>5, <2>6, <2>8 DEF HearInv, HeardInOrder, Opening, Playing
  <1> QED
    BY <1>2, <1>3, <1>4, <1>5, <1>6, <1>7, <1>8, <1>9, <1>10, <1>11, <1>12, <1>14, <1>15,
       <1>16, <1>17, <1>18, <1>19
    DEF Next, PlayerStep, StopperStep, Thread

LEMMA TypeStarts == Init => TypeOK
  <1> SUFFICES ASSUME Init PROVE TypeOK
    OBVIOUS
  <1>1. <<>> \in Seq(Nat) /\ 0 \in 0..TrackFrames
    BY TrackFramesAssumption
  <1> QED
    BY <1>1 DEF Init, TypeOK

(* What is heard, over all behaviours.                                     *)
THEOREM SoundInvariant == Spec => []SoundInv
  <1>1. Init => HearInv
    <2>1. Frames(0, 0) = <<>> /\ Len(<<>>) = 0
      BY DEF Frames
    <2> QED
      BY <2>1 DEF Init, HearInv, HeardInOrder, Opening, Playing
  <1>2. SoundInv /\ [Next]_vars => SoundInv'
    BY TypeKeeps, HearKeeps DEF SoundInv
  <1> QED
    BY <1>1, <1>2, TypeStarts, PTL DEF Spec, SoundInv

(* Whoever closes, nothing stays open behind a closed graph.               *)
LEMMA CloseKeeps ==
    ASSUME OverlapCalls = FALSE, QuietInv, TypeOK', [Next]_vars PROVE CloseInv'
  <1> USE DEF QuietInv, graphVars, callVars, Thread
  <1>1. CASE PlayFile
    BY <1>1 DEF PlayFile, CloseInv, TypeOK, Opening, Playing
  <1>2. CASE OpenDecoder
    BY <1>2 DEF OpenDecoder, DecoderOpens, DecoderCloses, Return, CloseInv, TypeOK, Opening, Playing
  <1>3. CASE ValidateFormat
    BY <1>3 DEF ValidateFormat, Return, CloseInv, TypeOK, Opening, Playing
  <1>4. CASE OpenSink
    BY <1>4 DEF OpenSink, SinkOpens, DecoderCloses, Return, CloseInv, TypeOK, Opening, Playing
  <1>5. CASE StartSink
    BY <1>5 DEF StartSink, SinkStarts, SinkCloses, DecoderCloses, Return, CloseInv, TypeOK, Opening, Playing
  <1>6. CASE MarkOpened
    BY <1>6 DEF MarkOpened, CloseInv, TypeOK, Opening, Playing
  <1>7. CASE MarkStarted
    BY <1>7 DEF MarkStarted, CloseInv, TypeOK, Opening, Playing
  <1>8. CASE LoopContinues
    BY <1>8 DEF LoopContinues, CloseInv, TypeOK, Opening, Playing
  <1>9. CASE Drain
    BY <1>9 DEF Drain, CloseInv, TypeOK, Opening, Playing
  <1>10. CASE LoopEnds
    BY <1>10 DEF LoopEnds, CloseAndReturn, CloseInv, TypeOK, Opening, Playing
  <1>11. CASE Produce
    BY <1>11 DEF Produce, CloseAndReturn, CloseInv, TypeOK, Opening, Playing
  <1>12. CASE Decode
    BY <1>12 DEF Decode, CloseAndReturn, CloseInv, TypeOK, Opening, Playing
  <1>13. CASE Push
    BY <1>13 DEF Push, CloseAndReturn, CloseInv, TypeOK, Opening, Playing
  <1>14. CASE Consume
    BY <1>14 DEF Consume, CloseAndReturn, CloseInv, TypeOK, Opening, Playing
  <1>15. CASE Write
    BY <1>15 DEF Write, CloseAndReturn, CloseInv, TypeOK, Opening, Playing
  <1>25. CASE Accept
    BY <1>25 DEF Accept, CloseInv, TypeOK, Opening, Playing
  <1>16. CASE PlayReturns
    BY <1>16 DEF PlayReturns, At, Goto, CloseInv, TypeOK, Opening, Playing
  <1>17. CASE Stop
    BY <1>17 DEF Stop, At, Goto, CloseInv, TypeOK, Opening, Playing
  <1>18. CASE StopReturns
    BY <1>18 DEF StopReturns, At, Goto, CloseInv, TypeOK, Opening, Playing
  <1> SUFFICES ASSUME NEW t \in Thread, CloseStep(t) \/ UNCHANGED vars PROVE CloseInv'
    BY <1>1, <1>2, <1>3, <1>4, <1>5, <1>6, <1>7, <1>8, <1>9, <1>10, <1>11, <1>12, <1>13, <1>14, <1>15, <1>16, <1>17, <1>18, <1>25 DEF Next, PlayerStep, StopperStep
  <1>19. CASE CloseCheck(t)
    BY <1>19 DEF CloseCheck, At, Goto, CloseInv, TypeOK, Opening, Playing
  <1>20. CASE CloseStopSink(t)
    BY <1>20 DEF CloseStopSink, SinkStops, At, Goto, CloseInv, TypeOK, Opening, Playing
  <1>21. CASE CloseSink(t)
    BY <1>21 DEF CloseSink, SinkCloses, At, Goto, CloseInv, TypeOK, Opening, Playing
  <1>22. CASE CloseDecoder(t)
    BY <1>22 DEF CloseDecoder, DecoderCloses, At, Goto, CloseInv, TypeOK, Opening, Playing
  <1>23. CASE CloseClear(t)
    BY <1>23 DEF CloseClear, At, Goto, CloseInv, TypeOK, Opening, Playing
  <1>24. CASE UNCHANGED vars
    BY <1>24 DEF vars, CloseInv
  <1> QED
    BY <1>19, <1>20, <1>21, <1>22, <1>23, <1>24 DEF CloseStep

(* Whoever stops, no batch is let into a sink that is closed.              *)
LEMMA AdmitKeeps ==
    ASSUME QuietInv, AdmitInv, TypeOK', [Next]_vars PROVE AdmitInv'
  <1> USE DEF graphVars, callVars
  <1>0. /\ TypeOK
        /\ stopped => sink = "closed"
        /\ Len(heard) \in Nat /\ InSink \in Nat /\ InSink' \in Nat
    BY DEF QuietInv, CloseInv, TypeOK, InSink
  <1>1. ASSUME UNCHANGED <<stopped, admitted, heard>>, InSink' <= InSink PROVE AdmitInv'
    BY <1>0, <1>1 DEF AdmitInv, TypeOK
  <1>2. ASSUME UNCHANGED <<stopped, admitted, heard>>, pc' # "accept" PROVE AdmitInv'
    BY <1>0, <1>1, <1>2 DEF InSink
  <1>3. ASSUME UNCHANGED <<stopped, admitted, heard, pc, batch>> PROVE AdmitInv'
    BY <1>0, <1>1, <1>3 DEF InSink
  <1>4. CASE PlayFile
    BY <1>4 DEF PlayFile, AdmitInv
  <1>5. CASE OpenDecoder \/ ValidateFormat \/ OpenSink \/ StartSink \/ MarkOpened \/ MarkStarted
    <2>1. UNCHANGED <<stopped, admitted, heard>> /\ pc' # "accept"
      BY <1>5 DEF OpenDecoder, ValidateFormat, OpenSink, StartSink, MarkOpened, MarkStarted, Return
    <2> QED
      BY <1>2, <2>1
  <1>6. CASE LoopContinues \/ LoopEnds \/ Produce \/ Decode \/ Push \/ Drain \/ Consume \/ PlayReturns
    <2>1. UNCHANGED <<stopped, admitted, heard>> /\ pc' # "accept"
      BY <1>6 DEF LoopContinues, LoopEnds, Produce, Decode, Push, Drain, Consume, PlayReturns, CloseAndReturn
    <2> QED
      BY <1>2, <2>1
  <1>7. CASE Write
    <2>1. CASE stopped
      <3>1. UNCHANGED <<stopped, admitted, heard>> /\ pc' # "accept"
        <4>1. sink # "started"
          BY <2>1 DEF QuietInv, CloseInv
        <4>2. CloseAndReturn("error")
          BY <1>7, <4>1 DEF Write
        <4>3. UNCHANGED <<stopped, admitted, heard>>
          BY <1>7 DEF Write
        <4> QED
          BY <4>2, <4>3 DEF CloseAndReturn
      <3> QED
        BY <1>2, <3>1
    <2>2. CASE ~stopped
      BY <1>7, <2>2 DEF Write, AdmitInv
    <2> QED
      BY <2>1, <2>2
  <1>8. CASE Accept
    <2>1. Len(heard') = Len(heard) + Len(batch)
      <3>1. heard' = heard \o batch
        BY <1>8 DEF Accept
      <3>2. heard \in Seq(Nat) /\ batch \in Seq(Nat)
        BY <1>0 DEF TypeOK
      <3>3. Len(heard \o batch) = Len(heard) + Len(batch)
        BY <3>2, ConcatProperties, ZenonT(30)
      <3> QED
        BY <3>1, <3>3
    <2>2. Len(heard') + InSink' = Len(heard) + InSink
      BY <1>0, <1>8, <2>1 DEF Accept, InSink, TypeOK
    <2> QED
      BY <1>8, <2>2 DEF Accept, AdmitInv
  <1>9. CASE Stop \/ StopReturns \/ UNCHANGED vars
    <2>1. UNCHANGED <<stopped, admitted, heard, pc, batch>>
      BY <1>9 DEF Stop, StopReturns, vars
    <2> QED
      BY <1>3, <2>1
  <1>10. ASSUME NEW t \in Thread, CloseStep(t) PROVE AdmitInv'
    <2>1. CASE CloseClear(t)
      <3>1. InSink' = InSink /\ heard' = heard
        BY <2>1 DEF CloseClear, InSink
      <3>2. CASE t = "stopper" /\ ~stopped
        BY <1>0, <2>1, <3>1, <3>2 DEF CloseClear, AdmitInv
      <3>3. CASE ~(t = "stopper" /\ ~stopped)
        <4>1. admitted' = admitted /\ (stopped' => stopped)
          BY <2>1, <3>3, Zenon DEF CloseClear
        <4> QED
          BY <3>1, <4>1 DEF AdmitInv
      <3> QED
        BY <3>2, <3>3
    <2>2. CASE ~CloseClear(t)
      <3>1. UNCHANGED <<stopped, admitted, heard, pc, batch>>
        BY <1>10, <2>2 DEF CloseStep, CloseCheck, CloseStopSink, CloseSink, CloseDecoder
      <3> QED
        BY <1>3, <3>1
    <2> QED
      BY <2>1, <2>2
  <1> QED
    BY <1>4, <1>5, <1>6, <1>7, <1>8, <1>9, <1>10 DEF Next, PlayerStep, StopperStep, Thread

(* Who has closed what, over all behaviours in which the host waits for a  *)
(* stop() before it plays on.                                              *)
THEOREM QuietInvariant == ASSUME OverlapCalls = FALSE PROVE Spec => []QuietInv
  <1>1. Init => CloseInv
    BY DEF Init, CloseInv, Opening, Playing, Thread
  <1>2. QuietInv /\ [Next]_vars => QuietInv'
    BY TypeKeeps, CloseKeeps, ZenonT(30) DEF QuietInv
  <1> QED
    BY <1>1, <1>2, TypeStarts, PTL DEF Spec, QuietInv

-----------------------------------------------------------------------------
(* What it gives                                                           *)

(* The sink hears the track from its first frame on, each frame once, in   *)
(* order, for any ring, chunk and track, even if a play overlaps a stop(). *)
THEOREM FramesHeardInOrder == Spec => []HeardInOrder
  <1>1. SoundInv => HeardInOrder
    BY DEF SoundInv, HearInv
  <1> QED
    BY <1>1, SoundInvariant, PTL

(* A play that reports success was heard to its last frame.                *)
THEOREM SuccessWasHeard == Spec => []SuccessMeansHeard
  <1>1. SoundInv => SuccessMeansHeard
    BY DEF SoundInv, HearInv, SuccessMeansHeard
  <1> QED
    BY <1>1, SoundInvariant, PTL

(* However a play ends, sink and decoder are closed after it.              *)
THEOREM PlayLeavesAllClosed ==
    ASSUME OverlapCalls = FALSE PROVE Spec => []ReturnLeavesAllClosed
  <1>1. QuietInv => ReturnLeavesAllClosed
    BY DEF QuietInv, CloseInv, ReturnLeavesAllClosed, Opening, Playing
  <1> QED
    BY <1>1, QuietInvariant, PTL

(* Once stop() has returned, the sink takes no frame but those it had let  *)
(* in already, however the steps of the two threads fall.                  *)
THEOREM StopSilences == ASSUME OverlapCalls = FALSE PROVE Spec => []StopAdmitsNothing
  <1>1. Init => AdmitInv
    BY DEF Init, AdmitInv
  <1>2. QuietInv /\ QuietInv' /\ AdmitInv /\ [Next]_vars => AdmitInv'
    BY AdmitKeeps DEF QuietInv
  <1>3. QuietInv /\ AdmitInv => StopAdmitsNothing
    <2> SUFFICES ASSUME QuietInv, AdmitInv, stopped PROVE Len(heard) <= admitted
      BY DEF StopAdmitsNothing
    <2>1. Len(heard) \in Nat /\ InSink \in Nat /\ admitted \in Nat
      BY DEF QuietInv, TypeOK, InSink
    <2>2. Len(heard) + InSink <= admitted
      BY DEF AdmitInv
    <2> QED
      BY <2>1, <2>2
  <1> QED
    BY <1>1, <1>2, <1>3, QuietInvariant, PTL DEF Spec

-----------------------------------------------------------------------------
(* What a track says of the frames to skip                                 *)

(* The smaller of two numbers.                                            *)
LEMMA SmallerOf ==
    ASSUME NEW a \in Int, NEW b \in Int
    PROVE  Skips!Min({a, b}) = IF a <= b THEN a ELSE b
  BY DEF Skips!Min

(* What rounding to the nearest is off by.                                 *)
LEMMA Rounded ==
    ASSUME NEW x \in Int, NEW half \in Nat \ {0}
    PROVE  LET n == (x + half) \div (2 * half)
           IN  n \in Int /\ n * (2 * half) <= x + half /\ x <= n * (2 * half) + half
  <1> DEFINE y == x + half
             d == 2 * half
             n == y \div d
             e == d * n
  <1>1. y \in Int /\ d \in Nat \ {0} /\ d = half + half
    OBVIOUS
  <1>2. n \in Int /\ e \in Int /\ e <= y /\ y < e + d /\ n * d = e
    <2> HIDE DEF y, d
    <2> QED
      BY <1>1
  <1>3. x <= e + half
    <2>1. x + half < e + (half + half)
      BY <1>1, <1>2
    <2> HIDE DEF e
    <2> QED
      BY <1>2, <2>1
  <1> QED
    BY <1>2, <1>3

(* The skip of an OpusHead lasts as long at the rate that is played as at   *)
(* 48 kHz, to half a frame (gapless_from_opus_head).                       *)
THEOREM SkipsKeepTime ==
    ASSUME Max32 \in Nat, NEW preSkip \in Nat, NEW rate \in Nat
    PROVE  Skips!PreSkipKeepsTime(preSkip, rate)
  <1> DEFINE asked == preSkip * rate
             skip == IF rate # 0 /\ rate # 48000 THEN (asked + 24000) \div 48000 ELSE preSkip
             i == Skips!FromOpusHead([preSkip |-> preSkip], Unknown, rate)
  <1>1. asked \in Int /\ skip \in Int
    <2>1. asked \in Int
      OBVIOUS
    <2> HIDE DEF asked
    <2> QED
      BY <2>1
  <1>2. i.start = Skips!Min({skip, Max32})
    BY DEF Skips!FromOpusHead, Skips!Info
  <1>3. rate # 0 => skip * 48000 <= asked + 24000 /\ asked <= skip * 48000 + 24000
    <2>1. CASE rate = 48000
      <3>1. asked = preSkip * 48000 /\ skip = preSkip
        BY <2>1
      <3> HIDE DEF asked, skip
      <3> QED
        BY <1>1, <3>1
    <2>2. CASE rate # 0 /\ rate # 48000
      <3>1. skip = (asked + 24000) \div (2 * 24000)
        BY <2>2
      <3> HIDE DEF asked, skip
      <3>2. skip * (2 * 24000) <= asked + 24000 /\ asked <= skip * (2 * 24000) + 24000
        BY <1>1, <3>1, Rounded
      <3> QED
        BY <1>1, <3>2
    <2> HIDE DEF asked, skip
    <2> QED
      BY <2>1, <2>2
  <1>4. i.start < Max32 => i.start = skip
    <2> HIDE DEF skip, i
    <2> QED
      BY <1>1, <1>2, SmallerOf
  <1>5. rate # 0 /\ i.start < Max32 => i.start * 48000 <= asked + 24000 /\ asked <= i.start * 48000 + 24000
    <2> HIDE DEF skip, i, asked
    <2> QED
      BY <1>3, <1>4
  <1> QED
    BY <1>5 DEF Skips!PreSkipKeepsTime

(* What a final granule leaves to be played is all of it, less what a       *)
(* negative first one cuts off (gapless_from_granule).                     *)
THEOREM GranulesFit ==
    ASSUME Max32 \in Nat, Unknown \notin Int, NEW final \in Int, NEW initial \in Int
    PROVE  Skips!GranuleFits(final, initial)
  <1>1. Skips!Min({0, initial}) = IF 0 <= initial THEN 0 ELSE initial
    BY SmallerOf
  <1> QED
    BY <1>1 DEF Skips!GranuleFits, Skips!FromGranule, Skips!PlayableFrames, Skips!Info, Skips!Failed

(* An iTunSMPB that is accepted skips no more than there is, claims no more *)
(* than the stream and a tenth, and may be spliced if it says the length    *)
(* (parse_itunsmpb).                                                       *)
THEOREM TrimsFit ==
    ASSUME Max32 \in Nat, Unknown \notin Int, NoHex \notin Int, Slack \in Nat,
           NEW v, v.size \in Nat, v.fields \in Seq(Nat \cup {NoHex}), NEW hint \in Nat \cup {Unknown}
    PROVE  Skips!TrimFits(v, hint)
  <1> DEFINE priming == v.fields[2]
             padding == v.fields[3]
             total == v.fields[4]
             i == Skips!ParseITunSmpb(v, hint)
             valid == IF total > 0 THEN total ELSE Unknown
             longest == hint + hint \div 10 + Slack
  <1> SUFFICES ASSUME i.ok PROVE Skips!TrimFits(v, hint)
    BY DEF Skips!TrimFits
  <1>1. Len(v.fields) >= 4 /\ NoHex \notin {priming, padding, total}
    BY DEF Skips!ParseITunSmpb, Skips!Failed
  <1>2. priming \in Nat /\ padding \in Nat /\ total \in Nat
    <2>1. 2 \in 1..Len(v.fields) /\ 3 \in 1..Len(v.fields) /\ 4 \in 1..Len(v.fields)
      BY <1>1, LenProperties
    <2> QED
      BY <1>1, <2>1, ElementOfSeq
  <1>3. /\ priming <= Max32 /\ padding <= Max32
        /\ total > 0 => priming + padding <= total
        /\ hint # Unknown /\ total > 0 => total <= longest
        /\ i = Skips!Info(priming, padding, valid, "itunsmpb")
    <2>1. ~(priming > Max32 \/ padding > Max32)
      BY DEF Skips!ParseITunSmpb, Skips!Failed
    <2>2. ~(total > 0 /\ priming + padding > total)
      BY DEF Skips!ParseITunSmpb, Skips!Failed
    <2>3. ~(hint # Unknown /\ total > 0 /\ total > longest)
      BY DEF Skips!ParseITunSmpb, Skips!Failed
    <2>4. i = Skips!Info(priming, padding, valid, "itunsmpb")
      BY DEF Skips!ParseITunSmpb, Skips!Failed
    <2>5. hint # Unknown => longest \in Int
      OBVIOUS
    <2> HIDE DEF i, priming, padding, total, longest
    <2> QED
      BY <1>2, <2>1, <2>2, <2>3, <2>4, <2>5
  <1>4. i.start = priming /\ i.end = padding /\ i.valid = valid /\ i.source = "itunsmpb"
    BY <1>3 DEF Skips!Info
  <1>5. valid # Unknown => /\ Skips!PlayableFrames(i) = total - priming - padding
                           /\ valid = total /\ total > 0 /\ total - priming - padding <= total
    <2> HIDE DEF i, priming, padding, total
    <2> QED
      BY <1>2, <1>3, <1>4 DEF Skips!PlayableFrames
  <1>6. hint # Unknown => longest \in Int
    OBVIOUS
  <1> HIDE DEF longest, priming, padding, total, valid
  <1>7. valid # Unknown /\ hint # Unknown => total - priming - padding <= longest
    BY <1>2, <1>3, <1>5, <1>6
  <1>8. Skips!CanSplice(i, Skips!Native(1)) <=> valid # Unknown
    BY <1>4 DEF Skips!CanSplice, Skips!SampleExact, Skips!Native, Skips!Info
  <1> HIDE DEF i
  <1>9. /\ i.start <= Max32 /\ i.end <= Max32
        /\ i.valid # Unknown => /\ Skips!PlayableFrames(i) = i.valid - i.start - i.end
                                /\ hint # Unknown => Skips!PlayableFrames(i) <= longest
        /\ Skips!CanSplice(i, Skips!Native(1)) <=> i.valid # Unknown
    BY <1>3, <1>4, <1>5, <1>7, <1>8
  <1> QED
    BY <1>9, Zenon DEF Skips!TrimFits, i, longest

(* What rounding down to a slot, and a padding, is off by.                 *)
LEMMA Slots ==
    ASSUME NEW x \in Nat, NEW rate \in Nat \ {0}, NEW pad \in Nat, NEW slot \in Nat \ {0},
           pad <= slot, NEW bytes, bytes = (x \div rate + pad) * slot
    PROVE  slot * x <= bytes * rate + slot * rate /\ bytes * rate <= slot * x + slot * slot * rate
  <1> DEFINE d == x \div rate
             e == rate * d
             g == pad * rate
  <1>1. d \in Int /\ e \in Int /\ e <= x /\ x <= e + rate
    OBVIOUS
  <1>2. g \in Nat /\ g <= slot * rate /\ slot * rate \in Nat
    OBVIOUS
  <1>3. bytes * rate = slot * (e + g)
    <2> HIDE DEF d
    <2>1. ((d + pad) * slot) * rate = slot * (rate * d + pad * rate)
      BY <1>1
    <2> QED
      BY <2>1 DEF d
  <1>4. slot * x <= slot * (e + rate) /\ slot * (e + rate) = slot * e + slot * rate
    <2> HIDE DEF e
    <2> QED
      BY <1>1
  <1>5. slot * e <= slot * (e + g) /\ slot * (e + g) = slot * e + slot * g
    <2> HIDE DEF e, g
    <2> QED
      BY <1>1, <1>2
  <1>6. slot * e <= slot * x /\ slot * g <= slot * (slot * rate)
    <2> HIDE DEF e, g
    <2> QED
      BY <1>1, <1>2
  <1>7. slot * x \in Int /\ slot * e \in Int /\ slot * g \in Int /\ slot * slot * rate = slot * (slot * rate)
        /\ slot * (slot * rate) \in Int
    <2> HIDE DEF e, g
    <2> QED
      BY <1>1, <1>2
  <1>8. slot * x <= bytes * rate + slot * rate
    <2> DEFINE se == slot * e
               sg == slot * (e + g)
    <2> HIDE DEF se, sg, e, g
    <2> QED
      BY <1>2, <1>3, <1>4, <1>5, <1>7 DEF se, sg
  <1>9. bytes * rate <= slot * x + slot * slot * rate
    <2> HIDE DEF e, g
    <2> QED
      BY <1>3, <1>5, <1>6, <1>7
  <1> QED
    BY <1>8, <1>9

(* A frame of any header lasts as long as its bytes at its bitrate, to a    *)
(* slot and its padding (parse_mpeg_frame_header).                         *)
THEOREM FramesKeepBitrate ==
    ASSUME NEW h \in [sync : BOOLEAN, version : 0..3, layer : 0..3, protected : BOOLEAN, bitrate : 0..15,
                      rate : 0..3, padded : BOOLEAN, mode : 0..3]
    PROVE  Skips!FrameKeepsBitrate(h)
  <1> DEFINE p == Skips!ParseHeader(h, 4)
             l == 4 - h.layer
             kbps == Skips!Kbps(h.version, l)[h.bitrate + 1]
             rate == Skips!Rates(h.version)[h.rate + 1]
             spf == Skips!SamplesPerFrame(h.version, l)
             slot == IF p.layer = 1 THEN 4 ELSE 1
             pad == IF h.padded THEN slot ELSE 0
             x == IF l = 1 THEN 12 * kbps * 1000 ELSE (spf \div 8) * kbps * 1000
  <1> SUFFICES ASSUME p.ok PROVE Skips!FrameKeepsBitrate(h)
    BY DEF Skips!FrameKeepsBitrate
  <1>1. h.layer # 0 /\ kbps # 0 /\ rate # 0
    BY DEF Skips!ParseHeader, Skips!Failed
  <1>2. /\ p.layer = l /\ p.rate = rate /\ p.kbps = kbps /\ p.spf = spf
        /\ p.bytes = Skips!FrameBytes(l, spf, kbps, rate, h.padded)
    BY DEF Skips!ParseHeader, Skips!Failed
  <1>3. /\ kbps \in Nat /\ rate \in Nat \ {0} /\ l \in 1..3
        /\ spf \in {384, 576, 1152} /\ (l = 1 => spf = 384) /\ (l # 1 => spf # 384)
    <2> DEFINE v == h.version
               b == h.bitrate
               r == h.rate
    <2>1. l \in 1..3 /\ v \in 0..3 /\ b \in 0..15 /\ r \in 0..3
      BY <1>1
    <2> HIDE DEF l, v, b, r
    <2>2. /\ Skips!Kbps(v, l)[b + 1] \in Nat /\ Skips!Rates(v)[r + 1] \in Nat
          /\ Skips!SamplesPerFrame(v, l) \in {384, 576, 1152}
          /\ (l = 1 => Skips!SamplesPerFrame(v, l) = 384) /\ (l # 1 => Skips!SamplesPerFrame(v, l) # 384)
      <3>1. b + 1 \in 1..16 /\ r + 1 \in {1, 2, 3, 4}
        BY <2>1
      <3>2. /\ Skips!Mpeg1L3 \in [1..16 -> Nat] /\ Skips!Mpeg2L3 \in [1..16 -> Nat]
            /\ Skips!Mpeg1L2 \in [1..16 -> Nat] /\ Skips!Mpeg1L1 \in [1..16 -> Nat]
        BY DEF Skips!Mpeg1L3, Skips!Mpeg2L3, Skips!Mpeg1L2, Skips!Mpeg1L1
      <3>3. Skips!Kbps(v, l)[b + 1] \in Nat
        BY <3>1, <3>2 DEF Skips!Kbps
      <3>4. Skips!Rates(v)[r + 1] \in Nat
        BY <3>1 DEF Skips!Rates
      <3>5. Skips!SamplesPerFrame(v, l) \in {384, 576, 1152}
        BY DEF Skips!SamplesPerFrame
      <3>6. (l = 1 => Skips!SamplesPerFrame(v, l) = 384) /\ (l # 1 => Skips!SamplesPerFrame(v, l) # 384)
        BY <2>1 DEF Skips!SamplesPerFrame
      <3> QED
        BY <3>3, <3>4, <3>5, <3>6
    <2>3. /\ kbps \in Nat /\ rate \in Nat /\ spf \in {384, 576, 1152}
          /\ (l = 1 => spf = 384) /\ (l # 1 => spf # 384)
      BY <2>2 DEF v, b, r
    <2> HIDE DEF kbps, rate, spf
    <2> QED
      BY <1>1, <2>1, <2>3
  <1> HIDE DEF p, l, kbps, rate, spf
  <1>4. slot \in {1, 4} /\ pad \in {0, slot} /\ slot = IF l = 1 THEN 4 ELSE 1
    BY <1>2
  <1>5. p.bytes = (x \div rate + pad) * slot
    <2>1. CASE l = 1
      BY <1>2, <1>4, <2>1 DEF Skips!FrameBytes
    <2>2. CASE l # 1
      <3>1. p.bytes = x \div rate + pad /\ slot = 1
        BY <1>2, <1>4, <2>2 DEF Skips!FrameBytes
      <3>2. x \div rate + pad \in Int
        BY <1>3, <1>4
      <3> QED
        BY <3>1, <3>2
    <2> QED
      BY <2>1, <2>2
  <1>6. x \in Nat /\ slot * x = spf * kbps * 125
    <2>1. CASE l = 1
      BY <1>3, <1>4, <2>1
    <2>2. CASE l # 1
      <3>1. \/ spf = 576 /\ spf \div 8 = 72
            \/ spf = 1152 /\ spf \div 8 = 144
        BY <1>3, <2>2
      <3> QED
        BY <1>3, <1>4, <2>2, <3>1
    <2> QED
      BY <2>1, <2>2
  <1> HIDE DEF x, pad, slot
  <1>7. /\ slot * x <= p.bytes * rate + slot * rate
        /\ p.bytes * rate <= slot * x + slot * slot * rate
    <2>1. slot \in Nat \ {0} /\ pad \in Nat /\ pad <= slot
      BY <1>4
    <2>2. x \in Nat /\ rate \in Nat \ {0} /\ p.bytes = (x \div rate + pad) * slot
      BY <1>3, <1>5, <1>6
    <2> QED
      BY <2>1, <2>2, Slots, Zenon
  <1>8. /\ p.spf * p.kbps * 125 <= p.bytes * p.rate + slot * p.rate
        /\ p.bytes * p.rate <= p.spf * p.kbps * 125 + slot * slot * p.rate
    BY <1>2, <1>6, <1>7, Zenon
  <1> QED
    BY <1>8 DEF Skips!FrameKeepsBitrate, p, slot

-----------------------------------------------------------------------------
(* The settings of the equalizer                                           *)

(* The smaller of two numbers, as Levels writes it.                        *)
LEMMA LesserOf ==
    ASSUME NEW a \in Int, NEW b \in Int
    PROVE  Gains!Min({a, b}) = IF a <= b THEN a ELSE b
  BY DEF Gains!Min

(* clampd() brings a value into the range, where it leaves it.             *)
LEMMA ClampOnce ==
    ASSUME NEW v \in Int, NEW lo \in Int, NEW hi \in Int, lo <= hi
    PROVE  /\ Gains!Clamp(v, lo, hi) \in Int
           /\ Gains!Clamp(Gains!Clamp(v, lo, hi), lo, hi) = Gains!Clamp(v, lo, hi)
           /\ lo <= Gains!Clamp(v, lo, hi) /\ Gains!Clamp(v, lo, hi) <= hi
  BY DEF Gains!Clamp

(* A gain that quantise_gain() has put on the steps stays.                 *)
LEMMA GainOnce ==
    ASSUME NEW g \in Int
    PROVE  /\ Gains!ClampGain(g) \in Int
           /\ Gains!ClampGain(Gains!ClampGain(g)) = Gains!ClampGain(g)
  <1> DEFINE v == Gains!Clamp(g, -1200, 1200)
             t == IF v < 0 THEN (5 - v) \div 10 ELSE (v + 5) \div 10
  <1>1. v \in Int /\ -1200 <= v /\ v <= 1200
    BY ClampOnce
  <1>2. t \in Int /\ 0 <= t /\ t <= 120
    <2> HIDE DEF v
    <2> QED
      BY <1>1
  <1>3. Gains!ClampGain(g) = IF v < 0 THEN -(t * 10) ELSE t * 10
    BY DEF Gains!ClampGain, Gains!Quantise
  <1>4. \A k \in -120..120 : Gains!ClampGain(10 * k) = 10 * k
    BY DEF Gains!ClampGain, Gains!Quantise, Gains!Clamp
  <1>5. PICK k \in -120..120 : Gains!ClampGain(g) = 10 * k
    <2> HIDE DEF v, t
    <2>1. CASE v < 0
      BY <1>2, <1>3, <2>1
    <2>2. CASE ~(v < 0)
      BY <1>2, <1>3, <2>2
    <2> QED
      BY <2>1, <2>2
  <1> QED
    BY <1>4, <1>5

(* A parametric band before anything has read it: any numbers, of any      *)
(* type.                                                                   *)
Band == [type : Types, freq : Int, gain : Int, q : Int, enabled : BOOLEAN]

(* clamp_to_valid_ranges() of one parametric band: what it leaves is a     *)
(* band, of the same type and as much on, that it would leave as it is.    *)
LEMMA BandOnce ==
    ASSUME NEW b \in Band
    PROVE  /\ Gains!ClampBand(b) \in Band
           /\ Gains!ClampBand(Gains!ClampBand(b)) = Gains!ClampBand(b)
           /\ Gains!ClampBand(b).enabled = b.enabled /\ Gains!ClampBand(b).type = b.type
  <1> DEFINE c == Gains!ClampBand(b)
             freq == Gains!Clamp(b.freq, 40, 40000)
             gain == Gains!Clamp(b.gain, -2400, 2400)
             q == Gains!Clamp(b.q, 10, 1800)
  <1>1. b.freq \in Int /\ b.gain \in Int /\ b.q \in Int
    BY DEF Band
  <1>2. freq \in Int /\ Gains!Clamp(freq, 40, 40000) = freq
    <2> DEFINE v == b.freq
    <2>1. v \in Int
      BY <1>1
    <2> HIDE DEF v
    <2>2. Gains!Clamp(v, 40, 40000) \in Int /\ Gains!Clamp(Gains!Clamp(v, 40, 40000), 40, 40000) = Gains!Clamp(v, 40, 40000)
      BY <2>1, ClampOnce
    <2> QED
      BY <2>2 DEF v
  <1>3. gain \in Int /\ Gains!Clamp(gain, -2400, 2400) = gain
    <2> DEFINE v == b.gain
    <2>1. v \in Int
      BY <1>1
    <2> HIDE DEF v
    <2>2. Gains!Clamp(v, -2400, 2400) \in Int /\ Gains!Clamp(Gains!Clamp(v, -2400, 2400), -2400, 2400) = Gains!Clamp(v, -2400, 2400)
      BY <2>1, ClampOnce
    <2> QED
      BY <2>2 DEF v
  <1>4. q \in Int /\ Gains!Clamp(q, 10, 1800) = q
    <2> DEFINE v == b.q
    <2>1. v \in Int
      BY <1>1
    <2> HIDE DEF v
    <2>2. Gains!Clamp(v, 10, 1800) \in Int /\ Gains!Clamp(Gains!Clamp(v, 10, 1800), 10, 1800) = Gains!Clamp(v, 10, 1800)
      BY <2>1, ClampOnce
    <2> QED
      BY <2>2 DEF v
  <1> HIDE DEF freq, gain, q
  <1>5. c = [b EXCEPT !.freq = freq, !.gain = gain, !.q = q]
    BY DEF Gains!ClampBand, freq, gain, q
  <1>6. c \in Band /\ c.freq = freq /\ c.gain = gain /\ c.q = q /\ c.enabled = b.enabled /\ c.type = b.type
    <2> HIDE DEF c
    <2>1. freq \in Int /\ gain \in Int /\ q \in Int
      BY <1>2, <1>3, <1>4
    <2>2. c \in Band
      BY <1>5, <2>1 DEF Band
    <2>3. c.freq = freq /\ c.gain = gain /\ c.q = q
      BY <1>5, <2>1 DEF Band
    <2>4. c.type = b.type /\ c.enabled = b.enabled
      BY <1>5, <2>1 DEF Band
    <2> QED
      BY <2>2, <2>3, <2>4
  <1>7. Gains!ClampBand(c) = c
    <2> HIDE DEF c
    <2>1. Gains!ClampBand(c) = [c EXCEPT !.freq = Gains!Clamp(c.freq, 40, 40000), !.gain = Gains!Clamp(c.gain, -2400, 2400),
                                         !.q = Gains!Clamp(c.q, 10, 1800)]
      BY DEF Gains!ClampBand
    <2>2. Gains!Clamp(c.freq, 40, 40000) = c.freq /\ Gains!Clamp(c.gain, -2400, 2400) = c.gain /\ Gains!Clamp(c.q, 10, 1800) = c.q
      BY <1>2, <1>3, <1>4, <1>6
    <2>3. Gains!ClampBand(c) = [c EXCEPT !.freq = c.freq, !.gain = c.gain, !.q = c.q]
      <3> DEFINE x == Gains!Clamp(c.freq, 40, 40000)
                 y == Gains!Clamp(c.gain, -2400, 2400)
                 z == Gains!Clamp(c.q, 10, 1800)
      <3>1. x = c.freq /\ y = c.gain /\ z = c.q
        BY <2>2
      <3>2. Gains!ClampBand(c) = [c EXCEPT !.freq = x, !.gain = y, !.q = z]
        BY <2>1
      <3> HIDE DEF x, y, z
      <3> QED
        BY <3>1, <3>2
    <2>4. [c EXCEPT !.freq = c.freq, !.gain = c.gain, !.q = c.q] = c
      BY <1>6 DEF Band
    <2> QED
      BY <2>3, <2>4
  <1> QED
    BY <1>6, <1>7

(* The gains that clamp_to_valid_ranges() leaves of a list of them for n   *)
(* bands.                                                                  *)
Kept(gains, n) == [i \in 1..n |-> Gains!ClampGain(Gains!Resized(gains, n)[i])]

(* They are n, on the steps and within the range, and stay.                *)
LEMMA GraphicOnce ==
    ASSUME NEW n \in Nat, NEW gains \in Seq(Int)
    PROVE  /\ Kept(gains, n) \in Seq(Int) /\ DOMAIN Kept(gains, n) = 1..n
           /\ Gains!Resized(Kept(gains, n), n) = Kept(gains, n)
           /\ \A i \in 1..n : Kept(gains, n)[i] \in Int /\ Gains!ClampGain(Kept(gains, n)[i]) = Kept(gains, n)[i]
  <1> DEFINE new == Kept(gains, n)
  <1>0. new = [i \in 1..n |-> Gains!ClampGain(Gains!Resized(gains, n)[i])]
    BY DEF Kept
  <1> HIDE DEF new
  <1>1. ASSUME NEW i \in 1..n
        PROVE  new[i] \in Int /\ Gains!ClampGain(new[i]) = new[i]
    <2> DEFINE g == Gains!Resized(gains, n)[i]
    <2>1. g \in Int
      <3>1. g = IF i <= Len(gains) THEN gains[i] ELSE 0
        BY DEF Gains!Resized
      <3>2. i <= Len(gains) => gains[i] \in Int
        BY LenProperties, ElementOfSeq
      <3> QED
        BY <3>1, <3>2
    <2>2. new[i] = Gains!ClampGain(g)
      BY <1>0
    <2> HIDE DEF g
    <2> QED
      BY <2>1, <2>2, GainOnce
  <1>2. DOMAIN new = 1..n
    BY <1>0
  <1>3. new \in [1..n -> Int]
    <2>1. new = [i \in 1..n |-> new[i]]
      BY <1>0
    <2> QED
      BY <1>1, <2>1
  <1>4. new \in Seq(Int) /\ Len(new) = n
    BY <1>2, <1>3
  <1>5. Gains!Resized(new, n) = new
    BY <1>2, <1>3, <1>4 DEF Gains!Resized
  <1> QED
    BY <1>1, <1>2, <1>4, <1>5 DEF new

(* A function on 1..n is a sequence of n.                                  *)
LEMMA SequenceOf ==
    ASSUME NEW n \in Nat, NEW S, NEW f \in [1..n -> S]
    PROVE  f \in Seq(S) /\ Len(f) = n
  OBVIOUS

(* The parametric bands that clamp_to_valid_ranges() leaves stay.          *)
LEMMA ParametricOnce ==
    ASSUME NEW p \in Seq(Band)
    PROVE  /\ Gains!ClampParametric(p) \in Seq(Band)
           /\ Gains!ClampParametric(Gains!ClampParametric(p)) = Gains!ClampParametric(p)
  <1> DEFINE n == Gains!Min({Len(p), Gains!MaxParametric})
             new == [i \in 1..n |-> Gains!ClampBand(p[i])]
  <1>0. Gains!ClampParametric(p) = new
    BY DEF Gains!ClampParametric
  <1>1. Gains!MaxParametric = 10 /\ Len(p) \in Nat
    BY LenProperties DEF Gains!MaxParametric
  <1>2. n \in Nat /\ n <= Len(p) /\ n <= 10
    BY <1>1, LesserOf
  <1> HIDE DEF n
  <1>3. ASSUME NEW i \in 1..n
        PROVE  new[i] \in Band /\ Gains!ClampBand(new[i]) = new[i]
    <2>1. p[i] \in Band
      BY <1>1, <1>2, ElementOfSeq
    <2>2. new[i] = Gains!ClampBand(p[i])
      OBVIOUS
    <2> QED
      BY <2>1, <2>2, BandOnce
  <1>4. new \in [1..n -> Band]
    <2>1. new = [i \in 1..n |-> new[i]]
      OBVIOUS
    <2> QED
      BY <1>3, <2>1
  <1>5. new \in Seq(Band) /\ Len(new) = n
    BY <1>2, <1>4, SequenceOf, Zenon
  <1>6. Gains!Min({n, 10}) = n
    <2>1. \A k \in Nat : k <= 10 => Gains!Min({k, 10}) = k
      BY LesserOf
    <2> QED
      BY <1>2, <2>1, Zenon
  <1>7. Gains!ClampParametric(new) = [i \in 1..n |-> Gains!ClampBand(new[i])]
    BY <1>1, <1>5, <1>6 DEF Gains!ClampParametric
  <1>8. [i \in 1..n |-> Gains!ClampBand(new[i])] = new
    BY <1>3
  <1> HIDE DEF new
  <1> QED
    BY <1>0, <1>5, <1>7, <1>8

(* bands_for_mode() is a list of frequencies, empty for a parametric       *)
(* equalizer.                                                              *)
LEMMA BandsShape ==
    ASSUME NEW mode \in {"graphic10", "graphic18", "parametric"}
    PROVE  \E n \in Nat : /\ Gains!BandsOf(mode) \in [1..n -> Nat] /\ Len(Gains!BandsOf(mode)) = n
                          /\ DOMAIN Gains!BandsOf(mode) = 1..n
  <1>1. CASE mode = "graphic10"
    <2>1. Gains!BandsOf(mode) \in [1..10 -> Nat] /\ Len(Gains!BandsOf(mode)) = 10
      BY <1>1 DEF Gains!BandsOf
    <2> QED
      BY <2>1
  <1>2. CASE mode = "graphic18"
    <2>1. Gains!BandsOf(mode) \in [1..18 -> Nat] /\ Len(Gains!BandsOf(mode)) = 18
      BY <1>2 DEF Gains!BandsOf
    <2> QED
      BY <2>1
  <1>3. CASE mode = "parametric"
    <2>1. Gains!BandsOf(mode) \in [1..0 -> Nat] /\ Len(Gains!BandsOf(mode)) = 0
      BY <1>3 DEF Gains!BandsOf
    <2> QED
      BY <2>1
  <1> QED
    BY <1>1, <1>2, <1>3

(* EqMode                                                                  *)
EqualizerModes == {"graphic10", "graphic18", "parametric"}

(* Each field of the settings that clamp_to_valid_ranges() has brought     *)
(* into its range stays.                                                   *)
LEMMA FieldsOnce ==
    /\ \A x \in Int : Gains!ClampPreamp(x) \in Int /\ Gains!ClampPreamp(Gains!ClampPreamp(x)) = Gains!ClampPreamp(x)
    /\ \A mode \in EqualizerModes, g \in Seq(Int) :
          /\ Gains!ClampGraphic(mode, g) \in Seq(Int)
          /\ Gains!ClampGraphic(mode, Gains!ClampGraphic(mode, g)) = Gains!ClampGraphic(mode, g)
    /\ \A p \in Seq(Band) :
          /\ Gains!ClampParametric(p) \in Seq(Band)
          /\ Gains!ClampParametric(Gains!ClampParametric(p)) = Gains!ClampParametric(p)
  <1>1. ASSUME NEW x \in Int
        PROVE  Gains!ClampPreamp(x) \in Int /\ Gains!ClampPreamp(Gains!ClampPreamp(x)) = Gains!ClampPreamp(x)
    BY ClampOnce DEF Gains!ClampPreamp
  <1>2. ASSUME NEW mode \in EqualizerModes, NEW g \in Seq(Int)
        PROVE  /\ Gains!ClampGraphic(mode, g) \in Seq(Int)
               /\ Gains!ClampGraphic(mode, Gains!ClampGraphic(mode, g)) = Gains!ClampGraphic(mode, g)
    <2>1. CASE mode = "parametric"
      <3>1. \A h : Gains!ClampGraphic(mode, h) = h
        BY <2>1 DEF Gains!ClampGraphic
      <3> QED
        BY <3>1
    <2>2. CASE mode # "parametric"
      <3> DEFINE n == Len(Gains!BandsOf(mode))
                 new == Kept(g, n)
      <3>1. \A h : Gains!ClampGraphic(mode, h) = Kept(h, n)
        BY <2>2 DEF Gains!ClampGraphic, Kept
      <3>2. n \in Nat
        BY BandsShape DEF EqualizerModes
      <3> HIDE DEF n
      <3>3. /\ new \in Seq(Int) /\ Gains!Resized(new, n) = new /\ DOMAIN new = 1..n
            /\ \A i \in 1..n : Gains!ClampGain(new[i]) = new[i]
        BY <3>2, GraphicOnce
      <3> HIDE DEF new
      <3>4. Kept(new, n) = new
        <4>1. Kept(new, n) = [i \in 1..n |-> new[i]]
          BY <3>3 DEF Kept
        <4> QED
          BY <3>3, <4>1, SeqEqual
      <3> QED
        BY <3>1, <3>3, <3>4, Zenon DEF new
    <2> QED
      BY <2>1, <2>2
  <1> QED
    BY <1>1, <1>2, ParametricOnce, Zenon

(* EqSettings as a file or a dialog may give them: any numbers and any     *)
(* number of gains and bands.                                              *)
Settings == [enabled : BOOLEAN, mode : EqualizerModes, preamp : Int, graphic : Seq(Int), parametric : Seq(Band)]

(* The fields of settings.                                                 *)
LEMMA SettingsFields ==
    ASSUME NEW s \in Settings
    PROVE  /\ s.mode \in EqualizerModes /\ s.preamp \in Int /\ s.graphic \in Seq(Int) /\ s.parametric \in Seq(Band)
           /\ s.enabled \in BOOLEAN
  BY DEF Settings

(* Settings with another preamp, other gains and other bands.              *)
With(s, x, g, p) == [s EXCEPT !.preamp = x, !.graphic = g, !.parametric = p]

(* What was set is there, and setting it again changes nothing.            *)
LEMMA SettingsSet ==
    ASSUME NEW s \in Settings, NEW x \in Int, NEW g \in Seq(Int), NEW p \in Seq(Band)
    PROVE  /\ With(s, x, g, p) \in Settings
           /\ With(s, x, g, p).preamp = x /\ With(s, x, g, p).graphic = g /\ With(s, x, g, p).parametric = p
           /\ With(s, x, g, p).mode = s.mode /\ With(s, x, g, p).enabled = s.enabled
           /\ With(With(s, x, g, p), x, g, p) = With(s, x, g, p)
  <1> DEFINE c == With(s, x, g, p)
  <1>0. c = [s EXCEPT !.preamp = x, !.graphic = g, !.parametric = p]
    BY DEF With
  <1> HIDE DEF c
  <1>1. c \in Settings
    BY <1>0 DEF Settings
  <1>2. c.preamp = x
    BY <1>0 DEF Settings
  <1>3. c.graphic = g
    BY <1>0 DEF Settings
  <1>4. c.parametric = p
    BY <1>0 DEF Settings
  <1>5. c.mode = s.mode /\ c.enabled = s.enabled
    BY <1>0 DEF Settings
  <1>6. With(c, x, g, p) = c
    BY <1>0 DEF Settings, With
  <1> QED
    BY <1>1, <1>2, <1>3, <1>4, <1>5, <1>6 DEF c

(* Settings that clamp_to_valid_ranges() has seen: field by field what it  *)
(* makes of them, and settings that it leaves as they are.                 *)
LEMMA Clamped ==
    ASSUME NEW s \in Settings, NEW c, c = Gains!ClampSettings(s)
    PROVE  /\ c \in Settings /\ c.mode = s.mode /\ c.enabled = s.enabled
           /\ c.preamp = Gains!ClampPreamp(s.preamp) /\ c.graphic = Gains!ClampGraphic(s.mode, s.graphic)
           /\ c.parametric = Gains!ClampParametric(s.parametric)
           /\ Gains!ClampSettings(c) = c
  <1> DEFINE x == Gains!ClampPreamp(s.preamp)
             g == Gains!ClampGraphic(s.mode, s.graphic)
             p == Gains!ClampParametric(s.parametric)
  <1>1. /\ x \in Int /\ Gains!ClampPreamp(x) = x
        /\ g \in Seq(Int) /\ Gains!ClampGraphic(s.mode, g) = g
        /\ p \in Seq(Band) /\ Gains!ClampParametric(p) = p
    BY SettingsFields, FieldsOnce, Zenon
  <1>2. c = With(s, x, g, p)
    BY DEF Gains!ClampSettings, With
  <1> HIDE DEF x, g, p
  <1>3. /\ c \in Settings /\ c.preamp = x /\ c.graphic = g /\ c.parametric = p
        /\ c.mode = s.mode /\ c.enabled = s.enabled
        /\ With(c, x, g, p) = c
    BY <1>1, <1>2, SettingsSet
  <1>4. Gains!ClampSettings(c) = With(c, x, g, p)
    <2> DEFINE X == Gains!ClampPreamp(c.preamp)
               G == Gains!ClampGraphic(c.mode, c.graphic)
               P == Gains!ClampParametric(c.parametric)
    <2>1. X = x /\ G = g /\ P = p
      BY <1>1, <1>3
    <2>2. Gains!ClampSettings(c) = With(c, X, G, P)
      BY DEF Gains!ClampSettings, With
    <2> HIDE DEF X, G, P
    <2> QED
      BY <2>1, <2>2
  <1> QED
    BY <1>3, <1>4 DEF x, g, p

(* For any settings: clamp_to_valid_ranges() leaves nothing that a second  *)
(* call would change, so what the dialog shows after a load is what a      *)
(* save writes.                                                            *)
THEOREM SettingsClampOnce ==
    ASSUME NEW s \in Settings
    PROVE  Gains!ClampSettings(Gains!ClampSettings(s)) = Gains!ClampSettings(s)
  BY Clamped

(* A peaking band is no filter if and only if its gain is nothing, or it   *)
(* is too near half the sample rate.                                       *)
LEMMA Designs ==
    ASSUME NEW f, NEW rate \in Nat, NEW q, NEW g
    PROVE  /\ g = 0 => Gains!Design("peaking", f, rate, q, g) = Gains!Identity
           /\ Gains!Design("peaking", f, rate, q, g) = Gains!Identity => g = 0 \/ 100 * f >= 95 * rate
  <1>1. g = 0 => Gains!Design("peaking", f, rate, q, g) = Gains!Identity
    BY DEF Gains!Design, Gains!GainBearing
  <1>2. [type |-> "peaking", freq |-> f, q |-> q, gain |-> g].type = "peaking" /\ Gains!Identity.type = "identity"
    BY DEF Gains!Identity
  <1>3. g # 0 /\ ~(100 * f >= 95 * rate) =>
            Gains!Design("peaking", f, rate, q, g) = [type |-> "peaking", freq |-> f, q |-> q, gain |-> g]
    BY DEF Gains!Design
  <1>4. "peaking" # "identity"
    OBVIOUS
  <1> HIDE DEF Gains!Identity
  <1> QED
    BY <1>1, <1>2, <1>3, <1>4

(* For any settings of a graphic equalizer, with any gains and any number  *)
(* of them, at any rate: what configure() runs is what it would run had    *)
(* the settings been clamped first, settings that do nothing are           *)
(* bypassed, and what is bypassed does nothing but in bands too near half  *)
(* the rate. The parametric mode picks the bands that are on by a          *)
(* recursion.                                                              *)
THEOREM GraphicSettingsAgree ==
    ASSUME NEW s \in Settings, s.mode # "parametric", NEW rate \in Nat \ {0}
    PROVE  Gains!SettingsAgree(s, rate)
  <1> DEFINE c == Gains!ClampSettings(s)
             f == Gains!BandsOf(s.mode)
             n == Len(f)
             q == Gains!SpacingQ(s.mode)
             g == c.graphic
             B == [i \in 1..n |-> Gains!Design("peaking", f[i], rate, q, g[i])]
             bypassed == ~s.enabled \/ (c.preamp = 0 /\ \A i \in DOMAIN B : B[i] = Gains!Identity)
             run == [ok |-> TRUE, preamp |-> c.preamp, bands |-> B, bypassed |-> bypassed]
  <1>1. /\ c.mode = s.mode /\ c.enabled = s.enabled
        /\ c.preamp = Gains!ClampPreamp(s.preamp) /\ g = Gains!ClampGraphic(s.mode, s.graphic)
        /\ Gains!ClampSettings(c) = c
    <2> HIDE DEF c
    <2> QED
      BY Clamped DEF c
  <1>2. Gains!ClampPreamp(c.preamp) = c.preamp
    BY <1>1, SettingsFields, FieldsOnce
  <1>3. n \in Nat /\ DOMAIN f = 1..n /\ \A i \in 1..n : f[i] \in Nat
    BY SettingsFields, BandsShape DEF EqualizerModes
  <1> HIDE DEF c, f, n, q
  <1>4. g = [i \in 1..n |-> Gains!ClampGain(Gains!Resized(s.graphic, n)[i])]
    BY <1>1 DEF Gains!ClampGraphic, f, n
  <1>5. /\ DOMAIN g = 1..n /\ Gains!Resized(g, n) = g
        /\ \A i \in 1..n : g[i] \in Int /\ Gains!ClampGain(g[i]) = g[i]
    <2>1. s.graphic \in Seq(Int)
      BY SettingsFields
    <2>2. g = Kept(s.graphic, n)
      BY <1>4 DEF Kept
    <2> HIDE DEF g
    <2> QED
      BY <1>3, <2>1, <2>2, GraphicOnce, Zenon
  <1>6. Gains!Designed(s, rate) = B
    <2>1. Gains!Designed(s, rate) =
            [i \in 1..n |-> Gains!Design("peaking", f[i], rate, q, Gains!ClampGain(Gains!Resized(s.graphic, n)[i]))]
      BY <1>3 DEF Gains!Designed, f, n, q
    <2>2. \A i \in 1..n : g[i] = Gains!ClampGain(Gains!Resized(s.graphic, n)[i])
      BY <1>4
    <2> QED
      BY <2>1, <2>2
  <1>7. Gains!Designed(c, rate) = B
    <2>1. Gains!Designed(c, rate) =
            [i \in 1..n |-> Gains!Design("peaking", f[i], rate, q, Gains!ClampGain(Gains!Resized(g, n)[i]))]
      BY <1>1, <1>3 DEF Gains!Designed, f, n, q
    <2>2. \A i \in 1..n : g[i] = Gains!ClampGain(Gains!Resized(g, n)[i])
      BY <1>5
    <2> QED
      BY <2>1, <2>2
  <1>8. Gains!ConfigureEq(s, 2, rate) = run /\ Gains!ConfigureEq(c, 2, rate) = run
    <2> HIDE DEF B
    <2>1. Gains!Clamp(s.preamp, -1200, 1200) = c.preamp /\ Gains!Clamp(c.preamp, -1200, 1200) = c.preamp
      BY <1>1, <1>2 DEF Gains!ClampPreamp
    <2>2. 2 # 0 /\ ~(rate <= 0)
      OBVIOUS
    <2> DEFINE Run(on, preamp, bands) ==
                 [ok |-> TRUE, preamp |-> preamp, bands |-> bands,
                  bypassed |-> ~on \/ (preamp = 0 /\ \A i \in DOMAIN bands : bands[i] = Gains!Identity)]
    <2>3. \A x : Gains!ConfigureEq(x, 2, rate) =
                   Run(x.enabled, Gains!Clamp(x.preamp, -1200, 1200), Gains!Designed(x, rate))
      BY <2>2 DEF Gains!ConfigureEq
    <2>4. run = Run(s.enabled, c.preamp, B)
      OBVIOUS
    <2> HIDE DEF Run, run
    <2>5. Gains!ConfigureEq(s, 2, rate) = run /\ Gains!ConfigureEq(c, 2, rate) = run
      BY <1>1, <1>6, <1>7, <2>1, <2>3, <2>4
    <2> QED
      BY <2>5
  <1>9. DOMAIN B = 1..n /\ \A i \in 1..n : /\ g[i] = 0 => B[i] = Gains!Identity
                                           /\ B[i] = Gains!Identity => g[i] = 0 \/ 100 * f[i] >= 95 * rate
    BY Designs
  <1>10. Gains!IsNeutral(c) <=> ~s.enabled \/ (c.preamp = 0 /\ \A i \in 1..n : g[i] = 0)
    BY <1>1, <1>5 DEF Gains!IsNeutral
  <1>11. run.bypassed = bypassed
    OBVIOUS
  <1> HIDE DEF B
  <1>12. Gains!IsNeutral(c) => run.bypassed
    BY <1>9, <1>10, <1>11
  <1>13. run.bypassed => Gains!IsNeutral(c) \/ \E i \in DOMAIN g : g[i] # 0 /\ 100 * f[i] >= 95 * rate
    BY <1>5, <1>9, <1>10, <1>11
  <1> HIDE DEF run, bypassed, g
  <1>14. /\ Gains!ClampSettings(c) = c
         /\ Gains!ConfigureEq(s, 2, rate) = Gains!ConfigureEq(c, 2, rate)
         /\ Gains!IsNeutral(c) => Gains!ConfigureEq(s, 2, rate).bypassed
         /\ Gains!ConfigureEq(c, 2, rate).bypassed =>
              Gains!IsNeutral(c) \/ \E i \in DOMAIN g : g[i] # 0 /\ 100 * Gains!BandsOf(c.mode)[i] >= 95 * rate
    BY <1>1, <1>8, <1>12, <1>13 DEF f
  <1> QED
    BY <1>14 DEF Gains!SettingsAgree, c, g
==============================================================================
