-------------------------- MODULE RadioClientProofs --------------------------
(***************************************************************************)
(* Proofs about the radio client, for any stations, any number of threads  *)
(* that close, pause and resume, and answers of any length.                *)
(***************************************************************************)
EXTENDS RadioClient, SequenceTheorems, TLAPS

-----------------------------------------------------------------------------
(* Audio with blocks between                                               *)

(* Between two units of audio is one block; skipping a unit and its block  *)
(* leaves an answer of one unit less.                                      *)
LEMMA SkipUnit ==
    ASSUME NEW k \in Nat \ {0}
    PROVE  /\ Blocks(k) # <<>>
           /\ SubSeq(Blocks(k), 3, Len(Blocks(k))) = Blocks(k - 1)
           /\ Len(Blocks(k)) > 1 => Blocks(k)[2] # "audio"
  <1> DEFINE s == Blocks(k)
             n == 2 * k - 1
             rest == SubSeq(s, 3, Len(s))
  <1>1. n \in Nat \ {0} /\ n - 2 = 2 * (k - 1) - 1 /\ k - 1 \in Nat
    OBVIOUS
  <1>2. /\ s \in Seq({"audio", "meta"}) /\ Len(s) = n
        /\ \A i \in 1..n : s[i] = IF i % 2 = 1 THEN "audio" ELSE "meta"
    <2>1. s = [i \in 1..n |-> IF i % 2 = 1 THEN "audio" ELSE "meta"]
      BY DEF Blocks
    <2> HIDE DEF s, n
    <2> QED
      BY <1>1, <2>1
  <1>3. Len(s) > 1 => s[2] # "audio"
    <2>1. Len(s) > 1 => 2 \in 1..n
      BY <1>1, <1>2
    <2>2. 2 % 2 # 1
      OBVIOUS
    <2> QED
      BY <1>2, <2>1, <2>2
  <1>4. rest = Blocks(k - 1)
    <2> DEFINE t == [i \in 1 .. n - 2 |-> IF i % 2 = 1 THEN "audio" ELSE "meta"]
    <2>1. t = Blocks(k - 1)
      BY <1>1 DEF Blocks
    <2>2. \A i \in 3 .. n : s[i] \in {"audio", "meta"}
      BY <1>1, <1>2
    <2>3. /\ rest \in Seq({"audio", "meta"})
          /\ Len(rest) = IF 3 <= n THEN n - 3 + 1 ELSE 0
          /\ \A i \in 1 .. n - 3 + 1 : rest[i] = s[3 + i - 1]
      <3>1. 3 \in Int /\ n \in Int
        BY <1>1
      <3> HIDE DEF s
      <3> QED
        BY <1>2, <2>2, <3>1, SubSeqProperties
    <2>4. \A i \in 1 .. n - 2 : /\ i + 2 \in 1..n /\ 3 + i - 1 = i + 2
                                /\ (i + 2) % 2 = i % 2
      BY <1>1
    <2>5. DOMAIN rest = 1 .. n - 2
      <3>1. DOMAIN rest = 1 .. Len(rest)
        BY <2>3
      <3>2. CASE 3 <= n
        BY <1>1, <2>3, <3>1, <3>2
      <3>3. CASE ~(3 <= n)
        <4>1. 1 .. 0 = {} /\ 1 .. n - 2 = {}
          BY <1>1, <3>3
        <4> QED
          BY <2>3, <3>1, <3>3, <4>1
      <3> QED
        BY <3>2, <3>3
    <2>6. \A i \in 1 .. n - 2 : rest[i] = t[i]
      <3> SUFFICES ASSUME NEW i \in 1 .. n - 2 PROVE rest[i] = t[i]
        OBVIOUS
      <3>1. i \in 1 .. n - 3 + 1
        BY <1>1
      <3>2. rest[i] = s[i + 2]
        BY <2>3, <2>4, <3>1
      <3>3. s[i + 2] = IF i % 2 = 1 THEN "audio" ELSE "meta"
        BY <1>2, <2>4
      <3> QED
        BY <3>2, <3>3
    <2>7. rest = [i \in 1 .. n - 2 |-> rest[i]]
      BY <2>3, <2>5
    <2> HIDE DEF rest, s
    <2> QED
      BY <2>1, <2>6, <2>7
  <1> QED
    BY <1>1, <1>2, <1>3, <1>4

LEMMA WholeLength == ASSUME NEW n \in Nat PROVE Len(Audio(n)) = n
  BY DEF Audio

-----------------------------------------------------------------------------
(* The invariant                                                           *)

TypeOK ==
    /\ pc \in {"idle", "connect", "send", "check", "reconnect", "playlist", "headers",
               "buffer", "demux", "whole", "play"}
    /\ call \in [Controller -> {"none", "close", "clear", "cancel", "idle", "pause",
                                "pauseSets", "resume", "resumeSets"}]
    /\ delivered \in Nat /\ expected \in Nat
    /\ cancelled \in BOOLEAN /\ active \in BOOLEAN /\ metaint \in BOOLEAN
    /\ stale \in BOOLEAN /\ closed \in BOOLEAN /\ closedFirst \in BOOLEAN
    /\ touched \in BOOLEAN /\ badPlaylist \in BOOLEAN

(* Since open() began: whoever finds the client inactive, has closed it or *)
(* is about to say so, the token is cancelled or about to be.              *)
Cancelling == cancelled \/ \E c \in Controller : call[c] = "cancel"
CancelInv ==
    pc # "idle" \/ result # "none" =>
        /\ ~active => Cancelling
        /\ closed => Cancelling
        /\ (\E c \in Controller : call[c] = "idle") => Cancelling

(* Until the answer is looked at nothing has been heard.                   *)
SilentInv ==
    /\ pc \in {"connect", "send", "check", "playlist", "headers", "buffer", "whole"}
            => delivered = 0
    /\ pc # "idle" => ~closedFirst
    /\ closedFirst => delivered = 0

(* What the state is while nobody interferes.                              *)
StateInv ==
    /\ ~touched => ~cancelled /\ \A c \in Controller : call[c] = "none"
    /\ pc # "idle" => ~badPlaylist
    /\ ~touched /\ pc \in {"send", "check", "playlist", "headers"} => state = "Connecting"
    /\ ResultTellsState

(* What of the answer is still to be heard.                                *)
AudioInv ==
    /\ pc \in {"connect", "send", "check", "playlist", "headers"} => expected = 0
    /\ pc = "buffer" /\ ~metaint => body = Audio(expected)
    /\ pc = "buffer" /\ metaint /\ ~stale => body = Blocks(expected)
    /\ pc = "whole" => body = Audio(expected)
    /\ pc = "demux" /\ ~stale =>
            \E k \in Nat : body = Blocks(k) /\ delivered + k = expected
    /\ pc = "play" => cancelled \/ stale \/ delivered = expected
    /\ WholeAudioHeard

(* The inductive invariant.                                                *)
RadioInv == TypeOK /\ CancelInv /\ SilentInv /\ StateInv /\ AudioInv

(* open() begins anew.                                                     *)
LEMMA OpenKeeps == ASSUME RadioInv, NEW s, Open(s) PROVE RadioInv'
  <1> USE DEF RadioInv, Open
  <1>1. TypeOK'
    BY DEF TypeOK
  <1>2. CancelInv'
    BY DEF CancelInv, NoneClosing
  <1>3. SilentInv'
    BY DEF SilentInv
  <1>4. StateInv'
    BY DEF StateInv, ResultTellsState
  <1>5. AudioInv'
    BY DEF AudioInv, WholeAudioHeard
  <1> QED
    BY <1>1, <1>2, <1>3, <1>4, <1>5

(* The worker connects and looks at the answer.                            *)
LEMMA ConnectKeeps ==
    ASSUME RadioInv,
           Connect \/ Send \/ CheckCancelled \/ CheckAnswer \/ ScheduleReconnect
               \/ PlaylistParses \/ PlaylistIsBad
    PROVE  RadioInv'
  <1> USE DEF RadioInv
  <1>1. CASE Connect
    <2> USE <1>1 DEF Connect, clientVars, openVars, history
    <2>1. TypeOK'
      BY DEF TypeOK
    <2>2. CancelInv'
      BY DEF CancelInv, Cancelling
    <2>3. SilentInv'
      BY DEF SilentInv
    <2>4. StateInv'
      BY DEF StateInv, ResultTellsState
    <2>5. AudioInv'
      BY DEF AudioInv, WholeAudioHeard
    <2> QED
      BY <2>1, <2>2, <2>3, <2>4, <2>5
  <1>2. CASE Send
    <2> USE <1>2 DEF Send, clientVars, openVars, history
    <2>1. TypeOK'
      BY DEF TypeOK
    <2>2. CancelInv'
      BY DEF CancelInv, Cancelling
    <2>3. SilentInv'
      BY DEF SilentInv
    <2>4. StateInv'
      BY DEF StateInv, ResultTellsState
    <2>5. AudioInv'
      BY DEF AudioInv, WholeAudioHeard
    <2> QED
      BY <2>1, <2>2, <2>3, <2>4, <2>5
  <1>3. CASE CheckCancelled
    <2> USE <1>3 DEF CheckCancelled, Return, clientVars, openVars, history
    <2>1. TypeOK'
      BY DEF TypeOK
    <2>2. CancelInv'
      BY DEF CancelInv, Cancelling
    <2>3. SilentInv'
      BY DEF SilentInv
    <2>4. StateInv'
      BY DEF StateInv, ResultTellsState
    <2>5. AudioInv'
      BY DEF AudioInv, WholeAudioHeard
    <2> QED
      BY <2>1, <2>2, <2>3, <2>4, <2>5
  <1>4. CASE CheckAnswer
    <2> USE <1>4 DEF CheckAnswer, NextAfterAnswer, clientVars, openVars, history
    <2>1. TypeOK'
      BY DEF TypeOK
    <2>2. CancelInv'
      BY DEF CancelInv, Cancelling
    <2>3. SilentInv'
      <3>1. ~closedFirst'
        BY DEF CancelInv, Cancelling, NoneClosing
      <3> QED
        BY <3>1 DEF SilentInv
    <2>4. StateInv'
      BY DEF StateInv, ResultTellsState
    <2>5. AudioInv'
      BY DEF AudioInv, WholeAudioHeard
    <2> QED
      BY <2>1, <2>2, <2>3, <2>4, <2>5
  <1>5. CASE ScheduleReconnect
    <2> USE <1>5 DEF ScheduleReconnect, Return, clientVars, openVars, history
    <2>1. TypeOK'
      BY DEF TypeOK
    <2>2. CancelInv'
      BY DEF CancelInv, Cancelling
    <2>3. SilentInv'
      BY DEF SilentInv
    <2>4. StateInv'
      BY DEF StateInv, ResultTellsState
    <2>5. AudioInv'
      BY DEF AudioInv, WholeAudioHeard
    <2> QED
      BY <2>1, <2>2, <2>3, <2>4, <2>5
  <1>6. CASE PlaylistParses
    <2> USE <1>6 DEF PlaylistParses, clientVars, openVars, history
    <2>1. TypeOK'
      BY DEF TypeOK
    <2>2. CancelInv'
      BY DEF CancelInv, Cancelling
    <2>3. SilentInv'
      BY DEF SilentInv
    <2>4. StateInv'
      BY DEF StateInv, ResultTellsState
    <2>5. AudioInv'
      BY DEF AudioInv, WholeAudioHeard, SilentInv
    <2> QED
      BY <2>1, <2>2, <2>3, <2>4, <2>5
  <1>7. CASE PlaylistIsBad
    <2> USE <1>7 DEF PlaylistIsBad, Return, clientVars, openVars, history
    <2>1. TypeOK'
      BY DEF TypeOK
    <2>2. CancelInv'
      BY DEF CancelInv, Cancelling
    <2>3. SilentInv'
      BY DEF SilentInv
    <2>4. StateInv'
      BY DEF StateInv, ResultTellsState
    <2>5. AudioInv'
      BY DEF AudioInv, WholeAudioHeard
    <2> QED
      BY <2>1, <2>2, <2>3, <2>4, <2>5
  <1> QED
    BY <1>1, <1>2, <1>3, <1>4, <1>5, <1>6, <1>7

(* The worker takes the answer apart.                                      *)
LEMMA PlayKeeps ==
    ASSUME MaxUnits \in Nat, RadioInv,
           ReadHeaders \/ Buffer \/ DeliverWhole \/ Demux \/ DemuxEnds \/ Play
    PROVE  RadioInv'
  <1> USE DEF RadioInv
  <1>1. CASE ReadHeaders
    <2> USE <1>1 DEF ReadHeaders, clientVars, openVars, history
    <2>1. TypeOK'
      BY DEF TypeOK
    <2>2. CancelInv'
      BY DEF CancelInv, Cancelling
    <2>3. SilentInv'
      BY DEF SilentInv
    <2>4. StateInv'
      BY DEF StateInv, ResultTellsState
    <2>5. AudioInv'
      BY DEF AudioInv, WholeAudioHeard
    <2> QED
      BY <2>1, <2>2, <2>3, <2>4, <2>5
  <1>2. CASE Buffer
    <2> USE <1>2 DEF Buffer, clientVars, openVars, history
    <2>1. TypeOK'
      BY DEF TypeOK
    <2>2. CancelInv'
      BY DEF CancelInv, Cancelling
    <2>3. SilentInv'
      BY DEF SilentInv
    <2>4. StateInv'
      BY DEF StateInv, ResultTellsState
    <2>5. AudioInv'
      <3>1. pc' = "demux" /\ ~stale' =>
                \E k \in Nat : body' = Blocks(k) /\ delivered' + k = expected'
        BY DEF AudioInv, SilentInv, TypeOK
      <3> QED
        BY <3>1 DEF AudioInv, WholeAudioHeard
    <2> QED
      BY <2>1, <2>2, <2>3, <2>4, <2>5
  <1>3. CASE DeliverWhole
    <2> USE <1>3 DEF DeliverWhole, clientVars, openVars, history
    <2>1. TypeOK'
      <3>1. Len(body) = expected
        BY WholeLength DEF AudioInv, TypeOK
      <3> QED
        BY <3>1 DEF TypeOK
    <2>2. CancelInv'
      BY DEF CancelInv, Cancelling
    <2>3. SilentInv'
      BY DEF SilentInv
    <2>4. StateInv'
      BY DEF StateInv, ResultTellsState
    <2>5. AudioInv'
      <3>1. Len(body) = expected /\ delivered = 0
        BY WholeLength DEF AudioInv, SilentInv, TypeOK
      <3> QED
        BY <3>1 DEF AudioInv, WholeAudioHeard, TypeOK
    <2> QED
      BY <2>1, <2>2, <2>3, <2>4, <2>5
  <1>4. CASE Demux
    <2> USE <1>4 DEF Demux, clientVars, openVars, history
    <2>1. TypeOK'
      BY DEF TypeOK
    <2>2. CancelInv'
      BY DEF CancelInv, Cancelling
    <2>3. SilentInv'
      BY DEF SilentInv
    <2>4. StateInv'
      BY DEF StateInv, ResultTellsState
    <2>5. AudioInv'
      <3>1. ASSUME ~stale
            PROVE  \E k \in Nat : body' = Blocks(k) /\ delivered' + k = expected'
        <4>1. PICK k \in Nat : body = Blocks(k) /\ delivered + k = expected
          BY <3>1 DEF AudioInv
        <4>2. k # 0
          BY <4>1 DEF Blocks
        <4>3. /\ SubSeq(body, 3, Len(body)) = Blocks(k - 1)
              /\ Len(body) > 1 => body[2] # "audio"
          BY <4>1, <4>2, SkipUnit
        <4>4. body' = Blocks(k - 1) /\ delivered' = delivered + 1 /\ expected' = expected
          BY <4>3
        <4>5. k - 1 \in Nat /\ (delivered + 1) + (k - 1) = expected
          BY <4>1, <4>2 DEF TypeOK
        <4> QED
          BY <4>4, <4>5
      <3> QED
        BY <3>1 DEF AudioInv, WholeAudioHeard
    <2> QED
      BY <2>1, <2>2, <2>3, <2>4, <2>5
  <1>5. CASE DemuxEnds
    <2> USE <1>5 DEF DemuxEnds, clientVars, openVars, history
    <2>1. TypeOK'
      BY DEF TypeOK
    <2>2. CancelInv'
      BY DEF CancelInv, Cancelling
    <2>3. SilentInv'
      BY DEF SilentInv
    <2>4. StateInv'
      BY DEF StateInv, ResultTellsState
    <2>5. AudioInv'
      <3>1. ASSUME ~stale, ~cancelled
            PROVE  delivered = expected
        <4>1. PICK k \in Nat : body = Blocks(k) /\ delivered + k = expected
          BY <3>1 DEF AudioInv
        <4>2. k = 0
          BY <3>1, <4>1, SkipUnit
        <4> QED
          BY <4>1, <4>2 DEF TypeOK
      <3> QED
        BY <3>1 DEF AudioInv, WholeAudioHeard
    <2> QED
      BY <2>1, <2>2, <2>3, <2>4, <2>5
  <1>6. CASE Play
    <2> USE <1>6 DEF Play, Return, clientVars, openVars, history
    <2>1. TypeOK'
      BY DEF TypeOK
    <2>2. CancelInv'
      BY DEF CancelInv, Cancelling
    <2>3. SilentInv'
      BY DEF SilentInv
    <2>4. StateInv'
      BY DEF StateInv, ResultTellsState
    <2>5. AudioInv'
      BY DEF AudioInv, WholeAudioHeard
    <2> QED
      BY <2>1, <2>2, <2>3, <2>4, <2>5
  <1> QED
    BY <1>1, <1>2, <1>3, <1>4, <1>5, <1>6

(* The other threads: the token is cancelled by the time the last close()  *)
(* has returned.                                                           *)
LEMMA CallKeeps ==
    ASSUME RadioInv, NEW c \in Controller,
           (\E place \in {"close", "pause", "resume"} : Begin(c, place)) \/ ControllerStep(c)
    PROVE  RadioInv'
  <1> USE DEF RadioInv, Goto
  <1>1. UNCHANGED <<pc, result, body, delivered, expected, stale, metaint, closedFirst,
                    badPlaylist>>
    BY DEF Begin, ControllerStep, CloseLooks, CloseClears, CloseCancels, CloseReturns,
           SwapLooks, SwapSets, clientVars, openVars, history
  <1>2. SilentInv'
    BY <1>1 DEF SilentInv
  <1>3. cancelled => cancelled'
    BY DEF Begin, ControllerStep, CloseLooks, CloseClears, CloseCancels, CloseReturns,
           SwapLooks, SwapSets, clientVars, openVars, history
  <1>4. AudioInv'
    BY <1>1, <1>3 DEF AudioInv, WholeAudioHeard
  <1>5. CASE \E place \in {"close", "pause", "resume"} : Begin(c, place)
    <2>1. PICK place \in {"close", "pause", "resume"} : Begin(c, place)
      BY <1>5
    <2>2. /\ call' = [call EXCEPT ![c] = place] /\ call[c] = "none" /\ touched' = TRUE
          /\ UNCHANGED <<active, closed, cancelled>>
      BY <2>1 DEF Begin, clientVars
    <2>3. TypeOK'
      BY <1>1, <2>2 DEF TypeOK
    <2>4. CancelInv'
      BY <1>1, <2>2 DEF CancelInv, Cancelling, TypeOK
    <2>5. StateInv'
      BY <1>1, <2>2 DEF StateInv, ResultTellsState
    <2> QED
      BY <1>2, <1>4, <2>3, <2>4, <2>5
  <1>6. CASE ControllerStep(c)
    <2>1. touched' = touched /\ touched
      BY <1>6 DEF ControllerStep, CloseLooks, CloseClears, CloseCancels, CloseReturns,
                  SwapLooks, SwapSets, history, StateInv
    <2>2. StateInv'
      BY <1>1, <2>1 DEF StateInv, ResultTellsState
    <2>3. TypeOK'
      <3>1. \E place \in {"none", "clear", "cancel", "idle", "pauseSets", "resumeSets"} :
                call' = [call EXCEPT ![c] = place]
        BY <1>6 DEF ControllerStep, CloseLooks, CloseClears, CloseCancels, CloseReturns,
                    SwapLooks, SwapSets
      <3>2. cancelled' \in BOOLEAN /\ active' \in BOOLEAN /\ closed' \in BOOLEAN
        BY <1>6 DEF TypeOK, ControllerStep, CloseLooks, CloseClears, CloseCancels,
                    CloseReturns, SwapLooks, SwapSets, clientVars, history
      <3> QED
        BY <1>1, <2>1, <3>1, <3>2 DEF TypeOK
    <2>4. CancelInv'
      <3>1. CASE CloseLooks(c)
        BY <1>1, <3>1 DEF CloseLooks, CancelInv, Cancelling, TypeOK, clientVars, history
      <3>2. CASE CloseClears(c)
        BY <1>1, <3>2 DEF CloseClears, CancelInv, Cancelling, TypeOK, history
      <3>3. CASE CloseCancels(c)
        BY <1>1, <3>3 DEF CloseCancels, CancelInv, Cancelling, TypeOK, history
      <3>4. CASE CloseReturns(c)
        BY <1>1, <3>4 DEF CloseReturns, CancelInv, Cancelling, TypeOK
      <3>5. CASE \/ SwapLooks(c, "pause", "Playing", "pauseSets")
                 \/ SwapLooks(c, "resume", "Paused", "resumeSets")
        BY <1>1, <3>5 DEF SwapLooks, CancelInv, Cancelling, TypeOK, clientVars, history
      <3>6. CASE \/ SwapSets(c, "pauseSets", "Paused") \/ SwapSets(c, "resumeSets", "Playing")
        BY <1>1, <3>6 DEF SwapSets, CancelInv, Cancelling, TypeOK, history
      <3> QED
        BY <1>6, <3>1, <3>2, <3>3, <3>4, <3>5, <3>6 DEF ControllerStep
    <2> QED
      BY <1>2, <1>4, <2>2, <2>3, <2>4
  <1> QED
    BY <1>5, <1>6

LEMMA RadioInductive ==
    ASSUME MaxUnits \in Nat PROVE RadioInv /\ [Next]_vars => RadioInv'
  <1> SUFFICES ASSUME RadioInv, [Next]_vars PROVE RadioInv'
    OBVIOUS
  <1>1. CASE (\E s \in Station : UserOpens(s)) \/ TimerOpens
    BY <1>1, OpenKeeps DEF UserOpens, TimerOpens
  <1>2. CASE WorkerStep
    BY <1>2, ConnectKeeps, PlayKeeps DEF WorkerStep
  <1>3. CASE \E c \in Controller : \/ \E place \in {"close", "pause", "resume"} : Begin(c, place)
                                   \/ ControllerStep(c)
    BY <1>3, CallKeeps
  <1>4. CASE NetworkChanges \/ UNCHANGED vars
    <2>1. UNCHANGED <<clientVars, openVars, call, history>>
      BY <1>4 DEF NetworkChanges, vars
    <2> USE DEF RadioInv, clientVars, openVars, history
    <2>2. TypeOK'
      BY <2>1 DEF TypeOK
    <2>3. CancelInv' /\ SilentInv'
      BY <2>1 DEF CancelInv, Cancelling, SilentInv
    <2>4. StateInv'
      BY <2>1 DEF StateInv, ResultTellsState
    <2>5. AudioInv'
      BY <2>1 DEF AudioInv, WholeAudioHeard
    <2> QED
      BY <2>2, <2>3, <2>4, <2>5
  <1> QED
    BY <1>1, <1>2, <1>3, <1>4 DEF Next

(* The invariant holds of every behaviour.                                 *)
THEOREM RadioInvariant == ASSUME MaxUnits \in Nat PROVE Spec => []RadioInv
  <1>1. Init => RadioInv
    <2> SUFFICES ASSUME Init PROVE RadioInv
      OBVIOUS
    <2> USE DEF Init
    <2>1. TypeOK
      BY DEF TypeOK
    <2>2. CancelInv /\ SilentInv
      BY DEF CancelInv, SilentInv
    <2>3. StateInv /\ AudioInv
      BY DEF StateInv, ResultTellsState, AudioInv, WholeAudioHeard
    <2> QED
      BY <2>1, <2>2, <2>3 DEF RadioInv
  <1>2. RadioInv /\ [Next]_vars => RadioInv'
    BY RadioInductive
  <1> QED
    BY <1>1, <1>2, PTL DEF Spec

-----------------------------------------------------------------------------
(* What it gives                                                           *)

(* Nothing is heard of a station that had been closed when its answer      *)
(* came, however many threads close it and pause it meanwhile.             *)
THEOREM ClosedStationIsSilent ==
    ASSUME MaxUnits \in Nat PROVE Spec => []CancelledConnectIsSilent
  <1>1. RadioInv => CancelledConnectIsSilent
    BY DEF RadioInv, SilentInv, CancelledConnectIsSilent
  <1> QED
    BY <1>1, RadioInvariant, PTL

(* What open() returns tells the state, when no other thread has called    *)
(* and no playlist failed to parse.                                        *)
THEOREM ResultIsTheState == ASSUME MaxUnits \in Nat PROVE Spec => []ResultTellsState
  <1>1. RadioInv => ResultTellsState
    BY DEF RadioInv, StateInv
  <1> QED
    BY <1>1, RadioInvariant, PTL

(* All the audio of an answer of any length is heard, and none of the      *)
(* blocks between, unless metaint_ is left over from another station.      *)
THEOREM AllAudioHeard == ASSUME MaxUnits \in Nat PROVE Spec => []WholeAudioHeard
  <1>1. RadioInv => WholeAudioHeard
    BY DEF RadioInv, AudioInv
  <1> QED
    BY <1>1, RadioInvariant, PTL
==============================================================================
