--------------------------------- MODULE Sound ---------------------------------
(* The DSP chain between the user's thread and the audio thread: equalizer,  *)
(* limiter, volume and fade. src/desktop/src/audio/dsp/{dsp_chain,limiter,   *)
(* fader}.cpp                                                                *)
(*                                                                           *)
(* A filter of the equalizer is its gain. Gains of the limiter are multiples *)
(* of 1/Unit, rounded down, and its release goes half of the way at each     *)
(* sample; a fade's are multiples of 1/Whole, on the two rational curves. Of *)
(* the relaxed stores of set_fade(), those but active_ are taken as one.     *)
EXTENDS Integers, Sequences, FiniteSetsExt

CONSTANTS
    None,
    Blocks,      \* what the graph may hand over: one sequence of samples a channel
    Boosts,      \* what the equalizer multiplies a sample by; 1 is its bypass
    Volumes,     \* of Whole
    Ceilings,    \* of the limiter: Usual, -0.3 dBFS, or Full, which means no limiting
    Usual, Full,
    Curves,      \* of the rational ones, "linear" and "s"
    Fades        \* durations the user asks for; 0 cancels, as cancel() does

VARIABLES
    configured, boost, ceiling, volume,
    gains,       \* gain_state_: one a position in the block, for all channels
    fade,        \* the atomics of FaderStage
    call,        \* the stores a set_fade() still has to make visible
    block,       \* what process() last did, and what gain_buffer() has yet to store
    asked        \* history: the last fade asked for, and the frames since

vars == <<configured, boost, ceiling, volume, gains, fade, call, block, asked>>

Unit == 8
Whole == 32
Abs(x) == IF x < 0 THEN -x ELSE x
NoFade == [active |-> FALSE, remaining |-> 0, total |-> 0, curve |-> "linear", direction |-> "out"]
Quiet == [spec |-> [duration |-> 0, curve |-> "linear", direction |-> "out"], frames |-> 0, apart |-> TRUE]

-----------------------------------------------------------------------------
(* Limiter                                                                   *)

Desired(peak, gain) == IF peak > 0 /\ peak * gain > ceiling * Unit THEN (ceiling * Unit) \div peak ELSE Unit
NextGainSmoothed(peak, gain) == Max({1, (gain + Desired(peak, gain)) \div 2})   \* mutant: nor is the attack at once
NextGain(peak, gain) ==
    LET d == Desired(peak, gain) IN IF d > gain THEN (gain + d) \div 2 ELSE Max({1, d})

\* The loudest channel at each position.
Peaks(planes) == [i \in 1..Len(planes[1]) |-> Max({Abs(planes[c][i]) : c \in 1..Len(planes)})]
\* gain_state_ has the size of the longest block so far.
GainAt(i) == IF i <= Len(gains) THEN gains[i] ELSE Unit
\* Every channel is a further step of the same gains.
Step(peaks, before) == [i \in DOMAIN before |-> IF i <= Len(peaks) THEN NextGain(peaks[i], before[i]) ELSE before[i]]
GainsAfter(peaks, channels) ==
    LET after[c \in 0..channels] == IF c = 0 THEN [i \in 1..Max({Len(gains), Len(peaks)}) |-> GainAt(i)]
                                    ELSE Step(peaks, after[c - 1])
    IN  after

-----------------------------------------------------------------------------
(* Fade                                                                      *)

\* compute_gain(), t of total frames into the fade.
Curve(curve, t, total) ==
    IF curve = "linear" THEN (Whole * t) \div total
    ELSE (Whole * (3 * t * t * total - 2 * t * t * t)) \div (total * total * total)
ComputeGain(curve, direction, t, total) ==
    LET g == IF t <= 0 THEN 0 ELSE Curve(curve, t, total)
    IN  IF direction = "out" THEN Whole - g ELSE g
\* The k-th gain of gain_buffer(): a fade that has run out is no fade.
GainOf(f, k) ==
    LET left == f.remaining - (k - 1)
    IN  IF ~f.active \/ left <= 0 THEN Whole ELSE ComputeGain(f.curve, f.direction, f.total - left, f.total)

Init ==
    /\ configured = FALSE /\ boost = 1 /\ ceiling = Usual /\ volume = Whole
    /\ gains = <<>> /\ fade = NoFade /\ call = None /\ block = None /\ asked = Quiet

\* Calls that are not real-time safe find the audio thread between two blocks.
Configure ==
    /\ block = None
    /\ configured' = TRUE /\ boost' = 1 /\ ceiling' = Usual /\ gains' = [i \in DOMAIN gains |-> Unit]
    /\ UNCHANGED <<volume, fade, call, block, asked>>

\* The ramp that publish_settings() starts fades a setting into itself.
ApplyEq(b) ==
    /\ configured /\ block = None
    /\ boost' = b
    /\ UNCHANGED <<configured, ceiling, volume, gains, fade, call, block, asked>>

SetCeiling(c) ==
    /\ configured /\ block = None
    /\ ceiling' = c
    /\ UNCHANGED <<configured, boost, volume, gains, fade, call, block, asked>>

SetVolume(v) ==
    /\ volume' = v
    /\ UNCHANGED <<configured, boost, ceiling, gains, fade, call, block, asked>>

\* set_fade() or cancel() begins: its stores become visible in any order.
SetFade(spec) ==
    /\ call = None
    /\ call' = [spec |-> spec, stores |-> {"active", "fields"}]
    /\ asked' = [spec |-> spec, frames |-> 0, apart |-> block = None]
    /\ UNCHANGED <<configured, boost, ceiling, volume, gains, fade, block>>

StoreFade(s) ==
    LET d == call.spec.duration
    IN  /\ call # None /\ s \in call.stores
        /\ fade' = IF s = "active" THEN [fade EXCEPT !.active = d > 0]
                   ELSE IF d = 0 THEN [fade EXCEPT !.remaining = 0, !.total = 0]
                   ELSE [fade EXCEPT !.remaining = d, !.total = d, !.curve = call.spec.curve, !.direction = call.spec.direction]
        /\ call' = IF call.stores = {s} THEN None ELSE [call EXCEPT !.stores = @ \ {s}]
        /\ UNCHANGED <<configured, boost, ceiling, volume, gains, block, asked>>

-----------------------------------------------------------------------------
(* The audio thread                                                          *)

\* process() up to the last load of gain_buffer().
Process(b) ==
    LET planes == [c \in DOMAIN b |-> [i \in DOMAIN b[c] |-> b[c][i] * boost]]
        peaks  == Peaks(planes)
        after  == GainsAfter(peaks, Len(b))
        n      == Len(peaks)
        g      == [k \in 1..n |-> GainOf(fade, k)]
        heard  == [c \in DOMAIN b |-> [i \in 1..n |->
                     planes[c][i] * (IF ceiling = Full THEN Unit ELSE after[c][i]) * g[i] * volume]]
    IN  /\ configured /\ block = None
        /\ block' = [peaks |-> peaks, held |-> [i \in 1..n |-> GainAt(i)], fade |-> g, heard |-> heard, limited |-> ceiling # Full, volume |-> volume,
                     fading |-> fade.active, left |-> Max({0, fade.remaining - n})]
        /\ gains' = IF ceiling = Full THEN gains ELSE after[Len(b)]
        /\ asked' = [asked EXCEPT !.frames = Min({asked.frames + n, 2 * asked.spec.duration}), !.apart = @ /\ call = None]
        /\ UNCHANGED <<configured, boost, ceiling, volume, fade, call>>

\* The stores at the end of gain_buffer().
Finish ==
    /\ block # None
    /\ fade' = IF block.fading
               THEN [fade EXCEPT !.remaining = block.left, !.active = IF block.left = 0 THEN FALSE ELSE @]
               ELSE fade
    /\ block' = None
    /\ UNCHANGED <<configured, boost, ceiling, volume, gains, call, asked>>

Reset ==
    /\ configured /\ block = None /\ call = None
    /\ gains' = [i \in DOMAIN gains |-> Unit]
    /\ fade' = [fade EXCEPT !.active = FALSE, !.remaining = 0, !.total = 0]
    /\ asked' = Quiet
    /\ UNCHANGED <<configured, boost, ceiling, volume, call, block>>

Specs == [duration : Fades \ {0}, curve : Curves, direction : {"in", "out"}] \cup {Quiet.spec}
Next ==
    \/ Configure
    \/ \E b \in Boosts : ApplyEq(b)
    \/ \E c \in Ceilings : SetCeiling(c)
    \/ \E v \in Volumes : SetVolume(v)
    \/ \E s \in Specs : SetFade(s)
    \/ \E s \in {"active", "fields"} : StoreFade(s)
    \/ \E b \in Blocks : Process(b)
    \/ Finish
    \/ Reset

-----------------------------------------------------------------------------
(* Where the limiter holds no gain back for a position, or holds one that is *)
(* not enough, it comes down at once: no sample of the first channel is      *)
(* above the ceiling, whatever the blocks before (a peak that the smallest   *)
(* gain cannot bring down aside). limiter.hpp promises the ceiling for every *)
(* sample. Nothing is said of a gain on its way up again, nor of a further   *)
(* channel, which is one more step of the same gain: there the code passes   *)
(* the ceiling.                                                              *)
CeilingKept ==
    block # None /\ block.limited =>
        \A i \in DOMAIN block.peaks :
            /\ block.held[i] = Unit \/ block.peaks[i] * block.held[i] > ceiling * Unit
            /\ block.peaks[i] <= ceiling * Unit
            => Abs(block.heard[1][i]) <= Unit * ceiling * block.fade[i] * block.volume

(* A fade that was set while the audio thread was between two blocks, and    *)
(* whose stores were all made before the next, follows its curve frame by    *)
(* frame whatever the sizes of the blocks, and then ends; after a fade in    *)
(* the sound is whole. Nothing is said of a fade whose stores a block sees   *)
(* in part or overwrites, nor of what is heard after a fade out.             *)
FadeIsExact ==
    LET d == asked.spec.duration
        n == Len(block.peaks)
    IN  asked.apart /\ block # None /\ asked.frames < 2 * d =>
            \A i \in 1..n :
                LET t == asked.frames - n + i - 1
                IN  /\ t < d => block.fade[i] = ComputeGain(asked.spec.curve, asked.spec.direction, t, d)
                    /\ t >= d /\ asked.spec.direction = "in" => block.fade[i] = Whole
FadeEnds ==
    asked.apart /\ block = None /\ call = None =>
        /\ fade.remaining = Max({0, asked.spec.duration - asked.frames})
        /\ fade.active <=> fade.remaining > 0

(* See CeilingKept, FadeIsExact and FadeEnds.                                *)
SoundHolds == CeilingKept /\ FadeIsExact /\ FadeEnds

-----------------------------------------------------------------------------
(* The inductive invariant                                                   *)

\* A fade with frames to go is the one that was asked for.
FadeKept ==
    fade.remaining > 0 =>
        fade.total = asked.spec.duration /\ fade.curve = asked.spec.curve /\ fade.direction = asked.spec.direction
Calls == [spec : Specs, stores : (SUBSET {"active", "fields"}) \ {{}}]
Handed == [peaks : Seq(Nat), held : Seq(1..Unit), fade : Seq(0..Whole), heard : Seq(Seq(Int)), limited : BOOLEAN, volume : Nat,
           fading : BOOLEAN, left : Nat]
TypeOK ==
    /\ configured \in BOOLEAN /\ boost \in Int /\ ceiling \in Nat /\ volume \in Nat
    /\ gains \in Seq(1..Unit)
    /\ fade \in [active : BOOLEAN, remaining : Nat, total : Nat, curve : Curves \cup {"linear"}, direction : {"in", "out"}]
    /\ call \in Calls \cup {None} /\ block \in Handed \cup {None}
    /\ asked \in [spec : Specs, frames : Nat, apart : BOOLEAN]

\* The stores that a call has made are those of the fade that was asked for.
StoresAgree ==
    asked.apart /\ call # None =>
        /\ block = None /\ asked.frames = 0 /\ call.spec = asked.spec
        /\ ("active" \notin call.stores) => (fade.active <=> asked.spec.duration > 0)
        /\ ("fields" \notin call.stores) => (fade.remaining = asked.spec.duration /\ FadeKept)
\* A fade has the frames to go that have not been heard, and ends with the block
\* that hears its last.
FadeAgrees ==
    asked.apart /\ call = None /\ block # None =>
        /\ block.left = Max({0, asked.spec.duration - asked.frames})
        /\ block.fading <=> fade.active
        /\ ~block.fading => fade.remaining = 0
        /\ block.left <= fade.remaining
FormAgrees ==
    asked.apart /\ call = None => FadeKept
SoundInv == TypeOK /\ StoresAgree /\ FadeAgrees /\ FormAgrees /\ SoundHolds
=============================================================================
