-------------------------------- MODULE Levels --------------------------------
(* How loud: the equalizer's settings, ReplayGain and the measurement of     *)
(* loudness. src/desktop/src/audio/dsp/{equalizer,replaygain,biquad}.cpp     *)
(*                                                                           *)
(* Gains and Q are in hundredths, frequencies in half hertz. A filter is the *)
(* band it was designed for; a linear gain is a multiple of 1/Unity, and the *)
(* gains of a track are multiples of 6 dB. A level is to 3 dB, of the energy *)
(* that the K-weighting leaves of a frame.                                   *)
EXTENDS Integers, Sequences, FiniteSetsExt, SequencesExt, Functions

CONSTANTS None

Clamp(v, lo, hi) == IF v < lo THEN lo ELSE IF v > hi THEN hi ELSE v
\* quantise_gain(): to a tenth of a decibel, halves away from zero.
Quantise(g) == IF g < 0 THEN -(((5 - g) \div 10) * 10) ELSE ((g + 5) \div 10) * 10

-----------------------------------------------------------------------------
(* Equalizer                                                                 *)

MaxParametric == 10
BandsOf(mode) ==
    CASE mode = "graphic10" -> <<63, 126, 250, 500, 1000, 2000, 4000, 8000, 16000, 32000>>
      [] mode = "graphic18" -> <<63, 89, 126, 178, 250, 354, 500, 708, 1000, 1414, 2000, 2828, 4000, 5656,
                                 8000, 11314, 16000, 22628>>
      [] OTHER -> <<>>

ClampBand(b) == [b EXCEPT !.freq = Clamp(@, 40, 40000), !.gain = Clamp(@, -2400, 2400), !.q = Clamp(@, 10, 1800)]
ClampGain(g) == Quantise(Clamp(g, -1200, 1200))
Resized(gains, n) == [i \in 1..n |-> IF i <= Len(gains) THEN gains[i] ELSE 0]
ClampPreamp(db) == Clamp(db, -1200, 1200)
ClampGraphic(mode, gains) ==
    LET n == Len(BandsOf(mode))
    IN  IF mode = "parametric" THEN gains ELSE [i \in 1..n |-> ClampGain(Resized(gains, n)[i])]
ClampParametric(bands) == [i \in 1..Min({Len(bands), MaxParametric}) |-> ClampBand(bands[i])]
ClampSettings(s) ==
    [s EXCEPT !.preamp = ClampPreamp(@), !.graphic = ClampGraphic(s.mode, @), !.parametric = ClampParametric(@)]

GainBearing == {"peaking", "lowShelf", "highShelf"}
IsNeutral(s) ==
    \/ ~s.enabled
    \/ /\ s.preamp = 0
       /\ IF s.mode = "parametric"
          THEN \A i \in DOMAIN s.parametric :
                  s.parametric[i].enabled => s.parametric[i].type \in GainBearing /\ s.parametric[i].gain = 0
          ELSE \A i \in DOMAIN s.graphic : s.graphic[i] = 0

Identity == [type |-> "identity"]
\* kMaxNyquistFraction: a band too near half the sample rate does nothing.
Design(type, freq, rate, q, gain) ==
    IF 100 * freq >= 95 * rate \/ (type \in GainBearing /\ gain = 0) THEN Identity
    ELSE [type |-> type, freq |-> freq, q |-> q, gain |-> gain]

BandDesignUnclamped(b, rate) ==   \* mutant: a band is designed as it was given
    Design(b.type, b.freq, rate, b.q, b.gain)
BandDesign(b, rate) == LET c == ClampBand(b) IN Design(c.type, c.freq, rate, c.q, c.gain)
SpacingQ(mode) == IF mode = "graphic10" THEN 141 ELSE 287   \* q_for_bandwidth_octaves()
Designed(s, rate) ==
    IF s.mode = "parametric"
    THEN LET on == SelectSeq(s.parametric, LAMBDA b : b.enabled) IN [i \in DOMAIN on |-> BandDesign(on[i], rate)]
    ELSE [i \in DOMAIN BandsOf(s.mode) |->
            Design("peaking", BandsOf(s.mode)[i], rate, SpacingQ(s.mode), ClampGain(Resized(s.graphic, Len(BandsOf(s.mode)))[i]))]
ConfigureEq(s, channels, rate) ==
    IF channels = 0 \/ rate <= 0 THEN [ok |-> FALSE]
    ELSE LET preamp == Clamp(s.preamp, -1200, 1200)
             bands == Designed(s, rate)
         IN  [ok |-> TRUE, preamp |-> preamp, bands |-> bands,
              bypassed |-> ~s.enabled \/ (preamp = 0 /\ \A i \in DOMAIN bands : bands[i] = Identity)]

Preset(name, preamp, gains) == [name |-> name, preamp |-> 100 * preamp, gains |-> [i \in DOMAIN gains |-> 10 * gains[i]]]
BuiltinPresets == <<
    Preset("Flat", 0, <<0, 0, 0, 0, 0, 0, 0, 0, 0, 0>>),
    Preset("Rock", -1, <<50, 40, 30, 15, -5, -10, 5, 30, 45, 50>>),
    Preset("Pop", -1, <<-15, -10, 0, 20, 40, 40, 20, 0, -10, -15>>),
    Preset("Jazz", 0, <<30, 20, 10, 20, -10, -10, 0, 10, 25, 35>>),
    Preset("Classical", 0, <<40, 30, 20, 0, -10, -10, 0, 20, 30, 40>>),
    Preset("Dance", -2, <<60, 55, 35, 0, -10, -20, 10, 35, 50, 45>>),
    Preset("Hip-Hop", -2, <<65, 50, 20, 10, -10, -10, 10, 20, 30, 35>>),
    Preset("Metal", -2, <<50, 40, 10, -10, -20, 0, 25, 45, 50, 40>>),
    Preset("Acoustic", 0, <<35, 30, 20, 10, 5, 5, 15, 25, 30, 25>>),
    Preset("Vocal Boost", -1, <<-20, -15, -5, 15, 40, 45, 35, 15, -5, -15>>),
    Preset("Bass Boost", -3, <<80, 65, 45, 20, 0, 0, 0, 0, 0, 0>>),
    Preset("Treble Boost", -3, <<0, 0, 0, 0, 0, 10, 30, 55, 70, 80>>),
    Preset("Loudness", -3, <<70, 55, 25, 0, -15, -15, 0, 25, 55, 70>>),
    Preset("Small Speakers", -1, <<-40, -20, 10, 30, 40, 30, 15, 5, -10, -30>>),
    Preset("Headphones", -1, <<40, 30, 10, -5, -15, -10, 5, 20, 35, 40>>)>>

(* What the equalizer runs is what clamping the settings would have given:   *)
(* the two places that know the ranges agree, so what the dialog shows after *)
(* a load is what is heard (all but the limit on the number of bands, which  *)
(* configure() does not know). Clamping once is enough, and settings that do *)
(* nothing are bypassed, not run.                                            *)
SettingsAgree(s, rate) ==
    LET c == ClampSettings(s)
    IN  /\ ClampSettings(c) = c
        /\ Len(s.parametric) <= MaxParametric => ConfigureEq(s, 2, rate) = ConfigureEq(c, 2, rate)
        /\ IsNeutral(c) => ConfigureEq(s, 2, rate).bypassed
        /\ ConfigureEq(c, 2, rate).bypassed /\ c.mode # "parametric" =>
              IsNeutral(c) \/ \E i \in DOMAIN c.graphic : c.graphic[i] # 0 /\ 100 * BandsOf(c.mode)[i] >= 95 * rate

(* A built-in preset is within the ranges and on the steps, so loading it    *)
(* changes nothing, and none hides another.                                  *)
PresetsAreValid ==
    /\ \A i \in DOMAIN BuiltinPresets :
          LET p == BuiltinPresets[i]
              s == [enabled |-> TRUE, mode |-> "graphic10", preamp |-> p.preamp, graphic |-> p.gains, parametric |-> <<>>]
          IN  ClampSettings(s) = s
    /\ \A i, j \in DOMAIN BuiltinPresets : BuiltinPresets[i].name = BuiltinPresets[j].name => i = j

-----------------------------------------------------------------------------
(* ReplayGain                                                                *)

Unity == 1024
\* 10^(db / 20), for decibels by the six.
Linear(db) == IF db >= 0 THEN Unity * 2^(db \div 6) ELSE Unity \div 2^(-db \div 6)
RgNeutral(s) ==
    \/ s.mode = "off"
    \/ /\ s.preamp = 0 /\ s.fallback = 0
       /\ \A g \in {s.track, s.album} : g \in {None, 0}
\* The peak of the tag is in quarters; 0 is no peak.
ReplayGainLinear(s) ==
    LET tagged == IF s.useAlbum THEN s.album ELSE s.track
        gain == Linear(s.preamp + (IF tagged # None THEN tagged ELSE s.fallback))
    IN  IF s.mode = "off" THEN Unity
        ELSE IF s.peak > 0 /\ gain * s.peak > 4 * Unity THEN (4 * Unity) \div s.peak ELSE gain

(* A track with a peak in its tag does not clip, and nothing else takes gain *)
(* from it; neutral settings leave alone a track whose peak is in range.     *)
GainHolds(s) ==
    LET gain == ReplayGainLinear(s)
        tagged == IF s.useAlbum THEN s.album ELSE s.track
    IN  /\ s.mode # "off" /\ s.peak > 0 => gain * s.peak <= 4 * Unity
        /\ s.mode # "off" /\ gain # Linear(s.preamp + (IF tagged = None THEN s.fallback ELSE tagged)) => (gain + 1) * s.peak > 4 * Unity
        /\ RgNeutral(s) /\ s.peak <= 4 => gain = Unity

\* A tag is a sequence of spaces, of the letters of a unit, of other letters
\* and of numbers, whole or not.
Space == [kind |-> "space"]
UnitLetter == [kind |-> "unit"]
Trimmed(t) ==
    LET last == SelectLastInSeq(t, LAMBDA x : x # Space) IN SubSeq(t, 1, last)
StripUnits(t) ==
    LET u == Trimmed(t)
        last == SelectLastInSeq(u, LAMBDA x : x # UnitLetter)
    IN  Trimmed(SubSeq(u, 1, last))
IsNumber(x) == x.kind = "number"
\* What strtod() and strtoll() leave of a text: leading spaces do not count.
Led(t) == LET first == SelectInSeq(t, LAMBDA x : x # Space) IN IF first = 0 THEN <<>> ELSE SubSeq(t, first, Len(t))
\* Hundredths of a decibel; a whole number that other words follow is one of 1/256.
ParseDb(t) ==
    LET s == Led(StripUnits(t))
    IN  IF s = <<>> \/ ~IsNumber(s[1]) THEN None
        ELSE IF Len(s) = 1 THEN s[1].db
        ELSE IF s[1].whole /\ s[2] = Space THEN s[1].db \div 256 ELSE None
\* Hundredths of full scale; whatever follows the number.
ParsePeak(t) == LET s == Led(t) IN IF s = <<>> \/ ~IsNumber(s[1]) THEN 0 ELSE Max({0, s[1].db})

(* A number with a point is read the same with or without its unit, however  *)
(* it is spaced, and a peak is never below nothing. Nothing is held of a gain *)
(* that is a whole number, decibels or fixed point: see README.md.           *)
TagIsItsNumber(n, before, after, units) ==
    LET text == before \o <<n>> \o after \o units \o before
    IN  (~n.whole => ParseDb(text) = n.db) /\ ParsePeak(before \o <<n>>) = Max({0, n.db})

-----------------------------------------------------------------------------
(* Loudness                                                                  *)

Silence == -1000000   \* minus infinity
Log2(e) == Min({k \in 0..29 : e < 2^(k + 1)})
Level(e) == IF e <= 0 THEN Silence ELSE 3 * Log2(e) - 90
\* ChannelWeights, in hundredths: the fourth channel is the subwoofer.
Weight(channels, c) == IF c = 2 /\ channels = 1 THEN 0 ELSE <<100, 100, 100, 0, 141, 141>>[c]

\* A frame is the sequence of the energies of its channels; a block of size
\* frames has the sum of the means. Frames that fill no block wait for more.
BlockLevel(frames, channels) ==
    Level(SumFunction([c \in 1..channels |->
                    (Weight(channels, c) * (SumFunction([i \in DOMAIN frames |-> frames[i][c]]) \div Len(frames))) \div 100]))
BlocksOf(frames, size, channels) ==
    [k \in 1..(Len(frames) \div size) |-> BlockLevel(SubSeq(frames, (k - 1) * size + 1, k * size), channels)]

AbsoluteGate == -70
RelativeGate == 10
\* finalize(): the mean of the levels that pass both gates, as sum and count.
Integrated(levels) ==
    LET loud == SelectSeq(levels, LAMBDA l : l >= AbsoluteGate)
        sum == SumFunction(loud)
        kept == SelectSeq(loud, LAMBDA l : Len(loud) * l >= sum - RelativeGate * Len(loud))
    IN  [sum |-> SumFunction(kept), count |-> Len(kept)]
SameMean(a, b) == a.count * b.sum = b.count * a.sum /\ (a.count = 0) = (b.count = 0)

(* A silent block, wherever it comes, does not make a track quieter, and what *)
(* fills no block is not measured; the order of the blocks does not matter,  *)
(* and what the gates take away only makes the result louder. Nothing is held *)
(* of where the blocks begin: see README.md.                                 *)
LoudnessHolds(frames, size, channels) ==
    LET levels == BlocksOf(frames, size, channels)
        silence == BlockLevel([i \in 1..size |-> [c \in 1..channels |-> 0]], channels)
        loud == SelectSeq(levels, LAMBDA l : l >= AbsoluteGate)
        got == Integrated(levels)
    IN  /\ \A k \in 1..Len(levels) + 1 : Integrated(InsertAt(levels, k, silence)) = got
        /\ Len(frames) < size => got.count = 0
        /\ SameMean(Integrated(Reverse(levels)), got)
        /\ (got.count = 0) = (loud = <<>>)
        /\ got.sum * Len(loud) >= SumFunction(loud) * got.count
=============================================================================
