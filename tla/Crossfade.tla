------------------------------ MODULE Crossfade ------------------------------
(* The bands of the equalizer and the ramps from one setting to the next.   *)
(* src/desktop/src/audio/dsp/{equalizer.cpp,biquad.hpp}                     *)
(*                                                                          *)
(* A filter is a whole number for what it does to a sample, 0 the identity; *)
(* what its delay lines hold is left out. The channels are set and ramped   *)
(* alike: one stands for all. The calls that are not real-time safe find    *)
(* the audio thread between two samples. A sample of a band is its filter   *)
(* times Scale, a multiple of every length of a ramp.                       *)
EXTENDS Integers, Sequences

CONSTANTS
    Designs,   \* what configure() may design: one filter a band
    Filters,   \* what set_target_coeffs() may be given
    Ramps,     \* lengths asked for
    Scale

VARIABLES
    designed, bypassed,
    sections,  \* of the cascade: current_, target_, ramp_remaining_, ramp_total_
    jumped     \* history: a band has moved by more than a step of its ramp
vars == <<designed, bypassed, sections, jumped>>

Identity == 0
Fixed(f) == [current |-> f, target |-> f, remaining |-> 0, total |-> 1]
Init ==
    designed = <<>> /\ bypassed = TRUE /\ sections = <<>> /\ jumped = FALSE

Ramping(s) == s.remaining > 0
Size(x) == IF x < 0 THEN -x ELSE x

\* set_coeffs() keeps the length of the last ramp.
SetCoeffs(s, f) == [s EXCEPT !.current = f, !.target = f, !.remaining = 0]
\* A ramp of one sample is none: the target is there at once.
StartRampOf(s, n) ==
    IF n <= 1 THEN [s EXCEPT !.current = s.target, !.remaining = 0]
    ELSE [s EXCEPT !.remaining = n, !.total = n]

\* What a section does to the next sample: a mix of both filters while it ramps.
Mixed(s) == IF Ramping(s) THEN (Scale \div s.total) * (s.current * s.remaining + s.target * (s.total - s.remaining))
            ELSE Scale * s.current

\* New cascades, at the new filters: what was ramping is gone.
Configure(filters, on) ==
    /\ designed' = filters /\ sections' = [i \in DOMAIN filters |-> Fixed(filters[i])]
    /\ bypassed' = (~on \/ \A i \in DOMAIN filters : filters[i] = Identity)
    /\ UNCHANGED jumped
\* Both slots of a section are set first, so the ramp is from a filter to itself.
Published(s, f, n) == IF n = 0 THEN SetCoeffs(s, f) ELSE StartRampOf(SetCoeffs(s, f), n)
PublishSettings(n) ==
    /\ sections' = [i \in DOMAIN sections |-> Published(sections[i], designed[i], n)]
    /\ UNCHANGED <<designed, bypassed, jumped>>

SetTargetCoeffs(i, f) ==
    /\ sections' = [sections EXCEPT ![i].target = f]
    /\ UNCHANGED <<designed, bypassed, jumped>>
\* A ramp that is started while one runs begins again from where that one began.
StartRamp(n) ==
    /\ sections' = [i \in DOMAIN sections |-> StartRampOf(sections[i], n)]
    /\ jumped' = (jumped \/ (n > 1 /\ \E i \in DOMAIN sections :
                    ~Ramping(sections[i]) /\ Mixed(sections'[i]) # Mixed(sections[i])))
    /\ UNCHANGED <<designed, bypassed>>

-----------------------------------------------------------------------------
(* A sample                                                                 *)

\* A section at the identity is skipped, its ramp with it: it never ends.
Skipped(s) == s.current = Identity
Done(s) == s.remaining = 1
AdvancedBack(s) == IF Skipped(s) \/ ~Ramping(s) THEN s ELSE [s EXCEPT !.remaining = @ - 1]   \* mutant: the new filter does not take over
Advanced(s) ==
    IF Skipped(s) \/ ~Ramping(s) THEN s
    ELSE [s EXCEPT !.remaining = @ - 1, !.current = IF Done(s) THEN s.target ELSE @]
Process ==
    /\ ~bypassed
    /\ sections' = [i \in DOMAIN sections |-> Advanced(sections[i])]
    /\ jumped' = (jumped \/ \E i \in DOMAIN sections :
                    Size(Mixed(sections'[i]) - Mixed(sections[i])) * sections[i].total
                      > Scale * Size(sections[i].target - sections[i].current))
    /\ UNCHANGED <<designed, bypassed>>

Next ==
    \/ \E filters \in Designs, on \in BOOLEAN : Configure(filters, on)
    \/ \E i \in DOMAIN sections, f \in Filters : SetTargetCoeffs(i, f)
    \/ \E n \in Ramps : PublishSettings(n) \/ StartRamp(n)
    \/ Process
Spec == Init /\ [][Next]_vars

-----------------------------------------------------------------------------

\* From one sample to the next no band moves by more than a step of its ramp:
\* not where a ramp begins that was started while none ran, nor where one runs
\* out and the new filter takes over. Nothing is said of a ramp that is started,
\* or given a target, while it runs, nor of publish_settings(), the only one the
\* chain calls: it sets both filters at once, where equalizer.hpp has it fade
\* from the old to the new, so that what a band does changes with no ramp.
RampsAreSmooth == ~jumped

-----------------------------------------------------------------------------
(* The inductive invariant                                                  *)

\* A whole number of times, every length of a ramp goes into a sample.
Lengths == {n \in Nat \ {0} : Scale = (Scale \div n) * n}
Section == [current : Int, target : Int, remaining : Nat, total : Lengths]
TypeOK ==
    designed \in Seq(Int) /\ bypassed \in BOOLEAN /\ sections \in [DOMAIN designed -> Section]
RampInv == TypeOK /\ RampsAreSmooth
=============================================================================
