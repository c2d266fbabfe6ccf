------------------------------- MODULE Startup -------------------------------
(* The ordered start and stop of the application's subsystems.              *)
(* src/desktop/src/app/lifecycle.cpp                                        *)
(*                                                                          *)
(* A step is whether it comes with a function that stops it. What the steps *)
(* have brought up in the world is counted apart from the program's record  *)
(* of it. The functions of a step may call the lifecycle again: what it     *)
(* refuses changes nothing, and it refuses everything outside Created and   *)
(* Running.                                                                 *)
EXTENDS Integers, Sequences

CONSTANT MaxSteps

VARIABLES
    state, steps, started,   \* started is as long as started_
    call,                    \* what the caller is inside of
    at,                      \* the step it runs
    up                       \* step -> its starts less its stops
vars == <<state, steps, started, call, at, up>>

Init ==
    /\ state = "Created" /\ steps = <<>> /\ started = 0
    /\ call = "none" /\ at = 0 /\ up = <<>>

AddStep(stops) ==
    /\ state = "Created" /\ Len(steps) < MaxSteps
    /\ steps' = Append(steps, stops) /\ up' = Append(up, 0)
    /\ UNCHANGED <<state, started, call, at>>

Start ==
    /\ state = "Created"
    /\ state' = "Starting" /\ call' = "start" /\ at' = 1
    /\ UNCHANGED <<steps, started, up>>

\* for (i = started_.size(); i > 0; --i)
UnwindFirstToLast == call' = "unwind" /\ at' = 1   \* mutant: in the order of the start
UnwindAll == call' = "unwind" /\ at' = Len(steps)   \* mutant: the failed step too
Unwind == call' = "unwind" /\ at' = started

StepStarts ==
    /\ call = "start" /\ at <= Len(steps)
    /\ up' = [up EXCEPT ![at] = @ + 1] /\ started' = started + 1 /\ at' = at + 1
    /\ UNCHANGED <<state, steps, call>>
StepFails ==
    /\ call = "start" /\ at <= Len(steps)
    /\ Unwind /\ UNCHANGED <<state, steps, started, up>>
AllStarted ==
    /\ call = "start" /\ at > Len(steps)
    /\ state' = "Running" /\ call' = "none" /\ UNCHANGED <<steps, started, at, up>>

Shutdown ==
    /\ state = "Running"
    /\ state' = "ShuttingDown" /\ Unwind /\ UNCHANGED <<steps, started, up>>

StopStep ==
    /\ call = "unwind" /\ at \in 1 .. Len(steps)
    /\ up' = IF steps[at] THEN [up EXCEPT ![at] = @ - 1] ELSE up
    /\ at' = at - 1
    /\ UNCHANGED <<state, steps, started, call>>
Unwound ==
    /\ call = "unwind" /\ at = 0
    /\ state' = IF state = "Starting" THEN "Failed" ELSE "Stopped"
    /\ started' = 0 /\ call' = "none" /\ UNCHANGED <<steps, at, up>>

Next ==
    \/ \E stops \in BOOLEAN : AddStep(stops)
    \/ Start \/ StepStarts \/ StepFails \/ AllStarted
    \/ Shutdown \/ StopStep \/ Unwound
Spec == Init /\ [][Next]_vars

-----------------------------------------------------------------------------

\* No step is up without every earlier one that can be stopped, at any moment
\* of a start, of a failed start or of a shutdown: teardown runs in reverse.
\* A step that failed, or never ran, is never stopped, none is stopped twice,
\* and nothing that can be stopped outlives the end of either.
StartUnwinds ==
    /\ \A i \in DOMAIN up : up[i] \in {0, 1}
    /\ \A i, j \in DOMAIN up : i < j /\ steps[i] /\ up[i] = 0 => ~steps[j] \/ up[j] = 0
    /\ state = "Running" => \A i \in DOMAIN up : up[i] = 1
    /\ state \in {"Failed", "Stopped"} => \A i \in DOMAIN up : steps[i] => up[i] = 0

-----------------------------------------------------------------------------
(* The inductive invariant                                                  *)

\* The caller's place and the steps, each with a count of its own.
TypeOK ==
    /\ state \in {"Created", "Starting", "Running", "ShuttingDown", "Stopped", "Failed"}
    /\ call \in {"none", "start", "unwind"}
    /\ steps \in Seq(BOOLEAN) /\ up \in Seq(Int) /\ Len(up) = Len(steps)
    /\ started \in Nat /\ at \in Int

\* Between two calls, everything is up or nothing is that can be stopped.
AtRest ==
    call = "none" =>
        /\ state \in {"Created", "Running", "Stopped", "Failed"}
        /\ state = "Created" => started = 0 /\ \A i \in 1..Len(steps) : up[i] = 0
        /\ state = "Running" => started = Len(steps) /\ \A i \in 1..Len(steps) : up[i] = 1
        /\ state \in {"Stopped", "Failed"} =>
             \A i \in 1..Len(steps) : up[i] \in {0, 1} /\ (steps[i] => up[i] = 0)

\* Inside start() the steps before the present one are up.
WhileStarting ==
    call = "start" =>
        /\ state = "Starting"
        /\ at = started + 1 /\ started <= Len(steps)
        /\ \A i \in 1..Len(steps) : up[i] = IF i <= started THEN 1 ELSE 0

\* Inside unwind() the steps up to the present one are still up, and of
\* those above it the ones that nothing can stop.
WhileUnwinding ==
    call = "unwind" =>
        /\ state \in {"Starting", "ShuttingDown"}
        /\ at \in 0..started /\ started <= Len(steps)
        /\ \A i \in 1..Len(steps) : up[i] = IF i <= at \/ (i <= started /\ ~steps[i]) THEN 1 ELSE 0

StartInv == TypeOK /\ AtRest /\ WhileStarting /\ WhileUnwinding
==============================================================================
