------------------------------- MODULE Pairing -------------------------------
(* Pairing by a six-digit code, with its lockout.                           *)
(* src/desktop/src/sync/pairing.cpp                                         *)
(*                                                                          *)
(* A code entered is "well" or "ill" formed: any code of six digits pairs.  *)
(* The key derived from it is whatever secrets_ holds for the device.       *)
EXTENDS Integers

CONSTANTS MaxAttempts, Cooldown,   \* of PairingPolicy
          MaxTime, MaxWrong        \* bounds: the clock, attempts_

VARIABLES
    state, attempts,
    until,      \* lockout_until_
    now,
    stored,     \* secrets_ holds a key for the device
    \* History:
    spent,      \* ill-formed codes since a code was displayed, accepted or a cooldown sat out
    cancels,    \* lockouts cancelled since then
    locked      \* when the lockout began that nobody cancelled, or Never
vars == <<state, attempts, until, now, stored, spent, cancels, locked>>

Never == -1
Init ==
    /\ state = "Idle" /\ attempts = 0 /\ until = 0 /\ now = 0 /\ stored = FALSE
    /\ spent = 0 /\ cancels = 0 /\ locked = Never

Tick == now < MaxTime /\ now' = now + 1 /\ UNCHANGED <<state, attempts, until, stored, spent, cancels, locked>>

\* Refused for as long as the state says so, whatever the clock says. A cancel
\* before it, and the attempts are forgotten with the lockout.
StartDisplayingCode ==
    /\ state # "LockedOut"
    /\ state' = "AwaitingCode" /\ attempts' = 0 /\ spent' = 0 /\ cancels' = 0
    /\ UNCHANGED <<until, now, stored, locked>>

CoolingDown == state = "LockedOut" /\ now < until
Used == IF state = "LockedOut" THEN 0 ELSE attempts   \* a lockout that is over is forgotten
Rested == IF state = "LockedOut" THEN "Idle" ELSE state

RecordLate(used) ==   \* mutant: one attempt too many
    /\ attempts' = used + 1
    /\ IF used + 1 > MaxAttempts THEN state' = "LockedOut" /\ until' = now + Cooldown
       ELSE state' = Rested /\ UNCHANGED until
RecordAttempt(used) ==
    /\ attempts' = used + 1
    /\ IF used + 1 >= MaxAttempts THEN state' = "LockedOut" /\ until' = now + Cooldown
       ELSE state' = Rested /\ UNCHANGED until

AcceptIllFormed ==
    /\ ~CoolingDown /\ attempts < MaxWrong /\ RecordAttempt(Used)
    /\ IF state = "LockedOut" THEN spent' = 1 /\ cancels' = 0 ELSE spent' = spent + 1 /\ UNCHANGED cancels
    /\ locked' = IF state' = "LockedOut" THEN now ELSE locked
    /\ UNCHANGED <<now, stored>>

\* The pairing completes at once; a key that cannot be stored goes unnoticed.
AcceptWellFormed(saves) ==
    /\ ~CoolingDown
    /\ state' = "Paired" /\ attempts' = 0 /\ stored' = (stored \/ saves) /\ spent' = 0 /\ cancels' = 0
    /\ UNCHANGED <<until, now, locked>>

\* The attempts are not forgotten: the next ill-formed code locks again.
Cancel ==
    /\ state' = "Idle" /\ locked' = Never
    /\ cancels' = IF state = "LockedOut" THEN cancels + 1 ELSE cancels
    /\ UNCHANGED <<attempts, until, now, stored, spent>>
ForgetPeer == stored' = FALSE /\ UNCHANGED <<state, attempts, until, now, spent, cancels, locked>>

Next == \/ Tick \/ StartDisplayingCode \/ AcceptIllFormed \/ Cancel \/ ForgetPeer
        \/ \E saves \in BOOLEAN : AcceptWellFormed(saves)
Spec == Init /\ [][Next]_vars

-----------------------------------------------------------------------------

\* What the lockout of REQ-SYN-006 is worth: for one displayed code there are
\* no more ill-formed codes than max_attempts, and one more for each lockout
\* that is cancelled; with the last of them the state is LockedOut; and it
\* stays so for the whole cooldown unless cancel() ends it. It holds of one
\* code only: cancel() and a new code begin the count anew, which is not the
\* five minutes that pairing_port.hpp:10 promises (see README.md).
LockoutHolds ==
    /\ spent <= MaxAttempts + cancels
    /\ spent = MaxAttempts + cancels => state = "LockedOut"
    /\ locked # Never /\ now < locked + Cooldown => state = "LockedOut"

-----------------------------------------------------------------------------
(* The inductive invariant                                                  *)

TypeOK ==
    /\ state \in {"Idle", "AwaitingCode", "Paired", "LockedOut"}
    /\ attempts \in Nat /\ until \in Int /\ now \in Nat
    /\ spent \in Nat /\ cancels \in Nat /\ locked \in Nat \cup {Never}

\* attempts_ outlives a cancel() as the count of the spent codes does; a lockout
\* is cancelled only after the attempts are used up; and lockout_until_ is the
\* cooldown after the lockout began, which the clock has passed in any other
\* state.
CountsAgree ==
    /\ spent = attempts
    /\ cancels > 0 \/ state = "LockedOut" => attempts >= MaxAttempts
LockDated ==
    /\ state = "LockedOut" => locked # Never /\ until = locked + Cooldown
    /\ state # "LockedOut" /\ locked # Never => now >= locked + Cooldown
LockoutInv == TypeOK /\ CountsAgree /\ LockDated /\ LockoutHolds
==============================================================================
