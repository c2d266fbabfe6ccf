------------------------------ MODULE FramePipe ------------------------------
(* The transport inside one process: two ends that are bound to each other, *)
(* each with its lock, its key and the frames it has yet to receive.        *)
(* src/desktop/src/sync/transport.cpp (InProcessTransport)                  *)
(*                                                                          *)
(* A call that needs its own lock only is one step, taken while that lock   *)
(* is free. send() is two: it keeps its own lock while it waits for the     *)
(* peer's. What a call returns is not kept; a frame is the thread that sent *)
(* it, its number there, and (history) the key of its end when it was put.  *)
(* Two ends that send to each other at once wait for each other for ever:   *)
(* no step of theirs is left, and none of another call on them either.      *)
EXTENDS Integers, Sequences, FiniteSets

CONSTANTS Threads, Ends, Keys, MaxFrames, None

VARIABLES
    psk,     \* end -> psk_, None when it is empty
    inbox,   \* end -> inbox_
    peer,    \* end -> peer_
    mutex,   \* end -> the thread in the second half of a send() from it
    number   \* thread -> frames it has sent
vars == <<psk, inbox, peer, mutex, number>>

Init ==
    /\ psk = [e \in Ends |-> None] /\ inbox = [e \in Ends |-> <<>>]
    /\ peer = [e \in Ends |-> None] /\ mutex = [e \in Ends |-> None]
    /\ number = [t \in Threads |-> 0]

Free(e) == mutex[e] = None
Sending(t) == \E e \in Ends : mutex[e] = t

\* An empty key is refused; that both ends have the same one is not asked.
Connect(e, key) ==
    /\ Free(e) /\ psk' = [psk EXCEPT ![e] = key]
    /\ UNCHANGED <<inbox, peer, mutex, number>>
BindPeer(e, other) ==
    /\ Free(e) /\ other # e /\ peer' = [peer EXCEPT ![e] = other]
    /\ UNCHANGED <<psk, inbox, mutex, number>>

Ready(e) == psk[e] # None /\ peer[e] # None
\* Without a key or a peer it returns at once.
Send(t, e) ==
    /\ ~Sending(t) /\ Free(e) /\ Ready(e) /\ number[t] < MaxFrames
    /\ mutex' = [mutex EXCEPT ![e] = t]
    /\ UNCHANGED <<psk, inbox, peer, number>>
\* The peer may be closed, or have no key: the frame is put all the same.
Deliver(e) ==
    LET t == mutex[e]
        frame == [by |-> t, number |-> number[t] + 1, key |-> psk[e]]
    IN  /\ ~Free(e) /\ Free(peer[e])
        /\ inbox' = [inbox EXCEPT ![peer[e]] = Append(@, frame)]
        /\ mutex' = [mutex EXCEPT ![e] = None]
        /\ number' = [number EXCEPT ![t] = @ + 1]
        /\ UNCHANGED <<psk, peer>>

Receive(e) ==
    /\ Free(e) /\ inbox[e] # <<>> /\ inbox' = [inbox EXCEPT ![e] = Tail(@)]
    /\ UNCHANGED <<psk, peer, mutex, number>>
CloseAtOnce(e) ==   \* mutant: the lock of a send() is not waited for
    /\ psk' = [psk EXCEPT ![e] = None] /\ inbox' = [inbox EXCEPT ![e] = <<>>]
    /\ UNCHANGED <<peer, mutex, number>>
Close(e) ==
    /\ Free(e) /\ psk' = [psk EXCEPT ![e] = None] /\ inbox' = [inbox EXCEPT ![e] = <<>>]
    /\ UNCHANGED <<peer, mutex, number>>

Next ==
    \/ \E e \in Ends :
        \/ \E key \in Keys : Connect(e, key)
        \/ \E other \in Ends \cup {None} : BindPeer(e, other)
        \/ \E t \in Threads : Send(t, e)
        \/ Deliver(e) \/ Receive(e) \/ Close(e)
Spec == Init /\ [][Next]_vars

-----------------------------------------------------------------------------

\* No frame leaves an end that has been closed since its send() began, also when
\* that send() waits for the other end, and the frames of one thread wait in the
\* order in which it sent them, whatever end they came from.
FramesKept ==
    \A e \in Ends : \A i \in DOMAIN inbox[e] :
        /\ inbox[e][i].key # None
        /\ \A j \in 1..i - 1 : inbox[e][j].by = inbox[e][i].by => inbox[e][j].number < inbox[e][i].number

-----------------------------------------------------------------------------
(* The inductive invariant                                                  *)

Frame == [by : Threads, number : Nat, key : Keys \cup {None}]
TypeOK ==
    /\ psk \in [Ends -> Keys \cup {None}]
    /\ inbox \in [Ends -> Seq(Frame)]
    /\ peer \in [Ends -> Ends \cup {None}]
    /\ mutex \in [Ends -> Threads \cup {None}]
    /\ number \in [Threads -> Nat]

\* A send() that holds its lock has found a key and a peer, and as long as it
\* holds it nobody takes them away.
SendersReady == \A e \in Ends : mutex[e] # None => Ready(e)
\* No frame is numbered past what its thread has sent.
NumbersReached == \A e \in Ends : \A i \in DOMAIN inbox[e] :
                    inbox[e][i].number <= number[inbox[e][i].by]
PipeInv == TypeOK /\ SendersReady /\ NumbersReached /\ FramesKept
=============================================================================
