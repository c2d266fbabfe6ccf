----------------------------- MODULE SyncSession -----------------------------
(* One sync session of the engine with a peer that discovery found.         *)
(* src/desktop/src/sync/engine.cpp, discovery.cpp                           *)
(*                                                                          *)
(* sync_with() is a fixed conversation; the peer answers anything, or       *)
(* nothing. A frame is its type and the uuid it names. cancel() runs in     *)
(* another thread and keeps mutex_ while set_state() asks for it.           *)
EXTENDS Integers, Sequences, FiniteSets

CONSTANTS Peers, Me, None

VARIABLES
    peers,     \* uuids in the discovery's table
    found,     \* what on_peer_found and on_peer_lost have left the host with
    step,      \* 0: no session; Stuck; else the step of Script it has reached
    with,      \* the peer of the session
    state, open, enabled,
    mutex,     \* TRUE once a cancel() waits for itself with mutex_ held
    answered   \* the uuid of the peer's Hello
vars == <<peers, found, step, with, state, open, enabled, mutex, answered>>

Turn(do, state_, type, must) == [do |-> do, state |-> state_, type |-> type, must |-> must]
Send(state_, type) == Turn("send", state_, type, TRUE)
Expect(state_, type) == Turn("expect", state_, type, TRUE)
TrySend(state_, type) == Turn("send", state_, type, FALSE)
TryExpect(state_, type) == Turn("expect", state_, type, FALSE)
Script ==
    <<Turn("connect", "Connecting", "none", TRUE),
      Send("Handshaking", "Hello"), Expect("Handshaking", "Hello"), Send("Handshaking", "Hello"),
      Send("Capabilities", "Capabilities"), Expect("Capabilities", "Capabilities"),
      Send("Capabilities", "Capabilities"),
      Send("Syncing", "ChangesSince"), TryExpect("Syncing", "Changes"),
      TrySend("Syncing", "Ack"), TrySend("Syncing", "ChangesSince"),
      TryExpect("Syncing", "Changes"), TrySend("Syncing", "Goodbye")>>
Now == Script[step]
Stuck == -1
Running == step > 0

Init ==
    /\ peers = {} /\ found = {} /\ step = 0 /\ with = None
    /\ state = "Idle" /\ open = FALSE /\ enabled = FALSE /\ mutex = FALSE
    /\ answered = None

-----------------------------------------------------------------------------
(* Discovery                                                                *)

Others == UNCHANGED <<step, with, state, open, enabled, mutex, answered>>
InjectPeer(p) ==
    /\ p # Me
    /\ peers' = peers \cup {p} /\ found' = IF p \in peers THEN found ELSE found \cup {p}
    /\ Others
DropPeer(p) == p \in peers /\ peers' = peers \ {p} /\ found' = found \ {p} /\ Others
\* The table is emptied without a word to the host.
StopDiscovery == peers' = {} /\ UNCHANGED found /\ Others

-----------------------------------------------------------------------------
(* The session                                                              *)

Discovered == UNCHANGED <<peers, found>>
SetEnabled ==
    ~enabled /\ enabled' = TRUE /\ Discovered /\ UNCHANGED <<step, with, state, open, mutex, answered>>

\* set_state() exchanges the state, then asks for the mutex if it changed: the
\* thread never comes back from it once a cancel() is stuck.
Moves(s, next) == state' = s /\ step' = IF mutex /\ s # state THEN Stuck ELSE next

SyncWith(p) ==
    /\ p \in found /\ step = 0 /\ enabled /\ state = "Idle"
    /\ Moves("Connecting", 1) /\ with' = p /\ answered' = None
    /\ Discovered /\ UNCHANGED <<open, enabled, mutex>>

Returns == open' = FALSE /\ Moves("Idle", 0) /\ UNCHANGED with
Goes == IF step < Len(Script)
        THEN Moves(IF Script[step + 1].state = Now.state THEN state ELSE Script[step + 1].state, step + 1)
             /\ UNCHANGED with
        ELSE (IF mutex THEN state' = "Closing" /\ step' = Stuck ELSE state' = "Idle" /\ step' = 0)
             /\ UNCHANGED with

Connect(works) ==
    /\ Running /\ Now.do = "connect" /\ Discovered /\ UNCHANGED <<enabled, mutex, answered>>
    /\ IF works THEN open' = TRUE /\ Goes ELSE Returns

SendFrame(works) ==
    /\ Running /\ Now.do = "send" /\ (works => open)
    /\ Discovered /\ UNCHANGED <<enabled, mutex, answered>>
    /\ IF Now.must /\ ~works THEN Returns
       ELSE Goes /\ open' = (step # Len(Script) /\ open)

MeetsAnyone(frame) == frame.type = Now.type   \* mutant: the uuid unchecked
Meets(frame) == /\ frame.type = Now.type
                /\ Now.type = "Hello" => frame.uuid = with

Receive(frame) ==
    /\ Running /\ Now.do = "expect" /\ (frame.type # "nothing" => open)
    /\ Discovered /\ UNCHANGED <<enabled, mutex>>
    /\ answered' = IF Now.type = "Hello" THEN frame.uuid ELSE answered
    /\ IF Now.must /\ ~Meets(frame) THEN Returns ELSE Goes /\ UNCHANGED open

\* set_enabled(false) cancels too. With a session in any state but Idle the
\* call never comes back.
Cancel(disables) ==
    /\ ~mutex /\ (disables => enabled)
    /\ enabled' = (enabled /\ ~disables)
    /\ open' = FALSE /\ state' = "Idle" /\ mutex' = (state # "Idle")
    /\ Discovered /\ UNCHANGED <<step, with, answered>>

Frames == [type : {"Hello", "Capabilities", "Changes", "nothing"}, uuid : Peers \cup {Me}]
Next ==
    \/ \E p \in Peers \cup {Me} : InjectPeer(p) \/ DropPeer(p) \/ SyncWith(p)
    \/ StopDiscovery \/ SetEnabled
    \/ \E works \in BOOLEAN : Connect(works) \/ SendFrame(works)
    \/ \E frame \in Frames : Receive(frame)
    \/ \E disables \in BOOLEAN : Cancel(disables)

-----------------------------------------------------------------------------

\* When no session runs the connection is closed and the next one may start:
\* none of the error returns leaves it open or the state behind, and a
\* cancel() is only ever missed by a session that it has itself blocked. Changes
\* are asked for and sent only to the peer that has named the uuid which
\* discovery gave. The host is never offered itself, and still knows every
\* peer of the table.
SessionsEndClosed ==
    /\ step = 0 => ~open /\ state = "Idle"
    /\ Running /\ open => state = Now.state
    /\ step > 7 => answered = with
    /\ Me \notin found /\ peers \subseteq found

-----------------------------------------------------------------------------
(* The inductive invariant                                                  *)

TypeOK ==
    /\ peers \subseteq Peers /\ found \subseteq Peers
    /\ step \in -1 .. Len(Script)
    /\ open \in BOOLEAN /\ enabled \in BOOLEAN /\ mutex \in BOOLEAN

\* The state is that of the step for as long as no cancel() has come between;
\* once one has, the state is Idle and the connection closed for good. The
\* peer's Hello has named the uuid as soon as the step that waits for it is past.
SessionInv ==
    /\ TypeOK
    /\ step = 0 => ~open /\ state = "Idle"
    /\ Running => IF mutex THEN state = "Idle" /\ ~open ELSE state = Now.state
    /\ step > 3 => answered = with
    /\ Me \notin found /\ peers \subseteq found
==============================================================================
