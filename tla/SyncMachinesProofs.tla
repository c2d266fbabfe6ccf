-------------------------- MODULE SyncMachinesProofs --------------------------
(***************************************************************************)
(* Proofs about the machines of the sync and of the library: the lockout   *)
(* of the pairing codes for any policy, a session for any peers, the       *)
(* transport inside one process for any number of ends, threads and        *)
(* frames, and the library for any disks, tracks and rules.                *)
(***************************************************************************)
EXTENDS Machines, TLAPS, FiniteSetTheorems, SequenceTheorems

(* A behaviour stays with its machine, and a step of it is one of the      *)
(* machine's or leaves the machine as it is.                               *)
LEMMA SyncSteps ==
    ASSUME [Next]_vars
    PROVE  /\ machine' = machine
           /\ machine = "Codes" => [Codes!Next]_(Codes!vars)
           /\ machine = "Session" => [Session!Next]_(Session!vars)
           /\ machine = "Pipe" => [Pipe!Next]_(Pipe!vars)
           /\ machine = "Library" => [Library!Next]_(Library!vars)
  <1>1. CASE Next
    BY <1>1, ZenonT(30) DEF Next, PodcastStep, CodesStep, SessionStep, ChainStep, LifecycleStep, IpcStep, HttpStep,
                PaintedStep, BrainzStep, PipeStep, EqualizerStep, LibraryStep, Keeping
  <1>2. CASE UNCHANGED vars
    BY <1>2 DEF vars, codesVars, sessionVars, pipeVars, libraryVars, sharedVars, Codes!vars, Session!vars, Pipe!vars,
                Library!vars
  <1> QED
    BY <1>1, <1>2

-----------------------------------------------------------------------------
(* The lockout                                                             *)

(* The lockout is inductive: the ill-formed codes spent are the attempts    *)
(* the code counts, which reach the limit only with a lockout, and a       *)
(* lockout is left by a cancel(), which is counted, or when it is over.    *)
LEMMA LockoutInductive ==
    ASSUME Codes!LockoutInv, [Codes!Next]_(Codes!vars)
    PROVE  Codes!LockoutInv'
  <1> USE CodesAssumption DEF Codes!LockoutInv, Codes!TypeOK, Codes!LockoutHolds, Codes!CountsAgree, Codes!LockDated,
                              Codes!Never
  <1>1. CASE Codes!Tick
    BY <1>1 DEF Codes!Tick
  <1>2. CASE Codes!StartDisplayingCode
    BY <1>2 DEF Codes!StartDisplayingCode
  <1>3. CASE Codes!AcceptIllFormed
    <2>1. /\ now' = now /\ stored' = stored
          /\ locked' = IF state' = "LockedOut" THEN now ELSE locked
      BY <1>3 DEF Codes!AcceptIllFormed
    <2>2. CASE state = "LockedOut"
      <3>1. now >= until /\ attempts' = 1 /\ spent' = 1 /\ cancels' = 0 /\ Codes!Rested = "Idle"
        BY <1>3, <2>2 DEF Codes!AcceptIllFormed, Codes!RecordAttempt, Codes!CoolingDown, Codes!Used, Codes!Rested
      <3>2. IF 1 >= MaxAttempts THEN state' = "LockedOut" /\ until' = now + Cooldown
            ELSE state' = "Idle" /\ until' = until
        BY <1>3, <2>2, <3>1 DEF Codes!AcceptIllFormed, Codes!RecordAttempt, Codes!Used
      <3> QED
        BY <2>1, <2>2, <3>1, <3>2
    <2>3. CASE state # "LockedOut"
      <3>1. /\ attempts' = attempts + 1 /\ spent' = spent + 1 /\ cancels' = cancels
            /\ spent < MaxAttempts + cancels
        BY <1>3, <2>3 DEF Codes!AcceptIllFormed, Codes!RecordAttempt, Codes!Used
      <3>2. IF attempts + 1 >= MaxAttempts THEN state' = "LockedOut" /\ until' = now + Cooldown
            ELSE state' = state /\ until' = until
        BY <1>3, <2>3 DEF Codes!AcceptIllFormed, Codes!RecordAttempt, Codes!Used, Codes!Rested
      <3>3. CASE attempts + 1 >= MaxAttempts
        BY <2>1, <2>3, <3>1, <3>2, <3>3
      <3>4. CASE attempts + 1 < MaxAttempts
        BY <2>1, <2>3, <3>1, <3>2, <3>4
      <3> QED
        BY <3>1, <3>3, <3>4
    <2> QED
      BY <2>2, <2>3
  <1>4. CASE Codes!Cancel
    <2>1. /\ state' = "Idle" /\ locked' = Codes!Never /\ UNCHANGED <<attempts, until, now, stored, spent>>
          /\ cancels' = IF state = "LockedOut" THEN cancels + 1 ELSE cancels
      BY <1>4 DEF Codes!Cancel
    <2>2. CASE state = "LockedOut"
      BY <2>1, <2>2
    <2>3. CASE state # "LockedOut"
      BY <2>1, <2>3
    <2> QED
      BY <2>2, <2>3
  <1>5. CASE Codes!ForgetPeer
    BY <1>5 DEF Codes!ForgetPeer
  <1>6. ASSUME NEW saves \in BOOLEAN, Codes!AcceptWellFormed(saves)
        PROVE  Codes!LockoutInv'
    <2>1. state = "LockedOut" => now >= until
      BY <1>6 DEF Codes!AcceptWellFormed, Codes!CoolingDown
    <2>2. /\ state' = "Paired" /\ attempts' = 0 /\ spent' = 0 /\ cancels' = 0
          /\ UNCHANGED <<until, now, locked>>
      BY <1>6 DEF Codes!AcceptWellFormed
    <2> QED
      BY <2>1, <2>2
  <1>7. CASE UNCHANGED Codes!vars
    BY <1>7 DEF Codes!vars
  <1> QED
    BY <1>1, <1>2, <1>3, <1>4, <1>5, <1>6, <1>7 DEF Codes!Next

(* What the code does of REQ-SYN-006, whatever the order of codes, cancels *)
(* and waits: of one displayed code no more ill-formed guesses are heard   *)
(* than the policy allows, and one more for each lockout cancelled; and a  *)
(* lockout that nobody cancels lasts the whole cooldown.                   *)
THEOREM GuessesAreBounded == Spec => []LockoutHolds
  <1> DEFINE Inv == machine = "Codes" => Codes!LockoutInv
  <1>1. Init => Inv
    <2> SUFFICES ASSUME machine = "Codes", Codes!Init PROVE Codes!LockoutInv
      BY DEF Init, InitPodcast, InitCodes, InitSession, InitChain, InitLifecycle, InitIpc, InitHttp,
             InitPainted, InitBrainz, InitPipe, InitEqualizer, InitLibrary
    <2> QED
      BY CodesAssumption DEF Codes!Init, Codes!LockoutInv, Codes!TypeOK, Codes!LockoutHolds, Codes!CountsAgree,
         Codes!LockDated, Codes!Never
  <1>2. Inv /\ [Next]_vars => Inv'
    BY SyncSteps, LockoutInductive
  <1>3. Inv => LockoutHolds
    BY DEF LockoutHolds, Codes!LockoutInv
  <1> QED
    BY <1>1, <1>2, <1>3, PTL DEF Spec

-----------------------------------------------------------------------------
(* The session                                                             *)

(* What the argument needs of the conversation: no step of it is Idle, only *)
(* its first step connects, and the peer's Hello is read at the third.      *)
LEMMA ScriptShape ==
    /\ Len(Session!Script) = 13
    /\ \A i \in 1..13 : /\ Session!Script[i].state # "Idle"
                        /\ Session!Script[i].do = "connect" => i = 1
                        /\ Session!Script[i].do = "expect" => i # 13 /\ (Session!Script[i].type = "Hello" <=> i = 3)
    /\ Session!Script[1].state = "Connecting" /\ Session!Script[2].state # "Connecting"
    /\ Session!Script[3] = Session!Expect("Handshaking", "Hello")
  <1>1. Len(Session!Script) = 13
    BY DEF Session!Script
  <1>2. /\ Session!Script[1] = Session!Turn("connect", "Connecting", "none", TRUE)
        /\ Session!Script[2] = Session!Send("Handshaking", "Hello")
        /\ Session!Script[3] = Session!Expect("Handshaking", "Hello")
        /\ Session!Script[4] = Session!Send("Handshaking", "Hello")
        /\ Session!Script[5] = Session!Send("Capabilities", "Capabilities")
        /\ Session!Script[6] = Session!Expect("Capabilities", "Capabilities")
        /\ Session!Script[7] = Session!Send("Capabilities", "Capabilities")
        /\ Session!Script[8] = Session!Send("Syncing", "ChangesSince")
        /\ Session!Script[9] = Session!TryExpect("Syncing", "Changes")
        /\ Session!Script[10] = Session!TrySend("Syncing", "Ack")
        /\ Session!Script[11] = Session!TrySend("Syncing", "ChangesSince")
        /\ Session!Script[12] = Session!TryExpect("Syncing", "Changes")
        /\ Session!Script[13] = Session!TrySend("Syncing", "Goodbye")
    BY DEF Session!Script
  <1>3. ASSUME NEW i \in 1..13
        PROVE  /\ Session!Script[i].state # "Idle"
               /\ Session!Script[i].do = "connect" => i = 1
               /\ Session!Script[i].do = "expect" => i # 13 /\ (Session!Script[i].type = "Hello" <=> i = 3)
    <2> USE DEF Session!Turn, Session!Send, Session!Expect, Session!TrySend, Session!TryExpect
    <2>1. CASE i \in 1..4
      BY <1>2, <2>1
    <2>2. CASE i \in 5..8
      BY <1>2, <2>2
    <2>3. CASE i \in 9..13
      BY <1>2, <2>3
    <2> QED
      BY <2>1, <2>2, <2>3
  <1>4. Session!Script[1].state = "Connecting" /\ Session!Script[2].state = "Handshaking"
    BY <1>2 DEF Session!Send, Session!Turn
  <1> QED
    BY <1>1, <1>2, <1>3, <1>4

(* Going on to the next step keeps what holds of a running session.        *)
LEMMA GoesKeeps ==
    ASSUME Session!SessionInv, Session!Running, Session!Goes, mutex' = mutex,
           open' \in BOOLEAN, open' => open \/ step = 1, step = 13 => ~open',
           step = 3 => answered' = with, step > 3 => answered' = answered,
           peers' = peers, found' = found, enabled' = enabled
    PROVE  Session!SessionInv'
  <1> USE DEF Session!SessionInv, Session!TypeOK, Session!Running
  <1>1. Len(Session!Script) = 13 /\ step \in 1..13 /\ with' = with
    BY ScriptShape DEF Session!Goes, Session!Moves
  <1>2. CASE step = 13
    BY <1>1, <1>2 DEF Session!Goes, Session!Stuck
  <1>3. CASE step < 13 /\ mutex
    <2>1. /\ step + 1 \in 1..13 /\ Session!Script[step + 1].state # "Idle" /\ state = "Idle" /\ ~open
      BY <1>1, <1>3, ScriptShape
    <2>2. CASE Session!Script[step + 1].state = Session!Now.state
      <3>1. state' = state /\ step' = step + 1
        BY <1>1, <1>3, <2>2 DEF Session!Goes, Session!Moves
      <3>2. step # 1
        BY <2>2, ScriptShape DEF Session!Now
      <3> QED
        BY <1>1, <1>3, <2>1, <3>1, <3>2
    <2>3. CASE Session!Script[step + 1].state # Session!Now.state
      <3>1. step' = -1
        BY <1>1, <1>3, <2>1, <2>3 DEF Session!Goes, Session!Moves, Session!Stuck
      <3> QED
        BY <1>1, <1>3, <3>1
    <2> QED
      BY <2>2, <2>3
  <1>4. CASE step < 13 /\ ~mutex
    <2>1. state' = Session!Script[step + 1].state /\ step' = step + 1
      BY <1>1, <1>4 DEF Session!Goes, Session!Moves
    <2>2. state' = Session!Now'.state
      BY <2>1 DEF Session!Now
    <2> QED
      BY <1>1, <1>4, <2>1, <2>2
  <1> QED
    BY <1>1, <1>2, <1>3, <1>4

(* A return leaves nothing behind, or the thread is stuck for good.        *)
LEMMA ReturnsKeeps ==
    ASSUME Session!SessionInv, Session!Returns, mutex' = mutex,
           peers' = peers, found' = found, enabled' = enabled
    PROVE  Session!SessionInv'
  <1>1. Len(Session!Script) = 13
    BY ScriptShape
  <1>2. /\ open' = FALSE /\ state' = "Idle" /\ with' = with
        /\ step' = IF mutex /\ state # "Idle" THEN -1 ELSE 0
    BY DEF Session!Returns, Session!Moves, Session!Stuck
  <1>3. step' \in -1..13
    BY <1>2
  <1>4. Session!TypeOK'
    BY <1>1, <1>2, <1>3 DEF Session!SessionInv, Session!TypeOK
  <1> QED
    BY <1>1, <1>2, <1>4 DEF Session!SessionInv, Session!TypeOK, Session!Running

(* The invariant is kept by the discovery, the session and cancel() alike. *)
LEMMA SessionInductive ==
    ASSUME Session!SessionInv, [Session!Next]_(Session!vars)
    PROVE  Session!SessionInv'
  <1> USE DEF Session!SessionInv, Session!TypeOK, Session!Running
  <1>0. Len(Session!Script) = 13
    BY ScriptShape
  <1>1. ASSUME NEW p \in Peers \cup {Me}, Session!InjectPeer(p)
        PROVE  Session!SessionInv'
    BY <1>1 DEF Session!InjectPeer, Session!Others, Session!Now
  <1>2. ASSUME NEW p \in Peers \cup {Me}, Session!DropPeer(p)
        PROVE  Session!SessionInv'
    BY <1>2 DEF Session!DropPeer, Session!Others, Session!Now
  <1>3. ASSUME NEW p \in Peers \cup {Me}, Session!SyncWith(p)
        PROVE  Session!SessionInv'
    <2>1. /\ step = 0 /\ ~open /\ state = "Idle" /\ state' = "Connecting"
          /\ step' = IF mutex THEN -1 ELSE 1
          /\ UNCHANGED <<open, enabled, mutex, peers, found>>
      BY <1>3 DEF Session!SyncWith, Session!Moves, Session!Discovered, Session!Stuck
    <2>2. CASE mutex
      BY <1>0, <2>1, <2>2
    <2>3. CASE ~mutex
      <3>1. state' = Session!Now'.state
        BY <2>1, <2>3, ScriptShape DEF Session!Now
      <3> QED
        BY <1>0, <2>1, <2>3, <3>1
    <2> QED
      BY <2>2, <2>3
  <1>4. CASE Session!StopDiscovery
    BY <1>4 DEF Session!StopDiscovery, Session!Others, Session!Now
  <1>5. CASE Session!SetEnabled
    BY <1>5 DEF Session!SetEnabled, Session!Discovered, Session!Now
  <1>6. ASSUME NEW works \in BOOLEAN, Session!Connect(works)
        PROVE  Session!SessionInv'
    <2>1. step = 1
      BY <1>0, <1>6, ScriptShape DEF Session!Connect, Session!Now
    <2>2. CASE works
      <3>1. Session!Goes /\ open' = TRUE
        BY <1>6, <2>2 DEF Session!Connect
      <3> QED
        BY <1>6, <2>1, <3>1, GoesKeeps DEF Session!Connect, Session!Discovered
    <2>3. CASE ~works
      BY <1>6, <2>3, ReturnsKeeps DEF Session!Connect, Session!Discovered
    <2> QED
      BY <2>2, <2>3
  <1>7. ASSUME NEW works \in BOOLEAN, Session!SendFrame(works)
        PROVE  Session!SessionInv'
    <2>1. CASE Session!Now.must /\ ~works
      BY <1>7, <2>1, ReturnsKeeps DEF Session!SendFrame, Session!Discovered
    <2>2. CASE ~(Session!Now.must /\ ~works)
      <3>1. Session!Goes /\ open' = (step # 13 /\ open)
        BY <1>0, <1>7, <2>2 DEF Session!SendFrame
      <3>2. step # 3
        BY <1>7, ScriptShape DEF Session!SendFrame, Session!Now, Session!Expect, Session!Turn
      <3> QED
        BY <1>7, <3>1, <3>2, GoesKeeps DEF Session!SendFrame, Session!Discovered
    <2> QED
      BY <2>1, <2>2
  <1>8. ASSUME NEW frame \in Session!Frames, Session!Receive(frame)
        PROVE  Session!SessionInv'
    <2>1. /\ step \in 1..13 /\ Session!Now.do = "expect"
          /\ mutex' = mutex /\ UNCHANGED <<peers, found, enabled>>
          /\ answered' = IF Session!Now.type = "Hello" THEN frame.uuid ELSE answered
      BY <1>0, <1>8 DEF Session!Receive, Session!Discovered
    <2>2. step # 13 /\ (Session!Now.type = "Hello" <=> step = 3)
      BY <2>1, ScriptShape DEF Session!Now
    <2>3. CASE Session!Now.must /\ ~Session!Meets(frame)
      BY <1>8, <2>1, <2>3, ReturnsKeeps DEF Session!Receive
    <2>4. CASE ~(Session!Now.must /\ ~Session!Meets(frame))
      <3>1. Session!Goes /\ open' = open
        BY <1>8, <2>4 DEF Session!Receive
      <3>2. step = 3 => answered' = with
        BY <2>1, <2>2, <2>4, ScriptShape DEF Session!Now, Session!Expect, Session!Turn, Session!Meets
      <3> QED
        BY <2>1, <2>2, <3>1, <3>2, GoesKeeps
    <2> QED
      BY <2>3, <2>4
  <1>9. ASSUME NEW disables \in BOOLEAN, Session!Cancel(disables)
        PROVE  Session!SessionInv'
    <2>1. /\ ~mutex /\ open' = FALSE /\ state' = "Idle" /\ mutex' = (state # "Idle") /\ enabled' \in BOOLEAN
          /\ UNCHANGED <<step, with, answered, peers, found>>
      BY <1>9 DEF Session!Cancel, Session!Discovered
    <2>2. step > 0 => state # "Idle"
      BY <1>0, <2>1, ScriptShape DEF Session!Now
    <2> QED
      BY <2>1, <2>2
  <1>10. CASE UNCHANGED Session!vars
    BY <1>10 DEF Session!vars, Session!Now
  <1> QED
    BY <1>1, <1>2, <1>3, <1>4, <1>5, <1>6, <1>7, <1>8, <1>9, <1>10 DEF Session!Next

-----------------------------------------------------------------------------
(* The transport                                                           *)

(* A frame is put behind those that wait, with a number of its own.        *)
LEMMA DeliverKeeps ==
    ASSUME Pipe!PipeInv, NEW e \in Ends, Pipe!Deliver(e)
    PROVE  Pipe!PipeInv'
  <1> DEFINE t == mutex[e]
             frame == [by |-> t, number |-> number[t] + 1, key |-> psk[e]]
             p == peer[e]
  <1>1. /\ t \in Threads /\ p \in Ends /\ psk[e] \in Keys
        /\ number[t] \in Nat
    BY DEF Pipe!PipeInv, Pipe!TypeOK, Pipe!SendersReady, Pipe!Deliver, Pipe!Free, Pipe!Ready
  <1>2. /\ inbox' = [inbox EXCEPT ![p] = Append(inbox[p], frame)]
        /\ mutex' = [mutex EXCEPT ![e] = None]
        /\ number' = [number EXCEPT ![t] = number[t] + 1]
        /\ psk' = psk /\ peer' = peer
    BY DEF Pipe!Deliver
  <1>3. frame \in Pipe!Frame
    BY <1>1 DEF Pipe!Frame
  <1> HIDE DEF t, p
  <1>4. Pipe!TypeOK'
    BY <1>1, <1>2, <1>3 DEF Pipe!PipeInv, Pipe!TypeOK
  <1>5. Pipe!SendersReady'
    BY <1>2 DEF Pipe!PipeInv, Pipe!TypeOK, Pipe!SendersReady, Pipe!Ready
  <1>6. /\ \A k \in Threads : number[k] <= number'[k]
        /\ number'[t] = number[t] + 1
    BY <1>1, <1>2 DEF Pipe!PipeInv, Pipe!TypeOK
  <1>7. ASSUME NEW x \in Ends, NEW i \in DOMAIN inbox'[x]
        PROVE  \/ i \in DOMAIN inbox[x] /\ inbox'[x][i] = inbox[x][i]
               \/ x = p /\ i = Len(inbox[x]) + 1 /\ inbox'[x][i] = frame
    <2>1. CASE x = p
      <3>1. inbox[p] \in Seq(Pipe!Frame) /\ inbox'[p] = Append(inbox[p], frame)
        BY <1>1, <1>2 DEF Pipe!PipeInv, Pipe!TypeOK
      <3> QED
        BY <1>3, <1>7, <2>1, <3>1
    <2>2. CASE x # p
      BY <1>1, <1>2, <1>7, <2>2 DEF Pipe!PipeInv, Pipe!TypeOK
    <2> QED
      BY <2>1, <2>2
  <1>8. Pipe!NumbersReached'
    <2> SUFFICES ASSUME NEW x \in Ends, NEW i \in DOMAIN inbox'[x]
                 PROVE  inbox'[x][i].number <= number'[inbox'[x][i].by]
      BY DEF Pipe!NumbersReached
    <2>1. CASE i \in DOMAIN inbox[x] /\ inbox'[x][i] = inbox[x][i]
      <3>1. inbox[x][i] \in Pipe!Frame
        BY <2>1 DEF Pipe!PipeInv, Pipe!TypeOK
      <3>2. inbox[x][i].by \in Threads /\ inbox[x][i].number \in Nat
        BY <3>1 DEF Pipe!Frame
      <3> QED
        BY <1>4, <1>6, <2>1, <3>2 DEF Pipe!PipeInv, Pipe!TypeOK, Pipe!NumbersReached
    <2>2. CASE inbox'[x][i] = frame
      BY <1>1, <1>6, <2>2
    <2> QED
      BY <1>7, <2>1, <2>2
  <1>9. Pipe!FramesKept'
    <2> SUFFICES ASSUME NEW x \in Ends, NEW i \in DOMAIN inbox'[x]
                 PROVE  /\ inbox'[x][i].key # None
                        /\ \A j \in 1..i - 1 : inbox'[x][j].by = inbox'[x][i].by
                                 => inbox'[x][j].number < inbox'[x][i].number
      BY DEF Pipe!FramesKept
    <2>0. inbox[x] \in Seq(Pipe!Frame) /\ inbox'[x] \in Seq(Pipe!Frame)
      BY <1>4 DEF Pipe!PipeInv, Pipe!TypeOK
    <2>1. CASE i \in DOMAIN inbox[x] /\ inbox'[x][i] = inbox[x][i]
      <3>1. \A j \in 1..i - 1 : j \in DOMAIN inbox[x] /\ inbox'[x][j] = inbox[x][j]
        BY <1>7, <2>0, <2>1
      <3> QED
        BY <2>1, <3>1 DEF Pipe!PipeInv, Pipe!FramesKept
    <2>2. CASE x = p /\ i = Len(inbox[x]) + 1 /\ inbox'[x][i] = frame
      <3>1. \A j \in 1..i - 1 : j \in DOMAIN inbox[x] /\ inbox'[x][j] = inbox[x][j]
        BY <1>7, <2>0, <2>2
      <3>2. ASSUME NEW j \in 1..i - 1, inbox'[x][j].by = t
            PROVE  inbox'[x][j].number < number[t] + 1
        <4>1. inbox[x][j] \in Pipe!Frame
          BY <2>0, <3>1
        <4>2. inbox[x][j].number \in Nat
          BY <4>1 DEF Pipe!Frame
        <4>3. inbox[x][j].by = t /\ inbox[x][j].number <= number[t]
          BY <3>1, <3>2 DEF Pipe!PipeInv, Pipe!NumbersReached
        <4> QED
          BY <1>1, <3>1, <4>2, <4>3
      <3> QED
        BY <1>1, <2>2, <3>2, PipeAssumption
    <2> QED
      BY <1>7, <2>1, <2>2
  <1> QED
    BY <1>4, <1>5, <1>8, <1>9 DEF Pipe!PipeInv

(* Taking the first frame leaves the rest in their order.                  *)
LEMMA ReceiveKeeps ==
    ASSUME Pipe!PipeInv, NEW e \in Ends, Pipe!Receive(e)
    PROVE  Pipe!PipeInv'
  <1>1. /\ inbox' = [inbox EXCEPT ![e] = Tail(inbox[e])]
        /\ inbox[e] # <<>> /\ inbox[e] \in Seq(Pipe!Frame)
        /\ psk' = psk /\ peer' = peer /\ mutex' = mutex /\ number' = number
    BY DEF Pipe!Receive, Pipe!PipeInv, Pipe!TypeOK
  <1>2. Tail(inbox[e]) \in Seq(Pipe!Frame)
    BY <1>1
  <1>3. Pipe!TypeOK' /\ Pipe!SendersReady'
    BY <1>1, <1>2 DEF Pipe!PipeInv, Pipe!TypeOK, Pipe!SendersReady, Pipe!Ready
  <1>4. ASSUME NEW x \in Ends, NEW i \in DOMAIN inbox'[x]
        PROVE  \E n \in DOMAIN inbox[x] :
                    /\ inbox'[x][i] = inbox[x][n]
                    /\ \A j \in 1..i - 1 : \E l \in 1..n - 1 : inbox'[x][j] = inbox[x][l]
    <2>1. CASE x = e
      <3>1. inbox'[x] = Tail(inbox[e])
        BY <1>1, <2>1 DEF Pipe!PipeInv, Pipe!TypeOK
      <3>2. /\ Len(Tail(inbox[e])) = Len(inbox[e]) - 1
            /\ \A j \in 1..Len(inbox[e]) - 1 : Tail(inbox[e])[j] = inbox[e][j + 1]
        BY <1>1
      <3>3. i \in 1..Len(inbox[e]) - 1
        BY <1>2, <1>4, <3>1, <3>2
      <3>4. i + 1 \in DOMAIN inbox[x] /\ inbox'[x][i] = inbox[x][i + 1]
        <4>1. i \in 1..Len(inbox[e]) - 1 /\ i + 1 \in 1..Len(inbox[e])
          BY <1>1, <3>3
        <4>2. i + 1 \in DOMAIN inbox[x]
          BY <1>1, <2>1, <4>1
        <4>3. inbox'[x][i] = inbox[x][i + 1]
          BY <2>1, <3>1, <3>2, <4>1
        <4> QED
          BY <4>2, <4>3
      <3>5. ASSUME NEW j \in 1..i - 1
            PROVE  \E l \in 1..(i + 1) - 1 : inbox'[x][j] = inbox[x][l]
        <4>1. j \in 1..Len(inbox[e]) - 1 /\ j + 1 \in 1..(i + 1) - 1
          BY <1>1, <3>3
        <4>2. inbox'[x][j] = inbox[x][j + 1]
          BY <2>1, <3>1, <3>2, <4>1
        <4> QED
          BY <4>1, <4>2
      <3> QED
        BY <3>4, <3>5
    <2>2. CASE x # e
      <3>1. inbox'[x] = inbox[x] /\ inbox[x] \in Seq(Pipe!Frame)
        BY <1>1, <2>2 DEF Pipe!PipeInv, Pipe!TypeOK
      <3> QED
        BY <1>4, <3>1
    <2> QED
      BY <2>1, <2>2
  <1>5. Pipe!NumbersReached'
    BY <1>1, <1>4 DEF Pipe!PipeInv, Pipe!NumbersReached
  <1>6. Pipe!FramesKept'
    <2> SUFFICES ASSUME NEW x \in Ends, NEW i \in DOMAIN inbox'[x]
                 PROVE  /\ inbox'[x][i].key # None
                        /\ \A j \in 1..i - 1 : inbox'[x][j].by = inbox'[x][i].by
                                 => inbox'[x][j].number < inbox'[x][i].number
      BY DEF Pipe!FramesKept
    <2>1. PICK n \in DOMAIN inbox[x] :
                /\ inbox'[x][i] = inbox[x][n]
                /\ \A j \in 1..i - 1 : \E l \in 1..n - 1 : inbox'[x][j] = inbox[x][l]
      BY <1>4
    <2>2. /\ inbox[x][n].key # None
          /\ \A l \in 1..n - 1 : inbox[x][l].by = inbox[x][n].by
                    => inbox[x][l].number < inbox[x][n].number
      BY DEF Pipe!PipeInv, Pipe!FramesKept
    <2>3. ASSUME NEW j \in 1..i - 1, inbox'[x][j].by = inbox'[x][i].by
          PROVE  inbox'[x][j].number < inbox'[x][i].number
      <3>1. PICK l \in 1..n - 1 : inbox'[x][j] = inbox[x][l]
        BY <2>1
      <3> QED
        BY <2>1, <2>2, <2>3, <3>1
    <2> QED
      BY <2>1, <2>2, <2>3
  <1> QED
    BY <1>3, <1>5, <1>6 DEF Pipe!PipeInv

(* Every step keeps the invariant.                                         *)
LEMMA PipeInductive ==
    ASSUME Pipe!PipeInv, [Pipe!Next]_(Pipe!vars)
    PROVE  Pipe!PipeInv'
  <1>1. ASSUME NEW e \in Ends, NEW key \in Keys, Pipe!Connect(e, key)
        PROVE  Pipe!PipeInv'
    BY <1>1 DEF Pipe!Connect, Pipe!Free, Pipe!PipeInv, Pipe!TypeOK, Pipe!SendersReady, Pipe!Ready, Pipe!NumbersReached, Pipe!FramesKept
  <1>2. ASSUME NEW e \in Ends, NEW other \in Ends \cup {None}, Pipe!BindPeer(e, other)
        PROVE  Pipe!PipeInv'
    BY <1>2 DEF Pipe!BindPeer, Pipe!Free, Pipe!PipeInv, Pipe!TypeOK, Pipe!SendersReady, Pipe!Ready, Pipe!NumbersReached, Pipe!FramesKept
  <1>3. ASSUME NEW e \in Ends, NEW t \in Threads, Pipe!Send(t, e)
        PROVE  Pipe!PipeInv'
    BY <1>3 DEF Pipe!Send, Pipe!Free, Pipe!PipeInv, Pipe!TypeOK, Pipe!SendersReady, Pipe!Ready, Pipe!NumbersReached, Pipe!FramesKept
  <1>4. ASSUME NEW e \in Ends, Pipe!Close(e)
        PROVE  Pipe!PipeInv'
    <2>1. /\ psk' = [psk EXCEPT ![e] = None] /\ inbox' = [inbox EXCEPT ![e] = <<>>]
          /\ mutex[e] = None
          /\ peer' = peer /\ mutex' = mutex /\ number' = number
      BY <1>4 DEF Pipe!Close, Pipe!Free
    <2>2. Pipe!TypeOK'
      BY <2>1 DEF Pipe!PipeInv, Pipe!TypeOK
    <2>3. Pipe!SendersReady'
      BY <2>1 DEF Pipe!PipeInv, Pipe!TypeOK, Pipe!SendersReady, Pipe!Ready
    <2>4. \A x \in Ends : inbox'[x] = inbox[x] \/ inbox'[x] = <<>>
      BY <2>1 DEF Pipe!PipeInv, Pipe!TypeOK
    <2>5. Pipe!NumbersReached' /\ Pipe!FramesKept'
      BY <2>1, <2>4 DEF Pipe!PipeInv, Pipe!NumbersReached, Pipe!FramesKept
    <2> QED
      BY <2>2, <2>3, <2>5 DEF Pipe!PipeInv
  <1>5. CASE UNCHANGED Pipe!vars
    BY <1>5 DEF Pipe!vars, Pipe!PipeInv, Pipe!TypeOK, Pipe!SendersReady, Pipe!Ready, Pipe!NumbersReached, Pipe!FramesKept
  <1> QED
    BY <1>1, <1>2, <1>3, <1>4, <1>5, DeliverKeeps, ReceiveKeeps DEF Pipe!Next

-----------------------------------------------------------------------------

(* However cancels, answers and failures fall, a session that is over has   *)
(* left its connection closed and its state Idle, and only ever talked of   *)
(* changes to the peer it was meant for; and a frame is put under the key   *)
(* its end still has, each of a thread once and after the thread's earlier  *)
(* ones. An end that has closed is still sent to, and nothing is said of a  *)
(* step that never comes: a cancel() that blocks, two sends that cross.     *)
THEOREM SyncEndsInOrder == Spec => []SyncHolds
  <1> DEFINE Inv == /\ machine = "Session" => Session!SessionInv
                    /\ machine = "Pipe" => Pipe!PipeInv
  <1>1. Init => Inv
    <2>1. Init => /\ machine = "Session" => Session!Init
                  /\ machine = "Pipe" => Pipe!Init
      BY DEF Init, InitPodcast, InitCodes, InitSession, InitChain, InitLifecycle, InitIpc, InitHttp,
             InitPainted, InitBrainz, InitPipe, InitEqualizer, InitLibrary
    <2>2. ASSUME Session!Init PROVE Session!SessionInv
      <3>1. 0 \in -1..Len(Session!Script)
        BY ScriptShape
      <3>2. Session!TypeOK
        BY <2>2, <3>1 DEF Session!Init, Session!TypeOK
      <3>3. ~Session!Running /\ ~(step > 3) /\ ~open /\ state = "Idle" /\ peers = {} /\ found = {}
        BY <2>2 DEF Session!Init, Session!Running
      <3> QED
        BY <3>2, <3>3 DEF Session!SessionInv
    <2>3. Pipe!Init => Pipe!PipeInv
      BY DEF Pipe!Init, Pipe!PipeInv, Pipe!TypeOK, Pipe!SendersReady, Pipe!NumbersReached, Pipe!FramesKept
    <2> QED
      BY <2>1, <2>2, <2>3
  <1>2. Inv /\ [Next]_vars => Inv'
    BY SyncSteps, SessionInductive, PipeInductive
  <1>3. Inv => SyncHolds
    <2>1. ASSUME Session!SessionInv PROVE Session!SessionsEndClosed
      BY <2>1 DEF Session!SessionInv, Session!SessionsEndClosed, Session!TypeOK, Session!Running
    <2> QED
      BY <2>1 DEF SyncHolds, Pipe!PipeInv
  <1> QED
    BY <1>1, <1>2, <1>3, PTL DEF Spec

-----------------------------------------------------------------------------
(* The library                                                             *)

(* A list follows its rule as long as its rule, the rows it was filled     *)
(* from and the items it was filled with stay, wherever the latter are.    *)
LEMMA StaysFollowed ==
    ASSUME NEW l, lists'[l] = lists[l], asOf'[l] = asOf[l],
           Library!Placed(l)' = Library!Placed(l), Library!FollowsRule(l)
    PROVE  Library!FollowsRule(l)'
  <1>1. \A o, a, b : Library!InOrder(asOf[l], o, a, b)' = Library!InOrder(asOf[l], o, a, b)
    BY DEF Library!InOrder
  <1>2. Library!IsNumbered(l)'
    BY <1>1 DEF Library!FollowsRule, Library!IsNumbered
  <1>3. Library!HoldsWhatItSays(l) => Library!HoldsWhatItSays(l)'
    BY <1>1 DEF Library!HoldsWhatItSays
  <1> QED
    BY <1>2, <1>3 DEF Library!FollowsRule

(* So does a list that is emptied, whatever its rule says: it is of no row. *)
LEMMA EmptiedFollows ==
    ASSUME NEW l, asOf'[l] = Library!NoRows, Library!Placed(l)' = {}, RuleOf(lists'[l]).limit \in Nat
    PROVE  Library!FollowsRule(l)'
  <1> DEFINE rule == RuleOf(lists'[l])
  <1>1. DOMAIN asOf'[l] = {} /\ Library!Cardinality({}) = 0
    BY FS_EmptySet DEF Library!NoRows, Library!Cardinality, Cardinality
  <1>2. {i.position : i \in Library!Placed(l)'} = {} /\ {i.track : i \in Library!Placed(l)'} = {} /\ 1..0 = {} /\ 0 \in 0..0
    OBVIOUS
  <1>3. Library!IsNumbered(l)'
    BY <1>1, <1>2 DEF Library!IsNumbered
  <1>4. {id \in DOMAIN asOf'[l] : Describes(rule.match, asOf'[l][id])} = {}
    BY <1>1
  <1>5. (IF rule.limit = Library!NoLimit THEN 0 ELSE Library!Smaller(rule.limit, 0)) = 0
    BY DEF Library!Smaller
  <1>6. Library!HoldsWhatItSays(l)'
    BY <1>1, <1>2, <1>4, <1>5 DEF Library!HoldsWhatItSays
  <1> QED
    BY <1>3, <1>6 DEF Library!FollowsRule

(* A ranking of a finite set lists each of its members once, in the order.  *)
LEMMA RankingShape ==
    ASSUME NEW q, NEW S, IsFiniteSet(S), NEW s \in Library!Rankings(q, S)
    PROVE  /\ Cardinality(S) \in Nat /\ Len(s) = Cardinality(S)
           /\ s \in [1..Cardinality(S) -> S]
           /\ \A i, j \in 1..Cardinality(S) : s[i] = s[j] => i = j
           /\ \A b \in S : \E i \in 1..Cardinality(S) : s[i] = b
           /\ \A i, j \in 1..Cardinality(S) : i < j => Library!InOrder(tracks, q.orderBy, s[i], s[j])
  <1> DEFINE n == Cardinality(S)
  <1>1. n \in Nat
    BY FS_CardinalityType
  <1>2. Library!Cardinality(S) = n
    BY DEF Library!Cardinality, Cardinality
  <1>3. /\ s \in [1..n -> S]
        /\ \A i, j \in 1..n : s[i] = s[j] => i = j
        /\ \A i, j \in 1..n : i < j => Library!InOrder(tracks, q.orderBy, s[i], s[j])
    BY <1>2 DEF Library!Rankings
  <1>4. s \in Seq(S) /\ Len(s) = n
    BY <1>1, <1>3, SeqDef
  <1>5. s \in Injection(1..n, S)
    BY <1>3 DEF Injection, IsInjective
  <1>6. Cardinality(1..n) = n
    BY <1>1, FS_Interval
  <1>7. s \in Surjection(1..n, S)
    BY <1>5, <1>6, FS_Injection
  <1> QED
    BY <1>1, <1>3, <1>4, <1>7 DEF Surjection

(* The limit is where its question mark is, and a rule without a literal   *)
(* has no value there.                                                     *)
LEMMA BindingsShape ==
    ASSUME NEW q, NEW l, NEW P, q.params \in Seq(P), q.limit \in Nat
    PROVE  /\ q.limit # 0 => Library!Limit(q, l) = q.limit
           /\ q.params = <<>> => Library!RuleParams(q, l) = <<>>
  <1> DEFINE N(x) == [num |-> x]
             V == P \cup {N(l), N(LibraryClock), N(q.limit)}
             front == (<<N(l)>> \o q.params) \o <<N(LibraryClock)>>
             bound == IF q.limit = 0 THEN <<>> ELSE <<N(q.limit)>>
             n == Len(q.params)
  <1>1. /\ n \in Nat /\ q.params \in Seq(V) /\ bound \in Seq(V)
        /\ <<N(l)>> \in Seq(V) /\ <<N(LibraryClock)>> \in Seq(V)
        /\ Len(<<N(l)>>) = 1 /\ Len(<<N(LibraryClock)>>) = 1
    <2>1. q.params \in Seq(V)
      BY SeqMonotonic
    <2>2. N(l) \in V /\ N(LibraryClock) \in V /\ N(q.limit) \in V
      OBVIOUS
    <2> HIDE DEF V, N
    <2>3. n \in Nat
      BY <2>1, LenProperties
    <2>4. \A v \in V : <<v>> \in Seq(V) /\ Len(<<v>>) = 1
      OBVIOUS
    <2>5. bound \in Seq(V)
      BY <2>2, <2>4
    <2> QED
      BY <2>1, <2>2, <2>3, <2>4, <2>5
  <1>2. <<N(l)>> \o q.params \in Seq(V) /\ Len(<<N(l)>> \o q.params) = 1 + n
    BY <1>1, ConcatProperties
  <1>3. front \in Seq(V) /\ Len(front) = n + 2
    <2> HIDE DEF V, N
    <2> QED
      BY <1>1, <1>2, ConcatProperties
  <1>4. Library!Bindings(q, l) = front \o bound
    BY DEF Library!Bindings, Library!Num, Library!NoLimit
  <1>5. ASSUME q.limit # 0 PROVE Library!Limit(q, l) = q.limit
    <2>1. bound = <<N(q.limit)>> /\ Len(bound) = 1 /\ bound[1] = N(q.limit)
      BY <1>5
    <2>2. (front \o bound)[3 + n] = N(q.limit)
      <3> HIDE DEF front, bound, V, N, n
      <3> QED
        BY <1>1, <1>3, <2>1, ConcatProperties
    <2>3. (front \o bound)[3 + n].num = q.limit
      <3> HIDE DEF front, bound, n
      <3> QED
        BY <2>2
    <2> QED
      BY <1>4, <1>5, <2>3 DEF Library!Limit, Library!NoLimit
  <1>6. ASSUME q.params = <<>> PROVE Library!RuleParams(q, l) = <<>>
    <2>1. n = 0
      BY <1>6
    <2>2. SubSeq(Library!Bindings(q, l), 3, 2 + n) = <<>>
      <3> HIDE DEF n
      <3> QED
        BY <2>1, SubSeqEmpty
    <2> QED
      BY <2>2 DEF Library!RuleParams
  <1> QED
    BY <1>5, <1>6

(* The query of a saved rule has the order and the limit of the rule.      *)
LEMMA QueryShape ==
    ASSUME Library!TypeOK, NEW l \in DOMAIN lists
    PROVE  /\ lists[l] \in Library!Saved
           /\ QueryOf(lists[l]).limit = RuleOf(lists[l]).limit
           /\ QueryOf(lists[l]).limit \in Nat
           /\ QueryOf(lists[l]).orderBy = RuleOf(lists[l]).orderBy
           /\ \E P : QueryOf(lists[l]).params \in Seq(P)
  <1>1. lists[l] \in Library!Saved
    BY DEF Library!TypeOK
  <1> QED
    BY <1>1, LibraryAssumption

(* What a list is filled with: the first of the ranking, up to the limit.  *)
LEMMA FilledShape ==
    ASSUME Library!TypeOK, NEW l \in DOMAIN lists,
           NEW s \in Library!Rankings(QueryOf(lists[l]), Library!Chosen(QueryOf(lists[l]), l))
    PROVE  LET q == QueryOf(lists[l])
               S == Library!Chosen(q, l)
               size == IF q.limit = 0 THEN Cardinality(S) ELSE Library!Smaller(q.limit, Cardinality(S))
           IN  /\ S \subseteq DOMAIN tracks /\ IsFiniteSet(S)
               /\ size \in 0..Cardinality(S)
               /\ Library!Smaller(Len(s), Library!Limit(q, l)) = size
  <1> DEFINE q == QueryOf(lists[l])
             S == Library!Chosen(q, l)
  <1>1. IsFiniteSet(DOMAIN tracks)
    BY DEF Library!TypeOK, Library!IsFiniteSet, IsFiniteSet
  <1>2. S \in SUBSET DOMAIN tracks
    BY DEF Library!Chosen
  <1>3. /\ IsFiniteSet(S) /\ Cardinality(S) <= Cardinality(DOMAIN tracks)
        /\ Cardinality(S) \in Nat /\ Cardinality(DOMAIN tracks) \in Nat
    BY <1>1, <1>2, FS_Subset, FS_CardinalityType
  <1>4. Len(s) = Cardinality(S)
    BY <1>3, RankingShape
  <1>5. q.limit \in Nat /\ q.limit # 0 => Library!Limit(q, l) = q.limit
    BY QueryShape, BindingsShape
  <1>6. q.limit = 0 => Library!Limit(q, l) = Cardinality(DOMAIN tracks)
    BY DEF Library!Limit, Library!NoLimit, Library!Cardinality, Cardinality
  <1>7. q.limit \in Nat
    BY QueryShape
  <1> HIDE DEF q, S
  <1>8. LET size == IF q.limit = 0 THEN Cardinality(S) ELSE Library!Smaller(q.limit, Cardinality(S))
        IN  /\ size \in 0..Cardinality(S)
            /\ Library!Smaller(Len(s), Library!Limit(q, l)) = size
    BY <1>3, <1>4, <1>5, <1>6, <1>7 DEF Library!Smaller
  <1> QED
    BY <1>2, <1>3, <1>8 DEF q, S

(* A list that is filled follows its rule: the ranking holds every track   *)
(* that is chosen, which without literals are those the rule describes, so *)
(* those left out by the limit come after those that are in.               *)
LEMMA FilledFollows ==
    ASSUME Library!TypeOK, NEW l \in DOMAIN lists,
           NEW s \in Library!Rankings(QueryOf(lists[l]), Library!Chosen(QueryOf(lists[l]), l)),
           NEW x,
           asOf'[l] = tracks, lists' = lists,
           Library!Placed(l)' =
               {[list |-> l, position |-> i, track |-> s[i], added |-> x] :
                   i \in 1..Library!Smaller(Len(s), Library!Limit(QueryOf(lists[l]), l))}
    PROVE  Library!FollowsRule(l)'
  <1> DEFINE q == QueryOf(lists[l])
             S == Library!Chosen(q, l)
             rule == RuleOf(lists[l])
             says == {id \in DOMAIN tracks : Describes(rule.match, tracks[id])}
             size == IF q.limit = 0 THEN Cardinality(S) ELSE Library!Smaller(q.limit, Cardinality(S))
             new == Library!Placed(l)'
             held == {i.track : i \in new}
             Item(i) == [list |-> l, position |-> i, track |-> s[i], added |-> x]
             n == Cardinality(S)
  <1>1. /\ IsFiniteSet(S) /\ size \in 0..n /\ n \in Nat
        /\ new = {Item(i) : i \in 1..size}
    BY FilledShape, RankingShape
  <1>2. /\ s \in [1..n -> S]
        /\ \A b \in S : \E i \in 1..n : s[i] = b
        /\ \A i, j \in 1..n : i < j => Library!InOrder(tracks, q.orderBy, s[i], s[j])
    BY <1>1, RankingShape
  <1>3. q.orderBy = rule.orderBy /\ q.limit = rule.limit
    BY QueryShape
  <1>4. q.params = <<>> => says = S
    <2> SUFFICES ASSUME q.params = <<>> PROVE says = S
      OBVIOUS
    <2>1. Library!RuleParams(q, l) = <<>>
      BY QueryShape, BindingsShape
    <2>2. \A id \in DOMAIN tracks : Chooses(q.where, <<>>, tracks[id]) <=> Describes(rule.match, tracks[id])
      <3>1. lists[l] \in Library!Saved /\ \A id \in DOMAIN tracks : tracks[id] \in Library!AllRows
        BY QueryShape DEF Library!TypeOK
      <3> QED
        BY <3>1, LibraryAssumption
    <2> QED
      BY <2>1, <2>2 DEF Library!Chosen
  <1>5. \A o, a, b : Library!InOrder(asOf[l], o, a, b)' = Library!InOrder(tracks, o, a, b)
    BY DEF Library!InOrder
  <1>6. /\ {i.position : i \in new} = 1..size
        /\ held = {s[i] : i \in 1..size}
        /\ \A i \in new : i.position \in 1..size /\ i.track = s[i.position]
    <2>1. \A i : Item(i).position = i /\ Item(i).track = s[i]
      OBVIOUS
    <2> HIDE DEF S, new, size, Item
    <2>2. \A i \in 1..size : Item(i) \in new /\ Item(i).position = i /\ Item(i).track = s[i]
      BY <1>1, <2>1
    <2>3. \A i \in new : i.position \in 1..size /\ i.track = s[i.position]
      BY <1>1, <2>1
    <2>4. {i.position : i \in new} = 1..size
      BY <2>2, <2>3
    <2>5. {i.track : i \in new} = {s[i] : i \in 1..size}
      BY <2>2, <2>3
    <2> QED
      BY <2>3, <2>4, <2>5
  <1>7. \A i, j \in new : i.position < j.position => Library!InOrder(tracks, rule.orderBy, i.track, j.track)
    BY <1>1, <1>2, <1>3, <1>6
  <1>8. n <= Cardinality(DOMAIN tracks) /\ Cardinality(DOMAIN tracks) \in Nat
    <2>1. IsFiniteSet(DOMAIN tracks) /\ S \in SUBSET DOMAIN tracks
      BY DEF Library!TypeOK, Library!IsFiniteSet, IsFiniteSet, Library!Chosen
    <2> QED
      BY <2>1, FS_Subset, FS_CardinalityType
  <1>9. Library!IsNumbered(l)'
    <2>1. size \in 0..Library!Cardinality(DOMAIN tracks)
      BY <1>1, <1>8 DEF Library!Cardinality, Cardinality
    <2>2. rule.limit # 0 => size <= rule.limit
      <3>1. q.limit \in Nat
        BY QueryShape
      <3> HIDE DEF q, S, rule
      <3> QED
        BY <1>1, <1>3, <3>1 DEF Library!Smaller
    <2> HIDE DEF size, new, q, S
    <2> QED
      BY <1>5, <1>6, <1>7, <2>1, <2>2 DEF Library!IsNumbered, Library!NoLimit, rule, new
  <1>10. q.params = <<>> => Library!HoldsWhatItSays(l)'
    <2> SUFFICES ASSUME says = S PROVE Library!HoldsWhatItSays(l)'
      BY <1>4
    <2>1. held \subseteq says
      BY <1>1, <1>2, <1>6
    <2>2. ASSUME NEW a \in held, NEW b \in says \ held
          PROVE  Library!InOrder(tracks, rule.orderBy, a, b)
      <3>1. PICK i \in 1..size : a = s[i]
        BY <1>6
      <3>2. PICK j \in 1..n : b = s[j]
        BY <1>2
      <3>3. j \notin 1..size
        BY <1>6, <2>2, <3>2
      <3> QED
        BY <1>1, <1>2, <1>3, <3>1, <3>2, <3>3
    <2>3. size = IF rule.limit = 0 THEN Library!Cardinality(says)
                  ELSE Library!Smaller(rule.limit, Library!Cardinality(says))
      <3>1. Library!Cardinality(says) = n
        BY DEF Library!Cardinality, Cardinality
      <3> QED
        BY <1>3, <3>1
    <2>4. says = {id \in DOMAIN asOf'[l] : Describes(rule.match, asOf'[l][id])}
      OBVIOUS
    <2> HIDE DEF size, says, new, S, q
    <2> QED
      BY <1>5, <1>6, <2>1, <2>2, <2>3, <2>4 DEF Library!HoldsWhatItSays, Library!NoLimit, rule, new
  <1> QED
    BY <1>9, <1>10 DEF Library!FollowsRule

(* What opens, ends or starts something, and changes no row.               *)
LEMMA ShellKeeps ==
    ASSUME Library!LibraryInv,
           \/ Library!Open \/ Library!Close \/ Library!Crash \/ Library!Refresh \/ Library!RefreshDone
           \/ Library!ImportRefreshes \/ UNCHANGED Library!vars
           \/ \E d \in MediaDisks : \E max \in 0..Len(d) : Library!Import(d, max)
    PROVE  Library!LibraryInv'
  <1> USE DEF Library!LibraryInv, Library!LibrarySound, Library!Rows, Library!Idle
  <1>0. UNCHANGED <<tracks, lists, items, asOf, removed>>
    BY DEF Library!Open, Library!Close, Library!Crash, Library!Refresh, Library!RefreshDone,
           Library!ImportRefreshes, Library!Import, Library!vars
  <1>1. Library!RowsFit'
    BY <1>0 DEF Library!RowsFit
  <1>2. Library!ListsFollowRules'
    <2>1. \A l : Library!Placed(l)' = Library!Placed(l)
      BY <1>0 DEF Library!Placed
    <2> QED
      BY <1>0, <2>1, StaysFollowed DEF Library!ListsFollowRules
  <1>3. Len(lists) \in Nat /\ DOMAIN lists = 1..Len(lists)
    BY LenProperties DEF Library!TypeOK
  <1>4. (Library!TypeOK /\ job' = job /\ isOpen' = isOpen /\ fresh' = fresh) => Library!TypeOK'
    BY <1>0 DEF Library!TypeOK
  <1>5. ASSUME fresh' = fresh PROVE Library!RefreshedListsAreCurrent'
    BY <1>0, <1>5 DEF Library!RefreshedListsAreCurrent
  <1>6. ASSUME isOpen' \in BOOLEAN, fresh' \in BOOLEAN,
               job' = Library!Idle \/ (Library!StartRefresh = job')
        PROVE  Library!TypeOK' /\ Library!RefreshedSoFar'
    <2>1. Library!StartRefresh \in [op : {"refresh"}, list : 1..Len(lists) + 1, step : {"clear", "fill"}]
      BY <1>3 DEF Library!StartRefresh
    <2>2. Library!TypeOK'
      BY <1>0, <1>6, <2>1 DEF Library!TypeOK
    <2>3. Library!RefreshedSoFar'
      BY <1>6 DEF Library!RefreshedSoFar, Library!Refreshing, Library!StartRefresh
    <2> QED
      BY <2>2, <2>3
  <1>7. CASE Library!Open \/ Library!Close \/ Library!Crash \/ Library!Refresh \/ Library!ImportRefreshes
    <2>1. isOpen' \in BOOLEAN /\ fresh' = fresh /\ fresh \in BOOLEAN
      BY <1>7 DEF Library!Open, Library!Close, Library!Crash, Library!Refresh, Library!ImportRefreshes, Library!TypeOK
    <2>2. job' = Library!Idle \/ Library!StartRefresh = job'
      BY <1>7 DEF Library!Open, Library!Close, Library!Crash, Library!Refresh, Library!ImportRefreshes
    <2> QED
      BY <1>1, <1>2, <1>5, <1>6, <2>1, <2>2
  <1>8. CASE Library!RefreshDone
    <2>1. job.op = "refresh" /\ job.list > Len(lists) /\ job' = Library!Idle /\ fresh' = TRUE /\ isOpen' = isOpen
      BY <1>8 DEF Library!RefreshDone
    <2>2. job \in [op : {"refresh"}, list : 1..Len(lists) + 1, step : {"clear", "fill"}]
      BY <2>1 DEF Library!TypeOK
    <2>3. \A l \in DOMAIN lists : l \in 1..job.list - 1
      BY <1>3, <2>1, <2>2
    <2>4. Library!RefreshedListsAreCurrent'
      BY <1>0, <2>1, <2>3 DEF Library!RefreshedListsAreCurrent, Library!RefreshedSoFar, Library!Refreshing
    <2>5. isOpen \in BOOLEAN
      BY DEF Library!TypeOK
    <2> QED
      BY <1>1, <1>2, <1>6, <2>1, <2>4, <2>5
  <1>9. CASE UNCHANGED Library!vars
    <2>1. job' = job /\ isOpen' = isOpen /\ fresh' = fresh
      BY <1>9 DEF Library!vars
    <2>2. Library!Placed(job.list)' = Library!Placed(job.list)
      BY <1>0, <2>1 DEF Library!Placed
    <2>3. Library!RefreshedSoFar'
      BY <1>0, <2>1, <2>2 DEF Library!RefreshedSoFar, Library!Refreshing
    <2> QED
      BY <1>1, <1>2, <1>4, <1>5, <2>1, <2>3
  <1>10. ASSUME NEW d \in MediaDisks, NEW max \in 0..Len(d), Library!Import(d, max)
         PROVE  Library!LibraryInv'
    <2>1. job' = [op |-> "import", files |-> Library!Scanned(d, max)] /\ isOpen' = isOpen /\ fresh' = fresh
      BY <1>10 DEF Library!Import
    <2>2. Library!Scanned(d, max) \in Seq(Library!OnDisk)
      <3>1. d \in Seq({d[i] : i \in DOMAIN d})
        BY LibraryAssumption
      <3>2. Len(d) \in Nat /\ DOMAIN d = 1..Len(d) /\ \A i \in 1..Len(d) : d[i] \in Library!OnDisk
        BY <3>1, LenProperties DEF Library!OnDisk
      <3>3. Library!Smaller(max, Len(d)) \in 0..Len(d)
        BY <3>2 DEF Library!Smaller
      <3> QED
        BY <3>2, <3>3, SubSeqProperties DEF Library!Scanned
    <2>3. Library!TypeOK'
      BY <1>0, <2>1, <2>2 DEF Library!TypeOK
    <2>4. Library!RefreshedSoFar'
      BY <2>1 DEF Library!RefreshedSoFar, Library!Refreshing
    <2> QED
      BY <1>1, <1>2, <1>5, <2>1, <2>3, <2>4
  <1> QED
    BY <1>7, <1>8, <1>9, <1>10

(* What adds or removes a row: the paths stay apart, the items keep naming *)
(* rows that exist, the lists are of the rows they were filled from, and   *)
(* none is taken for refreshed any more.                                   *)
LEMMA RowsChangeKeeps ==
    ASSUME Library!LibraryInv,
           \/ \E p \in Media : \/ Library!RemoveTrack(p)
                               \/ \E t \in Offered : Library!InsertTrack(p, t)
           \/ \E text \in RuleTexts : Library!SaveSmartPlaylist(text)
           \/ Library!ImportFile
    PROVE  Library!LibraryInv'
  <1> USE DEF Library!LibraryInv, Library!LibrarySound
  <1>1. IsFiniteSet(DOMAIN tracks) /\ tracks \in [DOMAIN tracks -> Library!AllRows]
    BY DEF Library!TypeOK, Library!IsFiniteSet, IsFiniteSet
  <1>2. \A p, t : Library!Row(p, t).path = p
    BY DEF Library!Row
  <1>3. \A S : Library!IsFiniteSet(S) = IsFiniteSet(S)
    BY DEF Library!IsFiniteSet, IsFiniteSet
  \* A new row, or a new value of the one its path has.
  <1>4. ASSUME NEW p, NEW t, Library!Row(p, t) \in Library!AllRows,
               tracks' = Library!Upsert(p, t), items' = items, lists' = lists
        PROVE  /\ IsFiniteSet(DOMAIN tracks') /\ tracks' \in [DOMAIN tracks' -> Library!AllRows]
               /\ Library!RowsFit'
    <2> DEFINE new == Library!FreshId
               R == Library!RowOf(p)
               c == CHOOSE id \in R : TRUE
               row == Library!Row(p, t)
    <2> HIDE DEF row
    <2>1. CASE R = {}
      <3>1. tracks' = [id \in DOMAIN tracks \cup {new} |-> IF id = new THEN row ELSE tracks[id]]
        BY <1>4, <2>1 DEF Library!Upsert, Library!Insert, row
      <3> HIDE DEF new
      <3>2. IsFiniteSet(DOMAIN tracks \cup {new})
        BY <1>1, FS_AddElement
      <3>3. row \in Library!AllRows /\ row.path = p
        BY <1>2, <1>4 DEF row
      <3>4. IsFiniteSet(DOMAIN tracks') /\ tracks' \in [DOMAIN tracks' -> Library!AllRows]
        BY <1>1, <3>1, <3>2, <3>3
      <3>5. \A id \in DOMAIN tracks : tracks[id].path # p
        BY <2>1 DEF Library!RowOf
      <3>6. \A a, b \in DOMAIN tracks' : tracks'[a].path = tracks'[b].path => a = b
        BY <3>1, <3>3, <3>5 DEF Library!RowsFit
      <3> QED
        BY <1>4, <3>1, <3>4, <3>6 DEF Library!RowsFit
    <2>2. CASE R # {}
      <3>1. c \in R /\ c \in DOMAIN tracks /\ tracks[c].path = p
        BY <2>2 DEF Library!RowOf
      <3>2. tracks' = [tracks EXCEPT ![c] = row]
        BY <1>4, <2>2 DEF Library!Upsert, row
      <3> HIDE DEF c, R
      <3>3. row \in Library!AllRows /\ row.path = p
        BY <1>2, <1>4 DEF row
      <3>4. DOMAIN tracks' = DOMAIN tracks /\ tracks' \in [DOMAIN tracks' -> Library!AllRows]
        BY <1>1, <3>2, <3>3
      <3>5. \A id \in DOMAIN tracks : tracks'[id].path = tracks[id].path
        BY <1>1, <3>1, <3>2, <3>3
      <3> QED
        BY <1>1, <1>4, <3>4, <3>5 DEF Library!RowsFit
    <2> QED
      BY <2>1, <2>2
  \* Whatever the next job is, no refresh is under way and nothing is fresh.
  <1>5. ASSUME lists' \in Seq(Library!Saved), isOpen' = isOpen, fresh' = FALSE,
               job' \in {Library!Idle} \cup [op : {"import"}, files : Seq(Library!OnDisk)],
               IsFiniteSet(DOMAIN tracks'), tracks' \in [DOMAIN tracks' -> Library!AllRows],
               DOMAIN asOf' = DOMAIN lists', \A i \in removed' : i.list \in DOMAIN lists',
               Library!RowsFit', Library!ListsFollowRules'
        PROVE  Library!LibraryInv'
    <2>1. Library!TypeOK'
      BY <1>3, <1>5 DEF Library!TypeOK
    <2>2. job'.op # "refresh"
      BY <1>5 DEF Library!Idle
    <2> QED
      BY <1>5, <2>1, <2>2 DEF Library!RefreshedListsAreCurrent, Library!RefreshedSoFar, Library!Refreshing
  \* The items that were placed are where they were, or gone with their tracks.
  <1>10. ASSUME items' \cup removed' = items \cup removed, lists' = lists, asOf' = asOf
         PROVE  Library!ListsFollowRules'
    <2>1. \A l : Library!Placed(l)' = Library!Placed(l)
      BY <1>10 DEF Library!Placed
    <2> QED
      BY <1>10, <2>1, StaysFollowed DEF Library!ListsFollowRules
  <1>11. DOMAIN asOf = DOMAIN lists /\ \A i \in removed : i.list \in DOMAIN lists
    BY DEF Library!TypeOK
  <1>6. ASSUME NEW p \in Media, Library!RemoveTrack(p)
        PROVE  Library!LibraryInv'
    <2>1. /\ tracks' = [id \in DOMAIN tracks \ Library!RowOf(p) |-> tracks[id]]
          /\ items' = {i \in items : i.track \notin Library!RowOf(p)}
          /\ removed' = removed \cup {i \in items : i.track \in Library!RowOf(p)} /\ asOf' = asOf
          /\ fresh' = FALSE /\ isOpen' = isOpen /\ lists' = lists /\ job' = Library!Idle
      BY <1>6 DEF Library!RemoveTrack
    <2>2. IsFiniteSet(DOMAIN tracks') /\ tracks' \in [DOMAIN tracks' -> Library!AllRows]
      <3>1. IsFiniteSet(DOMAIN tracks \ Library!RowOf(p))
        BY <1>1, FS_Subset
      <3> QED
        BY <1>1, <2>1, <3>1
    <2>3. Library!RowsFit'
      BY <2>1 DEF Library!RowsFit
    <2>4. lists' \in Seq(Library!Saved)
      BY <2>1 DEF Library!TypeOK
    <2>5. items' \cup removed' = items \cup removed
      BY <2>1
    <2>6. \A i \in removed' : i.list \in DOMAIN lists
      BY <1>11, <2>1 DEF Library!RowsFit
    <2> QED
      BY <1>5, <1>10, <1>11, <2>1, <2>2, <2>3, <2>4, <2>5, <2>6
  <1>7. ASSUME NEW p \in Media, NEW t \in Offered, Library!InsertTrack(p, t)
        PROVE  Library!LibraryInv'
    <2>1. /\ tracks' = Library!Upsert(p, t)
          /\ fresh' = FALSE /\ isOpen' = isOpen /\ lists' = lists /\ items' = items /\ job' = Library!Idle
          /\ asOf' = asOf /\ removed' = removed
      BY <1>7 DEF Library!InsertTrack, Library!Upsert
    <2>2. Library!Row(p, t) \in Library!AllRows
      BY DEF Library!AllRows
    <2>3. lists' \in Seq(Library!Saved)
      BY <2>1 DEF Library!TypeOK
    <2>4. Library!ListsFollowRules'
      BY <1>10, <2>1
    <2> QED
      BY <1>4, <1>5, <1>11, <2>1, <2>2, <2>3, <2>4
  <1>8. ASSUME NEW text \in RuleTexts, Library!SaveSmartPlaylist(text)
        PROVE  Library!LibraryInv'
    <2>1. /\ Accepts(text) /\ lists' = Append(lists, text) /\ fresh' = FALSE
          /\ isOpen' = isOpen /\ tracks' = tracks /\ items' = items /\ job' = Library!Idle
          /\ asOf' = [l \in DOMAIN lists' |-> IF l \in DOMAIN lists THEN asOf[l] ELSE Library!NoRows]
          /\ removed' = removed
      BY <1>8 DEF Library!SaveSmartPlaylist
    <2>2. lists \in Seq(Library!Saved) /\ text \in Library!Saved
      BY <2>1 DEF Library!TypeOK, Library!Saved
    <2>3. /\ lists' \in Seq(Library!Saved) /\ DOMAIN lists \subseteq DOMAIN lists'
          /\ \A l \in DOMAIN lists : lists'[l] = lists[l]
      BY <2>1, <2>2, AppendProperties, LenProperties
    <2>4. Library!RowsFit'
      BY <2>1, <2>3 DEF Library!RowsFit
    <2>5. \A l : Library!Placed(l)' = Library!Placed(l)
      BY <2>1 DEF Library!Placed
    <2>6. ASSUME NEW l \in DOMAIN lists, l \in DOMAIN lists'
          PROVE  Library!FollowsRule(l)'
      BY <2>1, <2>3, <2>5, <2>6, StaysFollowed DEF Library!ListsFollowRules
    <2>7. ASSUME NEW l \in DOMAIN lists' \ DOMAIN lists
          PROVE  Library!FollowsRule(l)'
      <3>1. Library!Placed(l) = {} /\ asOf'[l] = Library!NoRows
        BY <1>11, <2>1 DEF Library!Placed, Library!RowsFit
      <3>2. RuleOf(lists'[l]).limit \in Nat
        <4>1. lists'[l] \in Library!Saved
          BY <2>3, LenProperties
        <4> QED
          BY <4>1, LibraryAssumption
      <3>3. Library!Placed(l)' = {}
        BY <2>5, <3>1
      <3> QED
        BY <3>1, <3>2, <3>3, EmptiedFollows
    <2>8. Library!ListsFollowRules'
      BY <2>3, <2>6, <2>7 DEF Library!ListsFollowRules
    <2>9. DOMAIN asOf' = DOMAIN lists' /\ \A i \in removed' : i.list \in DOMAIN lists'
      BY <1>11, <2>1, <2>3
    <2> QED
      BY <1>1, <1>5, <2>1, <2>3, <2>4, <2>8, <2>9
  <1>9. CASE Library!ImportFile
    <2>1. /\ job.op = "import" /\ job.files # <<>> /\ isOpen' = isOpen /\ lists' = lists /\ items' = items
          /\ asOf' = asOf /\ removed' = removed
      BY <1>9 DEF Library!ImportFile
    <2>2. job \in [op : {"import"}, files : Seq(Library!OnDisk)] /\ lists \in Seq(Library!Saved)
      BY <2>1 DEF Library!TypeOK, Library!Idle
    <2>3. Head(job.files) \in Library!OnDisk /\ Tail(job.files) \in Seq(Library!OnDisk)
      BY <2>1, <2>2, HeadTailProperties
    <2>4. CASE job' = Library!Idle /\ UNCHANGED <<tracks, fresh>>
      <3>1. Library!RowsFit' /\ Library!TypeOK' /\ Library!ListsFollowRules'
        BY <1>10, <2>1, <2>4 DEF Library!TypeOK, Library!RowsFit
      <3>2. Library!RefreshedListsAreCurrent'
        BY <2>1, <2>4 DEF Library!RefreshedListsAreCurrent
      <3>3. job'.op # "refresh"
        BY <2>4 DEF Library!Idle
      <3> QED
        BY <3>1, <3>2, <3>3 DEF Library!RefreshedSoFar, Library!Refreshing
    <2>5. ASSUME NEW p, NEW lines, p = Head(job.files).path, lines = Head(job.files).lines,
                 tracks' = Library!Upsert(p, Library!TagsOf(p, lines)), fresh' = FALSE,
                 job' = [job EXCEPT !.files = Tail(@)]
          PROVE  Library!LibraryInv'
      <3>1. Library!Row(p, Library!TagsOf(p, lines)) \in Library!AllRows
        BY <2>3, <2>5 DEF Library!AllRows
      <3>2. job' \in [op : {"import"}, files : Seq(Library!OnDisk)]
        BY <2>2, <2>3, <2>5
      <3>3. Library!ListsFollowRules'
        BY <1>10, <2>1
      <3> QED
        BY <1>4, <1>5, <1>11, <2>1, <2>2, <2>5, <3>1, <3>2, <3>3
    <2> QED
      BY <1>9, <2>4, <2>5 DEF Library!ImportFile
  <1> QED
    BY <1>6, <1>7, <1>8, <1>9

(* The statement that clears a list, and the one that fills it: the lists  *)
(* behind it still follow their rules, and an emptied list has no position *)
(* or track for the new rows to meet.                                      *)
LEMMA RefreshKeeps ==
    ASSUME Library!LibraryInv, Library!ClearList \/ Library!FillList
    PROVE  Library!LibraryInv'
  <1> USE DEF Library!LibraryInv, Library!LibrarySound
  <1>0. PICK l : l = job.list
    OBVIOUS
  <1> DEFINE q == QueryOf(lists[l])
  <1>1. job \in [op : {"refresh"}, list : 1..Len(lists) + 1, step : {"clear", "fill"}] /\ l <= Len(lists)
    BY <1>0 DEF Library!ClearList, Library!FillList, Library!TypeOK, Library!Idle
  <1>2. l \in DOMAIN lists /\ l \in Nat /\ Len(lists) \in Nat /\ DOMAIN lists = 1..Len(lists)
    BY <1>0, <1>1, LenProperties DEF Library!TypeOK
  <1>3. /\ \A k \in 1..l - 1 : asOf[k] = tracks
        /\ job.step = "fill" => Library!Placed(l) = {} /\ ~fresh
    BY <1>0, <1>1 DEF Library!RefreshedSoFar, Library!Refreshing
  <1>4. isOpen' = isOpen /\ tracks' = tracks /\ lists' = lists
    BY DEF Library!ClearList, Library!FillList
  <1>5. ASSUME NEW k \in DOMAIN lists, asOf'[k] = asOf[k], Library!Placed(k)' = Library!Placed(k)
        PROVE  Library!FollowsRule(k)'
    BY <1>4, <1>5, StaysFollowed DEF Library!ListsFollowRules
  <1>11. DOMAIN asOf = DOMAIN lists /\ \A i \in removed : i.list \in DOMAIN lists
    BY DEF Library!TypeOK
  <1>6. CASE Library!ClearList
    <2>1. /\ items' = {i \in items : i.list # l}
          /\ job' = [job EXCEPT !.step = "fill"] /\ fresh' = FALSE
          /\ asOf' = [asOf EXCEPT ![l] = Library!NoRows] /\ removed' = {i \in removed : i.list # l}
      BY <1>0, <1>6 DEF Library!ClearList, Library!Emptied
    <2>2. Library!TypeOK'
      BY <1>1, <1>4, <1>11, <2>1 DEF Library!TypeOK
    <2>3. Library!RowsFit'
      BY <1>4, <2>1 DEF Library!RowsFit
    <2>4. job'.list = l /\ job'.step = "fill"
      BY <1>0, <1>1, <2>1
    <2>5. Library!Placed(l)' = {} /\ \A k : k # l => Library!Placed(k)' = Library!Placed(k)
      BY <2>1 DEF Library!Placed
    <2>6. /\ \A k \in DOMAIN lists : k # l => asOf'[k] = asOf[k]
          /\ asOf'[l] = Library!NoRows
      BY <1>2, <1>11, <2>1
    <2>7. Library!RefreshedSoFar'
      <3>1. \A k \in 1..l - 1 : asOf'[k] = tracks'
        BY <1>2, <1>3, <1>4, <2>6
      <3>2. Library!Placed(job.list)' = {}
        BY <2>4, <2>5 DEF Library!Placed
      <3> QED
        BY <1>2, <1>4, <2>1, <2>4, <3>1, <3>2 DEF Library!RefreshedSoFar
    <2>8. Library!FollowsRule(l)'
      BY <1>2, <1>4, <2>5, <2>6, QueryShape, EmptiedFollows
    <2>9. Library!ListsFollowRules'
      BY <1>4, <1>5, <2>5, <2>6, <2>8 DEF Library!ListsFollowRules
    <2> QED
      BY <2>1, <2>2, <2>3, <2>7, <2>9 DEF Library!RefreshedListsAreCurrent
  <1>7. CASE Library!FillList
    <2>1. fresh' = fresh /\ removed' = removed /\ job.step = "fill"
      BY <1>7 DEF Library!FillList
    <2>2. Library!Placed(l) = {} /\ ~fresh
      BY <1>3, <2>1
    <2>3. CASE ~CanPrepare(q)
      <3>1. job' = Library!Idle /\ items' = items /\ asOf' = asOf
        BY <1>0, <1>7, <2>3 DEF Library!FillList, Library!Query
      <3>2. Library!TypeOK' /\ Library!RowsFit'
        BY <1>4, <2>1, <3>1 DEF Library!TypeOK, Library!RowsFit
      <3>4. \A k : Library!Placed(k)' = Library!Placed(k)
        BY <2>1, <3>1 DEF Library!Placed
      <3>5. Library!ListsFollowRules'
        BY <1>4, <1>5, <3>1, <3>4 DEF Library!ListsFollowRules
      <3>3. job'.op # "refresh"
        BY <3>1 DEF Library!Idle
      <3> QED
        BY <2>1, <2>2, <3>2, <3>3, <3>5 DEF Library!RefreshedListsAreCurrent, Library!RefreshedSoFar, Library!Refreshing
    <2>4. CASE CanPrepare(q)
      <3> DEFINE S == Library!Chosen(q, l)
                 x == Library!AddedAt(q, l)
      <3>1. PICK s \in Library!Rankings(q, S) :
              /\ items' = items \cup
                    {[list |-> l, position |-> i, track |-> s[i], added |-> x] :
                        i \in 1..Library!Smaller(Len(s), Library!Limit(q, l))}
              /\ asOf' = [asOf EXCEPT ![l] = tracks]
              /\ job' = [job EXCEPT !.list = @ + 1, !.step = "clear"]
        BY <1>0, <1>7, <2>4 DEF Library!FillList, Library!Query
      <3> DEFINE size == Library!Smaller(Len(s), Library!Limit(q, l))
                 Item(i) == [list |-> l, position |-> i, track |-> s[i], added |-> x]
                 new == {Item(i) : i \in 1..size}
      <3>2. /\ S \subseteq DOMAIN tracks /\ IsFiniteSet(S)
            /\ size \in 0..Cardinality(S)
        BY <1>2, FilledShape
      <3>3. /\ Cardinality(S) \in Nat /\ s \in [1..Cardinality(S) -> S]
            /\ \A i, j \in 1..Cardinality(S) : s[i] = s[j] => i = j
        BY <3>2, RankingShape
      <3>4. \A i : Item(i).list = l /\ Item(i).position = i /\ Item(i).track = s[i]
        OBVIOUS
      <3>5. /\ \A i \in new : i.list = l /\ i.track \in DOMAIN tracks
            /\ \A i, j \in new : i # j => i.position # j.position /\ i.track # j.track
        <4> HIDE DEF Item, S, size, q
        <4>1. \A i \in new : i.position \in 1..Cardinality(S) /\ i.track = s[i.position] /\ i.list = l
                             /\ i = Item(i.position)
          BY <3>2, <3>3, <3>4
        <4> QED
          BY <3>2, <3>3, <4>1
      <3>6. items' = items \cup new
        BY <3>1
      <3>7. \A i \in items \cup removed : i.list # l
        BY <2>2 DEF Library!Placed
      <3>8. Library!RowsFit'
        <4> HIDE DEF new
        <4> QED
          BY <1>2, <1>4, <3>5, <3>6, <3>7 DEF Library!RowsFit
      <3>9. /\ Library!Placed(l)' = new
            /\ \A k : k # l => Library!Placed(k)' = Library!Placed(k)
        <4>1. /\ {i \in items' \cup removed : i.list = l} = new
              /\ \A k : k # l => {i \in items' \cup removed : i.list = k} = {i \in items \cup removed : i.list = k}
          <5> HIDE DEF new
          <5> QED
            BY <3>5, <3>6, <3>7
        <4> QED
          BY <2>1, <4>1 DEF Library!Placed
      <3>10. /\ \A k \in DOMAIN lists : k # l => asOf'[k] = asOf[k]
             /\ asOf'[l] = tracks
        BY <1>2, <1>11, <3>1
      <3>11. Library!FollowsRule(l)'
        BY <1>2, <1>4, <3>9, <3>10, FilledFollows
      <3>12. Library!ListsFollowRules' /\ \A k \in 1..l : asOf'[k] = tracks'
        <4>1. \A k \in 1..l : asOf'[k] = tracks
          BY <1>2, <1>3, <3>10
        <4> QED
          BY <1>4, <1>5, <3>9, <3>10, <3>11, <4>1 DEF Library!ListsFollowRules
      <3>13. /\ job'.list = l + 1 /\ job'.step = "clear" /\ job'.op = "refresh"
             /\ job' \in [op : {"refresh"}, list : 1..Len(lists) + 1, step : {"clear", "fill"}]
        <4>1. job' = [op |-> "refresh", list |-> l + 1, step |-> "clear"]
          BY <1>0, <1>1, <3>1
        <4>2. l + 1 \in 1..Len(lists) + 1
          BY <1>1, <1>2
        <4> QED
          BY <4>1, <4>2
      <3>14. Library!TypeOK'
        BY <1>4, <1>11, <2>1, <3>1, <3>13 DEF Library!TypeOK
      <3>15. Library!RefreshedSoFar'
        BY <1>2, <3>12, <3>13 DEF Library!RefreshedSoFar
      <3> QED
        BY <2>1, <2>2, <3>8, <3>12, <3>14, <3>15 DEF Library!RefreshedListsAreCurrent
    <2> QED
      BY <2>3, <2>4
  <1> QED
    BY <1>6, <1>7

(* Whatever is imported, removed, refused or cut off by a crash, the rows   *)
(* of the library fit together, every list is as its rule says of the rows  *)
(* it was filled from, or has been emptied, and a refresh that has gone     *)
(* through has filled them all from the library as it is.                   *)
THEOREM LibraryFollowsItsRules == Spec => []LibrarySound
  <1> DEFINE Inv == machine = "Library" => Library!LibraryInv
  <1>1. Init => Inv
    <2> SUFFICES ASSUME machine = "Library", Library!Init PROVE Library!LibraryInv
      BY DEF Init, InitPodcast, InitCodes, InitSession, InitChain, InitLifecycle, InitIpc, InitHttp,
             InitPainted, InitBrainz, InitPipe, InitEqualizer, InitLibrary
    <2>1. /\ tracks = <<>> /\ lists = <<>> /\ items = {} /\ job = Library!Idle /\ fresh = FALSE /\ isOpen = FALSE
          /\ asOf = <<>> /\ removed = {}
      BY DEF Library!Init, Library!NoRows
    <2>2. DOMAIN tracks = {} /\ Library!IsFiniteSet({})
      BY <2>1, FS_EmptySet DEF Library!IsFiniteSet, IsFiniteSet
    <2>3. Library!TypeOK
      <3>1. tracks \in [{} -> Library!AllRows]
        BY <2>1
      <3> QED
        BY <2>1, <2>2, <3>1, EmptySeq DEF Library!TypeOK
    <2> QED
      BY <2>1, <2>2, <2>3 DEF Library!LibraryInv, Library!LibrarySound, Library!RowsFit, Library!ListsFollowRules,
                              Library!RefreshedListsAreCurrent, Library!RefreshedSoFar, Library!Refreshing, Library!Idle
  <1>2. Inv /\ [Next]_vars => Inv'
    <2> SUFFICES ASSUME Library!LibraryInv, [Library!Next]_(Library!vars) PROVE Library!LibraryInv'
      BY SyncSteps
    <2> QED
      BY ShellKeeps, RowsChangeKeeps, RefreshKeeps DEF Library!Next
  <1>3. Inv => LibrarySound
    BY DEF LibrarySound, Library!LibrarySound, Library!LibraryInv
  <1> QED
    BY <1>1, <1>2, <1>3, PTL DEF Spec
===============================================================================
