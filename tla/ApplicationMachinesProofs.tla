---------------------- MODULE ApplicationMachinesProofs ----------------------
(***************************************************************************)
(* Proofs about the machines of the application itself: its ordered start  *)
(* and stop, the servers of its instances, the theme it is painted with,   *)
(* and the sound it makes.                                                 *)
(***************************************************************************)
EXTENDS ServiceMachinesProofs

(* A behaviour stays with its machine, and a step of it is one of the      *)
(* machine's or leaves the machine as it is.                               *)
LEMMA ApplicationSteps ==
    ASSUME [Next]_vars
    PROVE  /\ machine' = machine
           /\ machine = "Lifecycle" => [Lifecycle!Next]_(Lifecycle!vars)
           /\ machine = "Ipc" => [Ipc!Next]_(Ipc!vars)
           /\ machine = "Painted" => [Painted!Next]_(Painted!vars)
           /\ machine = "Chain" => [Chain!Next]_(Chain!vars)
           /\ machine = "Equalizer" => [Equalizer!Next]_(Equalizer!vars)
  <1>1. CASE Next
    BY <1>1, ZenonT(30) DEF Next, PodcastStep, CodesStep, SessionStep, ChainStep, LifecycleStep, IpcStep, HttpStep,
                PaintedStep, BrainzStep, PipeStep, EqualizerStep, LibraryStep, Keeping
  <1>2. CASE UNCHANGED vars
    BY <1>2 DEF vars, lifecycleVars, ipcVars, paintedVars, chainVars, equalizerVars, sharedVars,
                Lifecycle!vars, Ipc!vars, Painted!vars, Chain!vars, Equalizer!vars
  <1> QED
    BY <1>1, <1>2

LEMMA ApplicationInit ==
    ASSUME Init
    PROVE  /\ machine = "Lifecycle" => Lifecycle!Init
           /\ machine = "Ipc" => Ipc!Init
           /\ machine = "Painted" => Painted!Init
           /\ machine = "Chain" => Chain!Init
           /\ machine = "Equalizer" => Equalizer!Init
  BY DEF Init, InitPodcast, InitCodes, InitSession, InitChain, InitLifecycle, InitIpc, InitHttp,
         InitPainted, InitBrainz, InitPipe, InitEqualizer, InitLibrary

-----------------------------------------------------------------------------
(* The ordered start and stop, for any number of steps of either kind      *)

(* A step more, or one that starts, stops or fails, leaves the others as   *)
(* they are.                                                               *)
LEMMA StartInductive ==
    ASSUME Lifecycle!StartInv, [Lifecycle!Next]_(Lifecycle!vars)
    PROVE  Lifecycle!StartInv'
  <1> USE DEF Lifecycle!StartInv, Lifecycle!TypeOK
  <1>1. ASSUME NEW stops \in BOOLEAN, Lifecycle!AddStep(stops)
        PROVE  Lifecycle!StartInv'
    <2>1. /\ state = "Created" /\ state' = state /\ started' = started
          /\ call' = call /\ at' = at
          /\ steps' = Append(steps, stops) /\ up' = Append(up, 0)
      BY <1>1 DEF Lifecycle!AddStep
    <2>2. call = "none" /\ started = 0 /\ \A i \in 1..Len(steps) : up[i] = 0
      BY <2>1 DEF Lifecycle!AtRest, Lifecycle!WhileStarting, Lifecycle!WhileUnwinding
    <2>3. /\ steps' \in Seq(BOOLEAN) /\ up' \in Seq(Int) /\ Len(up') = Len(steps')
          /\ Len(steps') = Len(steps) + 1
          /\ \A i \in 1..Len(steps) + 1 : up'[i] = IF i <= Len(steps) THEN up[i] ELSE 0
      BY <2>1
    <2>4. Lifecycle!AtRest'
      BY <2>1, <2>2, <2>3 DEF Lifecycle!AtRest
    <2> QED
      BY <2>1, <2>2, <2>3, <2>4 DEF Lifecycle!WhileStarting, Lifecycle!WhileUnwinding
  <1>2. CASE Lifecycle!Start
    BY <1>2 DEF Lifecycle!Start, Lifecycle!AtRest, Lifecycle!WhileStarting, Lifecycle!WhileUnwinding
  <1>3. CASE Lifecycle!StepStarts
    <2>1. /\ call = "start" /\ at <= Len(steps)
          /\ up' = [up EXCEPT ![at] = up[at] + 1] /\ started' = started + 1 /\ at' = at + 1
          /\ state' = state /\ steps' = steps /\ call' = call
      BY <1>3 DEF Lifecycle!StepStarts
    <2>2. at = started + 1 /\ at \in 1..Len(up) /\ up[at] = 0
      BY <2>1 DEF Lifecycle!WhileStarting
    <2>3. /\ up' \in Seq(Int) /\ Len(up') = Len(up)
          /\ \A i \in 1..Len(up) : up'[i] = IF i = at THEN 1 ELSE up[i]
      BY <2>1, <2>2
    <2>4. Lifecycle!WhileStarting'
      BY <2>1, <2>2, <2>3 DEF Lifecycle!WhileStarting
    <2> QED
      BY <2>1, <2>2, <2>3, <2>4 DEF Lifecycle!AtRest, Lifecycle!WhileUnwinding
  <1>4. CASE Lifecycle!StepFails
    <2>1. Lifecycle!WhileUnwinding'
      BY <1>4 DEF Lifecycle!StepFails, Lifecycle!Unwind, Lifecycle!WhileStarting, Lifecycle!WhileUnwinding
    <2> QED
      BY <1>4, <2>1 DEF Lifecycle!StepFails, Lifecycle!Unwind, Lifecycle!AtRest, Lifecycle!WhileStarting
  <1>5. CASE Lifecycle!AllStarted
    BY <1>5 DEF Lifecycle!AllStarted, Lifecycle!AtRest, Lifecycle!WhileStarting, Lifecycle!WhileUnwinding
  <1>6. CASE Lifecycle!Shutdown
    <2>1. call = "none"
      BY <1>6 DEF Lifecycle!Shutdown, Lifecycle!WhileStarting, Lifecycle!WhileUnwinding
    <2> QED
      BY <1>6, <2>1 DEF Lifecycle!Shutdown, Lifecycle!Unwind, Lifecycle!AtRest, Lifecycle!WhileStarting, Lifecycle!WhileUnwinding
  <1>7. CASE Lifecycle!StopStep
    <2>1. /\ call = "unwind" /\ at \in 1..Len(steps)
          /\ up' = IF steps[at] THEN [up EXCEPT ![at] = up[at] - 1] ELSE up
          /\ at' = at - 1
          /\ state' = state /\ steps' = steps /\ started' = started /\ call' = call
      BY <1>7 DEF Lifecycle!StopStep
    <2>2. up[at] = 1
      BY <2>1 DEF Lifecycle!WhileUnwinding
    <2>3. /\ up' \in Seq(Int) /\ Len(up') = Len(up)
          /\ \A i \in 1..Len(up) : up'[i] = IF i = at /\ steps[at] THEN 0 ELSE up[i]
      BY <2>1, <2>2
    <2>4. Lifecycle!WhileUnwinding'
      BY <2>1, <2>2, <2>3 DEF Lifecycle!WhileUnwinding
    <2> QED
      BY <2>1, <2>3, <2>4 DEF Lifecycle!AtRest, Lifecycle!WhileStarting
  <1>8. CASE Lifecycle!Unwound
    <2>1. \A i \in 1..Len(steps) : up[i] \in {0, 1} /\ (steps[i] => up[i] = 0)
      BY <1>8 DEF Lifecycle!Unwound, Lifecycle!WhileUnwinding
    <2> QED
      BY <1>8, <2>1 DEF Lifecycle!Unwound, Lifecycle!AtRest, Lifecycle!WhileStarting, Lifecycle!WhileUnwinding
  <1>9. CASE UNCHANGED Lifecycle!vars
    BY <1>9 DEF Lifecycle!vars, Lifecycle!AtRest, Lifecycle!WhileStarting, Lifecycle!WhileUnwinding
  <1> QED
    BY <1>1, <1>2, <1>3, <1>4, <1>5, <1>6, <1>7, <1>8, <1>9 DEF Lifecycle!Next

(* However many steps there are and whichever fails, teardown is complete, *)
(* in reverse, and stops nothing twice and nothing that never started.     *)
LEMMA TeardownIsExact == /\ Lifecycle!Init => Lifecycle!StartInv
                         /\ Lifecycle!StartInv => Lifecycle!StartUnwinds
  <1>1. Lifecycle!StartInv => Lifecycle!StartUnwinds
    <2> SUFFICES ASSUME Lifecycle!StartInv PROVE Lifecycle!StartUnwinds
      OBVIOUS
    <2>0. DOMAIN up = 1..Len(steps) /\ Len(steps) \in Nat
      BY DEF Lifecycle!StartInv, Lifecycle!TypeOK
    <2>1. CASE call = "none"
      BY <2>0, <2>1, ZenonT(30) DEF Lifecycle!StartInv, Lifecycle!TypeOK, Lifecycle!AtRest, Lifecycle!StartUnwinds
    <2>2. CASE call = "start"
      BY <2>0, <2>2 DEF Lifecycle!StartInv, Lifecycle!TypeOK, Lifecycle!WhileStarting, Lifecycle!StartUnwinds
    <2>3. CASE call = "unwind"
      BY <2>0, <2>3 DEF Lifecycle!StartInv, Lifecycle!TypeOK, Lifecycle!WhileUnwinding, Lifecycle!StartUnwinds
    <2> QED
      BY <2>1, <2>2, <2>3 DEF Lifecycle!StartInv, Lifecycle!TypeOK
  <1>2. Lifecycle!Init => Lifecycle!StartInv
    BY DEF Lifecycle!Init, Lifecycle!StartInv, Lifecycle!TypeOK, Lifecycle!AtRest, Lifecycle!WhileStarting,
           Lifecycle!WhileUnwinding
  <1> QED
    BY <1>1, <1>2

-----------------------------------------------------------------------------
(* The ramps of the equalizer                                              *)

(* One sample moves a mix by a step of the ramp, and the last one onto the *)
(* new filter.                                                             *)
LEMMA StepOfARamp ==
    ASSUME NEW c \in Int, NEW t \in Int, NEW k \in Nat, NEW m \in Nat, NEW r \in Nat
    PROVE  /\ k * (c * (r - 1) + t * (m - (r - 1))) - k * (c * r + t * (m - r)) = k * (t - c)
           /\ (k * m) * t - k * (c * 1 + t * (m - 1)) = k * (t - c)
           /\ k * (c * m + t * (m - m)) = (k * m) * c
  OBVIOUS

(* The size of a multiple.                                                 *)
LEMMA SizeOfMultiple ==
    ASSUME NEW k \in Nat, NEW d \in Int, NEW m \in Nat
    PROVE  Equalizer!Size(k * d) * m = (k * m) * Equalizer!Size(d)
  <1>1. CASE d >= 0
    <2>1. k * d >= 0
      BY <1>1
    <2>2. Equalizer!Size(k * d) = k * d /\ Equalizer!Size(d) = d
      BY <1>1, <2>1 DEF Equalizer!Size
    <2> QED
      BY <2>2
  <1>2. CASE d < 0
    <2>1. k * d <= 0 /\ k * d = -(k * (-d)) /\ k * d \in Int
      BY <1>2
    <2>2. Equalizer!Size(k * d) = k * (-d) /\ Equalizer!Size(d) = -d
      BY <1>2, <2>1 DEF Equalizer!Size
    <2> QED
      BY <2>2
  <1> QED
    BY <1>1, <1>2

(* What a sample does to a section.                                        *)
LEMMA SampleOf ==
    ASSUME NEW s \in Equalizer!Section
    PROVE  LET new == Equalizer!Advanced(s)
           IN  /\ new \in Equalizer!Section
               /\ ~(Equalizer!Size(Equalizer!Mixed(new) - Equalizer!Mixed(s)) * s.total
                      > Scale * Equalizer!Size(s.target - s.current))
  <1> DEFINE new == Equalizer!Advanced(s)
             k == Scale \div s.total
             d == s.target - s.current
  <1>1. /\ s.current \in Int /\ s.target \in Int /\ s.remaining \in Nat /\ s.total \in Nat \ {0}
        /\ Scale = k * s.total /\ k \in Nat /\ Scale \in Nat /\ d \in Int
    BY EqualizerAssumption DEF Equalizer!Section, Equalizer!Lengths
  <1>2. Equalizer!Size(d) \in Nat
    BY <1>1 DEF Equalizer!Size
  <1>3. CASE new = s
    <2>1. Equalizer!Mixed(s) \in Int
      BY <1>1 DEF Equalizer!Mixed
    <2>2. Equalizer!Mixed(new) - Equalizer!Mixed(s) = 0
      BY <1>3, <2>1
    <2>3. Equalizer!Size(0) = 0
      BY DEF Equalizer!Size
    <2>4. Scale * Equalizer!Size(d) >= 0 /\ Scale * Equalizer!Size(d) \in Int /\ 0 * s.total = 0
      BY <1>1, <1>2
    <2> QED
      BY <1>3, <2>2, <2>3, <2>4
  <1>4. CASE new # s
    <2>1. /\ s.remaining > 0
          /\ new = [s EXCEPT !.remaining = s.remaining - 1,
                             !.current = IF s.remaining = 1 THEN s.target ELSE s.current]
      BY <1>1, <1>4 DEF Equalizer!Advanced, Equalizer!Skipped, Equalizer!Ramping, Equalizer!Done
    <2>2. /\ new \in Equalizer!Section /\ new.remaining = s.remaining - 1
          /\ new.target = s.target /\ new.total = s.total
          /\ new.current = IF s.remaining = 1 THEN s.target ELSE s.current
      <3> DEFINE left == s.remaining - 1
                 to == IF s.remaining = 1 THEN s.target ELSE s.current
      <3>1. left \in Nat /\ to \in Int /\ new = [s EXCEPT !.remaining = left, !.current = to]
        BY <1>1, <2>1
      <3> HIDE DEF left, to, new
      <3>2. /\ new \in Equalizer!Section /\ new.remaining = left /\ new.current = to
            /\ new.target = s.target /\ new.total = s.total
        BY <3>1 DEF Equalizer!Section
      <3> QED
        BY <3>2 DEF left, to
    <2> HIDE DEF new, k
    <2>3. Equalizer!Mixed(s) = k * (s.current * s.remaining + s.target * (s.total - s.remaining))
      BY <2>1 DEF Equalizer!Mixed, Equalizer!Ramping, k
    <2>4. Equalizer!Mixed(new) - Equalizer!Mixed(s) = k * d
      <3> DEFINE c == s.current
                 t == s.target
                 m == s.total
                 r == s.remaining
      <3>1. /\ c \in Int /\ t \in Int /\ k \in Nat /\ m \in Nat /\ r \in Nat /\ r > 0
            /\ Scale = k * m /\ d = t - c
        BY <1>1, <2>1
      <3>2. Equalizer!Mixed(s) = k * (c * r + t * (m - r))
        BY <2>3
      <3>3. r = 1 => Equalizer!Mixed(new) = (k * m) * t
        BY <1>1, <2>2 DEF Equalizer!Mixed, Equalizer!Ramping
      <3>4. r # 1 => Equalizer!Mixed(new) = k * (c * (r - 1) + t * (m - (r - 1)))
        BY <1>1, <2>1, <2>2 DEF Equalizer!Mixed, Equalizer!Ramping, k
      <3> HIDE DEF c, t, m, r, d
      <3>5. /\ k * (c * (r - 1) + t * (m - (r - 1))) - k * (c * r + t * (m - r)) = k * d
            /\ (k * m) * t - k * (c * 1 + t * (m - 1)) = k * d
        BY <3>1, StepOfARamp
      <3> QED
        BY <3>2, <3>3, <3>4, <3>5
    <2> HIDE DEF d
    <2>5. Equalizer!Size(k * d) * s.total = Scale * Equalizer!Size(d)
      BY <1>1, SizeOfMultiple
    <2>6. Scale * Equalizer!Size(d) \in Int
      BY <1>1, <1>2
    <2> QED
      BY <2>2, <2>4, <2>5, <2>6 DEF new, d
  <1> QED
    BY <1>3, <1>4

(* Where a ramp begins nothing moves.                                      *)
LEMMA RampOf ==
    ASSUME NEW s \in Equalizer!Section, NEW n \in Ramps
    PROVE  /\ Equalizer!StartRampOf(s, n) \in Equalizer!Section
           /\ n > 1 /\ ~Equalizer!Ramping(s) => Equalizer!Mixed(Equalizer!StartRampOf(s, n)) = Equalizer!Mixed(s)
  <1> DEFINE new == Equalizer!StartRampOf(s, n)
  <1>1. /\ s.current \in Int /\ s.target \in Int /\ n \in Nat
        /\ n > 1 => n \in Equalizer!Lengths /\ Scale = (Scale \div n) * n /\ Scale \div n \in Nat
    BY EqualizerAssumption DEF Equalizer!Section, Equalizer!Lengths
  <1>2. new \in Equalizer!Section
    <2>1. CASE n <= 1
      <3>1. new = [s EXCEPT !.current = s.target, !.remaining = 0]
        BY <2>1 DEF Equalizer!StartRampOf
      <3> HIDE DEF new
      <3> QED
        BY <3>1 DEF Equalizer!Section
    <2>2. CASE n > 1
      <3>1. new = [s EXCEPT !.remaining = n, !.total = n]
        BY <1>1, <2>2 DEF Equalizer!StartRampOf
      <3> HIDE DEF new
      <3> QED
        BY <1>1, <2>2, <3>1 DEF Equalizer!Section
    <2> QED
      BY <1>1, <2>1, <2>2
  <1>3. ASSUME n > 1, ~Equalizer!Ramping(s)
        PROVE  Equalizer!Mixed(new) = Equalizer!Mixed(s)
    <2>1. new = [s EXCEPT !.remaining = n, !.total = n]
      BY <1>1, <1>3 DEF Equalizer!StartRampOf
    <2>2. new.remaining = n /\ new.total = n /\ new.current = s.current /\ new.target = s.target
      BY <2>1 DEF Equalizer!Section
    <2> HIDE DEF new
    <2> DEFINE k == Scale \div n
    <2>3. Equalizer!Mixed(new) = k * (s.current * n + s.target * (n - n))
      BY <1>1, <1>3, <2>2 DEF Equalizer!Mixed, Equalizer!Ramping
    <2>4. Equalizer!Mixed(s) = Scale * s.current
      BY <1>3 DEF Equalizer!Mixed
    <2>5. k \in Nat /\ Scale = k * n
      BY <1>1, <1>3
    <2> HIDE DEF k
    <2> QED
      BY <1>1, <2>3, <2>4, <2>5, StepOfARamp
  <1> QED
    BY <1>2, <1>3

(* The invariant of the equalizer is inductive.                            *)
LEMMA RampInductive ==
    /\ Equalizer!Init => Equalizer!RampInv
    /\ Equalizer!RampInv /\ [Equalizer!Next]_(Equalizer!vars) => Equalizer!RampInv'
  <1> USE DEF Equalizer!RampInv, Equalizer!RampsAreSmooth
  <1>1. Equalizer!Init => Equalizer!RampInv
    <2> SUFFICES ASSUME Equalizer!Init PROVE Equalizer!RampInv
      OBVIOUS
    <2>1. /\ designed = <<>> /\ bypassed = TRUE /\ ~jumped /\ sections = <<>>
          /\ DOMAIN designed = {}
      BY DEF Equalizer!Init
    <2>2. sections \in [{} -> Equalizer!Section] /\ designed \in Seq(Int)
      BY <2>1
    <2> QED
      BY <2>1, <2>2 DEF Equalizer!TypeOK
  <1>2. ASSUME Equalizer!RampInv, Equalizer!Next PROVE Equalizer!RampInv'
    <2>0. /\ designed \in Seq(Int) /\ sections \in [DOMAIN designed -> Equalizer!Section]
          /\ \A i \in DOMAIN designed : designed[i] \in Int
          /\ bypassed \in BOOLEAN /\ ~jumped
      BY <1>2 DEF Equalizer!TypeOK
    <2>1. ASSUME NEW filters \in Designs, NEW on \in BOOLEAN, Equalizer!Configure(filters, on)
          PROVE  Equalizer!RampInv'
      <3>1. /\ designed' = filters /\ sections' = [i \in DOMAIN filters |-> Equalizer!Fixed(filters[i])]
            /\ bypassed' \in BOOLEAN /\ jumped' = jumped
        BY <2>1 DEF Equalizer!Configure
      <3>2. \A f \in Int : Equalizer!Fixed(f) \in Equalizer!Section
        BY EqualizerAssumption DEF Equalizer!Fixed, Equalizer!Section, Equalizer!Lengths
      <3>3. designed' \in Seq(Int) /\ \A i \in DOMAIN filters : filters[i] \in Int
        BY <3>1, EqualizerAssumption
      <3>4. sections' \in [DOMAIN designed' -> Equalizer!Section]
        BY <3>1, <3>2, <3>3
      <3>5. ~jumped'
        BY <2>0, <3>1
      <3> QED
        BY <3>1, <3>3, <3>4, <3>5 DEF Equalizer!TypeOK
    <2>2. ASSUME NEW n \in Ramps, Equalizer!PublishSettings(n)
          PROVE  Equalizer!RampInv'
      <3>1. /\ sections' = [i \in DOMAIN sections |-> Equalizer!Published(sections[i], designed[i], n)]
            /\ designed' = designed /\ bypassed' = bypassed /\ jumped' = jumped
        BY <2>2 DEF Equalizer!PublishSettings
      <3>2. ASSUME NEW i \in DOMAIN designed
            PROVE  Equalizer!Published(sections[i], designed[i], n) \in Equalizer!Section
        <4>1. Equalizer!SetCoeffs(sections[i], designed[i]) \in Equalizer!Section
          BY <2>0 DEF Equalizer!SetCoeffs, Equalizer!Section
        <4> QED
          BY <4>1, RampOf DEF Equalizer!Published
      <3>3. sections' \in [DOMAIN designed' -> Equalizer!Section]
        BY <2>0, <3>1, <3>2
      <3>4. ~jumped' /\ bypassed' \in BOOLEAN
        BY <2>0, <3>1
      <3> QED
        BY <2>0, <3>1, <3>3, <3>4 DEF Equalizer!TypeOK
    <2>3. ASSUME NEW i \in DOMAIN sections, NEW f \in Filters, Equalizer!SetTargetCoeffs(i, f)
          PROVE  Equalizer!RampInv'
      <3>1. /\ sections' = [sections EXCEPT ![i] = [sections[i] EXCEPT !.target = f]]
            /\ designed' = designed /\ bypassed' = bypassed /\ jumped' = jumped
        BY <2>3 DEF Equalizer!SetTargetCoeffs
      <3>2. [sections[i] EXCEPT !.target = f] \in Equalizer!Section
        BY <2>0, EqualizerAssumption DEF Equalizer!Section
      <3>3. sections' \in [DOMAIN designed' -> Equalizer!Section]
        BY <2>0, <3>1, <3>2
      <3>4. ~jumped' /\ bypassed' \in BOOLEAN
        BY <2>0, <3>1
      <3> QED
        BY <2>0, <3>1, <3>3, <3>4 DEF Equalizer!TypeOK
    <2>4. ASSUME NEW n \in Ramps, Equalizer!StartRamp(n)
          PROVE  Equalizer!RampInv'
      <3>1. /\ sections' = [i \in DOMAIN sections |-> Equalizer!StartRampOf(sections[i], n)]
            /\ designed' = designed /\ bypassed' = bypassed
            /\ jumped' = (jumped \/ (n > 1 /\ \E i \in DOMAIN sections : ~Equalizer!Ramping(sections[i])
                              /\ Equalizer!Mixed(sections'[i]) # Equalizer!Mixed(sections[i])))
        BY <2>4 DEF Equalizer!StartRamp
      <3>2. \A i \in DOMAIN sections : sections[i] \in Equalizer!Section
        BY <2>0
      <3>3. sections' \in [DOMAIN designed' -> Equalizer!Section]
        BY <2>0, <3>1, <3>2, RampOf
      <3>4. ~jumped'
        BY <2>0, <3>1, <3>2, RampOf
      <3> QED
        BY <2>0, <3>1, <3>3, <3>4 DEF Equalizer!TypeOK
    <2>5. CASE Equalizer!Process
      <3>1. /\ sections' = [i \in DOMAIN sections |-> Equalizer!Advanced(sections[i])]
            /\ designed' = designed /\ bypassed' = bypassed
            /\ jumped' = (jumped \/ \E i \in DOMAIN sections :
                    Equalizer!Size(Equalizer!Mixed(sections'[i]) - Equalizer!Mixed(sections[i])) * sections[i].total
                      > Scale * Equalizer!Size(sections[i].target - sections[i].current))
        BY <2>5 DEF Equalizer!Process
      <3>2. \A i \in DOMAIN sections : sections[i] \in Equalizer!Section
        BY <2>0
      <3>3. sections' \in [DOMAIN designed' -> Equalizer!Section]
        BY <2>0, <3>1, <3>2, SampleOf
      <3>4. ~jumped'
        BY <2>0, <3>1, <3>2, SampleOf
      <3> QED
        BY <2>0, <3>1, <3>3, <3>4 DEF Equalizer!TypeOK
    <2> QED
      BY <1>2, <2>1, <2>2, <2>3, <2>4, <2>5 DEF Equalizer!Next
  <1>3. ASSUME Equalizer!RampInv, UNCHANGED Equalizer!vars PROVE Equalizer!RampInv'
    BY <1>3 DEF Equalizer!vars, Equalizer!TypeOK
  <1> QED
    BY <1>1, <1>2, <1>3

-----------------------------------------------------------------------------
(* Induction and recursion, for what the operators compute                 *)

LEMMA Induct ==
    ASSUME NEW S \in SUBSET Nat, 0 \in S, \A n \in S : n + 1 \in S
    PROVE  S = Nat
  <1> SUFFICES ASSUME S # Nat PROVE FALSE
    OBVIOUS
  <1>1. PICK n \in Nat \ S : \A m \in Nat \ S : n <= m
    BY SmallestOf
  <1>2. n - 1 \in S
    BY <1>1
  <1> QED
    BY <1>1, <1>2

(* A function from N steps on, each of the value before it.                *)
Steps(X, N) == [1..N -> [X -> X]]
Iteration(f, X, x0, N, onward) ==
    f \in [0..N -> X] /\ \A n \in 0..N : f[n] = IF n = 0 THEN x0 ELSE onward[n][f[n - 1]]

(* A recursive function exists.                                            *)
LEMMA Iterates ==
    ASSUME NEW X, NEW x0 \in X, NEW N \in Nat, NEW onward \in Steps(X, N)
    PROVE  \E f : Iteration(f, X, x0, N, onward)
  <1> DEFINE Fits(f, m) == Iteration(f, X, x0, m, onward)
             S == {m \in Nat : m <= N => \E f : Fits(f, m)}
  <1>1. 0 \in S
    <2> DEFINE f == [n \in 0..0 |-> x0]
    <2>1. Fits(f, 0)
      BY DEF Iteration
    <2> HIDE DEF f, Fits
    <2> QED
      BY <2>1
  <1>2. ASSUME NEW m \in S PROVE m + 1 \in S
    <2> HIDE DEF Fits
    <2>0. m \in Nat
      OBVIOUS
    <2> SUFFICES ASSUME m + 1 <= N PROVE \E f : Fits(f, m + 1)
      BY <2>0
    <2>1. PICK f : Fits(f, m)
      BY <2>0
    <2> USE DEF Fits, Iteration, Steps
    <2> DEFINE g == [n \in 0..m + 1 |-> IF n = m + 1 THEN onward[m + 1][f[m]] ELSE f[n]]
    <2>2. onward[m + 1] \in [X -> X] /\ f[m] \in X
      BY <2>0, <2>1
    <2>3. g \in [0..m + 1 -> X]
      BY <2>0, <2>1, <2>2
    <2>4. ASSUME NEW n \in 0..m + 1 PROVE g[n] = IF n = 0 THEN x0 ELSE onward[n][g[n - 1]]
      <3>1. CASE n = m + 1
        <4>1. n # 0 /\ n - 1 = m /\ g[m] = f[m]
          BY <2>0, <3>1
        <4> QED
          BY <3>1, <4>1
      <3>2. CASE n # m + 1
        <4>1. n \in 0..m /\ g[n] = f[n] /\ f[n] = IF n = 0 THEN x0 ELSE onward[n][f[n - 1]]
          BY <2>0, <2>1, <3>2
        <4>2. n # 0 => g[n - 1] = f[n - 1]
          BY <2>0, <4>1
        <4> QED
          BY <4>1, <4>2
      <3> QED
        BY <3>1, <3>2
    <2> HIDE DEF g
    <2>5. Fits(g, m + 1)
      BY <2>3, <2>4
    <2> QED
      BY <2>5
  <1>3. S = Nat
    <2> HIDE DEF S
    <2>1. S \in SUBSET Nat
      BY DEF S
    <2> QED
      BY <1>1, <1>2, <2>1, Induct
  <1>4. \E f : Fits(f, N)
    <2> HIDE DEF Fits, S
    <2>1. N \in S
      BY <1>3
    <2> QED
      BY <2>1 DEF S
  <1> QED
    BY <1>4

(* What holds at first and is kept by each step holds of every value of a  *)
(* recursive function.                                                     *)
LEMMA Stays ==
    ASSUME NEW X, NEW N \in Nat, NEW f, f[0] \in X, \A n \in 1..N : f[n - 1] \in X => f[n] \in X
    PROVE  \A n \in 0..N : f[n] \in X
  <1> DEFINE S == {n \in Nat : n <= N => f[n] \in X}
  <1>1. 0 \in S
    OBVIOUS
  <1>2. ASSUME NEW n \in S PROVE n + 1 \in S
    <2>1. n + 1 <= N => n + 1 \in 1..N /\ f[(n + 1) - 1] = f[n]
      OBVIOUS
    <2> QED
      BY <2>1
  <1> HIDE DEF S
  <1>3. S = Nat
    <2>1. S \in SUBSET Nat
      BY DEF S
    <2> QED
      BY <1>1, <1>2, <2>1, Induct
  <1> QED
    BY <1>3 DEF S

-----------------------------------------------------------------------------
(* The chain: its limiter, volume and fade                                 *)

(* The largest of two numbers.                                             *)
LEMMA MaxOfTwo ==
    ASSUME NEW x \in Int, NEW y \in Int
    PROVE  Chain!Max({x, y}) = IF x >= y THEN x ELSE y
  <1> DEFINE T == {x, y}
  <1>1. \E m \in T : \A n \in T : m >= n
    OBVIOUS
  <1>2. Chain!Max(T) \in T /\ \A n \in T : Chain!Max(T) >= n
    <2> HIDE DEF T
    <2> QED
      BY <1>1 DEF Chain!Max
  <1> QED
    BY <1>2
LEMMA MinOfTwo ==
    ASSUME NEW x \in Int, NEW y \in Int
    PROVE  Chain!Min({x, y}) = IF x <= y THEN x ELSE y
  <1> DEFINE T == {x, y}
  <1>1. \E m \in T : \A n \in T : m <= n
    OBVIOUS
  <1>2. Chain!Min(T) \in T /\ \A n \in T : Chain!Min(T) <= n
    <2> HIDE DEF T
    <2> QED
      BY <1>1 DEF Chain!Min
  <1> QED
    BY <1>2

(* The largest of finitely many.                                           *)
LEMMA MaxOfAll ==
    ASSUME NEW n \in Nat \ {0}, NEW f \in [1..n -> Int]
    PROVE  \E c \in 1..n : \A d \in 1..n : f[c] >= f[d]
  <1> DEFINE S == {m \in Nat : m + 1 <= n => \E c \in 1..m + 1 : \A d \in 1..m + 1 : f[c] >= f[d]}
  <1>1. 0 \in S
    OBVIOUS
  <1>2. ASSUME NEW m \in S PROVE m + 1 \in S
    <2> SUFFICES ASSUME m + 2 <= n
                 PROVE  \E c \in 1..m + 2 : \A d \in 1..m + 2 : f[c] >= f[d]
      OBVIOUS
    <2>1. PICK c \in 1..m + 1 : \A d \in 1..m + 1 : f[c] >= f[d]
      OBVIOUS
    <2>2. CASE f[c] >= f[m + 2]
      <3>1. \A d \in 1..m + 2 : d \in 1..m + 1 \/ d = m + 2
        OBVIOUS
      <3> HIDE DEF S
      <3>2. \A d \in 1..m + 2 : f[c] >= f[d]
        BY <2>1, <2>2, <3>1
      <3>3. c \in 1..m + 2
        BY <1>2 DEF S
      <3> QED
        BY <3>2, <3>3
    <2>3. CASE f[c] < f[m + 2]
      <3>1. \A d \in 1..m + 2 : f[m + 2] >= f[d]
        BY <2>1, <2>3
      <3> QED
        BY <3>1
    <2> QED
      BY <2>2, <2>3
  <1> HIDE DEF S
  <1>3. S = Nat
    <2>1. S \in SUBSET Nat
      BY DEF S
    <2> QED
      BY <1>1, <1>2, <2>1, Induct
  <1>4. n - 1 \in S
    BY <1>3
  <1> QED
    BY <1>4 DEF S

(* The peak of a position is a number, and no channel is louder there.     *)
LEMMA PeakOf ==
    ASSUME NEW planes \in Seq(Seq(Int)), planes # <<>>, \A c \in DOMAIN planes : Len(planes[c]) = Len(planes[1])
    PROVE  /\ Chain!Peaks(planes) \in Seq(Nat) /\ Len(Chain!Peaks(planes)) = Len(planes[1])
           /\ \A c \in DOMAIN planes : \A i \in 1..Len(planes[1]) :
                  Chain!Abs(planes[c][i]) <= Chain!Peaks(planes)[i]
  <1> DEFINE m == Len(planes)
             n == Len(planes[1])
  <1>1. m \in Nat \ {0} /\ DOMAIN planes = 1..m /\ n \in Nat
    OBVIOUS
  <1> HIDE DEF m, n
  <1>2. ASSUME NEW i \in 1..n
        PROVE  LET T == {Chain!Abs(planes[c][i]) : c \in 1..m}
               IN  Chain!Max(T) \in Nat /\ \A c \in 1..m : Chain!Abs(planes[c][i]) <= Chain!Max(T)
    <2> DEFINE f == [c \in 1..m |-> Chain!Abs(planes[c][i])]
               T == {Chain!Abs(planes[c][i]) : c \in 1..m}
    <2>1. ASSUME NEW c \in 1..m PROVE Chain!Abs(planes[c][i]) \in Nat
      <3>1. c \in DOMAIN planes
        BY <1>1
      <3>2. planes[c] \in Seq(Int) /\ Len(planes[c]) = n
        BY <3>1 DEF n
      <3>3. planes[c][i] \in Int
        BY <3>2
      <3> QED
        BY <3>3, SMTT(30) DEF Chain!Abs
    <2>2. f \in [1..m -> Int]
      BY <2>1
    <2>3. PICK c \in 1..m : \A d \in 1..m : f[c] >= f[d]
      BY <1>1, <2>2, MaxOfAll
    <2>4. T \subseteq Nat /\ \E x \in T : \A y \in T : x >= y
      BY <2>1, <2>3
    <2>5. Chain!Max(T) \in T /\ \A y \in T : Chain!Max(T) >= y
      <3> HIDE DEF T
      <3> QED
        BY <2>4 DEF Chain!Max
    <2> QED
      BY <2>4, <2>5
  <1>3. Chain!Peaks(planes) = [i \in 1..n |-> Chain!Max({Chain!Abs(planes[c][i]) : c \in 1..m})]
    BY DEF Chain!Peaks, m, n
  <1> DEFINE peaks == Chain!Peaks(planes)
  <1>4. peaks \in [1..n -> Nat] /\ \A c \in 1..m : \A i \in 1..n : Chain!Abs(planes[c][i]) <= peaks[i]
    BY <1>2, <1>3
  <1> HIDE DEF peaks
  <1>5. peaks \in Seq(Nat) /\ Len(peaks) = n
    BY <1>1, <1>4
  <1> QED
    BY <1>1, <1>4, <1>5 DEF n, peaks

LEMMA Product == ASSUME NEW a \in Nat, NEW b \in Nat PROVE a * b \in Nat
  OBVIOUS

(* A whole quotient.                                                       *)
LEMMA Quotient ==
    ASSUME NEW a \in Nat, NEW b \in Nat \ {0}
    PROVE  a \div b \in Nat /\ (a \div b) * b <= a
  OBVIOUS

(* The gain of the limiter comes down at once and goes up half of the way. *)
LEMMA GainOfThePeak ==
    ASSUME NEW x \in Int, NEW peak \in Nat, NEW gain \in 1..8, Chain!Abs(x) <= peak, ceiling \in Nat
    PROVE  LET a == Chain!NextGain(peak, gain)
           IN  /\ a \in 1..8
               /\ (gain = 8 \/ peak * gain > ceiling * 8) /\ peak <= ceiling * 8 =>
                      Chain!Abs(x) * a <= 8 * ceiling
  <1> DEFINE v == Chain!Abs(x)
             q == (ceiling * 8) \div peak
             a == Chain!NextGain(peak, gain)
  <1>1. v \in Nat /\ v <= peak
    BY DEF Chain!Abs
  <1>2. gain \in Nat /\ 1 <= gain /\ gain <= 8
    OBVIOUS
  <1>3. CASE peak > 0 /\ peak * gain > ceiling * 8
    <2>1. Chain!Desired(peak, gain) = q
      BY <1>3 DEF Chain!Desired, Chain!Unit
    <2>2. q \in Nat /\ q * peak <= ceiling * 8
      BY <1>3, Quotient
    <2>3. a = IF q > gain THEN (gain + q) \div 2 ELSE Chain!Max({1, q})
      BY <2>1 DEF Chain!NextGain
    <2> HIDE DEF a, q, v
    <2>4. q < gain
      <3>1. q * peak < gain * peak
        BY <1>2, <1>3, <2>2
      <3> QED
        BY <1>2, <1>3, <2>2, <3>1
    <2>5. a = IF 1 >= q THEN 1 ELSE q
      BY <1>2, <2>2, <2>3, <2>4, MaxOfTwo
    <2>6. v * a <= peak * a
      BY <1>1, <2>2, <2>5
    <2>7. peak <= ceiling * 8 => peak * a <= 8 * ceiling
      <3>1. CASE q <= 1
        <4>1. a = 1
          BY <2>2, <2>5, <3>1
        <4> QED
          BY <4>1
      <3>2. CASE q > 1
        <4>1. a = q
          BY <2>2, <2>5, <3>2
        <4> QED
          BY <2>2, <4>1
      <3> QED
        BY <2>2, <3>1, <3>2
    <2>8. a \in 1..8
      BY <1>2, <2>2, <2>4, <2>5
    <2>9. v * a \in Int /\ peak * a \in Int
      BY <1>1, <2>8
    <2>10. peak <= ceiling * 8 => v * a <= 8 * ceiling
      BY <2>6, <2>7, <2>9
    <2> QED
      BY <2>8, <2>10 DEF v, a
  <1>4. CASE ~(peak > 0 /\ peak * gain > ceiling * 8)
    <2>1. Chain!Desired(peak, gain) = 8
      BY <1>4 DEF Chain!Desired, Chain!Unit
    <2>2. Chain!NextGain(peak, gain) = IF 8 > gain THEN (gain + 8) \div 2 ELSE Chain!Max({1, 8})
      BY <2>1 DEF Chain!NextGain
    <2>3. CASE 8 > gain
      <3>1. a \in 1..8
        BY <2>2, <2>3
      <3>2. ~(peak * gain > ceiling * 8)
        <4>1. CASE peak = 0
          BY <1>2, <4>1
        <4>2. CASE peak > 0
          BY <1>4, <4>2
        <4> QED
          BY <4>1, <4>2
      <3> QED
        BY <1>2, <2>3, <3>1, <3>2
    <2>4. CASE ~(8 > gain)
      <3>1. gain = 8 /\ Chain!Max({1, 8}) = 8
        BY <2>4, MaxOfTwo
      <3>2. a = 8
        BY <2>2, <2>4, <3>1
      <3>3. peak * 8 <= ceiling * 8
        BY <1>4, <3>1
      <3>4. v * 8 <= peak * 8
        BY <1>1
      <3> HIDE DEF v, a
      <3>5. v * a <= 8 * ceiling
        BY <1>1, <3>2, <3>3, <3>4
      <3> QED
        BY <3>2, <3>5 DEF v, a
    <2> QED
      BY <2>3, <2>4
  <1> QED
    BY <1>3, <1>4

(* The gains of the channels, one after the other.                         *)
LEMMA GainsOf ==
    ASSUME NEW peaks \in Seq(Nat), NEW channels \in Nat, gains \in Seq(1..8), ceiling \in Nat
    PROVE  LET after == Chain!GainsAfter(peaks, channels)
               m == Chain!Max({Len(gains), Len(peaks)})
           IN  /\ m \in Nat /\ Len(peaks) <= m
               /\ \A c \in 0..channels : after[c] \in [1..m -> 1..8]
               /\ \A i \in 1..m : after[0][i] = Chain!GainAt(i)
               /\ \A c \in 1..channels : \A i \in 1..Len(peaks) :
                      after[c][i] = Chain!NextGain(peaks[i], after[c - 1][i])
  <1> DEFINE n == Len(peaks)
             k == Len(gains)
             m == Chain!Max({Len(gains), Len(peaks)})
             X == [1..m -> 1..8]
             x0 == [i \in 1..m |-> Chain!GainAt(i)]
             onward == [c \in 1..channels |-> [g \in X |-> Chain!Step(peaks, g)]]
             after == Chain!GainsAfter(peaks, channels)
  <1>1. /\ n \in Nat /\ k \in Nat /\ m = IF k >= n THEN k ELSE n
        /\ peaks \in [1..n -> Nat] /\ gains \in [1..k -> 1..8]
    <2>1. n \in Nat /\ k \in Nat /\ peaks \in [1..n -> Nat] /\ gains \in [1..k -> 1..8]
      OBVIOUS
    <2>2. n \in Int /\ k \in Int
      BY <2>1
    <2>3. Chain!Max({k, n}) = IF k >= n THEN k ELSE n
      <3> HIDE DEF n, k
      <3> QED
        BY <2>2, MaxOfTwo
    <2> QED
      BY <2>1, <2>3
  <1>2. x0 \in X
    <2>1. \A i \in 1..m : Chain!GainAt(i) \in 1..8
      <3> HIDE DEF m
      <3> QED
        BY <1>1 DEF Chain!GainAt, Chain!Unit, k
    <2> HIDE DEF m
    <2> QED
      BY <2>1
  <1>3. ASSUME NEW g \in X PROVE Chain!Step(peaks, g) \in X
    <2>1. \A p \in Nat : \A gain \in 1..8 : Chain!NextGain(p, gain) \in 1..8
      <3> TAKE p \in Nat
      <3> TAKE gain \in 1..8
      <3>1. 0 \in Int /\ Chain!Abs(0) <= p
        BY DEF Chain!Abs
      <3> QED
        BY <3>1, GainOfThePeak
    <2>2. Chain!Step(peaks, g) = [i \in 1..m |-> IF i <= n THEN Chain!NextGain(peaks[i], g[i]) ELSE g[i]]
      BY DEF Chain!Step
    <2> HIDE DEF n, k, m
    <2>3. \A i \in 1..m : (IF i <= n THEN Chain!NextGain(peaks[i], g[i]) ELSE g[i]) \in 1..8
      BY <1>1, <2>1
    <2> QED
      BY <2>2, <2>3
  <1>4. /\ onward \in [1..channels -> [X -> X]]
        /\ \A c \in 1..channels : \A g \in X : onward[c][g] = Chain!Step(peaks, g)
    <2> HIDE DEF X
    <2> QED
      BY <1>3
  <1>5. PICK f \in [0..channels -> X] : \A c \in 0..channels : f[c] = IF c = 0 THEN x0 ELSE onward[c][f[c - 1]]
    <2> HIDE DEF X, x0, onward
    <2>1. onward \in Steps(X, channels)
      BY <1>4 DEF Steps
    <2>2. PICK f : Iteration(f, X, x0, channels, onward)
      BY <1>2, <2>1, Iterates
    <2> QED
      BY <2>2 DEF Iteration
  <1>6. f = [c \in 0..channels |-> IF c = 0 THEN x0 ELSE Chain!Step(peaks, f[c - 1])]
    <2> HIDE DEF X, x0, onward
    <2>1. ASSUME NEW c \in 0..channels PROVE f[c] = IF c = 0 THEN x0 ELSE Chain!Step(peaks, f[c - 1])
      <3>1. c # 0 => c \in 1..channels /\ f[c - 1] \in X
        OBVIOUS
      <3> QED
        BY <1>4, <1>5, <3>1
    <2> QED
      BY <2>1
  <1>7. after = [c \in 0..channels |-> IF c = 0 THEN x0 ELSE Chain!Step(peaks, after[c - 1])]
    BY <1>6 DEF Chain!GainsAfter
  <1>z. \A i \in 1..m : after[0][i] = Chain!GainAt(i)
    <2> HIDE DEF after, X, m
    <2>1. after[0] = x0
      BY <1>7
    <2> QED
      BY <2>1
  <1> HIDE DEF after, x0, X
  <1>8. \A c \in 0..channels : after[c] \in X
    <2>1. after[0] \in X
      BY <1>2, <1>7
    <2>2. ASSUME NEW c \in 1..channels, after[c - 1] \in X PROVE after[c] \in X
      <3>1. c \in 0..channels /\ c # 0
        OBVIOUS
      <3>2. after[c] = Chain!Step(peaks, after[c - 1])
        BY <1>7, <3>1
      <3> QED
        BY <1>3, <2>2, <3>2
    <2> QED
      BY <2>1, <2>2, Stays
  <1>9. ASSUME NEW c \in 1..channels, NEW i \in 1..n
        PROVE  after[c][i] = Chain!NextGain(peaks[i], after[c - 1][i])
    <2>1. c \in 0..channels /\ c # 0 /\ c - 1 \in 0..channels
      OBVIOUS
    <2>2. after[c] = Chain!Step(peaks, after[c - 1]) /\ after[c - 1] \in X
      BY <1>7, <1>8, <2>1
    <2>3. i \in 1..m /\ i <= n
      <3> HIDE DEF m, n, k
      <3> QED
        BY <1>1
    <2>4. DOMAIN after[c - 1] = 1..m
      BY <2>2 DEF X
    <2> QED
      BY <2>2, <2>3, <2>4 DEF Chain!Step
  <1>10. m \in Nat /\ n <= m
    <2> HIDE DEF m, n, k
    <2> QED
      BY <1>1
  <1> QED
    BY <1>8, <1>9, <1>10, <1>z DEF after, X

(* The gain of a fade is a part of the whole.                              *)
LEMMA FadeGainOf ==
    ASSUME NEW curve \in {"linear", "s"}, NEW direction \in {"in", "out"}, NEW t \in Int, NEW total \in Nat,
           t < total
    PROVE  Chain!ComputeGain(curve, direction, t, total) \in 0..32
  <1> DEFINE g == IF t <= 0 THEN 0 ELSE Chain!Curve(curve, t, total)
  <1>1. ASSUME t > 0 PROVE Chain!Curve(curve, t, total) \in 0..32
    <2>1. CASE curve = "linear"
      <3> DEFINE q == (32 * t) \div total
      <3>1. q \in Nat /\ q * total <= 32 * t
        BY <1>1, Quotient
      <3>2. Chain!Curve(curve, t, total) = q
        BY <2>1 DEF Chain!Curve, Chain!Whole
      <3> HIDE DEF q
      <3>3. q * total <= 32 * total
        BY <1>1, <3>1
      <3>4. q <= 32
        BY <1>1, <3>1, <3>3
      <3> QED
        BY <3>1, <3>2, <3>4
    <2>2. CASE curve = "s"
      <3> DEFINE rise == 3 * t * t * total - 2 * t * t * t
                 all == total * total * total
                 q == (32 * rise) \div all
      <3>1. Chain!Curve(curve, t, total) = q
        BY <2>2 DEF Chain!Curve, Chain!Whole
      <3>2. rise \in Nat /\ all \in Nat \ {0} /\ rise <= all
        <4> DEFINE d == total - t
        <4>1. t \in Nat /\ d \in Nat /\ d > 0 /\ total = t + d
          BY <1>1
        <4> HIDE DEF d
        <4>2. t * t * t \in Nat /\ t * t * d \in Nat /\ d * d * d \in Nat /\ d * d * t \in Nat /\ d * d * d > 0
          BY <4>1
        <4>3. rise = t * t * t + 3 * (t * t * d)
          BY <4>1
        <4>4. all = t * t * t + 3 * (t * t * d) + 3 * (d * d * t) + d * d * d
          BY <4>1
        <4> QED
          BY <4>2, <4>3, <4>4
      <3> HIDE DEF rise, all
      <3>3. q \in Nat /\ q * all <= 32 * rise
        BY <3>2, Quotient
      <3> HIDE DEF q
      <3>4. q * all <= 32 * all
        BY <3>2, <3>3
      <3>5. q <= 32
        BY <3>2, <3>3, <3>4
      <3> QED
        BY <3>1, <3>3, <3>5
    <2> QED
      BY <2>1, <2>2
  <1>2. g \in 0..32
    BY <1>1
  <1>3. Chain!ComputeGain(curve, direction, t, total) = IF direction = "out" THEN 32 - g ELSE g
    BY DEF Chain!ComputeGain, Chain!Whole
  <1> HIDE DEF g
  <1> QED
    BY <1>2, <1>3

(* The gain of a frame of a block.                                         *)
LEMMA GainOfFrame ==
    ASSUME fade \in [active : BOOLEAN, remaining : Nat, total : Nat, curve : Curves \cup {"linear"}, direction : {"in", "out"}],
           NEW k \in Nat \ {0}
    PROVE  Chain!GainOf(fade, k) \in 0..32
  <1> DEFINE left == fade.remaining - (k - 1)
  <1>1. CASE ~fade.active \/ left <= 0
    BY <1>1 DEF Chain!GainOf, Chain!Whole
  <1>2. CASE fade.active /\ left > 0
    <2>1. Chain!GainOf(fade, k) = Chain!ComputeGain(fade.curve, fade.direction, fade.total - left, fade.total)
      BY <1>2 DEF Chain!GainOf
    <2>2. /\ fade.curve \in {"linear", "s"} /\ fade.direction \in {"in", "out"} /\ fade.total \in Nat
          /\ left \in Int
      <3>1. fade.curve \in Curves \cup {"linear"} /\ Curves \subseteq {"linear", "s"}
        BY ChainAssumption
      <3>2. fade.curve \in {"linear", "s"}
        BY <3>1
      <3>3. fade.direction \in {"in", "out"} /\ fade.total \in Nat /\ fade.remaining \in Nat
        OBVIOUS
      <3> QED
        BY <3>2, <3>3
    <2> HIDE DEF left
    <2>3. fade.total - left \in Int /\ fade.total - left < fade.total
      BY <1>2, <2>2
    <2> QED
      BY <2>1, <2>2, <2>3, FadeGainOf
  <1> QED
    BY <1>1, <1>2

(* What a block does to its samples, and what it leaves to be stored.      *)
LEMMA BlockOf ==
    ASSUME Chain!TypeOK, NEW b \in Blocks, Chain!Process(b)
    PROVE  /\ block' \in Chain!Handed /\ gains' \in Seq(1..8)
           /\ Len(block'.fade) = Len(block'.peaks)
           /\ \A k \in 1..Len(block'.peaks) : block'.fade[k] = Chain!GainOf(fade, k)
           /\ block'.fading = fade.active
           /\ block'.left = IF fade.remaining >= Len(block'.peaks) THEN fade.remaining - Len(block'.peaks) ELSE 0
           /\ asked' = [asked EXCEPT !.frames = Chain!Min({asked.frames + Len(block'.peaks), 2 * asked.spec.duration}),
                                     !.apart = asked.apart /\ call = None]
           /\ Chain!CeilingKept'
  <1> DEFINE planes == [c \in DOMAIN b |-> [i \in DOMAIN b[c] |-> b[c][i] * boost]]
             peaks == Chain!Peaks(planes)
             m == Len(b)
             after == Chain!GainsAfter(peaks, Len(b))
             n == Len(peaks)
             g == [k \in 1..n |-> Chain!GainOf(fade, k)]
             by(c, i) == IF ceiling = Full THEN 8 ELSE after[c][i]
             held == [i \in 1..n |-> Chain!GainAt(i)]
             heard == [c \in DOMAIN b |-> [i \in 1..n |-> planes[c][i] * by(c, i) * g[i] * volume]]
             left == Chain!Max({0, fade.remaining - n})
  <1>1. /\ block' = [peaks |-> peaks, held |-> held, fade |-> g, heard |-> heard, limited |-> ceiling # Full, volume |-> volume,
                     fading |-> fade.active, left |-> left]
        /\ gains' = IF ceiling = Full THEN gains ELSE after[Len(b)]
        /\ asked' = [asked EXCEPT !.frames = Chain!Min({asked.frames + n, 2 * asked.spec.duration}),
                                  !.apart = asked.apart /\ call = None]
        /\ ceiling' = ceiling
    BY DEF Chain!Process, Chain!Unit
  <1>2. /\ b \in Seq(Seq(Int)) /\ b # <<>> /\ \A c \in DOMAIN b : Len(b[c]) = Len(b[1])
        /\ boost \in Int /\ ceiling \in Nat /\ volume \in Nat /\ gains \in Seq(1..8)
        /\ fade.remaining \in Nat /\ fade.active \in BOOLEAN
    BY ChainAssumption DEF Chain!TypeOK, Chain!Unit
  <1>3. m \in Nat /\ m > 0 /\ DOMAIN b = 1..m
    BY <1>2
  <1>4. /\ planes \in Seq(Seq(Int)) /\ planes # <<>> /\ DOMAIN planes = DOMAIN b
        /\ \A c \in DOMAIN planes : Len(planes[c]) = Len(planes[1])
    <2>1. ASSUME NEW c \in DOMAIN b
          PROVE  planes[c] \in Seq(Int) /\ Len(planes[c]) = Len(b[c])
      <3> DEFINE l == Len(b[c])
      <3>1. b[c] \in Seq(Int) /\ l \in Nat /\ DOMAIN b[c] = 1..l /\ \A i \in 1..l : b[c][i] \in Int
        BY <1>2
      <3> HIDE DEF l
      <3>2. planes[c] = [i \in 1..l |-> b[c][i] * boost]
        BY <3>1
      <3>3. planes[c] \in [1..l -> Int]
        BY <1>2, <3>1, <3>2
      <3> HIDE DEF planes
      <3>4. planes[c] \in Seq(Int) /\ Len(planes[c]) = l
        BY <3>1, <3>3
      <3> QED
        BY <3>4 DEF l
    <2>2. planes \in [1..m -> Seq(Int)] /\ 1 \in DOMAIN b
      BY <1>3, <2>1
    <2> HIDE DEF planes, m
    <2>3. planes \in Seq(Seq(Int)) /\ Len(planes) = m /\ DOMAIN planes = 1..m
      BY <1>3, <2>2
    <2>4. planes # <<>>
      BY <1>3, <2>2, <2>3
    <2>5. \A c \in DOMAIN planes : Len(planes[c]) = Len(planes[1])
      BY <1>2, <1>3, <2>1, <2>2, <2>3
    <2> QED
      BY <1>3, <2>3, <2>4, <2>5
  <1>5. /\ peaks \in Seq(Nat) /\ n \in Nat
        /\ \A c \in DOMAIN b : \A i \in 1..n : planes[c][i] \in Int /\ Chain!Abs(planes[c][i]) <= peaks[i]
    <2> HIDE DEF planes
    <2>1. /\ peaks \in Seq(Nat) /\ n = Len(planes[1])
          /\ \A c \in DOMAIN planes : \A i \in 1..Len(planes[1]) : Chain!Abs(planes[c][i]) <= peaks[i]
      BY <1>4, PeakOf
    <2>2. n \in Nat
      BY <2>1
    <2>3. ASSUME NEW c \in DOMAIN b, NEW i \in 1..n PROVE planes[c][i] \in Int
      <3>1. planes[c] \in Seq(Int) /\ Len(planes[c]) = n
        BY <1>4, <2>1
      <3> QED
        BY <3>1
    <2> QED
      BY <1>4, <2>1, <2>2, <2>3
  <1>6. /\ \A c \in 0..m : \E k \in Nat : n <= k /\ after[c] \in [1..k -> 1..8]
        /\ \A i \in 1..n : after[0][i] = held[i]
        /\ \A c \in 1..m : \A i \in 1..n : after[c][i] = Chain!NextGain(peaks[i], after[c - 1][i])
    <2> HIDE DEF peaks
    <2>1. LET k == Chain!Max({Len(gains), Len(peaks)})
          IN  /\ k \in Nat /\ n <= k
              /\ \A c \in 0..m : after[c] \in [1..k -> 1..8]
              /\ \A i \in 1..k : after[0][i] = Chain!GainAt(i)
              /\ \A c \in 1..m : \A i \in 1..n : after[c][i] = Chain!NextGain(peaks[i], after[c - 1][i])
      BY <1>2, <1>3, <1>5, GainsOf
    <2> DEFINE k == Chain!Max({Len(gains), Len(peaks)})
    <2>2. 1..n \subseteq 1..k
      <3>1. k \in Nat /\ n <= k
        BY <2>1
      <3> HIDE DEF k, n
      <3> QED
        BY <1>5, <3>1
    <2> HIDE DEF k, n, m, after
    <2>3. \A i \in 1..n : after[0][i] = held[i]
      BY <2>1, <2>2 DEF k
    <2> QED
      BY <2>1, <2>3 DEF k
  <1> HIDE DEF planes, after, peaks
  <1>7. \A k \in 1..n : Chain!GainOf(fade, k) \in 0..32
    <2> HIDE DEF n
    <2> TAKE k \in 1..n
    <2>1. k \in Nat \ {0}
      BY <1>5
    <2> QED
      BY <2>1, GainOfFrame DEF Chain!TypeOK
  <1>8. g \in Seq(0..32) /\ Len(g) = n
    <2> HIDE DEF n
    <2>1. g \in [1..n -> 0..32]
      BY <1>7
    <2> HIDE DEF g
    <2> QED
      BY <1>5, <2>1
  <1>9. left \in Nat /\ left = IF fade.remaining >= n THEN fade.remaining - n ELSE 0
    <2> HIDE DEF n
    <2>1. fade.remaining - n \in Int /\ 0 \in Int
      BY <1>2, <1>5
    <2>2. left = IF 0 >= fade.remaining - n THEN 0 ELSE fade.remaining - n
      BY <2>1, MaxOfTwo
    <2> HIDE DEF left
    <2> QED
      BY <1>2, <1>5, <2>2
  <1>10. ASSUME NEW c \in 1..m, NEW i \in 1..n
         PROVE  /\ by(c, i) \in 1..8 /\ g[i] \in 0..32 /\ planes[c][i] \in Int
                /\ heard[c][i] = planes[c][i] * by(c, i) * g[i] * volume /\ heard[c][i] \in Int
    <2> HIDE DEF m, n
    <2>1. after[c][i] \in 1..8
      <3>0. c \in 0..m
        BY <1>3
      <3>1. PICK k \in Nat : n <= k /\ after[c] \in [1..k -> 1..8]
        BY <1>6, <3>0
      <3>2. i \in 1..k
        BY <1>5, <3>1
      <3> QED
        BY <3>1, <3>2
    <2>2. by(c, i) \in 1..8 /\ g[i] \in 0..32 /\ planes[c][i] \in Int
      BY <1>3, <1>5, <1>7, <2>1
    <2>3. heard[c][i] = planes[c][i] * by(c, i) * g[i] * volume
      BY <1>3
    <2> HIDE DEF by, g, heard
    <2>4. planes[c][i] * by(c, i) * g[i] * volume \in Int
      <3>1. \A x, a, f, v \in Int : x * a * f * v \in Int
        OBVIOUS
      <3>2. 1..8 \subseteq Int /\ 0..32 \subseteq Int /\ Nat \subseteq Int
        OBVIOUS
      <3>3. by(c, i) \in Int /\ g[i] \in Int /\ volume \in Int
        BY <1>2, <2>2, <3>2, Zenon
      <3> QED
        BY <2>2, <3>1, <3>3
    <2> QED
      BY <2>2, <2>3, <2>4
  <1>11. heard \in Seq(Seq(Int)) /\ DOMAIN heard = 1..m
    <2> HIDE DEF m, n, by, g
    <2>1. ASSUME NEW c \in 1..m PROVE heard[c] \in Seq(Int)
      <3>1. heard[c] = [i \in 1..n |-> planes[c][i] * by(c, i) * g[i] * volume]
        BY <1>3
      <3>2. \A i \in 1..n : heard[c][i] \in Int
        BY <1>10
      <3> HIDE DEF heard
      <3>3. heard[c] \in [1..n -> Int]
        BY <3>1, <3>2
      <3> QED
        BY <1>5, <3>3
    <2>2. heard = [c \in 1..m |-> heard[c]]
      BY <1>3
    <2> HIDE DEF heard
    <2>3. heard \in [1..m -> Seq(Int)]
      BY <2>1, <2>2
    <2> QED
      BY <1>3, <2>3
  <1>12. gains' \in Seq(1..8)
    <2>1. m \in 0..m
      BY <1>3
    <2>2. PICK k \in Nat : n <= k /\ after[m] \in [1..k -> 1..8]
      BY <1>6, <2>1
    <2>3. after[m] \in Seq(1..8)
      BY <2>2
    <2> QED
      BY <1>1, <1>2, <2>3
  <1>13. ASSUME ceiling # Full, NEW i \in 1..n, held[i] = 8 \/ peaks[i] * held[i] > ceiling * 8,
                peaks[i] <= ceiling * 8
         PROVE  Chain!Abs(heard[1][i]) <= 8 * ceiling * g[i] * volume
    <2> HIDE DEF m, n, held
    <2> DEFINE c == 1
    <2>0. c \in 1..m /\ c - 1 = 0 /\ after[c - 1][i] = held[i]
      BY <1>3, <1>6
    <2> DEFINE x == planes[c][i]
               peak == peaks[i]
               a == Chain!NextGain(peak, after[c - 1][i])
               f == g[i]
    <2>1. x \in Int /\ peak \in Nat /\ Chain!Abs(x) <= peak
      <3>1. i \in 1..Len(peaks)
        BY DEF n
      <3>2. peak \in Nat
        BY <1>5, <3>1
      <3>3. x \in Int /\ Chain!Abs(x) <= peak
        BY <1>3, <1>5, <2>0
      <3> QED
        BY <3>2, <3>3
    <2>2. after[c - 1][i] \in 1..8
      <3>1. c - 1 \in 0..m
        BY <1>3
      <3>2. PICK k \in Nat : n <= k /\ after[c - 1] \in [1..k -> 1..8]
        BY <1>6, <3>1
      <3>3. i \in 1..k
        BY <1>5, <3>2
      <3> QED
        BY <3>2, <3>3
    <2>3. a \in 1..8 /\ Chain!Abs(x) * a <= 8 * ceiling
      BY <1>2, <1>13, <2>0, <2>1, <2>2, GainOfThePeak
    <2>4. heard[c][i] = x * a * f * volume /\ f \in 0..32
      <3>1. by(c, i) = a
        BY <1>6, <1>13, <2>0
      <3> HIDE DEF heard, by, g, a
      <3> QED
        BY <1>10, <2>0, <3>1
    <2> HIDE DEF a, x, peak, f, heard, g
    <2> DEFINE v == f * volume
    <2>5. v \in Nat
      <3>1. f \in Nat /\ volume \in Nat
        BY <1>2, <2>4
      <3> QED
        BY <3>1, Product
    <2>6. heard[c][i] = (x * a) * v
      BY <1>2, <2>1, <2>3, <2>4
    <2> HIDE DEF v
    <2>7. Chain!Abs(heard[c][i]) = (Chain!Abs(x) * a) * v
      <3>1. CASE x >= 0
        <4>1. (x * a) * v >= 0
          BY <2>1, <2>3, <2>5, <3>1
        <4> QED
          BY <2>1, <2>3, <2>5, <2>6, <3>1, <4>1 DEF Chain!Abs
      <3>2. CASE x < 0
        <4>1. /\ (x * a) * v <= 0 /\ (x * a) * v \in Int
              /\ -((x * a) * v) = ((-x) * a) * v
          BY <2>1, <2>3, <2>5, <3>2
        <4> HIDE DEF v
        <4>2. Chain!Abs(heard[c][i]) = -((x * a) * v)
          BY <2>6, <4>1 DEF Chain!Abs
        <4>3. Chain!Abs(x) = -x
          BY <2>1, <3>2 DEF Chain!Abs
        <4> QED
          BY <4>1, <4>2, <4>3
      <3> QED
        BY <2>1, <3>1, <3>2
    <2>8. Chain!Abs(x) \in Nat
      BY <2>1 DEF Chain!Abs
    <2> DEFINE w == Chain!Abs(x) * a
               u == 8 * ceiling
    <2>9. w \in Nat /\ u \in Nat /\ w <= u
      <3>1. a \in Nat
        BY <2>3
      <3>2. w \in Nat
        BY <2>8, <3>1
      <3>3. u \in Nat
        BY <1>2
      <3> QED
        BY <2>3, <3>2, <3>3
    <2> HIDE DEF w, u
    <2>10. w * v <= u * v
      BY <2>5, <2>9
    <2>11. u * v = u * f * volume
      BY <1>2, <2>4, <2>9 DEF v
    <2>12. Chain!Abs(heard[c][i]) <= u * f * volume
      BY <2>7, <2>10, <2>11 DEF w
    <2> QED
      BY <2>12 DEF u, f
  <1>14. block' \in Chain!Handed
    <2>1. held \in Seq(1..8)
      <3>1. \A i \in 1..n : held[i] \in 1..8
        BY <1>2, <1>5 DEF Chain!GainAt, Chain!Unit
      <3> HIDE DEF n
      <3>2. held \in [1..n -> 1..8]
        BY <3>1
      <3> HIDE DEF held
      <3> QED
        BY <1>5, <3>2
    <2> HIDE DEF g, heard, held, left, n
    <2> QED
      BY <1>1, <1>2, <1>5, <1>8, <1>9, <1>11, <2>1 DEF Chain!Handed, Chain!Whole, Chain!Unit
  <1>15. Chain!CeilingKept'
    <2>1. /\ block'.limited => ceiling # Full
          /\ block'.heard = heard /\ block'.peaks = peaks /\ block'.held = held
          /\ block'.fade = g /\ block'.volume = volume /\ ceiling' = ceiling
      BY <1>1
    <2>2. DOMAIN peaks = 1..n
      BY <1>5
    <2> HIDE DEF g, heard, held, left, n, m
    <2> SUFFICES ASSUME block'.limited, NEW i \in 1..n, held[i] = 8 \/ peaks[i] * held[i] > ceiling * 8,
                        peaks[i] <= ceiling * 8
                 PROVE  Chain!Abs(heard[1][i]) <= 8 * ceiling * g[i] * volume
      BY <2>1, <2>2 DEF Chain!CeilingKept, Chain!Unit, Chain!Abs
    <2> QED
      BY <1>13, <2>1
  <1>16. /\ block'.fade = g /\ block'.peaks = peaks /\ block'.fading = fade.active /\ block'.left = left
    BY <1>1
  <1>17. \A k \in 1..n : g[k] = Chain!GainOf(fade, k)
    OBVIOUS
  <1> HIDE DEF g, heard, left
  <1> QED
    BY <1>1, <1>8, <1>9, <1>12, <1>14, <1>15, <1>16, <1>17

(* The invariant of the chain is inductive.                                *)
LEMMA ChainInductive ==
    /\ Chain!Init => Chain!SoundInv
    /\ Chain!SoundInv /\ [Chain!Next]_(Chain!vars) => Chain!SoundInv'
  <1> USE DEF Chain!SoundInv, Chain!SoundHolds
  <1>1. Chain!Init => Chain!SoundInv
    <2> SUFFICES ASSUME Chain!Init PROVE Chain!SoundInv
      OBVIOUS
    <2>1. /\ configured = FALSE /\ boost = 1 /\ ceiling = Usual /\ volume = 32
          /\ gains = <<>> /\ call = None /\ block = None
          /\ fade = [active |-> FALSE, remaining |-> 0, total |-> 0, curve |-> "linear", direction |-> "out"]
          /\ asked = Chain!Quiet
      BY DEF Chain!Init, Chain!NoFade, Chain!Whole
    <2>2. /\ asked.spec.duration = 0 /\ asked.frames = 0 /\ asked.apart
          /\ asked \in [spec : Chain!Specs, frames : Nat, apart : BOOLEAN]
      BY <2>1 DEF Chain!Quiet, Chain!Specs
    <2>3. gains \in Seq(1..8) /\ Usual \in Nat
      BY <2>1, ChainAssumption
    <2>4. Chain!TypeOK
      <3>1. fade \in [active : BOOLEAN, remaining : Nat, total : Nat, curve : Curves \cup {"linear"},
                      direction : {"in", "out"}]
        BY <2>1
      <3>2. configured \in BOOLEAN /\ boost \in Int /\ ceiling \in Nat /\ volume \in Nat
        <4>1. configured \in BOOLEAN
          BY <2>1, Zenon
        <4>2. boost = 1 /\ ceiling = Usual /\ volume = 32
          BY <2>1
        <4> QED
          BY <2>3, <4>1, <4>2
      <3>3. call \in Chain!Calls \cup {None} /\ block \in Chain!Handed \cup {None}
        BY <2>1
      <3> QED
        BY <2>2, <2>3, <3>1, <3>2, <3>3 DEF Chain!TypeOK, Chain!Unit
    <2>5. Chain!Max({0, asked.spec.duration - asked.frames}) = 0
      BY <2>2, MaxOfTwo
    <2> QED
      BY <2>1, <2>4, <2>5 DEF Chain!StoresAgree, Chain!FadeAgrees, Chain!FormAgrees, Chain!FadeKept,
                              Chain!CeilingKept, Chain!FadeIsExact, Chain!FadeEnds
  <1>2. ASSUME Chain!SoundInv, Chain!Next PROVE Chain!SoundInv'
    <2>0. /\ configured \in BOOLEAN /\ boost \in Int /\ ceiling \in Nat /\ volume \in Nat
          /\ gains \in Seq(1..8)
          /\ fade \in [active : BOOLEAN, remaining : Nat, total : Nat, curve : Curves \cup {"linear"}, direction : {"in", "out"}]
          /\ call \in Chain!Calls \cup {None} /\ block \in Chain!Handed \cup {None}
          /\ asked \in [spec : Chain!Specs, frames : Nat, apart : BOOLEAN]
      BY <1>2 DEF Chain!TypeOK, Chain!Unit
    <2> DEFINE d == asked.spec.duration
    <2>d. d \in Nat /\ asked.frames \in Nat /\ fade.remaining \in Nat /\ fade.active \in BOOLEAN
      <3>1. \A spec \in Chain!Specs : spec.duration \in Nat
        BY ChainAssumption DEF Chain!Specs, Chain!Quiet
      <3> QED
        BY <2>0, <3>1
    <2>e. [i \in DOMAIN gains |-> 8] \in Seq(1..8)
      <3> DEFINE n == Len(gains)
      <3>1. n \in Nat /\ DOMAIN gains = 1..n
        BY <2>0
      <3> HIDE DEF n
      <3>2. [i \in 1..n |-> 8] \in [1..n -> 1..8]
        OBVIOUS
      <3>3. [i \in 1..n |-> 8] \in Seq(1..8)
        BY <3>1, <3>2
      <3> QED
        BY <3>1, <3>3
    <2>1. CASE Chain!Configure \/ (\E b \in Boosts : Chain!ApplyEq(b)) \/ (\E c \in Ceilings : Chain!SetCeiling(c))
               \/ (\E v \in Volumes : Chain!SetVolume(v))
      <3>1. /\ configured' \in BOOLEAN /\ boost' \in Int /\ ceiling' \in Nat /\ volume' \in Nat
            /\ gains' \in Seq(1..8)
            /\ fade' = fade /\ call' = call /\ block' = block /\ asked' = asked
            /\ block = None \/ ceiling' = ceiling
        <4>1. CASE Chain!Configure
          <5>1. Usual \in Nat /\ FALSE \in BOOLEAN /\ TRUE \in BOOLEAN
            BY ChainAssumption
          <5> QED
            BY <2>0, <2>e, <4>1, <5>1 DEF Chain!Configure, Chain!Unit
        <4>2. ASSUME NEW b \in Boosts, Chain!ApplyEq(b)
              PROVE  /\ boost' \in Int /\ UNCHANGED <<configured, ceiling, volume, gains, fade, call, block, asked>>
          BY <4>2, ChainAssumption DEF Chain!ApplyEq
        <4>3. ASSUME NEW c \in Ceilings, Chain!SetCeiling(c)
              PROVE  /\ ceiling' \in Nat /\ block = None
                     /\ UNCHANGED <<configured, boost, volume, gains, fade, call, block, asked>>
          BY <4>3, ChainAssumption DEF Chain!SetCeiling
        <4>4. ASSUME NEW v \in Volumes, Chain!SetVolume(v)
              PROVE  /\ volume' \in Nat /\ UNCHANGED <<configured, boost, ceiling, gains, fade, call, block, asked>>
          BY <4>4, ChainAssumption DEF Chain!SetVolume
        <4> QED
          BY <2>0, <2>1, <4>1, <4>2, <4>3, <4>4
      <3>2. Chain!TypeOK'
        BY <2>0, <3>1 DEF Chain!TypeOK, Chain!Unit
      <3>3. Chain!CeilingKept'
        BY <1>2, <3>1 DEF Chain!CeilingKept
      <3>4. Chain!FadeIsExact' /\ Chain!FadeEnds'
        BY <1>2, <3>1 DEF Chain!FadeIsExact, Chain!FadeEnds, Chain!ComputeGain, Chain!Curve
      <3> QED
        BY <1>2, <3>1, <3>2, <3>3, <3>4 DEF Chain!StoresAgree, Chain!FadeAgrees, Chain!FormAgrees, Chain!FadeKept
    <2>2. ASSUME NEW s \in Chain!Specs, Chain!SetFade(s) PROVE Chain!SoundInv'
      <3>1. /\ call' = [spec |-> s, stores |-> {"active", "fields"}]
            /\ asked' = [spec |-> s, frames |-> 0, apart |-> block = None]
            /\ configured' = configured /\ boost' = boost /\ ceiling' = ceiling /\ volume' = volume
            /\ gains' = gains /\ fade' = fade /\ block' = block
        BY <2>2 DEF Chain!SetFade
      <3>2. /\ call' \in Chain!Calls /\ call' # None
            /\ call'.spec = s /\ call'.stores = {"active", "fields"}
        <4> DEFINE both == {"active", "fields"}
        <4>1. both \in (SUBSET {"active", "fields"}) \ {{}} /\ call' = [spec |-> s, stores |-> both]
          BY <3>1
        <4> HIDE DEF both
        <4>2. call' \in Chain!Calls /\ call'.spec = s /\ call'.stores = both
          BY <4>1 DEF Chain!Calls
        <4> QED
          BY <4>2, ChainAssumption DEF both
      <3>3. /\ asked' \in [spec : Chain!Specs, frames : Nat, apart : BOOLEAN]
            /\ asked'.spec = s /\ asked'.frames = 0 /\ (asked'.apart => block' = None)
        BY <3>1
      <3>4. Chain!TypeOK'
        BY <2>0, <3>1, <3>2, <3>3 DEF Chain!TypeOK, Chain!Unit
      <3>5. Chain!CeilingKept'
        BY <1>2, <3>1 DEF Chain!CeilingKept
      <3>6. Chain!StoresAgree'
        <4>1. "active" \in call'.stores /\ "fields" \in call'.stores
          BY <3>2
        <4>2. asked'.apart => block' = None /\ asked'.frames = 0 /\ call'.spec = asked'.spec
          BY <3>2, <3>3
        <4> QED
          BY <4>1, <4>2 DEF Chain!StoresAgree
      <3>7. Chain!FadeIsExact'
        BY <3>3 DEF Chain!FadeIsExact
      <3>8. Chain!FadeEnds' /\ Chain!FadeAgrees' /\ Chain!FormAgrees'
        BY <3>2 DEF Chain!FadeAgrees, Chain!FormAgrees, Chain!FadeEnds
      <3> QED
        BY <3>4, <3>5, <3>6, <3>7, <3>8
    <2>3. ASSUME NEW s \in {"active", "fields"}, Chain!StoreFade(s) PROVE Chain!SoundInv'
      <3>1. /\ call # None /\ s \in call.stores /\ call \in Chain!Calls
            /\ configured' = configured /\ boost' = boost /\ ceiling' = ceiling /\ volume' = volume
            /\ gains' = gains /\ asked' = asked /\ block' = block
        BY <2>0, <2>3 DEF Chain!StoreFade
      <3> DEFINE e == call.spec.duration
      <3>2. e \in Nat /\ call.spec.direction \in {"in", "out"} /\ call.spec.curve \in Curves \cup {"linear"}
        <4>1. \A spec \in Chain!Specs : /\ spec.duration \in Nat /\ spec.direction \in {"in", "out"}
                                       /\ spec.curve \in Curves \cup {"linear"}
          BY ChainAssumption DEF Chain!Specs, Chain!Quiet
        <4> QED
          BY <3>1, <4>1 DEF Chain!Calls
      <3>3. /\ call' = IF call.stores = {s} THEN None ELSE [call EXCEPT !.stores = call.stores \ {s}]
            /\ s = "active" => \E on \in BOOLEAN : (on <=> e > 0) /\ fade' = [fade EXCEPT !.active = on]
            /\ s = "fields" /\ e = 0 => fade' = [fade EXCEPT !.remaining = 0, !.total = 0]
            /\ s = "fields" /\ e # 0 => fade' = [fade EXCEPT !.remaining = e, !.total = e,
                                                !.curve = call.spec.curve, !.direction = call.spec.direction]
        <4>1. (e > 0) \in BOOLEAN
          BY <3>2
        <4>2. s = "active" => fade' = [fade EXCEPT !.active = e > 0]
          BY <2>3 DEF Chain!StoreFade
        <4> HIDE DEF e
        <4> QED
          BY <2>3, <4>1, <4>2 DEF Chain!StoreFade, e
      <3>4. (call' = None /\ call.stores = {s}) \/
                            /\ call' # None /\ call' \in Chain!Calls
                            /\ call'.stores = call.stores \ {s} /\ call'.spec = call.spec
        <4>1. CASE call.stores = {s}
          BY <3>3, <4>1
        <4>2. CASE call.stores # {s}
          <5> DEFINE rest == call.stores \ {s}
          <5>1. rest \in (SUBSET {"active", "fields"}) \ {{}}
            BY <3>1, <4>2 DEF Chain!Calls
          <5>2. call' = [call EXCEPT !.stores = rest]
            BY <3>3, <4>2
          <5> HIDE DEF rest
          <5>3. call' \in Chain!Calls /\ call'.stores = rest /\ call'.spec = call.spec
            BY <3>1, <5>1, <5>2 DEF Chain!Calls
          <5> QED
            BY <5>3, ChainAssumption DEF rest
        <4> QED
          BY <4>1, <4>2
      <3>5. fade' \in [active : BOOLEAN, remaining : Nat, total : Nat, curve : Curves \cup {"linear"}, direction : {"in", "out"}]
        <4> HIDE DEF e
        <4>1. CASE s = "active"
          <5>1. PICK on \in BOOLEAN : fade' = [fade EXCEPT !.active = on]
            BY <3>3, <4>1
          <5> QED
            BY <2>0, <5>1
        <4>2. CASE s = "fields" /\ e = 0
          <5>1. 0 \in Nat
            OBVIOUS
          <5> DEFINE zero == 0
          <5>2. zero \in Nat /\ fade' = [fade EXCEPT !.remaining = zero, !.total = zero]
            BY <3>3, <4>2
          <5> HIDE DEF zero
          <5> QED
            BY <2>0, <5>2
        <4>3. CASE s = "fields" /\ e # 0
          BY <2>0, <3>2, <3>3, <4>3, ZenonT(30)
        <4> QED
          BY <4>1, <4>2, <4>3
      <3>6. Chain!TypeOK'
        BY <2>0, <3>1, <3>4, <3>5 DEF Chain!TypeOK, Chain!Unit
      <3>7. Chain!CeilingKept'
        BY <1>2, <3>1 DEF Chain!CeilingKept
      <3>8. CASE ~asked.apart
        BY <3>1, <3>6, <3>7, <3>8 DEF Chain!StoresAgree, Chain!FadeAgrees, Chain!FormAgrees, Chain!FadeIsExact, Chain!FadeEnds
      <3>9. CASE asked.apart
        <4>1. block = None /\ asked.frames = 0 /\ e = d /\ call.spec = asked.spec
          BY <1>2, <3>1, <3>9 DEF Chain!StoresAgree
        <4>2. /\ s = "active" => /\ fade'.active = (d > 0) /\ fade'.remaining = fade.remaining /\ fade'.total = fade.total
                                 /\ fade'.curve = fade.curve /\ fade'.direction = fade.direction
              /\ s = "fields" => /\ fade'.remaining = d /\ fade'.active = fade.active
                                 /\ d > 0 => /\ fade'.total = d /\ fade'.curve = asked.spec.curve
                                             /\ fade'.direction = asked.spec.direction
          <5> HIDE DEF e
          <5>1. CASE s = "active"
            <6>1. PICK on \in BOOLEAN : (on <=> e > 0) /\ fade' = [fade EXCEPT !.active = on]
              BY <3>3, <5>1
            <6>2. /\ fade'.active = on /\ fade'.remaining = fade.remaining /\ fade'.total = fade.total
                  /\ fade'.curve = fade.curve /\ fade'.direction = fade.direction
              BY <2>0, <6>1
            <6>3. on = (d > 0)
              BY <4>1, <6>1
            <6> QED
              BY <5>1, <6>2, <6>3
          <5>2. CASE s = "fields" /\ e = 0
            <6>1. fade'.remaining = 0 /\ fade'.active = fade.active
              BY <2>0, <3>3, <5>2
            <6> QED
              BY <2>d, <4>1, <5>2, <6>1
          <5>3. CASE s = "fields" /\ e # 0
            <6>1. /\ fade'.remaining = e /\ fade'.active = fade.active /\ fade'.total = e
                  /\ fade'.curve = call.spec.curve /\ fade'.direction = call.spec.direction
              BY <2>0, <3>3, <5>3
            <6> QED
              BY <4>1, <5>3, <6>1
          <5> QED
            BY <5>1, <5>2, <5>3
        <4>3. ("active" \notin call.stores \ {s}) => (fade'.active <=> d > 0)
          BY <1>2, <3>1, <3>9, <4>2 DEF Chain!StoresAgree
        <4>4. ("fields" \notin call.stores \ {s}) => fade'.remaining = d /\ Chain!FadeKept'
          BY <1>2, <2>d, <3>1, <3>9, <4>2 DEF Chain!StoresAgree, Chain!FadeKept
        <4>5. Chain!StoresAgree'
          BY <3>1, <3>4, <4>1, <4>3, <4>4 DEF Chain!StoresAgree
        <4>6. call' = None => /\ "active" \notin call.stores \ {s} /\ "fields" \notin call.stores \ {s}
          BY <3>4
        <4>7. Chain!FadeEnds'
          <5>1. Chain!Max({0, d - 0}) = d
            BY <2>d, MaxOfTwo
          <5> QED
            BY <2>d, <3>1, <4>1, <4>3, <4>4, <4>6, <5>1 DEF Chain!FadeEnds
        <4> QED
          BY <3>1, <3>6, <3>7, <4>1, <4>4, <4>5, <4>6, <4>7 DEF Chain!FadeAgrees, Chain!FormAgrees, Chain!FadeIsExact
      <3> QED
        BY <3>8, <3>9
    <2>4. ASSUME NEW b \in Blocks, Chain!Process(b) PROVE Chain!SoundInv'
      <3> DEFINE n == Len(block'.peaks)
                 frames == Chain!Min({asked.frames + n, 2 * d})
      <3>1. /\ block' \in Chain!Handed /\ gains' \in Seq(1..8)
            /\ \A k \in 1..n : block'.fade[k] = Chain!GainOf(fade, k)
            /\ block'.fading = fade.active
            /\ block'.left = IF fade.remaining >= n THEN fade.remaining - n ELSE 0
            /\ Chain!CeilingKept'
        BY <1>2, <2>4, BlockOf
      <3>2. /\ asked' = [asked EXCEPT !.frames = frames, !.apart = asked.apart /\ call = None]
            /\ configured' = configured /\ boost' = boost /\ ceiling' = ceiling /\ volume' = volume
            /\ fade' = fade /\ call' = call /\ block = None
        <4>1. asked' = [asked EXCEPT !.frames = frames, !.apart = asked.apart /\ call = None]
          BY <1>2, <2>4, BlockOf, Zenon
        <4>2. /\ configured' = configured /\ boost' = boost /\ ceiling' = ceiling /\ volume' = volume
              /\ fade' = fade /\ call' = call /\ block = None
          BY <2>4 DEF Chain!Process
        <4> QED
          BY <4>1, <4>2, Zenon
      <3>3. n \in Nat /\ block' # None
        BY <3>1, ChainAssumption DEF Chain!Handed
      <3> HIDE DEF n
      <3>4. frames \in Nat /\ frames = IF asked.frames + n <= 2 * d THEN asked.frames + n ELSE 2 * d
        <4> DEFINE x == asked.frames + n
                   y == 2 * d
        <4>1. x \in Nat /\ y \in Nat
          BY <2>d, <3>3
        <4> HIDE DEF x, y
        <4>2. x \in Int /\ y \in Int
          BY <4>1
        <4>3. Chain!Min({x, y}) = IF x <= y THEN x ELSE y
          BY <4>2, MinOfTwo
        <4> QED
          BY <4>1, <4>3 DEF x, y
      <3> HIDE DEF frames
      <3>5. /\ asked' \in [spec : Chain!Specs, frames : Nat, apart : BOOLEAN]
            /\ asked'.spec = asked.spec /\ asked'.frames = frames
            /\ asked'.apart => asked.apart /\ call = None
        <4> DEFINE still == asked.apart /\ call = None
        <4>1. still \in BOOLEAN /\ asked' = [asked EXCEPT !.frames = frames, !.apart = still]
          BY <3>2
        <4> HIDE DEF still
        <4>2. /\ asked' \in [spec : Chain!Specs, frames : Nat, apart : BOOLEAN]
              /\ asked'.spec = asked.spec /\ asked'.frames = frames /\ asked'.apart = still
          BY <2>0, <3>4, <4>1
        <4> QED
          BY <4>2 DEF still
      <3>6. Chain!TypeOK'
        BY <2>0, <3>1, <3>2, <3>5 DEF Chain!TypeOK, Chain!Unit
      <3>7. CASE ~asked'.apart
        BY <3>1, <3>6, <3>7 DEF Chain!StoresAgree, Chain!FadeAgrees, Chain!FormAgrees, Chain!FadeIsExact, Chain!FadeEnds
      <3>8. CASE asked'.apart
        <4>1. /\ asked.apart /\ call = None /\ block = None
              /\ fade.remaining = IF asked.frames >= d THEN 0 ELSE d - asked.frames
              /\ fade.active <=> fade.remaining > 0
          <5>1. Chain!Max({0, d - asked.frames}) = IF 0 >= d - asked.frames THEN 0 ELSE d - asked.frames
            <6>1. 0 \in Int /\ d - asked.frames \in Int
              BY <2>d
            <6> QED
              BY <6>1, MaxOfTwo
          <5>2. asked.apart /\ call = None /\ block = None
            BY <3>2, <3>5, <3>8
          <5>3. fade.remaining = Chain!Max({0, d - asked.frames}) /\ (fade.active <=> fade.remaining > 0)
            BY <1>2, <5>2 DEF Chain!FadeEnds
          <5> HIDE DEF d
          <5> QED
            BY <2>d, <5>1, <5>2, <5>3
        <4>2. Chain!FadeKept
          BY <1>2, <4>1 DEF Chain!FormAgrees
        <4>3. Chain!FormAgrees' /\ Chain!StoresAgree' /\ Chain!FadeEnds'
          BY <3>2, <3>3, <3>5, <4>1, <4>2 DEF Chain!FormAgrees, Chain!FadeKept, Chain!StoresAgree, Chain!FadeEnds
        <4>4. Chain!FadeAgrees'
          <5>1. Chain!Max({0, d - frames}) = IF 0 >= d - frames THEN 0 ELSE d - frames
            <6>1. 0 \in Int /\ d - frames \in Int
              BY <2>d, <3>4
            <6> QED
              BY <6>1, MaxOfTwo
          <5>2. block'.left = Chain!Max({0, d - frames}) /\ block'.left <= fade.remaining
            <6> DEFINE left == block'.left
            <6>1. left = IF fade.remaining >= n THEN fade.remaining - n ELSE 0
              BY <3>1
            <6> HIDE DEF d, left
            <6>2. CASE asked.frames + n >= d
              <7>1. frames >= d /\ fade.remaining <= n
                BY <2>d, <3>3, <3>4, <4>1, <6>2
              <7>2. Chain!Max({0, d - frames}) = 0 /\ left = 0
                BY <2>d, <3>3, <3>4, <5>1, <6>1, <7>1
              <7> QED
                BY <2>d, <7>2 DEF left
            <6>3. CASE asked.frames + n < d
              <7>1. frames = asked.frames + n /\ fade.remaining = d - asked.frames /\ fade.remaining >= n
                BY <2>d, <3>3, <3>4, <4>1, <6>3
              <7>2. Chain!Max({0, d - frames}) = d - frames /\ left = d - frames /\ left <= fade.remaining
                BY <2>d, <3>3, <3>4, <5>1, <6>1, <6>3, <7>1
              <7> QED
                BY <7>2 DEF left
            <6> QED
              BY <2>d, <3>3, <6>2, <6>3
          <5>3. block'.fading <=> fade.active
            BY <3>1
          <5>4. ~fade.active => fade.remaining = 0
            BY <2>d, <4>1
          <5> QED
            BY <3>2, <3>5, <5>2, <5>3, <5>4 DEF Chain!FadeAgrees
        <4>5. ASSUME frames < 2 * d, NEW i \in 1..n
              PROVE  LET t == frames - n + i - 1
                     IN  block'.fade[i] = IF t >= d THEN 32
                                          ELSE Chain!ComputeGain(asked.spec.curve, asked.spec.direction, t, d)
          <5> DEFINE t == frames - n + i - 1
                     left == fade.remaining - (i - 1)
          <5>1. frames = asked.frames + n /\ t = asked.frames + i - 1
            BY <2>d, <3>3, <3>4, <4>5
          <5>2. block'.fade[i] = IF ~fade.active \/ left <= 0 THEN 32
                                 ELSE Chain!ComputeGain(fade.curve, fade.direction, fade.total - left, fade.total)
            BY <3>1 DEF Chain!GainOf, Chain!Whole
          <5>0. t \in Int /\ d \in Int
            BY <2>d, <3>3, <3>4
          <5> HIDE DEF d
          <5>3. CASE t >= d
            <6>1. ~fade.active \/ left <= 0
              BY <2>d, <3>3, <4>1, <5>1, <5>3
            <6> QED
              BY <5>2, <5>3, <6>1
          <5>4. CASE t < d
            <6>1. fade.active /\ left > 0 /\ left = d - t
              BY <2>d, <3>3, <4>1, <5>1, <5>4
            <6>2. fade.total = d /\ fade.curve = asked.spec.curve /\ fade.direction = asked.spec.direction
              BY <4>1, <4>2, <6>1 DEF Chain!FadeKept, d
            <6> HIDE DEF left, t
            <6>3. fade.total - left = t
              BY <5>0, <6>1, <6>2
            <6>4. ~(t >= d)
              BY <5>0, <5>4
            <6>5. ~(left <= 0)
              BY <5>0, <5>4, <6>1
            <6>6. block'.fade[i] = Chain!ComputeGain(fade.curve, fade.direction, fade.total - left, fade.total)
              BY <5>2, <6>1, <6>5, Zenon
            <6>7. block'.fade[i] = Chain!ComputeGain(asked.spec.curve, asked.spec.direction, t, d)
              BY <6>2, <6>3, <6>6, Zenon
            <6> QED
              BY <6>4, <6>7 DEF t
          <5> QED
            BY <5>0, <5>3, <5>4
        <4>6. Chain!FadeIsExact'
          <5>1. d \in Int /\ frames \in Int /\ n \in Int /\ DOMAIN block'.peaks = 1..n
            BY <2>d, <3>1, <3>3, <3>4 DEF n, Chain!Handed
          <5>2. ASSUME frames < 2 * d, NEW i \in 1..n
                PROVE  LET t == frames - n + i - 1
                       IN  /\ t < d => block'.fade[i] = Chain!ComputeGain(asked.spec.curve, asked.spec.direction, t, d)
                           /\ t >= d => block'.fade[i] = 32
            <6> DEFINE t == frames - n + i - 1
            <6>1. t \in Int /\ block'.fade[i] = IF t >= d THEN 32
                                   ELSE Chain!ComputeGain(asked.spec.curve, asked.spec.direction, t, d)
              BY <4>5, <5>1, <5>2
            <6> HIDE DEF t, d
            <6>2. t < d => ~(t >= d)
              BY <5>1, <6>1
            <6> QED
              BY <6>1, <6>2, Zenon DEF t
          <5> QED
            BY <3>5, <5>2 DEF Chain!FadeIsExact, Chain!Whole, Chain!ComputeGain, Chain!Curve, n
        <4> QED
          BY <3>1, <3>6, <4>3, <4>4, <4>6
      <3> QED
        BY <3>7, <3>8
    <2>5. CASE Chain!Finish
      <3>1. /\ block # None /\ block' = None /\ block \in Chain!Handed
            /\ block.fading => fade' = [fade EXCEPT !.remaining = block.left,
                                                   !.active = IF block.left = 0 THEN FALSE ELSE fade.active]
            /\ ~block.fading => fade' = fade
            /\ configured' = configured /\ boost' = boost /\ ceiling' = ceiling /\ volume' = volume
            /\ gains' = gains /\ call' = call /\ asked' = asked
        BY <2>0, <2>5 DEF Chain!Finish
      <3>2. block.left \in Nat /\ block.fading \in BOOLEAN
        BY <3>1 DEF Chain!Handed
      <3>3. /\ fade' \in [active : BOOLEAN, remaining : Nat, total : Nat, curve : Curves \cup {"linear"}, direction : {"in", "out"}]
            /\ fade'.total = fade.total /\ fade'.curve = fade.curve /\ fade'.direction = fade.direction
            /\ block.fading => /\ fade'.remaining = block.left
                               /\ fade'.active <=> (block.left # 0 /\ fade.active)
        <4>1. CASE ~block.fading
          BY <2>0, <3>1, <4>1
        <4>2. CASE block.fading
          <5> DEFINE on == IF block.left = 0 THEN FALSE ELSE fade.active
                     left == block.left
          <5>1. on \in BOOLEAN /\ left \in Nat /\ fade' = [fade EXCEPT !.remaining = left, !.active = on]
            BY <2>d, <3>1, <3>2, <4>2
          <5> HIDE DEF on, left
          <5>2. /\ fade' \in [active : BOOLEAN, remaining : Nat, total : Nat, curve : Curves \cup {"linear"}, direction : {"in", "out"}]
                /\ fade'.total = fade.total /\ fade'.curve = fade.curve /\ fade'.direction = fade.direction
                /\ fade'.remaining = left /\ fade'.active = on
            BY <2>0, <5>1
          <5> QED
            BY <5>2 DEF on, left
        <4> QED
          BY <4>1, <4>2
      <3>4. Chain!TypeOK'
        BY <2>0, <3>1, <3>3 DEF Chain!TypeOK, Chain!Unit
      <3>5. CASE ~asked.apart \/ call # None
        <4>1. ~asked.apart
          BY <1>2, <3>1, <3>5 DEF Chain!StoresAgree
        <4> QED
          BY <3>1, <3>4, <4>1 DEF Chain!StoresAgree, Chain!FadeAgrees, Chain!FormAgrees, Chain!FadeIsExact, Chain!FadeEnds,
                                  Chain!CeilingKept
      <3>6. CASE asked.apart /\ call = None
        <4>1. /\ block.left = Chain!Max({0, d - asked.frames})
              /\ block.fading <=> fade.active
              /\ ~block.fading => fade.remaining = 0
              /\ block.left <= fade.remaining
          BY <1>2, <3>1, <3>6 DEF Chain!FadeAgrees
        <4>2. fade'.remaining = block.left /\ (fade'.active <=> fade'.remaining > 0)
          <5>1. CASE block.fading
            <6>1. fade'.remaining = block.left /\ (fade'.active <=> block.left # 0)
              BY <3>3, <4>1, <5>1
            <6> QED
              BY <3>2, <6>1
          <5>2. CASE ~block.fading
            <6>1. fade' = fade /\ ~fade.active
              BY <3>1, <4>1, <5>2
            <6>2. fade.remaining = 0 /\ block.left = 0
              BY <3>2, <4>1, <5>2
            <6> QED
              BY <6>1, <6>2
          <5> QED
            BY <5>1, <5>2
        <4>3. Chain!FadeEnds'
          BY <3>1, <4>1, <4>2 DEF Chain!FadeEnds
        <4>4. Chain!FadeKept /\ (fade'.remaining > 0 => fade.remaining > 0)
          BY <1>2, <2>d, <3>2, <3>6, <4>1, <4>2 DEF Chain!FormAgrees
        <4>5. Chain!FormAgrees'
          BY <3>1, <3>3, <4>4 DEF Chain!FormAgrees, Chain!FadeKept
        <4> QED
          BY <3>1, <3>4, <3>6, <4>3, <4>5 DEF Chain!StoresAgree, Chain!FadeAgrees, Chain!FadeIsExact, Chain!CeilingKept
      <3> QED
        BY <3>5, <3>6
    <2>6. CASE Chain!Reset
      <3>1. /\ block = None /\ block' = block /\ call = None /\ call' = call
            /\ gains' = [i \in DOMAIN gains |-> 8]
            /\ fade' = [fade EXCEPT !.active = FALSE, !.remaining = 0, !.total = 0]
            /\ asked' = Chain!Quiet
            /\ configured' = configured /\ boost' = boost /\ ceiling' = ceiling /\ volume' = volume
        BY <2>6 DEF Chain!Reset, Chain!Unit
      <3>2. /\ asked' \in [spec : Chain!Specs, frames : Nat, apart : BOOLEAN]
            /\ asked'.spec.duration = 0 /\ asked'.frames = 0
        BY <3>1 DEF Chain!Quiet, Chain!Specs
      <3>3. /\ fade' \in [active : BOOLEAN, remaining : Nat, total : Nat, curve : Curves \cup {"linear"}, direction : {"in", "out"}]
            /\ fade'.remaining = 0 /\ ~fade'.active
        <4> DEFINE zero == 0
                   off == FALSE
        <4>1. zero \in Nat /\ off \in BOOLEAN /\ fade' = [fade EXCEPT !.active = off, !.remaining = zero, !.total = zero]
          BY <3>1
        <4> HIDE DEF zero, off
        <4>2. /\ fade' \in [active : BOOLEAN, remaining : Nat, total : Nat, curve : Curves \cup {"linear"}, direction : {"in", "out"}]
              /\ fade'.remaining = zero /\ fade'.active = off
          BY <2>0, <4>1
        <4> QED
          BY <4>2 DEF zero, off
      <3>4. gains' \in Seq(1..8)
        BY <2>e, <3>1
      <3>5. Chain!TypeOK'
        BY <2>0, <3>1, <3>2, <3>3, <3>4 DEF Chain!TypeOK, Chain!Unit
      <3>6. Chain!Max({0, 0 - 0}) = 0
        BY MaxOfTwo
      <3>7. Chain!FadeEnds'
        BY <3>1, <3>2, <3>3, <3>6 DEF Chain!FadeEnds
      <3>8. Chain!FormAgrees'
        BY <3>3 DEF Chain!FormAgrees, Chain!FadeKept
      <3> QED
        BY <3>1, <3>5, <3>7, <3>8 DEF Chain!StoresAgree, Chain!FadeAgrees, Chain!FadeIsExact, Chain!CeilingKept
    <2> QED
      BY <1>2, <2>1, <2>2, <2>3, <2>4, <2>5, <2>6 DEF Chain!Next
  <1>3. ASSUME Chain!SoundInv, UNCHANGED Chain!vars PROVE Chain!SoundInv'
    BY <1>3 DEF Chain!vars, Chain!TypeOK, Chain!StoresAgree, Chain!FadeAgrees, Chain!FormAgrees, Chain!FadeKept,
                Chain!CeilingKept, Chain!FadeIsExact, Chain!FadeEnds, Chain!ComputeGain, Chain!Curve
  <1> QED
    BY <1>1, <1>2, <1>3

(* However the blocks, the settings and the fades interleave with the      *)
(* audio thread, the limiter's first channel keeps to the ceiling wherever  *)
(* its gain is not on the way up, a fade that was set between two blocks    *)
(* follows its curve frame by frame and then ends (dsp_chain.cpp,           *)
(* limiter.cpp, fader.cpp); and a ramp of the equalizer that is let run     *)
(* moves by even steps (equalizer.cpp). A gain that is released, further    *)
(* channels, a fade set during a block, a ramp started again and            *)
(* publish_settings() are not covered.                                      *)
THEOREM SoundIsSmooth == Spec => []SoundHolds
  <1> DEFINE Inv == /\ machine = "Chain" => Chain!SoundInv
                    /\ machine = "Equalizer" => Equalizer!RampInv
  <1>1. Init => Inv
    BY ApplicationInit, ChainInductive, RampInductive
  <1>2. Inv /\ [Next]_vars => Inv'
    BY ApplicationSteps, ChainInductive, RampInductive
  <1>3. Inv => SoundHolds
    BY DEF SoundHolds, Chain!SoundInv, Equalizer!RampInv
  <1> QED
    BY <1>1, <1>2, <1>3, PTL DEF Spec

-----------------------------------------------------------------------------
(* The servers of the instances                                            *)

(* The invariant of the servers is inductive, for any number of instances. *)
LEMMA ServersInductive ==
    /\ Ipc!Init => Ipc!ServersInv
    /\ Ipc!ServersInv /\ [Ipc!Next]_(Ipc!vars) => Ipc!ServersInv'
  <1> USE DEF Ipc!ServersInv
  <1>1. Ipc!Init => Ipc!ServersInv
    <2> SUFFICES ASSUME Ipc!Init PROVE Ipc!ServersInv
      OBVIOUS
    <2>1. <<>> \in Seq(1..MaxMessages)
      OBVIOUS
    <2>2. pending \in [Programs -> Seq(1..MaxMessages)] /\ taken \in Seq(1..MaxMessages)
      BY <2>1 DEF Ipc!Init
    <2>3. Ipc!TypeOK
      BY <2>2 DEF Ipc!Init, Ipc!TypeOK, Ipc!Places
    <2> QED
      BY <2>3 DEF Ipc!Init, Ipc!StopReaches, Ipc!Listening, Ipc!Alone, Ipc!IdsApart
  <1>2. ASSUME Ipc!ServersInv, Ipc!Next PROVE Ipc!ServersInv'
    <2>0. Ipc!TypeOK /\ Ipc!StopReaches /\ Ipc!Listening /\ Ipc!Alone /\ Ipc!IdsApart
      BY <1>2
    <2> USE DEF Ipc!At, Ipc!Stops, Ipc!Wire, Ipc!HasSocket
    <2>1. ASSUME NEW p \in Programs, Ipc!Run(p) PROVE Ipc!ServersInv'
      <3> USE DEF Ipc!Run
      <3>1. Ipc!TypeOK'
        BY <2>0, <2>1 DEF Ipc!TypeOK, Ipc!Places
      <3>2. Ipc!StopReaches'
        BY <2>0, <2>1 DEF Ipc!TypeOK, Ipc!StopReaches
      <3>3. Ipc!Listening'
        BY <2>0, <2>1 DEF Ipc!TypeOK, Ipc!Listening
      <3>4. Ipc!Alone'
        BY <2>0, <2>1, IpcAssumption DEF Ipc!TypeOK, Ipc!Alone
      <3>5. Ipc!IdsApart'
        BY <2>0, <2>1 DEF Ipc!TypeOK, Ipc!IdsApart
      <3> QED
        BY <3>1, <3>2, <3>3, <3>4, <3>5
    <2>2. ASSUME NEW p \in Programs, Ipc!UnlinkStale(p) PROVE Ipc!ServersInv'
      <3> USE DEF Ipc!UnlinkStale
      <3>1. Ipc!TypeOK'
        BY <2>0, <2>2 DEF Ipc!TypeOK, Ipc!Places
      <3>2. Ipc!StopReaches'
        BY <2>0, <2>2 DEF Ipc!TypeOK, Ipc!StopReaches
      <3>3. Ipc!Listening'
        BY <2>0, <2>2 DEF Ipc!TypeOK, Ipc!Listening
      <3>4. Ipc!Alone'
        BY <2>0, <2>2, IpcAssumption DEF Ipc!TypeOK, Ipc!Alone
      <3>5. Ipc!IdsApart'
        BY <2>0, <2>2 DEF Ipc!TypeOK, Ipc!IdsApart
      <3> QED
        BY <3>1, <3>2, <3>3, <3>4, <3>5
    <2>3. ASSUME NEW p \in Programs, Ipc!Open(p) PROVE Ipc!ServersInv'
      <3> USE DEF Ipc!Open
      <3>1. Ipc!TypeOK'
        BY <2>0, <2>3 DEF Ipc!TypeOK, Ipc!Places
      <3>2. Ipc!StopReaches'
        BY <2>0, <2>3 DEF Ipc!TypeOK, Ipc!StopReaches
      <3>3. Ipc!Listening'
        BY <2>0, <2>3 DEF Ipc!TypeOK, Ipc!Listening
      <3>4. Ipc!Alone'
        BY <2>0, <2>3, IpcAssumption DEF Ipc!TypeOK, Ipc!Alone
      <3>5. Ipc!IdsApart'
        BY <2>0, <2>3 DEF Ipc!TypeOK, Ipc!IdsApart
      <3> QED
        BY <3>1, <3>2, <3>3, <3>4, <3>5
    <2>4. ASSUME NEW p \in Programs, Ipc!Bind(p) PROVE Ipc!ServersInv'
      <3> USE DEF Ipc!Bind
      <3>1. Ipc!TypeOK'
        BY <2>0, <2>4 DEF Ipc!TypeOK, Ipc!Places
      <3>2. Ipc!StopReaches'
        BY <2>0, <2>4 DEF Ipc!TypeOK, Ipc!StopReaches
      <3>3. Ipc!Listening'
        BY <2>0, <2>4 DEF Ipc!TypeOK, Ipc!Listening
      <3>4. Ipc!Alone'
        BY <2>0, <2>4, IpcAssumption, ZenonT(30) DEF Ipc!TypeOK, Ipc!Alone
      <3>5. Ipc!IdsApart'
        BY <2>0, <2>4 DEF Ipc!TypeOK, Ipc!IdsApart
      <3> QED
        BY <3>1, <3>2, <3>3, <3>4, <3>5
    <2>5. ASSUME NEW p \in Programs, Ipc!Listen(p) PROVE Ipc!ServersInv'
      <3> USE DEF Ipc!Listen
      <3>1. Ipc!TypeOK'
        BY <2>0, <2>5 DEF Ipc!TypeOK, Ipc!Places
      <3>2. Ipc!StopReaches'
        BY <2>0, <2>5 DEF Ipc!TypeOK, Ipc!StopReaches
      <3>3. Ipc!Listening'
        BY <2>0, <2>5 DEF Ipc!TypeOK, Ipc!Listening
      <3>4. Ipc!Alone'
        BY <2>0, <2>5, IpcAssumption DEF Ipc!TypeOK, Ipc!Alone
      <3>5. Ipc!IdsApart'
        BY <2>0, <2>5 DEF Ipc!TypeOK, Ipc!IdsApart
      <3> QED
        BY <3>1, <3>2, <3>3, <3>4, <3>5
    <2>6. ASSUME NEW p \in Programs, Ipc!Looks(p) PROVE Ipc!ServersInv'
      <3> USE DEF Ipc!Looks
      <3>1. Ipc!TypeOK'
        BY <2>0, <2>6 DEF Ipc!TypeOK, Ipc!Places
      <3>2. Ipc!StopReaches'
        BY <2>0, <2>6 DEF Ipc!TypeOK, Ipc!StopReaches
      <3>3. Ipc!Listening'
        BY <2>0, <2>6 DEF Ipc!TypeOK, Ipc!Listening
      <3>4. Ipc!Alone'
        BY <2>0, <2>6, IpcAssumption DEF Ipc!TypeOK, Ipc!Alone
      <3>5. Ipc!IdsApart'
        BY <2>0, <2>6 DEF Ipc!TypeOK, Ipc!IdsApart
      <3> QED
        BY <3>1, <3>2, <3>3, <3>4, <3>5
    <2>7. ASSUME NEW p \in Programs, Ipc!AcceptFails(p) PROVE Ipc!ServersInv'
      <3> USE DEF Ipc!AcceptFails
      <3>1. Ipc!TypeOK'
        BY <2>0, <2>7 DEF Ipc!TypeOK, Ipc!Places
      <3>2. Ipc!StopReaches'
        BY <2>0, <2>7 DEF Ipc!TypeOK, Ipc!StopReaches
      <3>3. Ipc!Listening'
        BY <2>0, <2>7 DEF Ipc!TypeOK, Ipc!Listening
      <3>4. Ipc!Alone'
        BY <2>0, <2>7, IpcAssumption DEF Ipc!TypeOK, Ipc!Alone
      <3>5. Ipc!IdsApart'
        BY <2>0, <2>7 DEF Ipc!TypeOK, Ipc!IdsApart
      <3> QED
        BY <3>1, <3>2, <3>3, <3>4, <3>5
    <2>8. ASSUME NEW p \in Programs, Ipc!Close(p) PROVE Ipc!ServersInv'
      <3> USE DEF Ipc!Close, Ipc!Closed
      <3>0. <<>> \in Seq(1..MaxMessages) /\ DOMAIN <<>> = {}
        OBVIOUS
      <3>1. Ipc!TypeOK'
        BY <2>0, <2>8, <3>0 DEF Ipc!TypeOK, Ipc!Places
      <3>2. Ipc!StopReaches'
        BY <2>0, <2>8 DEF Ipc!TypeOK, Ipc!StopReaches
      <3>3. Ipc!Listening'
        BY <2>0, <2>8 DEF Ipc!TypeOK, Ipc!Listening
      <3>4. Ipc!Alone'
        BY <2>0, <2>8, IpcAssumption DEF Ipc!TypeOK, Ipc!Alone
      <3>5. Ipc!IdsApart'
        BY <2>0, <2>8, <3>0 DEF Ipc!TypeOK, Ipc!IdsApart
      <3> QED
        BY <3>1, <3>2, <3>3, <3>4, <3>5
    <2>9. ASSUME NEW p \in Programs, Ipc!Forget(p) PROVE Ipc!ServersInv'
      <3> USE DEF Ipc!Forget
      <3>1. Ipc!TypeOK'
        BY <2>0, <2>9 DEF Ipc!TypeOK, Ipc!Places
      <3>2. Ipc!StopReaches'
        BY <2>0, <2>9 DEF Ipc!TypeOK, Ipc!StopReaches
      <3>3. Ipc!Listening'
        BY <2>0, <2>9 DEF Ipc!TypeOK, Ipc!Listening
      <3>4. Ipc!Alone'
        BY <2>0, <2>9, IpcAssumption DEF Ipc!TypeOK, Ipc!Alone
      <3>5. Ipc!IdsApart'
        BY <2>0, <2>9 DEF Ipc!TypeOK, Ipc!IdsApart
      <3> QED
        BY <3>1, <3>2, <3>3, <3>4, <3>5
    <2>10. ASSUME NEW p \in Programs, Ipc!UnlinkOwn(p) PROVE Ipc!ServersInv'
      <3> USE DEF Ipc!UnlinkOwn
      <3>1. Ipc!TypeOK'
        BY <2>0, <2>10 DEF Ipc!TypeOK, Ipc!Places
      <3>2. Ipc!StopReaches'
        BY <2>0, <2>10 DEF Ipc!TypeOK, Ipc!StopReaches
      <3>3. Ipc!Listening'
        BY <2>0, <2>10 DEF Ipc!TypeOK, Ipc!Listening
      <3>4. Ipc!Alone'
        BY <2>0, <2>10, IpcAssumption DEF Ipc!TypeOK, Ipc!Alone
      <3>5. Ipc!IdsApart'
        BY <2>0, <2>10 DEF Ipc!TypeOK, Ipc!IdsApart
      <3> QED
        BY <3>1, <3>2, <3>3, <3>4, <3>5
    <2>11. ASSUME NEW p \in Programs, Ipc!Crash(p) PROVE Ipc!ServersInv'
      <3> USE DEF Ipc!Crash, Ipc!Closed
      <3>0. <<>> \in Seq(1..MaxMessages) /\ DOMAIN <<>> = {}
        OBVIOUS
      <3>1. Ipc!TypeOK'
        BY <2>0, <2>11, <3>0 DEF Ipc!TypeOK, Ipc!Places
      <3>2. Ipc!StopReaches'
        BY <2>0, <2>11 DEF Ipc!TypeOK, Ipc!StopReaches
      <3>3. Ipc!Listening'
        BY <2>0, <2>11 DEF Ipc!TypeOK, Ipc!Listening
      <3>4. Ipc!Alone'
        BY <2>0, <2>11, IpcAssumption DEF Ipc!TypeOK, Ipc!Alone
      <3>5. Ipc!IdsApart'
        BY <2>0, <2>11, <3>0 DEF Ipc!TypeOK, Ipc!IdsApart
      <3> QED
        BY <3>1, <3>2, <3>3, <3>4, <3>5
    <2>12. ASSUME NEW p \in Programs, Ipc!StopStores(p) PROVE Ipc!ServersInv'
      <3> USE DEF Ipc!StopStores
      <3>1. Ipc!TypeOK'
        BY <2>0, <2>12 DEF Ipc!TypeOK, Ipc!Places
      <3>2. Ipc!StopReaches'
        BY <2>0, <2>12 DEF Ipc!TypeOK, Ipc!StopReaches
      <3>3. Ipc!Listening'
        BY <2>0, <2>12 DEF Ipc!TypeOK, Ipc!Listening
      <3>4. Ipc!Alone'
        BY <2>0, <2>12, IpcAssumption DEF Ipc!TypeOK, Ipc!Alone
      <3>5. Ipc!IdsApart'
        BY <2>0, <2>12 DEF Ipc!TypeOK, Ipc!IdsApart
      <3> QED
        BY <3>1, <3>2, <3>3, <3>4, <3>5
    <2>13. ASSUME NEW p \in Programs, Ipc!StopLoads(p) PROVE Ipc!ServersInv'
      <3> USE DEF Ipc!StopLoads
      <3>1. Ipc!TypeOK'
        BY <2>0, <2>13 DEF Ipc!TypeOK, Ipc!Places
      <3>2. Ipc!StopReaches'
        BY <2>0, <2>13 DEF Ipc!TypeOK, Ipc!StopReaches
      <3>3. Ipc!Listening'
        BY <2>0, <2>13 DEF Ipc!TypeOK, Ipc!Listening
      <3>4. Ipc!Alone'
        BY <2>0, <2>13, IpcAssumption DEF Ipc!TypeOK, Ipc!Alone
      <3>5. Ipc!IdsApart'
        BY <2>0, <2>13 DEF Ipc!TypeOK, Ipc!IdsApart
      <3> QED
        BY <3>1, <3>2, <3>3, <3>4, <3>5
    <2>14. ASSUME NEW p \in Programs, Ipc!StopShuts(p) PROVE Ipc!ServersInv'
      <3> USE DEF Ipc!StopShuts
      <3>1. Ipc!TypeOK'
        BY <2>0, <2>14 DEF Ipc!TypeOK, Ipc!Places
      <3>2. Ipc!StopReaches'
        BY <2>0, <2>14 DEF Ipc!TypeOK, Ipc!StopReaches
      <3>3. Ipc!Listening'
        BY <2>0, <2>14 DEF Ipc!TypeOK, Ipc!Listening
      <3>4. Ipc!Alone'
        BY <2>0, <2>14, IpcAssumption DEF Ipc!TypeOK, Ipc!Alone
      <3>5. Ipc!IdsApart'
        BY <2>0, <2>14 DEF Ipc!TypeOK, Ipc!IdsApart
      <3> QED
        BY <3>1, <3>2, <3>3, <3>4, <3>5
    <2>15. ASSUME NEW p \in Programs, NEW whole \in BOOLEAN, Ipc!Accept(p, whole) PROVE Ipc!ServersInv'
      <3> DEFINE u == pending[p]
                 m == Len(u)
                 t == Len(taken)
      <3>1. /\ pc[p] = "accept" /\ pc' = [pc EXCEPT ![p] = "loop"] /\ u # <<>>
            /\ taken' = IF whole THEN Append(taken, Head(u)) ELSE taken
            /\ pending' = [pending EXCEPT ![p] = Tail(u)]
            /\ running' = running /\ stopping' = stopping /\ path' = path /\ listens' = listens
            /\ shut' = shut /\ crossed' = crossed
        BY <2>15 DEF Ipc!Accept
      <3>2. /\ u \in Seq(1..MaxMessages) /\ taken \in Seq(1..MaxMessages) /\ m \in Nat /\ t \in Nat
            /\ DOMAIN u = 1..m /\ DOMAIN taken = 1..t
        BY <2>0 DEF Ipc!TypeOK
      <3>3. /\ m > 0 /\ Head(u) = u[1] /\ u[1] \in 1..MaxMessages
            /\ Tail(u) \in Seq(1..MaxMessages) /\ DOMAIN Tail(u) = 1..m - 1
            /\ \A i \in 1..m - 1 : Tail(u)[i] = u[i + 1]
        <4>1. u # <<>> /\ u \in Seq(1..MaxMessages) /\ m \in Nat /\ m = Len(u)
          BY <3>1, <3>2
        <4> HIDE DEF u, m
        <4>2. m > 0
          BY <4>1
        <4> DEFINE k == m - 1
        <4>3. k \in Nat /\ Len(u) = k + 1
          BY <4>1, <4>2
        <4> HIDE DEF k
        <4>4. /\ Head(u) = u[1] /\ u[1] \in 1..MaxMessages
              /\ Tail(u) \in Seq(1..MaxMessages) /\ DOMAIN Tail(u) = 1..k
              /\ \A i \in 1..k : Tail(u)[i] = u[i + 1]
          <5>1. Head(u) = u[1] /\ u[1] \in 1..MaxMessages
            <6>1. \A s \in Seq(1..MaxMessages) : s # <<>> => Head(s) = s[1]
              OBVIOUS
            <6> DEFINE Ids == 1..MaxMessages
            <6>2. u \in Seq(Ids)
              BY <4>1
            <6> HIDE DEF Ids
            <6>3. u[1] \in Ids
              BY <4>1, <6>2
            <6> QED
              BY <4>1, <6>1, <6>3 DEF Ids
          <5>2. Tail(u) \in Seq(1..MaxMessages)
            BY <4>1, <4>3
          <5>3. DOMAIN Tail(u) = 1..k
            BY <4>1, <4>3
          <5>4. \A i \in 1..k : Tail(u)[i] = u[i + 1]
            BY <4>1, <4>3
          <5> QED
            BY <5>1, <5>2, <5>3, <5>4
        <4> QED
          BY <4>2, <4>4 DEF k
      <3>4. /\ taken' \in Seq(1..MaxMessages)
            /\ whole => /\ DOMAIN taken' = 1..t + 1 /\ taken'[t + 1] = u[1]
                        /\ \A i \in 1..t : taken'[i] = taken[i]
            /\ ~whole => taken' = taken
        <4> DEFINE x == u[1]
        <4>1. /\ x \in 1..MaxMessages /\ taken \in Seq(1..MaxMessages) /\ t \in Nat /\ t = Len(taken)
              /\ taken' = IF whole THEN Append(taken, x) ELSE taken
          BY <3>1, <3>2, <3>3
        <4> HIDE DEF x, t
        <4>2. CASE whole
          BY <4>1, <4>2 DEF x
        <4>3. CASE ~whole
          BY <4>1, <4>3
        <4> QED
          BY <4>2, <4>3
      <3>5. /\ DOMAIN pending'[p] = 1..m - 1 /\ \A i \in 1..m - 1 : pending'[p][i] = u[i + 1]
            /\ \A q \in Programs \ {p} : pending'[q] = pending[q]
            /\ pending' \in [Programs -> Seq(1..MaxMessages)]
        <4> DEFINE rest == Tail(u)
        <4>1. pending' = [pending EXCEPT ![p] = rest] /\ rest \in Seq(1..MaxMessages)
          BY <3>1, <3>3
        <4> HIDE DEF rest
        <4>2. /\ pending'[p] = rest /\ \A q \in Programs \ {p} : pending'[q] = pending[q]
              /\ pending' \in [Programs -> Seq(1..MaxMessages)]
          BY <2>0, <4>1 DEF Ipc!TypeOK
        <4> QED
          BY <3>3, <4>2 DEF rest
      <3>6. Ipc!TypeOK'
        BY <2>0, <3>1, <3>4, <3>5 DEF Ipc!TypeOK, Ipc!Places
      <3>7. Ipc!StopReaches' /\ Ipc!Listening' /\ Ipc!Alone'
        BY <2>0, <3>1 DEF Ipc!TypeOK, Ipc!StopReaches, Ipc!Listening, Ipc!Alone
      <3>8. Ipc!IdsApart'
        <4> HIDE DEF u, m, t
        <4>1. /\ \A i, j \in 1..m : u[i] = u[j] => i = j
              /\ \A i \in 1..m : \A j \in 1..t : u[i] # taken[j]
              /\ \A i \in 1..m : \A q \in Programs \ {p} : \A j \in DOMAIN pending[q] : u[i] # pending[q][j]
              /\ \A i, j \in 1..t : taken[i] = taken[j] => i = j
          BY <2>0, <3>2 DEF Ipc!IdsApart, u
        <4>2. \A i, j \in DOMAIN taken' : taken'[i] = taken'[j] => i = j
          BY <3>2, <3>3, <3>4, <4>1
        <4>3. ASSUME NEW q \in Programs, NEW i \in DOMAIN pending'[q]
              PROVE  /\ \A j \in DOMAIN pending'[q] : pending'[q][i] = pending'[q][j] => i = j
                     /\ \A j \in DOMAIN taken' : pending'[q][i] # taken'[j]
                     /\ \A r \in Programs \ {q} : \A j \in DOMAIN pending'[r] : pending'[q][i] # pending'[r][j]
          <5>1. CASE q = p
            <6>1. i \in 1..m - 1 /\ i + 1 \in 1..m /\ i + 1 # 1 /\ pending'[q][i] = u[i + 1]
              BY <3>2, <3>5, <4>3, <5>1
            <6>2. 1 \in 1..m /\ u[i + 1] # u[1]
              BY <3>2, <3>3, <4>1, <6>1
            <6>3. \A j \in DOMAIN pending'[q] : pending'[q][i] = pending'[q][j] => i = j
              BY <3>2, <3>5, <4>1, <5>1, <6>1
            <6>4. \A j \in DOMAIN taken' : pending'[q][i] # taken'[j]
              BY <3>2, <3>4, <4>1, <6>1, <6>2
            <6> QED
              BY <3>5, <4>1, <5>1, <6>1, <6>3, <6>4
          <5>2. CASE q # p
            <6>1. pending'[q] = pending[q]
              BY <3>5, <5>2
            <6>2. /\ \A j \in DOMAIN pending[q] : pending[q][i] = pending[q][j] => i = j
                  /\ \A j \in 1..t : pending[q][i] # taken[j]
                  /\ \A r \in Programs \ {q} : \A j \in DOMAIN pending[r] : pending[q][i] # pending[r][j]
              BY <2>0, <3>2, <4>3, <6>1 DEF Ipc!IdsApart
            <6>3. \A j \in 1..m : pending[q][i] # u[j]
              BY <4>1, <4>3, <5>2, <6>1
            <6>4. \A j \in DOMAIN taken' : pending'[q][i] # taken'[j]
              BY <3>2, <3>3, <3>4, <6>1, <6>2, <6>3
            <6>5. ASSUME NEW r \in Programs \ {q}, NEW j \in DOMAIN pending'[r] PROVE pending'[q][i] # pending'[r][j]
              <7>1. CASE r = p
                <8>1. j \in 1..m - 1 /\ j + 1 \in 1..m /\ pending'[r][j] = u[j + 1]
                  BY <3>2, <3>5, <6>5, <7>1
                <8> QED
                  BY <6>1, <6>3, <8>1
              <7>2. CASE r # p
                BY <3>5, <6>1, <6>2, <6>5, <7>2
              <7> QED
                BY <7>1, <7>2
            <6> QED
              BY <6>1, <6>2, <6>4, <6>5
          <5> QED
            BY <5>1, <5>2
        <4> QED
          BY <4>2, <4>3 DEF Ipc!IdsApart
      <3> QED
        BY <3>6, <3>7, <3>8
    <2>16. ASSUME NEW id \in 1..MaxMessages, Ipc!TrySend(id) PROVE Ipc!ServersInv'
      <3> DEFINE u == pending[path]
                 m == Len(u)
      <3>1. /\ path \in Programs
            /\ \A p \in Programs : \A i \in DOMAIN pending[p] : pending[p][i] # id
            /\ \A i \in DOMAIN taken : taken[i] # id
            /\ pending' = [pending EXCEPT ![path] = Append(u, id)]
            /\ running' = running /\ pc' = pc /\ stopping' = stopping /\ path' = path /\ listens' = listens
            /\ shut' = shut /\ taken' = taken /\ crossed' = crossed
        BY <2>0, <2>16 DEF Ipc!TrySend, Ipc!TypeOK
      <3>2. /\ u \in Seq(1..MaxMessages) /\ m \in Nat /\ DOMAIN u = 1..m
        BY <2>0, <3>1 DEF Ipc!TypeOK
      <3>3. /\ pending' \in [Programs -> Seq(1..MaxMessages)] /\ DOMAIN pending'[path] = 1..m + 1
            /\ pending'[path][m + 1] = id /\ \A i \in 1..m : pending'[path][i] = u[i]
            /\ \A q \in Programs \ {path} : pending'[q] = pending[q]
        <4> DEFINE longer == Append(u, id)
        <4>1. /\ longer \in Seq(1..MaxMessages) /\ DOMAIN longer = 1..m + 1 /\ longer[m + 1] = id
              /\ \A i \in 1..m : longer[i] = u[i]
          BY <3>2
        <4>2. pending' = [pending EXCEPT ![path] = longer]
          BY <3>1
        <4> HIDE DEF longer
        <4> QED
          BY <2>0, <3>1, <4>1, <4>2 DEF Ipc!TypeOK
      <3>4. Ipc!TypeOK' /\ Ipc!StopReaches' /\ Ipc!Listening' /\ Ipc!Alone'
        BY <2>0, <3>1, <3>3 DEF Ipc!TypeOK, Ipc!Places, Ipc!StopReaches, Ipc!Listening, Ipc!Alone
      <3>5. Ipc!IdsApart'
        <4> HIDE DEF u, m
        <4>1. ASSUME NEW q \in Programs, NEW i \in DOMAIN pending'[q]
              PROVE  (i \in DOMAIN pending[q] /\ pending'[q][i] = pending[q][i])
                        \/ (q = path /\ i = m + 1 /\ pending'[q][i] = id)
          BY <3>1, <3>2, <3>3, <4>1 DEF u
        <4>2. \A i, j \in DOMAIN taken' : taken'[i] = taken'[j] => i = j
          BY <2>0, <3>1 DEF Ipc!IdsApart
        <4>3. ASSUME NEW q \in Programs, NEW i \in DOMAIN pending'[q]
              PROVE  /\ \A j \in DOMAIN pending'[q] : pending'[q][i] = pending'[q][j] => i = j
                     /\ \A j \in DOMAIN taken' : pending'[q][i] # taken'[j]
                     /\ \A r \in Programs \ {q} : \A j \in DOMAIN pending'[r] : pending'[q][i] # pending'[r][j]
          BY <2>0, <3>1, <4>1, <4>3 DEF Ipc!IdsApart
        <4> QED
          BY <4>2, <4>3 DEF Ipc!IdsApart
      <3> QED
        BY <3>4, <3>5
    <2> QED
      BY <1>2, <2>1, <2>2, <2>3, <2>4, <2>5, <2>6, <2>7, <2>8, <2>9, <2>10, <2>11, <2>12, <2>13, <2>14, <2>15, <2>16 DEF Ipc!Next
  <1>3. ASSUME Ipc!ServersInv, UNCHANGED Ipc!vars PROVE Ipc!ServersInv'
    BY <1>3 DEF Ipc!vars, Ipc!TypeOK, Ipc!StopReaches, Ipc!Listening, Ipc!Alone, Ipc!IdsApart
  <1> QED
    BY <1>1, <1>2, <1>3

-----------------------------------------------------------------------------
(* The chain of themes                                                     *)

(* What merging keeps of the child, and takes from the base.               *)
LEMMA MergeKeeps ==
    ASSUME NEW child \in Painted!Theme, NEW base \in Painted!Theme
    PROVE  LET m == Painted!Merge(child, base)
           IN  /\ m \in Painted!Theme /\ m.id = child.id /\ m.extends = child.extends
               /\ DOMAIN m.fields = DOMAIN child.fields \cup (DOMAIN base.fields \cap InheritedFields)
               /\ \A p \in DOMAIN child.fields : m.fields[p] = child.fields[p]
  <1> DEFINE Values == UNION {{t.fields[p] : p \in DOMAIN t.fields} : t \in Painted!Given}
             Names == UNION {DOMAIN t.fields : t \in Painted!Given}
             all == DOMAIN child.fields \cup (DOMAIN base.fields \cap InheritedFields)
             fields == [p \in all |-> IF p \in DOMAIN child.fields THEN child.fields[p] ELSE base.fields[p]]
             m == Painted!Merge(child, base)
  <1>1. \A t \in Painted!Theme : t.fields \in UNION {[names -> Values] : names \in SUBSET Names}
    BY DEF Painted!Theme, Painted!Fields
  <1> HIDE DEF Values, Names
  <1>2. PICK kept \in SUBSET Names : child.fields \in [kept -> Values]
    BY <1>1
  <1>3. PICK more \in SUBSET Names : base.fields \in [more -> Values]
    BY <1>1
  <1>4. fields \in [all -> Values] /\ all \in SUBSET Names
    BY <1>2, <1>3
  <1>5. fields \in Painted!Fields
    <2> HIDE DEF all, fields
    <2>1. fields \in UNION {[names -> Values] : names \in SUBSET Names}
      BY <1>4
    <2> QED
      BY <2>1 DEF Painted!Fields, Values, Names
  <1>6. m = [child EXCEPT !.fields = fields]
    BY DEF Painted!Merge
  <1>7. DOMAIN fields = all /\ \A p \in DOMAIN child.fields : fields[p] = child.fields[p]
    OBVIOUS
  <1> HIDE DEF m, fields, all
  <1>8. m \in Painted!Theme /\ m.id = child.id /\ m.extends = child.extends /\ m.fields = fields
    BY <1>5, <1>6 DEF Painted!Theme
  <1> QED
    BY <1>7, <1>8 DEF m, all

(* At most one theme of a shelf is the first of its id.                    *)
LEMMA NamedIs ==
    ASSUME NEW shelf \in Seq(Painted!Theme \cup {None}), NEW id
    PROVE  /\ Painted!Named(id, shelf) \subseteq Painted!Theme
           /\ \A t \in Painted!Named(id, shelf) : t.id = id
           /\ \A t, u \in Painted!Named(id, shelf) : t = u
  <1> DEFINE here == {i \in DOMAIN shelf : shelf[i] # None /\ shelf[i].id = id}
             first == {j \in here : \A k \in here : j <= k}
  <1>1. Painted!Named(id, shelf) = {shelf[i] : i \in first}
    BY DEF Painted!Named
  <1>2. DOMAIN shelf \subseteq Nat /\ \A i \in DOMAIN shelf : shelf[i] \in Painted!Theme \cup {None}
    OBVIOUS
  <1>3. \A i, j \in first : i = j
    BY <1>2
  <1>4. \A i \in first : shelf[i] \in Painted!Theme /\ shelf[i].id = id
    BY <1>2
  <1> HIDE DEF first
  <1> QED
    BY <1>1, <1>3, <1>4

(* The ways from a leaf on: each theme is the one that the one before it   *)
(* extends.                                                                *)
Ways(leaf, shelf) ==
    {way \in Seq(Painted!Theme) :
        /\ Len(way) > 0 /\ way[1] = leaf
        /\ \A i \in 1..Len(way) : i > 1 => way[i] \in Painted!Named(way[i - 1].extends, shelf)
        /\ leaf.extends = None => Len(way) = 1}

LEMMA WalkIsAWay ==
    ASSUME NEW shelf \in Seq(Painted!Theme \cup {None}), NEW leaf \in Painted!Theme
    PROVE  Painted!Walk(leaf, shelf) \in Ways(leaf, shelf)
  <1> DEFINE N == Len(shelf)
             X == Ways(leaf, shelf)
             next(w) == IF Painted!Onward(w, shelf) = {} THEN w
                        ELSE Append(w, CHOOSE t \in Painted!Onward(w, shelf) : TRUE)
             onward == [n \in 1..N |-> [w \in X |-> next(w)]]
             way == CHOOSE way : way = [n \in 0..Len(shelf) |->
                        IF n = 0 THEN <<leaf>>
                        ELSE IF Painted!Onward(way[n - 1], shelf) = {} THEN way[n - 1]
                        ELSE Append(way[n - 1], CHOOSE t \in Painted!Onward(way[n - 1], shelf) : TRUE)]
  <1>0. N \in Nat /\ N = Len(shelf)
    OBVIOUS
  <1>1. <<leaf>> \in X
    BY DEF Ways
  <1>2. ASSUME NEW w \in X PROVE next(w) \in X
    <2>1. CASE Painted!Onward(w, shelf) = {}
      BY <2>1
    <2>2. CASE Painted!Onward(w, shelf) # {}
      <3> DEFINE t == CHOOSE t \in Painted!Onward(w, shelf) : TRUE
                 n == Len(w)
      <3>1. t \in Painted!Onward(w, shelf) /\ next(w) = Append(w, t)
        BY <2>2
      <3> HIDE DEF t, next
      <3>2. t \in Painted!Named(w[n].extends, shelf) /\ w[n].extends # None
        BY <3>1 DEF Painted!Onward
      <3>3. /\ w \in Seq(Painted!Theme) /\ n \in Nat /\ n > 0 /\ w[1] = leaf
            /\ \A i \in 1..n : i > 1 => w[i] \in Painted!Named(w[i - 1].extends, shelf)
            /\ leaf.extends = None => n = 1
        BY DEF Ways
      <3>4. t \in Painted!Theme
        BY <3>2, NamedIs
      <3>5. /\ next(w) \in Seq(Painted!Theme) /\ Len(next(w)) = n + 1 /\ next(w)[n + 1] = t
            /\ \A i \in 1..n : next(w)[i] = w[i]
        BY <3>1, <3>3, <3>4
      <3>6. leaf.extends # None
        BY <3>2, <3>3
      <3> HIDE DEF n
      <3>7. \A i \in 1..n + 1 : i > 1 => next(w)[i] \in Painted!Named(next(w)[i - 1].extends, shelf)
        <4> TAKE i \in 1..n + 1
        <4> HAVE i > 1
        <4>1. i - 1 \in 1..n /\ next(w)[i - 1] = w[i - 1]
          BY <3>3, <3>5
        <4>2. CASE i = n + 1
          BY <3>2, <3>3, <3>5, <4>1, <4>2
        <4>3. CASE i # n + 1
          <5>1. i \in 1..n /\ next(w)[i] = w[i]
            BY <3>3, <3>5, <4>3
          <5> QED
            BY <3>3, <4>1, <5>1
        <4> QED
          BY <4>2, <4>3
      <3>8. next(w)[1] = leaf /\ n + 1 > 0
        <4>1. 1 \in 1..n
          BY <3>3
        <4>2. next(w)[1] = w[1]
          BY <3>5, <4>1
        <4> QED
          BY <3>3, <4>2
      <3> QED
        BY <3>5, <3>6, <3>7, <3>8 DEF Ways
    <2> QED
      BY <2>1, <2>2
  <1> HIDE DEF X
  <1>3. PICK f : Iteration(f, X, <<leaf>>, N, onward)
    <2>1. onward \in Steps(X, N)
      BY <1>2 DEF Steps
    <2> HIDE DEF onward, N
    <2> QED
      BY <1>0, <1>1, <2>1, Iterates
  <1>4. f = [n \in 0..Len(shelf) |->
                IF n = 0 THEN <<leaf>>
                ELSE IF Painted!Onward(f[n - 1], shelf) = {} THEN f[n - 1]
                ELSE Append(f[n - 1], CHOOSE t \in Painted!Onward(f[n - 1], shelf) : TRUE)]
    <2>1. ASSUME NEW n \in 0..N PROVE f[n] = IF n = 0 THEN <<leaf>> ELSE next(f[n - 1])
      <3>1. f \in [0..N -> X] /\ f[n] = IF n = 0 THEN <<leaf>> ELSE onward[n][f[n - 1]]
        BY <1>3 DEF Iteration
      <3>2. n # 0 => n \in 1..N /\ f[n - 1] \in X
        BY <1>0, <3>1
      <3> HIDE DEF next, N
      <3> QED
        BY <3>1, <3>2
    <2>2. f \in [0..N -> X]
      BY <1>3 DEF Iteration
    <2> QED
      BY <2>1, <2>2
  <1>5. way = [n \in 0..Len(shelf) |->
                IF n = 0 THEN <<leaf>>
                ELSE IF Painted!Onward(way[n - 1], shelf) = {} THEN way[n - 1]
                ELSE Append(way[n - 1], CHOOSE t \in Painted!Onward(way[n - 1], shelf) : TRUE)]
    <2> HIDE DEF X, N, next, onward
    <2> QED
      BY <1>4, Zenon
  <1>6. Painted!Walk(leaf, shelf) = way[N]
    BY DEF Painted!Walk
  <1> HIDE DEF way
  <1>7. way[0] \in X /\ \A n \in 1..N : way[n - 1] \in X => way[n] \in X
    <2>1. 0 \in 0..N /\ \A n \in 1..N : n \in 0..N /\ n # 0
      BY <1>0
    <2>2. way[0] = <<leaf>> /\ \A n \in 1..N : way[n] = next(way[n - 1])
      BY <1>5, <2>1
    <2> HIDE DEF next
    <2> QED
      BY <1>1, <1>2, <2>2
  <1>8. \A n \in 0..N : way[n] \in X
    <2> HIDE DEF N
    <2> QED
      BY <1>0, <1>7, Stays
  <1> QED
    BY <1>0, <1>6, <1>8 DEF X

(* Folding a way gives its leaf what the others have, and what it has      *)
(* itself stays.                                                           *)
LEMMA FoldUpOf ==
    ASSUME NEW shelf \in Seq(Painted!Theme \cup {None}), NEW leaf \in Painted!Theme, NEW way \in Ways(leaf, shelf)
    PROVE  LET r == Painted!FoldUp(way, shelf)
           IN  /\ r \in Painted!Theme
               /\ \A i \in 1..Len(way) : i > 1 => DOMAIN way[i].fields \cap InheritedFields \subseteq DOMAIN r.fields
               /\ leaf \in Painted!Named(leaf.id, shelf) =>
                    \A p \in DOMAIN leaf.fields : p \in DOMAIN r.fields /\ r.fields[p] = leaf.fields[p]
  <1> DEFINE N == Len(way)
             named(n) == Painted!Named(way[N + 1 - n].id, shelf)
             next(n, t) == IF named(n) = {} THEN t ELSE Painted!Merge(CHOOSE u \in named(n) : TRUE, t)
             onward == [n \in 1..N |-> [t \in Painted!Theme |-> next(n, t)]]
             folded == CHOOSE folded : folded = [n \in 0..Len(way) |->
                        IF n = 0 THEN way[Len(way)]
                        ELSE LET named2 == Painted!Named(way[Len(way) + 1 - n].id, shelf)
                             IN IF named2 = {} THEN folded[n - 1]
                                ELSE Painted!Merge(CHOOSE t \in named2 : TRUE, folded[n - 1])]
  <1>0. /\ way \in Seq(Painted!Theme) /\ N \in Nat /\ N = Len(way) /\ N > 0 /\ way[1] = leaf
        /\ \A i \in 1..N : way[i] \in Painted!Theme
        /\ \A i \in 1..N : i > 1 => way[i] \in Painted!Named(way[i - 1].extends, shelf)
    BY DEF Ways
  <1>1. ASSUME NEW n \in 1..N, NEW t \in Painted!Theme
        PROVE  /\ next(n, t) \in Painted!Theme
               /\ DOMAIN t.fields \cap InheritedFields \subseteq DOMAIN next(n, t).fields
               /\ \A u \in named(n) : /\ DOMAIN u.fields \subseteq DOMAIN next(n, t).fields
                                      /\ \A p \in DOMAIN u.fields : next(n, t).fields[p] = u.fields[p]
    <2>1. CASE named(n) = {}
      BY <2>1
    <2>2. CASE named(n) # {}
      <3> DEFINE u == CHOOSE u \in named(n) : TRUE
      <3>1. u \in named(n) /\ next(n, t) = Painted!Merge(u, t)
        BY <2>2
      <3> HIDE DEF u, next
      <3>2. u \in Painted!Theme /\ \A v \in named(n) : v = u
        BY <3>1, NamedIs
      <3> HIDE DEF named
      <3>3. /\ next(n, t) \in Painted!Theme
            /\ DOMAIN next(n, t).fields = DOMAIN u.fields \cup (DOMAIN t.fields \cap InheritedFields)
            /\ \A p \in DOMAIN u.fields : next(n, t).fields[p] = u.fields[p]
        BY <3>1, <3>2, MergeKeeps
      <3> QED
        BY <3>2, <3>3
    <2> QED
      BY <2>1, <2>2
  <1> DEFINE last == way[N]
  <1>2. last \in Painted!Theme
    BY <1>0
  <1>3. PICK f : Iteration(f, Painted!Theme, last, N, onward)
    <2>1. onward \in Steps(Painted!Theme, N)
      BY <1>1 DEF Steps
    <2> HIDE DEF onward, N, last
    <2> QED
      BY <1>0, <1>2, <2>1, Iterates
  <1>4. f = [n \in 0..Len(way) |->
                IF n = 0 THEN way[Len(way)]
                ELSE LET named2 == Painted!Named(way[Len(way) + 1 - n].id, shelf)
                     IN IF named2 = {} THEN f[n - 1] ELSE Painted!Merge(CHOOSE t \in named2 : TRUE, f[n - 1])]
    <2>1. ASSUME NEW n \in 0..N PROVE f[n] = IF n = 0 THEN last ELSE next(n, f[n - 1])
      <3>1. f \in [0..N -> Painted!Theme] /\ f[n] = IF n = 0 THEN last ELSE onward[n][f[n - 1]]
        BY <1>3 DEF Iteration
      <3>2. n # 0 => n \in 1..N /\ f[n - 1] \in Painted!Theme
        <4>1. N \in Nat
          BY <1>0
        <4> HIDE DEF N
        <4> QED
          BY <3>1, <4>1
      <3> HIDE DEF next, N, last
      <3> QED
        BY <3>1, <3>2
    <2>2. f \in [0..N -> Painted!Theme]
      BY <1>3 DEF Iteration
    <2> QED
      BY <2>1, <2>2
  <1>5. folded = [n \in 0..Len(way) |->
                IF n = 0 THEN way[Len(way)]
                ELSE LET named2 == Painted!Named(way[Len(way) + 1 - n].id, shelf)
                     IN IF named2 = {} THEN folded[n - 1] ELSE Painted!Merge(CHOOSE t \in named2 : TRUE, folded[n - 1])]
    <2> HIDE DEF N, next, onward, named, last
    <2> QED
      BY <1>4, Zenon
  <1>6. Painted!FoldUp(way, shelf) = folded[N]
    BY DEF Painted!FoldUp
  <1> HIDE DEF folded
  <1>7. folded[0] = last /\ \A n \in 1..N : folded[n] = next(n, folded[n - 1])
    <2>1. 0 \in 0..N /\ \A n \in 1..N : n \in 0..N /\ n # 0
      BY <1>0
    <2> QED
      BY <1>5, <2>1
  <1> HIDE DEF next, N, last, onward
  <1>8. \A n \in 0..N : folded[n] \in Painted!Theme
    <2>1. folded[0] \in Painted!Theme /\ \A n \in 1..N : folded[n - 1] \in Painted!Theme => folded[n] \in Painted!Theme
      BY <1>1, <1>2, <1>7
    <2> QED
      BY <1>0, <2>1, Stays
  <1>9. ASSUME NEW i \in 1..N, i > 1
        PROVE  DOMAIN way[i].fields \cap InheritedFields \subseteq DOMAIN folded[N].fields
    <2> DEFINE Has(n) == DOMAIN way[i].fields \cap InheritedFields \subseteq DOMAIN folded[n].fields
               S == {n \in Nat : n <= N /\ n >= N + 1 - i => Has(n)}
    <2>1. 0 \in S
      BY <1>0
    <2>2. ASSUME NEW n \in S PROVE n + 1 \in S
      <3> HIDE DEF Has
      <3> SUFFICES ASSUME n + 1 <= N, n + 1 >= N + 1 - i PROVE Has(n + 1)
        OBVIOUS
      <3>1. /\ n + 1 \in 1..N /\ n \in 0..N /\ (n + 1) - 1 = n /\ n \in Nat
        BY <1>0
      <3>2. folded[n] \in Painted!Theme /\ folded[n + 1] = next(n + 1, folded[n])
        BY <1>7, <1>8, <3>1
      <3>3. CASE n + 1 = N + 1 - i
        <4>1. N + 1 - (n + 1) = i /\ i - 1 \in 1..N
          <5>1. N \in Nat /\ i \in Nat /\ n \in Nat /\ 1 < i /\ i <= N
            BY <1>0, <1>9, <3>1
          <5> QED
            BY <3>3, <5>1
        <4>2. way[i] \in Painted!Named(way[i - 1].extends, shelf)
          BY <1>0, <1>9
        <4>3. way[i].id = way[i - 1].extends
          BY <4>2, NamedIs
        <4>4. way[i] \in named(n + 1)
          BY <4>1, <4>2, <4>3
        <4> QED
          BY <1>1, <3>1, <3>2, <4>4 DEF Has
      <3>4. CASE n + 1 # N + 1 - i
        <4>1. n >= N + 1 - i /\ n <= N
          BY <1>0, <3>1, <3>4
        <4>2. Has(n)
          BY <4>1
        <4> QED
          BY <1>1, <3>1, <3>2, <4>2 DEF Has
      <3> QED
        BY <3>3, <3>4
    <2>3. S = Nat
      <3> HIDE DEF S
      <3>1. S \in SUBSET Nat
        BY DEF S
      <3> QED
        BY <2>1, <2>2, <3>1, Induct
    <2>4. N \in S
      <3> HIDE DEF S
      <3> QED
        BY <1>0, <2>3
    <2>5. N >= N + 1 - i
      BY <1>0, <1>9
    <2> QED
      BY <1>0, <2>4, <2>5
  <1>10. ASSUME leaf \in Painted!Named(leaf.id, shelf)
         PROVE  \A p \in DOMAIN leaf.fields : p \in DOMAIN folded[N].fields /\ folded[N].fields[p] = leaf.fields[p]
    <2>1. N \in 1..N /\ N - 1 \in 0..N /\ N + 1 - N = 1
      BY <1>0
    <2>2. leaf \in named(N)
      BY <1>0, <1>10, <2>1
    <2>3. folded[N - 1] \in Painted!Theme /\ folded[N] = next(N, folded[N - 1])
      BY <1>7, <1>8, <2>1
    <2> HIDE DEF named
    <2> QED
      BY <1>1, <2>1, <2>2, <2>3
  <1>11. folded[N] \in Painted!Theme
    BY <1>0, <1>8
  <1> QED
    BY <1>6, <1>9, <1>10, <1>11 DEF N

(* What a theme is resolved to.                                            *)
LEMMA ResolveOf ==
    ASSUME NEW shelf \in Seq(Painted!Theme \cup {None}), NEW leaf \in Painted!Theme
    PROVE  LET r == Painted!ResolveExtends(leaf, shelf)
               way == Painted!Walk(leaf, shelf)
               known == leaf.extends = None \/ leaf \in Painted!Named(leaf.id, shelf)
           IN  /\ r \in Painted!Theme
               /\ known \/ ~Painted!ReachesBase(way) =>
                    \A p \in DOMAIN leaf.fields : p \in DOMAIN r.fields /\ r.fields[p] = leaf.fields[p]
               /\ Painted!ReachesBase(way) =>
                    \A i \in 2..Len(way) : DOMAIN way[i].fields \cap InheritedFields \subseteq DOMAIN r.fields
               /\ ~Painted!ReachesBase(way) => r = leaf
  <1> DEFINE way == Painted!Walk(leaf, shelf)
             r == Painted!ResolveExtends(leaf, shelf)
  <1>1. way \in Ways(leaf, shelf)
    BY WalkIsAWay
  <1>2. /\ way \in Seq(Painted!Theme) /\ Len(way) \in Nat /\ way[1] = leaf
        /\ leaf.extends = None => Len(way) = 1
    BY <1>1 DEF Ways
  <1>3. r = IF leaf.extends = None \/ ~Painted!ReachesBase(way) THEN leaf ELSE Painted!FoldUp(way, shelf)
    BY DEF Painted!ResolveExtends
  <1> HIDE DEF way, r
  <1>4. CASE leaf.extends = None \/ ~Painted!ReachesBase(way)
    <2>1. r = leaf
      BY <1>3, <1>4
    <2>2. Painted!ReachesBase(way) => \A i \in 2..Len(way) : FALSE
      <3> DEFINE l == Len(way)
      <3>1. l \in Nat /\ (leaf.extends = None => l = 1)
        BY <1>2
      <3> HIDE DEF l
      <3>2. leaf.extends = None => \A i \in 2..l : FALSE
        BY <3>1
      <3> QED
        BY <1>4, <3>2 DEF l
    <2> QED
      BY <2>1, <2>2 DEF way, r
  <1>5. CASE ~(leaf.extends = None \/ ~Painted!ReachesBase(way))
    <2>1. r = Painted!FoldUp(way, shelf)
      BY <1>3, <1>5
    <2>2. /\ r \in Painted!Theme
          /\ \A i \in 1..Len(way) : i > 1 => DOMAIN way[i].fields \cap InheritedFields \subseteq DOMAIN r.fields
          /\ leaf \in Painted!Named(leaf.id, shelf) =>
               \A p \in DOMAIN leaf.fields : p \in DOMAIN r.fields /\ r.fields[p] = leaf.fields[p]
      BY <1>1, <2>1, FoldUpOf
    <2>3. \A i \in 2..Len(way) : i \in 1..Len(way) /\ i > 1
      BY <1>2
    <2> QED
      BY <1>5, <2>2, <2>3 DEF way, r
  <1> QED
    BY <1>4, <1>5

(* What is given as a theme is one.                                        *)
LEMMA GivenAreThemes ==
    /\ UserThemes \subseteq Painted!Theme \cup {None}
    /\ \A o \in Overrides : o.theme \in Painted!Theme \cup {None}
    /\ \A d \in Disks : \A i \in DOMAIN Builtins : d[Builtins[i]] \in Painted!Theme \cup {None}
  BY ThemeAssumption DEF Painted!Given

(* The overrides fill in, and change nothing that is set.                  *)
LEMMA FilledOf ==
    ASSUME NEW shelf \in Seq(Painted!Theme \cup {None}), NEW r \in Painted!Theme, NEW over \in Seq(Overrides)
    PROVE  LET all == Painted!Filled(r, over, shelf)
           IN  /\ all \in Painted!Theme /\ DOMAIN r.fields \subseteq DOMAIN all.fields
               /\ \A p \in DOMAIN r.fields : all.fields[p] = r.fields[p]
               /\ over = <<>> => all = r
  <1> DEFINE N == Len(over)
             X == {t \in Painted!Theme : /\ DOMAIN r.fields \subseteq DOMAIN t.fields
                                        /\ \A p \in DOMAIN r.fields : t.fields[p] = r.fields[p]}
             next(n, t) == IF over[n].theme = None THEN t
                           ELSE Painted!Merge(t, Painted!ResolveExtends(over[n].theme, shelf))
             onward == [n \in 1..N |-> [t \in X |-> next(n, t)]]
             filled == CHOOSE filled : filled = [n \in 0..Len(over) |->
                        IF n = 0 THEN r
                        ELSE IF over[n].theme = None THEN filled[n - 1]
                        ELSE Painted!Merge(filled[n - 1], Painted!ResolveExtends(over[n].theme, shelf))]
  <1>0. N \in Nat /\ N = Len(over) /\ \A n \in 1..N : over[n] \in Overrides
    OBVIOUS
  <1>1. r \in X
    OBVIOUS
  <1>2. ASSUME NEW n \in 1..N, NEW t \in X PROVE next(n, t) \in X
    <2>1. CASE over[n].theme = None
      BY <2>1
    <2>2. CASE over[n].theme # None
      <3> DEFINE u == Painted!ResolveExtends(over[n].theme, shelf)
      <3>1. over[n].theme \in Painted!Theme
        BY <1>0, <2>2, GivenAreThemes
      <3>2. u \in Painted!Theme
        BY <3>1, ResolveOf
      <3>3. next(n, t) = Painted!Merge(t, u) /\ t \in Painted!Theme
        BY <2>2
      <3> HIDE DEF u, next
      <3>4. /\ next(n, t) \in Painted!Theme /\ DOMAIN t.fields \subseteq DOMAIN next(n, t).fields
            /\ \A p \in DOMAIN t.fields : next(n, t).fields[p] = t.fields[p]
        BY <3>2, <3>3, MergeKeeps
      <3> QED
        BY <3>4
    <2> QED
      BY <2>1, <2>2
  <1> HIDE DEF X
  <1>3. PICK f : Iteration(f, X, r, N, onward)
    <2>1. onward \in Steps(X, N)
      BY <1>2 DEF Steps
    <2> HIDE DEF onward, N
    <2> QED
      BY <1>0, <1>1, <2>1, Iterates
  <1>4. f = [n \in 0..Len(over) |->
                IF n = 0 THEN r
                ELSE IF over[n].theme = None THEN f[n - 1]
                ELSE Painted!Merge(f[n - 1], Painted!ResolveExtends(over[n].theme, shelf))]
    <2>1. ASSUME NEW n \in 0..N PROVE f[n] = IF n = 0 THEN r ELSE next(n, f[n - 1])
      <3>1. f \in [0..N -> X] /\ f[n] = IF n = 0 THEN r ELSE onward[n][f[n - 1]]
        BY <1>3 DEF Iteration
      <3>2. n # 0 => n \in 1..N /\ f[n - 1] \in X
        BY <1>0, <3>1
      <3> HIDE DEF next, N
      <3> QED
        BY <3>1, <3>2
    <2>2. f \in [0..N -> X]
      BY <1>3 DEF Iteration
    <2> QED
      BY <2>1, <2>2
  <1>5. filled = [n \in 0..Len(over) |->
                IF n = 0 THEN r
                ELSE IF over[n].theme = None THEN filled[n - 1]
                ELSE Painted!Merge(filled[n - 1], Painted!ResolveExtends(over[n].theme, shelf))]
    <2> HIDE DEF N, next, onward
    <2> QED
      BY <1>4, Zenon
  <1>6. Painted!Filled(r, over, shelf) = filled[N]
    BY DEF Painted!Filled
  <1> HIDE DEF filled
  <1>7. filled[0] = r /\ \A n \in 1..N : filled[n] = next(n, filled[n - 1])
    <2>1. 0 \in 0..N /\ \A n \in 1..N : n \in 0..N /\ n # 0
      BY <1>0
    <2> QED
      BY <1>5, <2>1
  <1>8. \A n \in 0..N : filled[n] \in X
    <2> HIDE DEF next, N, onward
    <2>1. filled[0] \in X /\ \A n \in 1..N : filled[n - 1] \in X => filled[n] \in X
      BY <1>1, <1>2, <1>7
    <2> QED
      BY <1>0, <2>1, Stays
  <1>9. over = <<>> => N = 0
    OBVIOUS
  <1> HIDE DEF next, N, onward
  <1>10. filled[N] \in X
    BY <1>0, <1>8
  <1> QED
    BY <1>6, <1>7, <1>9, <1>10 DEF X

(* What the theme that is resolved to keeps of the active one, and has of  *)
(* the themes that it extends.                                             *)
LEMMA ResolvedOf ==
    ASSUME NEW all \in Seq(Painted!Theme), all # <<>>, NEW dark, NEW own \in Painted!Theme \cup {None},
           NEW over \in Seq(Overrides)
    PROVE  Painted!Inherits(all, dark, own, over)
  <1> DEFINE active == Painted!Active(all, dark, own)
             shelf == Painted!Shelf(all, over)
             r == Painted!ResolveExtends(active, shelf)
             theme == Painted!Resolved(all, dark, own, over)
             way == Painted!Walk(active, shelf)
  <1>1. active \in Painted!Theme
    <2> DEFINE byMode == {i \in DOMAIN all : all[i].id = dark}
    <2>1. CASE own # None
      BY <2>1 DEF Painted!Active
    <2>2. CASE own = None /\ byMode = {}
      <3>1. active = all[1]
        BY <2>2 DEF Painted!Active
      <3> HIDE DEF active
      <3> QED
        BY <3>1
    <2>3. CASE own = None /\ byMode # {}
      <3> DEFINE place == CHOOSE i \in byMode : \A j \in byMode : i <= j
      <3>1. byMode \in SUBSET Nat
        OBVIOUS
      <3>2. active = all[place]
        BY <2>3 DEF Painted!Active
      <3>3. place \in byMode
        <4> HIDE DEF byMode
        <4>1. \E i \in byMode : \A j \in byMode : i <= j
          BY <2>3, <3>1, SmallestOf
        <4> QED
          BY <4>1
      <3> HIDE DEF active, place
      <3> QED
        BY <3>2, <3>3
    <2> QED
      BY <2>1, <2>2, <2>3
  <1>2. shelf \in Seq(Painted!Theme \cup {None})
    <2> DEFINE themes == [i \in DOMAIN over |-> over[i].theme]
               n == Len(over)
    <2>1. n \in Nat /\ DOMAIN over = 1..n /\ \A i \in 1..n : over[i] \in Overrides
      OBVIOUS
    <2> HIDE DEF n
    <2>2. themes \in [1..n -> Painted!Theme \cup {None}]
      BY <2>1, GivenAreThemes
    <2> HIDE DEF themes
    <2>3. themes \in Seq(Painted!Theme \cup {None}) /\ all \in Seq(Painted!Theme \cup {None})
      BY <2>1, <2>2
    <2>4. shelf = all \o themes
      BY DEF Painted!Shelf, themes
    <2> HIDE DEF shelf
    <2> QED
      BY <2>3, <2>4
  <1>3. theme = Painted!Filled(r, over, shelf)
    BY DEF Painted!Resolved
  <1> HIDE DEF active, shelf, r, theme, way
  <1>4. /\ r \in Painted!Theme
        /\ (active.extends = None \/ active \in Painted!Named(active.id, shelf)) \/ ~Painted!ReachesBase(way) =>
             \A p \in DOMAIN active.fields : p \in DOMAIN r.fields /\ r.fields[p] = active.fields[p]
        /\ Painted!ReachesBase(way) =>
             \A i \in 2..Len(way) : DOMAIN way[i].fields \cap InheritedFields \subseteq DOMAIN r.fields
        /\ ~Painted!ReachesBase(way) => r = active
    BY <1>1, <1>2, ResolveOf DEF r, way
  <1>5. /\ DOMAIN r.fields \subseteq DOMAIN theme.fields
        /\ \A p \in DOMAIN r.fields : theme.fields[p] = r.fields[p]
        /\ over = <<>> => theme = r
    BY <1>2, <1>3, <1>4, FilledOf
  <1>6. over = <<>> /\ ((active.extends = None \/ active \in Painted!Named(active.id, shelf)) \/ ~Painted!ReachesBase(way)) =>
            \A p \in DOMAIN active.fields : theme.fields[p] = active.fields[p]
    BY <1>4, <1>5
  <1>7. Painted!ReachesBase(way) =>
            \A i \in 2..Len(way) : DOMAIN way[i].fields \cap InheritedFields \subseteq DOMAIN theme.fields
    BY <1>4, <1>5
  <1>8. ~Painted!ReachesBase(way) /\ over = <<>> => theme = active
    BY <1>4, <1>5
  <1> QED
    BY <1>6, <1>7, <1>8 DEF Painted!Inherits, active, shelf, theme, way

(* How many of the built-in themes load.                                   *)
LEMMA LoadableIs ==
    ASSUME Painted!TypeOK
    PROVE  /\ Painted!Loadable \in 0..Len(Builtins)
           /\ [i \in 1..Painted!Loadable |-> disk[Builtins[i]]] \in Seq(Painted!Theme)
  <1> DEFINE N == Len(Builtins)
             n == Painted!Loadable
             Stops == {k \in 0..N : k < N => disk[Builtins[k + 1]] = None}
  <1>0. N \in Nat /\ DOMAIN Builtins = 1..N
    BY ThemeAssumption
  <1> HIDE DEF N
  <1>1. N \in Stops /\ Stops \in SUBSET Nat
    BY <1>0
  <1>2. n \in 0..N /\ \A i \in 1..n : disk[Builtins[i]] # None
    <2>1. CASE ~dirSet \/ validator # "compiled"
      <3>1. n = 0
        BY <2>1 DEF Painted!Loadable
      <3> QED
        BY <1>0, <3>1
    <2>2. CASE ~(~dirSet \/ validator # "compiled")
      <3>1. n = CHOOSE k \in 0..N : /\ \A i \in 1..k : disk[Builtins[i]] # None
                                    /\ k < N => disk[Builtins[k + 1]] = None
        BY <2>2 DEF Painted!Loadable, N
      <3>2. PICK k \in Stops : \A m \in Stops : k <= m
        <4> HIDE DEF Stops
        <4> QED
          BY <1>1, SmallestOf
      <3>3. k \in 0..N /\ (k < N => disk[Builtins[k + 1]] = None)
        OBVIOUS
      <3>4. \A i \in 1..k : disk[Builtins[i]] # None
        <4> TAKE i \in 1..k
        <4>1. i - 1 \in 0..N /\ i - 1 < N /\ i - 1 < k /\ (i - 1) + 1 = i
          BY <1>0, <3>3
        <4>2. i - 1 \notin Stops
          BY <3>2, <3>3, <4>1
        <4> QED
          BY <4>1, <4>2
      <3> HIDE DEF n
      <3> QED
        BY <3>1, <3>3, <3>4
    <2> QED
      BY <2>1, <2>2
  <1> HIDE DEF n
  <1>3. \A i \in 1..n : disk[Builtins[i]] \in Painted!Theme
    BY <1>0, <1>2, GivenAreThemes DEF Painted!TypeOK
  <1>4. [i \in 1..n |-> disk[Builtins[i]]] \in Seq(Painted!Theme)
    BY <1>2, <1>3
  <1> QED
    BY <1>2, <1>4 DEF n, N

(* The invariant of the builder is inductive.                              *)
LEMMA ThemeInductive ==
    /\ Painted!Init => Painted!ThemeInv
    /\ Painted!ThemeInv /\ [Painted!Next]_(Painted!vars) => Painted!ThemeInv'
  <1> USE DEF Painted!ThemeInv
  <1>1. Painted!Init => Painted!ThemeInv
    <2> SUFFICES ASSUME Painted!Init PROVE Painted!ThemeInv
      OBVIOUS
    <2>1. overrides \in Seq(Overrides) /\ builtins \in Seq(Painted!Theme)
      BY DEF Painted!Init
    <2>2. dirSet \in BOOLEAN /\ loaded \in BOOLEAN /\ ~loaded
      BY DEF Painted!Init
    <2>3. cache.theme = None
      BY DEF Painted!Init, Painted!NoCache
    <2>4. disk \in Disks /\ user \in UserThemes \cup {None}
      BY DEF Painted!Init
    <2> QED
      BY <2>1, <2>2, <2>3, <2>4 DEF Painted!TypeOK, Painted!CacheHolds
  <1>2. ASSUME Painted!ThemeInv, Painted!Next PROVE Painted!ThemeInv'
    <2>0. /\ disk \in Disks /\ user \in UserThemes \cup {None} /\ overrides \in Seq(Overrides)
          /\ builtins \in Seq(Painted!Theme) /\ dirSet \in BOOLEAN /\ loaded \in BOOLEAN
          /\ loaded => builtins # <<>>
      BY <1>2 DEF Painted!TypeOK
    <2>1. ASSUME Painted!DropCache, Painted!TypeOK' PROVE Painted!ThemeInv'
      BY <2>1 DEF Painted!DropCache, Painted!NoCache, Painted!CacheHolds
    <2>2. CASE (\E works \in BOOLEAN : Painted!InitValidator(works)) \/ (\E d \in Disks : Painted!DiskChanges(d))
      <3>1. /\ disk' \in Disks /\ user' = user /\ overrides' = overrides /\ builtins' = builtins /\ dirSet' = dirSet
            /\ loaded' = loaded /\ mode' = mode /\ cache' = cache
        BY <2>0, <2>2 DEF Painted!InitValidator, Painted!DiskChanges
      <3> QED
        BY <1>2, <2>0, <3>1 DEF Painted!TypeOK, Painted!CacheHolds, Painted!Inputs
    <2>3. CASE Painted!SetBuiltinDir
      <3>1. builtins' \in Seq(Painted!Theme) /\ loaded' \in BOOLEAN /\ ~loaded' /\ dirSet' \in BOOLEAN
        <4>1. builtins' = <<>>
          BY <2>3 DEF Painted!SetBuiltinDir
        <4>2. <<>> \in Seq(Painted!Theme)
          OBVIOUS
        <4>3. loaded' = FALSE
          BY <2>3 DEF Painted!SetBuiltinDir
        <4>4. dirSet' = TRUE
          BY <2>3 DEF Painted!SetBuiltinDir
        <4>5. loaded' \in BOOLEAN /\ ~loaded'
          BY <4>3
        <4>6. dirSet' \in BOOLEAN
          BY <4>4
        <4> QED
          BY <4>1, <4>2, <4>5, <4>6
      <3> QED
        BY <2>0, <2>1, <2>3, <3>1 DEF Painted!SetBuiltinDir, Painted!Kept, Painted!TypeOK
    <2>4. ASSUME NEW t \in UserThemes, Painted!SetUserTheme(t) PROVE Painted!ThemeInv'
      BY <2>0, <2>1, <2>4 DEF Painted!SetUserTheme, Painted!Kept, Painted!TypeOK
    <2>5. ASSUME NEW m \in Modes, Painted!SetDefaultMode(m) PROVE Painted!ThemeInv'
      BY <2>0, <2>1, <2>5 DEF Painted!SetDefaultMode, Painted!Kept, Painted!TypeOK
    <2>6. ASSUME NEW o \in Overrides, Painted!UpsertOverride(o) PROVE Painted!ThemeInv'
      <3> DEFINE place == CHOOSE i \in Painted!At(o.handle) : TRUE
      <3>1. overrides' \in Seq(Overrides)
        <4>1. CASE Painted!At(o.handle) = {}
          <5>1. overrides' = Append(overrides, o)
            BY <2>6, <4>1 DEF Painted!UpsertOverride
          <5> QED
            BY <2>0, <5>1
        <4>2. CASE Painted!At(o.handle) # {}
          <5>1. place \in DOMAIN overrides
            BY <4>2 DEF Painted!At
          <5>2. overrides' = [overrides EXCEPT ![place] = o]
            BY <2>6, <4>2 DEF Painted!UpsertOverride
          <5> HIDE DEF place
          <5> QED
            BY <2>0, <5>1, <5>2
        <4> QED
          BY <4>1, <4>2
      <3> QED
        BY <2>0, <2>1, <2>6, <3>1 DEF Painted!UpsertOverride, Painted!Kept, Painted!TypeOK
    <2>9. ASSUME NEW o \in Overrides, Painted!UpsertFirst(o) PROVE Painted!ThemeInv'
      <3>1. /\ user' = None /\ overrides' = <<>> /\ builtins' = <<>> /\ disk' = disk
            /\ dirSet' = FALSE /\ loaded' = FALSE /\ Painted!DropCache
        BY <2>9 DEF Painted!UpsertFirst, Painted!Dies
      <3>2. <<>> \in Seq(Overrides) /\ <<>> \in Seq(Painted!Theme)
        OBVIOUS
      <3>3. dirSet' \in BOOLEAN /\ loaded' \in BOOLEAN /\ ~loaded'
        BY <3>1
      <3> QED
        BY <2>0, <2>1, <3>1, <3>2, <3>3, Zenon DEF Painted!TypeOK
    <2>7. ASSUME NEW o \in Overrides, Painted!RemoveOverride(o.handle) PROVE Painted!ThemeInv'
      <3> DEFINE place == CHOOSE i \in Painted!At(o.handle) : TRUE
                 n == Len(overrides)
      <3>1. place \in DOMAIN overrides
        BY <2>7 DEF Painted!RemoveOverride, Painted!At
      <3>2. overrides' = SubSeq(overrides, 1, place - 1) \o SubSeq(overrides, place + 1, Len(overrides))
        BY <2>7 DEF Painted!RemoveOverride, Painted!RemoveAt
      <3> HIDE DEF place
      <3>3. n \in Nat /\ place \in 1..n /\ place \in Nat
        BY <2>0, <3>1
      <3>4. SubSeq(overrides, 1, place - 1) \in Seq(Overrides) /\ SubSeq(overrides, place + 1, n) \in Seq(Overrides)
        BY <2>0, <3>3
      <3>5. overrides' \in Seq(Overrides)
        BY <3>2, <3>4
      <3> QED
        BY <2>0, <2>1, <2>7, <3>5 DEF Painted!RemoveOverride, Painted!Kept, Painted!TypeOK
    <2>8. ASSUME NEW again \in BOOLEAN, Painted!Build(again) PROVE Painted!ThemeInv'
      <3>1. /\ cache' = [theme |-> IF loaded' THEN Painted!Resolved(builtins', mode, user, overrides) ELSE Painted!Empty,
                         print |-> Painted!Inputs]
            /\ dirSet' = dirSet /\ mode' = mode /\ user' = user /\ overrides' = overrides /\ disk' = disk
            /\ Painted!EnsureBuiltinsLoaded
        BY <2>8 DEF Painted!Build, Painted!Kept
      <3>2. builtins' \in Seq(Painted!Theme) /\ loaded' \in BOOLEAN /\ (loaded' => builtins' # <<>>)
        <4>1. CASE loaded
          BY <2>0, <3>1, <4>1 DEF Painted!EnsureBuiltinsLoaded
        <4>2. CASE ~loaded
          <5> DEFINE n == Painted!Loadable
                     more == [i \in 1..n |-> disk[Builtins[i]]]
                     N == Len(Builtins)
          <5>1. n \in 0..N /\ more \in Seq(Painted!Theme)
            BY <1>2, LoadableIs
          <5>2. builtins' = builtins \o more /\ loaded' = (n = N)
            BY <3>1, <4>2 DEF Painted!EnsureBuiltinsLoaded
          <5>3. N \in Nat /\ N # 0
            BY ThemeAssumption
          <5>4. n # 0 => more # <<>>
            <6> SUFFICES ASSUME n # 0 PROVE more # <<>>
              OBVIOUS
            <6> HIDE DEF n, N
            <6>1. 1 \in DOMAIN more
              BY <5>1, <5>3
            <6> QED
              BY <6>1
          <5> HIDE DEF n, more, N
          <5>5. builtins' \in Seq(Painted!Theme)
            BY <2>0, <5>1, <5>2
          <5>6. more # <<>> => builtins' # <<>>
            BY <2>0, <5>1, <5>2
          <5>7. loaded' \in BOOLEAN /\ (loaded' => n = N)
            BY <5>2
          <5> QED
            BY <5>3, <5>4, <5>5, <5>6, <5>7
        <4> QED
          BY <2>0, <4>1, <4>2
      <3>3. Painted!TypeOK'
        BY <2>0, <3>1, <3>2 DEF Painted!TypeOK
      <3>4. cache'.print = Painted!Inputs' /\ (loaded' => cache'.theme = Painted!Resolved(builtins', mode', user', overrides'))
        BY <3>1 DEF Painted!Inputs
      <3>5. Painted!CacheHolds'
        BY <3>4 DEF Painted!CacheHolds
      <3> QED
        BY <3>3, <3>5
    <2> QED
      BY <1>2, <2>2, <2>3, <2>4, <2>5, <2>6, <2>7, <2>8, <2>9 DEF Painted!Next
  <1>3. ASSUME Painted!ThemeInv, UNCHANGED Painted!vars PROVE Painted!ThemeInv'
    BY <1>3 DEF Painted!vars, Painted!TypeOK, Painted!CacheHolds, Painted!Inputs
  <1> QED
    BY <1>1, <1>2, <1>3

(* What the invariant says of the theme that the application is painted    *)
(* with.                                                                   *)
LEMMA ThemeResolves == Painted!ThemeInv => Painted!ThemeResolved
  <1> SUFFICES ASSUME Painted!ThemeInv, loaded PROVE Painted!Inherits(builtins, mode, user, overrides)
    BY DEF Painted!ThemeInv, Painted!ThemeResolved
  <1>1. /\ builtins \in Seq(Painted!Theme) /\ builtins # <<>> /\ user \in UserThemes \cup {None}
        /\ overrides \in Seq(Overrides)
    BY DEF Painted!ThemeInv, Painted!TypeOK
  <1>2. user \in Painted!Theme \cup {None}
    BY <1>1, GivenAreThemes
  <1> QED
    BY <1>1, <1>2, ResolvedOf

(* The application tears down what it has started and no more, whichever   *)
(* step fails (lifecycle.cpp); a server that is told to stop stops, one    *)
(* that has always been alone can be reached, and no message is taken      *)
(* twice (command_line.cpp); and the theme in use is the one that the      *)
(* builder makes of its present inputs, with all that the active theme     *)
(* inherits (theme/chain.cpp).                                             *)
THEOREM ApplicationIsSound == Spec => []ApplicationHolds
  <1> DEFINE Inv == /\ machine = "Lifecycle" => Lifecycle!StartInv
                    /\ machine = "Ipc" => Ipc!ServersInv
                    /\ machine = "Painted" => Painted!ThemeInv
  <1>1. Init => Inv
    BY ApplicationInit, TeardownIsExact, ServersInductive, ThemeInductive
  <1>2. Inv /\ [Next]_vars => Inv'
    BY ApplicationSteps, StartInductive, ServersInductive, ThemeInductive
  <1>3. Inv => ApplicationHolds
    <2>1. Ipc!ServersInv => Ipc!ServersAnswer
      BY DEF Ipc!ServersInv, Ipc!TypeOK, Ipc!StopReaches, Ipc!Listening, Ipc!Alone, Ipc!IdsApart, Ipc!ServersAnswer
    <2> QED
      BY <2>1, TeardownIsExact, ThemeResolves DEF ApplicationHolds
  <1> QED
    BY <1>1, <1>2, <1>3, PTL DEF Spec
===============================================================================
