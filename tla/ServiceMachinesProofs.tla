------------------------ MODULE ServiceMachinesProofs ------------------------
(***************************************************************************)
(* Proofs about the machines of the network's services: the HTTP client    *)
(* for any number of senders, the podcast queue for any feeds and threads, *)
(* and the lookups at MusicBrainz for any period and any threads.          *)
(***************************************************************************)
EXTENDS Machines, WellFoundedInduction, TLAPS

(* A behaviour stays with its machine, and a step of it is one of the      *)
(* machine's or leaves the machine as it is.                               *)
LEMMA ServiceSteps ==
    ASSUME [Next]_vars
    PROVE  /\ machine' = machine
           /\ machine = "Http" => [Http!Next]_(Http!vars)
           /\ machine = "Podcast" => [Podcast!Next]_(Podcast!vars)
           /\ machine = "Brainz" => [Brainz!Next]_(Brainz!vars)
  <1>1. CASE Next
    BY <1>1, ZenonT(30) DEF Next, PodcastStep, CodesStep, SessionStep, ChainStep, LifecycleStep, IpcStep, HttpStep,
                PaintedStep, BrainzStep, PipeStep, EqualizerStep, LibraryStep, Keeping
  <1>2. CASE UNCHANGED vars
    BY <1>2 DEF vars, httpVars, podcastVars, brainzVars, sharedVars, Http!vars, Podcast!vars, Brainz!vars
  <1> QED
    BY <1>1, <1>2

-----------------------------------------------------------------------------
(* The HTTP client                                                         *)

(* Before the transfer: a send that finds the client free is alone until   *)
(* another comes.                                                          *)
LEMMA SendKeeps ==
    ASSUME Http!HttpInv, NEW s \in Senders, NEW q \in Requests, Http!Refuse(s, q) \/ Http!Send(s, q)
    PROVE  Http!HttpInv'
  <1> USE DEF Http!HttpInv, Http!Busy
  <1>0. q # None /\ s # None
    BY HttpAssumption
  <1>1. CASE Http!Refuse(s, q)
    <2> USE <1>1 DEF Http!Refuse
    <2>1. Http!TypeOK'
      BY DEF Http!TypeOK, Http!NoAnswer
    <2>2. Http!TransferInv'
      BY <1>0, HttpAssumption DEF Http!TypeOK, Http!TransferInv, Http!NoAnswer
    <2>3. Http!ClientInv'
      BY DEF Http!TypeOK, Http!ClientInv
    <2>4. Http!RequestsHold'
      BY DEF Http!TypeOK, Http!RequestsHold, Http!NoAnswer
    <2> QED
      BY <2>1, <2>2, <2>3, <2>4
  <1>2. CASE Http!Send(s, q)
    <2> USE <1>2 DEF Http!Send, Http!Go
    <2>1. Http!TypeOK'
      BY DEF Http!TypeOK, Http!NoAnswer
    <2>2. Http!TransferInv'
      BY <1>0, HttpAssumption DEF Http!TypeOK, Http!TransferInv, Http!NoAnswer
    <2>3. Http!ClientInv'
      BY <1>0 DEF Http!TypeOK, Http!ClientInv
    <2>4. Http!RequestsHold'
      BY <1>0 DEF Http!TypeOK, Http!RequestsHold, Http!NoAnswer
    <2> QED
      BY <2>1, <2>2, <2>3, <2>4
  <1> QED
    BY <1>1, <1>2

(* The transfer: what is received is the latest answer's, and a poll tells *)
(* the client of the send whose token was cancelled.                       *)
LEMMA TransferKeeps ==
    ASSUME Http!HttpInv, NEW s \in Senders,
           \/ Http!Arm(s) \/ Http!Cancel(s) \/ Http!HeaderLine(s) \/ Http!Poll(s)
           \/ \E status \in {200, 301} : Http!Answers(s, status)
           \/ at[s] = "performing" /\ \E rc \in Http!ResultCodes(s) : Http!Finish(s, rc)
    PROVE  Http!HttpInv'
  <1> USE DEF Http!HttpInv, Http!Busy
  <1>1. CASE Http!Arm(s)
    <2> USE <1>1 DEF Http!Arm, Http!Go
    <2>1. Http!TypeOK'
      BY DEF Http!TypeOK
    <2>2. Http!TransferInv'
      BY DEF Http!TypeOK, Http!TransferInv
    <2>3. Http!ClientInv' /\ Http!RequestsHold'
      BY DEF Http!TypeOK, Http!ClientInv, Http!RequestsHold
    <2> QED
      BY <2>1, <2>2, <2>3
  <1>2. CASE Http!Cancel(s)
    BY <1>2 DEF Http!Cancel, Http!TypeOK, Http!TransferInv, Http!ClientInv, Http!RequestsHold
  <1>3. ASSUME NEW a \in [hop : Nat, status : {0, 200, 301}, headers : Seq(Nat)], Http!Receive(s, a),
               \A i \in DOMAIN a.headers : a.headers[i] = a.hop,
               a.hop > 0 => request[s].scheme = "https" \/ request[s].insecure
        PROVE  Http!HttpInv'
    <2> USE <1>3 DEF Http!Receive
    <2>1. code[s] = None /\ result[s] = None
      BY DEF Http!TransferInv
    <2>2. Http!TypeOK'
      BY DEF Http!TypeOK
    <2>3. Http!TransferInv'
      BY <2>1, HttpAssumption DEF Http!TypeOK, Http!TransferInv
    <2>4. Http!ClientInv' /\ Http!RequestsHold'
      BY <2>1 DEF Http!TypeOK, Http!ClientInv, Http!RequestsHold
    <2> QED
      BY <2>2, <2>3, <2>4
  <1>4. CASE Http!HeaderLine(s)
    <2> DEFINE a == [answer[s] EXCEPT !.headers = Append(@, answer[s].hop)]
    <2>1. /\ answer[s] \in [hop : Nat, status : {0, 200, 301}, headers : Seq(Nat)]
          /\ answer[s].hop \in Nat /\ answer[s].headers \in Seq(Nat)
      BY DEF Http!TypeOK
    <2>2. /\ a \in [hop : Nat, status : {0, 200, 301}, headers : Seq(Nat)]
          /\ a.hop = answer[s].hop /\ a.headers = Append(answer[s].headers, answer[s].hop)
      <3>1. Append(answer[s].headers, answer[s].hop) \in Seq(Nat)
        BY <2>1
      <3> QED
        BY <2>1, <3>1
    <2>3. \A i \in DOMAIN a.headers : a.headers[i] = a.hop
      BY <2>1, <2>2, SMTT(30) DEF Http!TransferInv
    <2>4. a.hop > 0 => request[s].scheme = "https" \/ request[s].insecure
      BY <2>2 DEF Http!TransferInv
    <2>5. Http!Receive(s, a)
      BY <1>4 DEF Http!HeaderLine
    <2> HIDE DEF a
    <2> QED
      BY <1>3, <2>2, <2>3, <2>4, <2>5
  <1>5. ASSUME NEW status \in {200, 301}, Http!Answers(s, status)
        PROVE  Http!HttpInv'
    <2> DEFINE a == Http!StatusLine(answer[s], status)
    <2>1. answer[s].hop \in Nat
      BY DEF Http!TypeOK
    <2>2. /\ a \in [hop : Nat, status : {0, 200, 301}, headers : Seq(Nat)]
          /\ \A i \in DOMAIN a.headers : a.headers[i] = a.hop
      BY <2>1 DEF Http!StatusLine
    <2>3. request[s].scheme = "https" \/ request[s].insecure
      <3>1. Http!Refusal(request[s]) = None /\ request[s].scheme # "none"
        BY <1>5 DEF Http!Answers, Http!TransferInv
      <3> QED
        BY <3>1, HttpAssumption DEF Http!Refusal
    <2>4. Http!Receive(s, a)
      BY <1>5 DEF Http!Answers
    <2> HIDE DEF a
    <2> QED
      BY <1>3, <2>2, <2>3, <2>4
  <1>6. CASE Http!Poll(s)
    <2> USE <1>6 DEF Http!Poll, Http!Go
    <2>1. result[s] = None
      BY DEF Http!TransferInv
    <2>2. Http!TypeOK'
      BY DEF Http!TypeOK
    <2>3. Http!TransferInv'
      BY <2>1, HttpAssumption DEF Http!TypeOK, Http!TransferInv
    <2>4. Http!ClientInv'
      BY DEF Http!TypeOK, Http!ClientInv
    <2>5. Http!RequestsHold'
      BY <2>1 DEF Http!TypeOK, Http!RequestsHold
    <2> QED
      BY <2>2, <2>3, <2>4, <2>5
  <1>7. ASSUME at[s] = "performing", NEW rc \in Http!ResultCodes(s), Http!Finish(s, rc)
        PROVE  Http!HttpInv'
    <2> USE <1>7 DEF Http!Finish, Http!Go
    <2>1. result[s] = None
      BY DEF Http!TransferInv
    <2>2. /\ rc \in Failures \cup {"Ok", "UrlMalformat", "TooManyRedirects"}
          /\ rc # None /\ rc # "AbortedByCallback"
          /\ rc = "Ok" => answer[s].hop # 0 /\ answer[s].status # 301
      BY HttpAssumption DEF Http!ResultCodes
    <2>3. Http!TypeOK'
      BY <2>2 DEF Http!TypeOK
    <2>4. Http!TransferInv'
      BY <2>1, <2>2 DEF Http!TypeOK, Http!TransferInv
    <2>5. Http!ClientInv'
      BY <2>2 DEF Http!TypeOK, Http!ClientInv
    <2>6. Http!RequestsHold'
      BY <2>1 DEF Http!TypeOK, Http!RequestsHold
    <2> QED
      BY <2>3, <2>4, <2>5, <2>6
  <1> QED
    BY <1>1, <1>2, <1>4, <1>5, <1>6, <1>7

(* After the transfer: an answer is returned only of one that ended well,  *)
(* and of a send that ran alone the flag is still its own.                 *)
LEMMA ReturnKeeps ==
    ASSUME Http!HttpInv, NEW s \in Senders,
           Http!FindForm(s) \/ Http!FreeForm(s) \/ Http!ForgetForm(s) \/ Http!Return(s)
    PROVE  Http!HttpInv'
  <1> USE DEF Http!HttpInv, Http!Busy
  <1>1. CASE Http!FindForm(s)
    <2> USE <1>1 DEF Http!FindForm, Http!Go
    <2>1. Http!TypeOK' /\ Http!TransferInv'
      BY DEF Http!TypeOK, Http!TransferInv
    <2>2. Http!ClientInv' /\ Http!RequestsHold'
      BY DEF Http!TypeOK, Http!ClientInv, Http!RequestsHold
    <2> QED
      BY <2>1, <2>2
  <1>2. CASE Http!FreeForm(s)
    <2> USE <1>2 DEF Http!FreeForm, Http!Go
    <2>1. Http!TypeOK' /\ Http!TransferInv'
      BY DEF Http!TypeOK, Http!TransferInv
    <2>2. Http!ClientInv' /\ Http!RequestsHold'
      BY DEF Http!TypeOK, Http!ClientInv, Http!RequestsHold
    <2> QED
      BY <2>1, <2>2
  <1>3. CASE Http!ForgetForm(s)
    <2> USE <1>3 DEF Http!ForgetForm, Http!Go, Http!Forget
    <2>1. Http!TypeOK' /\ Http!TransferInv'
      BY DEF Http!TypeOK, Http!TransferInv
    <2>2. Http!ClientInv' /\ Http!RequestsHold'
      BY DEF Http!TypeOK, Http!ClientInv, Http!RequestsHold
    <2> QED
      BY <2>1, <2>2
  <1>4. CASE Http!Return(s)
    <2> USE <1>4 DEF Http!Return, Http!Go
    <2>1. Http!TypeOK' /\ Http!TransferInv' /\ Http!ClientInv'
      BY DEF Http!TypeOK, Http!TransferInv, Http!ClientInv
    <2>2. "answer" \in DOMAIN Http!Outcome(s) => Http!Outcome(s).answer = answer[s] /\ code[s] = "Ok"
      BY DEF Http!Outcome
    <2>3. s \notin crossed => (Http!Outcome(s) = [error |-> "Cancelled"] <=> code[s] = "AbortedByCallback")
      <3>1. s \notin crossed => (abortFlag <=> code[s] = "AbortedByCallback")
        BY DEF Http!ClientInv
      <3>2. abortFlag <=> Http!Outcome(s) = [error |-> "Cancelled"]
        <4>1. Http!ErrorOf(code[s]) # "Cancelled"
          BY DEF Http!ErrorOf
        <4>2. [error |-> Http!ErrorOf(code[s])] # [error |-> "Cancelled"]
          BY <4>1
        <4>3. [answer |-> answer[s]] # [error |-> "Cancelled"]
          <5>1. DOMAIN [answer |-> answer[s]] = {"answer"} /\ DOMAIN [error |-> "Cancelled"] = {"error"}
            OBVIOUS
          <5> QED
            BY <5>1
        <4> QED
          BY <4>2, <4>3 DEF Http!Outcome
      <3> QED
        BY <3>1, <3>2
    <2>4. Http!RequestsHold'
      <3>1. result' = [result EXCEPT ![s] = Http!Outcome(s)] /\ DOMAIN result = Senders
        BY DEF Http!TypeOK
      <3>2. form = None \/ \E x \in Senders : x # s /\ at'[x] # "idle"
        BY DEF Http!TypeOK, Http!ClientInv
      <3> HIDE DEF Http!Outcome
      <3> QED
        BY <2>2, <2>3, <3>1, <3>2 DEF Http!TypeOK, Http!TransferInv, Http!RequestsHold
    <2> QED
      BY <2>1, <2>4
  <1> QED
    BY <1>1, <1>2, <1>3, <1>4

(* Every step of the client and of its callers keeps the invariant.        *)
LEMMA HttpInductive ==
    ASSUME Http!HttpInv, [Http!Next]_(Http!vars)
    PROVE  Http!HttpInv'
  <1>1. CASE UNCHANGED Http!vars
    BY <1>1 DEF Http!vars, Http!HttpInv, Http!TypeOK, Http!TransferInv, Http!ClientInv, Http!RequestsHold, Http!Busy
  <1> QED
    BY <1>1, SendKeeps, TransferKeeps, ReturnKeeps DEF Http!Next

-----------------------------------------------------------------------------
(* The podcast queue                                                       *)

(* Every set of natural numbers that is not empty has a smallest element.  *)
LEMMA SmallestOf ==
    ASSUME NEW T \in SUBSET Nat, T # {}
    PROVE  \E n \in T : \A m \in T : n <= m
  <1> DEFINE R == OpToRel(<, Nat)
  <1>1. \A x, y \in Nat : x < y <=> <<x, y>> \in R
    BY DEF OpToRel
  <1>2. \E x \in T : \A y \in T : ~ (<<y, x>> \in R)
    <2>1. IsWellFoundedOn(R, Nat)
      BY NatLessThanWellFounded, ZenonT(30) DEF R
    <2> HIDE DEF R
    <2> QED
      BY <2>1, WFMin, T \subseteq Nat
  <1> HIDE DEF R
  <1>3. PICK x \in T : \A y \in T : ~ (<<y, x>> \in R)
    BY <1>2
  <1>4. \A y \in T : x <= y
    <2>1. \A y \in T : ~(y < x)
      BY <1>1, <1>3, T \subseteq Nat
    <2> QED
      BY <2>1, T \subseteq Nat
  <1> QED
    BY <1>4

(* The first episode with a guid is there if there is one, and the others  *)
(* come after it.                                                          *)
LEMMA FirstAt ==
    ASSUME NEW sub \in Podcast!Subscription, NEW e, Podcast!At(sub, e) # {}
    PROVE  LET k == Podcast!Min(Podcast!At(sub, e))
           IN  /\ k \in DOMAIN sub.episodes /\ sub.episodes[k].id = e
               /\ \A i \in DOMAIN sub.episodes : sub.episodes[i].id = e => k <= i
  <1> DEFINE T == Podcast!At(sub, e)
  <1>1. T \in SUBSET Nat
    BY DEF Podcast!At, Podcast!Subscription
  <1>2. \E n \in T : \A m \in T : n <= m
    BY <1>1, SmallestOf
  <1>3. Podcast!Min(T) \in T /\ \A m \in T : Podcast!Min(T) <= m
    BY <1>2 DEF Podcast!Min
  <1> QED
    BY <1>3 DEF Podcast!At

(* The first episode with a guid is the only one that is marked.           *)
LEMMA MarkedKeeps ==
    ASSUME NEW sub \in Podcast!Subscription, NEW e, Podcast!At(sub, e) # {},
           NEW kept \in Podcast!Marks
    PROVE  /\ Podcast!Marked(sub, e, kept) \in Podcast!Subscription
           /\ Podcast!Marked(sub, e, kept).feed = sub.feed /\ Podcast!Marked(sub, e, kept).etag = sub.etag
           /\ Podcast!Marked(sub, e, kept).tagged = sub.tagged
           /\ DOMAIN Podcast!Marked(sub, e, kept).episodes = DOMAIN sub.episodes
           /\ \A i \in DOMAIN sub.episodes : Podcast!Marked(sub, e, kept).episodes[i].id = sub.episodes[i].id
           /\ Podcast!KeptOf(Podcast!Marked(sub, e, kept), e) = kept
           /\ \A d : d # e => Podcast!KeptOf(Podcast!Marked(sub, e, kept), d) = Podcast!KeptOf(sub, d)
  <1> DEFINE k == Podcast!Min(Podcast!At(sub, e))
             eps == [sub.episodes EXCEPT ![k] = [id |-> e, kept |-> kept]]
             new == Podcast!Marked(sub, e, kept)
  <1>1. /\ k \in DOMAIN sub.episodes /\ sub.episodes[k].id = e
        /\ \A i \in DOMAIN sub.episodes : sub.episodes[i].id = e => k <= i
    BY FirstAt
  <1>2. new = [sub EXCEPT !.episodes = eps]
    BY DEF Podcast!Marked
  <1> HIDE DEF k
  <1>3. sub.episodes \in Seq(Podcast!Episode)
    BY DEF Podcast!Subscription
  <1>4. [id |-> e, kept |-> kept] \in Podcast!Episode
    <2>1. sub.episodes[k] \in Podcast!Episode
      BY <1>1, <1>3
    <2> QED
      BY <1>1, <2>1 DEF Podcast!Episode
  <1>5. /\ eps \in Seq(Podcast!Episode)
        /\ DOMAIN eps = DOMAIN sub.episodes
        /\ \A i \in DOMAIN sub.episodes : eps[i] = IF i = k THEN [id |-> e, kept |-> kept] ELSE sub.episodes[i]
    BY <1>1, <1>3, <1>4
  <1> HIDE DEF eps
  <1>6. /\ new \in Podcast!Subscription /\ new.feed = sub.feed /\ new.etag = sub.etag /\ new.tagged = sub.tagged
        /\ new.episodes = eps
    BY <1>2, <1>5 DEF Podcast!Subscription
  <1> HIDE DEF new
  <1>7. \A i \in DOMAIN sub.episodes : new.episodes[i].id = sub.episodes[i].id
    BY <1>1, <1>5, <1>6
  <1>8. \A d : Podcast!At(new, d) = Podcast!At(sub, d)
    BY <1>5, <1>6, <1>7 DEF Podcast!At
  <1>9. Podcast!KeptOf(new, e) = kept
    BY <1>1, <1>5, <1>6, <1>8 DEF Podcast!KeptOf, k
  <1>10. ASSUME NEW d, d # e
         PROVE  Podcast!KeptOf(new, d) = Podcast!KeptOf(sub, d)
    <2>1. CASE Podcast!At(sub, d) = {}
      BY <1>8, <2>1 DEF Podcast!KeptOf
    <2>2. CASE Podcast!At(sub, d) # {}
      <3> DEFINE l == Podcast!Min(Podcast!At(sub, d))
      <3>1. l \in DOMAIN sub.episodes /\ sub.episodes[l].id = d
        BY <2>2, FirstAt
      <3>2. l # k
        BY <1>1, <1>10, <3>1
      <3>3. new.episodes[l] = sub.episodes[l]
        BY <1>5, <1>6, <3>1, <3>2
      <3> QED
        BY <1>8, <2>2, <3>3 DEF Podcast!KeptOf
    <2> QED
      BY <2>1, <2>2
  <1> QED
    BY <1>5, <1>6, <1>7, <1>9, <1>10 DEF new

(* What an answer is made of: the version's episodes in their order, each  *)
(* with what is kept of the first known episode of that guid.              *)
LEMMA DispatchKeeps ==
    ASSUME NEW sub \in Podcast!Subscription, NEW v \in Versions, NEW tagged \in BOOLEAN
    PROVE  LET new == Podcast!Parsed(sub, v, tagged)
           IN  /\ new \in Podcast!Subscription /\ new.feed = v
               /\ new.tagged => new.etag = v
               /\ [i \in DOMAIN new.episodes |-> new.episodes[i].id] = v
               /\ \A e : Podcast!At(new, e) # {} => Podcast!KeptOf(new, e) = Podcast!KeptOf(sub, e)
  <1> DEFINE eps == [i \in DOMAIN v |-> [id |-> v[i], kept |-> Podcast!KeptOf(sub, v[i])]]
             new == Podcast!Parsed(sub, v, tagged)
  <1>1. v \in Seq(Podcast!Episodes)
    <2>1. v \in Seq({v[i] : i \in DOMAIN v})
      BY PodcastAssumption
    <2>2. \A i \in DOMAIN v : v[i] \in Podcast!Episodes
      BY DEF Podcast!Episodes, Podcast!ToSet
    <2> QED
      BY <2>1, <2>2
  <1>2. Podcast!DiffAndDispatch(sub, v) = eps
    BY DEF Podcast!DiffAndDispatch, Podcast!Retain
  <1>3. \A e : Podcast!KeptOf(sub, e) \in Podcast!Marks
    <2> SUFFICES ASSUME NEW e PROVE Podcast!KeptOf(sub, e) \in Podcast!Marks
      OBVIOUS
    <2>1. CASE Podcast!At(sub, e) = {}
      BY <2>1 DEF Podcast!KeptOf, Podcast!Unplayed, Podcast!Marks
    <2>2. CASE Podcast!At(sub, e) # {}
      <3>1. Podcast!Min(Podcast!At(sub, e)) \in DOMAIN sub.episodes
        BY <2>2, FirstAt
      <3>2. sub.episodes[Podcast!Min(Podcast!At(sub, e))] \in Podcast!Episode
        BY <3>1 DEF Podcast!Subscription
      <3> QED
        BY <2>2, <3>2 DEF Podcast!KeptOf, Podcast!Episode
    <2> QED
      BY <2>1, <2>2
  <1>4. /\ eps \in Seq(Podcast!Episode) /\ DOMAIN eps = DOMAIN v
        /\ \A i \in DOMAIN v : eps[i].id = v[i] /\ eps[i].kept = Podcast!KeptOf(sub, v[i])
    <2>1. \A i \in 1..Len(v) : [id |-> v[i], kept |-> Podcast!KeptOf(sub, v[i])] \in Podcast!Episode
      BY <1>1, <1>3 DEF Podcast!Episode
    <2> QED
      BY <1>1, <2>1
  <1> HIDE DEF eps
  <1>5. /\ new \in Podcast!Subscription /\ new.episodes = eps
        /\ new.feed = v /\ (new.tagged => new.etag = v)
    BY <1>1, <1>2, <1>4 DEF Podcast!Parsed, Podcast!Subscription
  <1>6. [i \in DOMAIN new.episodes |-> new.episodes[i].id] = v
    BY <1>1, <1>4, <1>5
  <1> HIDE DEF new
  <1>7. ASSUME NEW e, Podcast!At(new, e) # {}
        PROVE  Podcast!KeptOf(new, e) = Podcast!KeptOf(sub, e)
    <2> DEFINE k == Podcast!Min(Podcast!At(new, e))
    <2>1. k \in DOMAIN eps /\ eps[k].id = e
      BY <1>5, <1>7, FirstAt
    <2>2. Podcast!KeptOf(new, e) = eps[k].kept
      BY <1>5, <1>7 DEF Podcast!KeptOf
    <2> HIDE DEF k
    <2> QED
      BY <1>4, <2>1, <2>2
  <1> QED
    BY <1>5, <1>6, <1>7 DEF new

(* The host's word on one episode leaves the others of its feed alone, and *)
(* counts from now on if no copy of the feed is under way.                 *)
LEMMA ChangeKeeps ==
    ASSUME Podcast!QueueInv, NEW f \in Feeds, NEW e \in Podcast!Episodes, NEW kept \in Podcast!Marks,
           Podcast!Change(f, e, kept)
    PROVE  Podcast!QueueInv'
  <1> USE DEF Podcast!QueueInv, Podcast!PodcastsKept
  <1> DEFINE new == Podcast!Marked(subscriptions[f], e, kept)
  <1>1. /\ f \in DOMAIN subscriptions /\ Podcast!At(subscriptions[f], e) # {}
        /\ subscriptions[f] \in Podcast!Subscription
        /\ subscriptions' = [subscriptions EXCEPT ![f] = new]
        /\ refreshing' = refreshing /\ announced' = announced
        /\ given' = {g \in given : g.of # f \/ g.id # e}
                      \cup IF Podcast!InFlight(f) THEN {} ELSE {[of |-> f, id |-> e, kept |-> kept]}
    BY DEF Podcast!Change, Podcast!TypeOK, Podcast!Subscribed
  <1>2. /\ new \in Podcast!Subscription /\ new.feed = subscriptions[f].feed /\ new.etag = subscriptions[f].etag
        /\ new.tagged = subscriptions[f].tagged
        /\ DOMAIN new.episodes = DOMAIN subscriptions[f].episodes
        /\ \A i \in DOMAIN subscriptions[f].episodes : new.episodes[i].id = subscriptions[f].episodes[i].id
        /\ Podcast!KeptOf(new, e) = kept
        /\ \A d : d # e => Podcast!KeptOf(new, d) = Podcast!KeptOf(subscriptions[f], d)
    BY <1>1, MarkedKeeps
  <1> HIDE DEF new
  <1>3. \A d : Podcast!At(new, d) = Podcast!At(subscriptions[f], d)
    BY <1>2 DEF Podcast!At
  <1>4. Podcast!TypeOK'
    BY <1>1, <1>2 DEF Podcast!TypeOK, Podcast!Subscribed
  <1>5. Podcast!TagIsOfTheFeed'
    <2>1. Podcast!TagFits(f, subscriptions[f])
      BY <1>1 DEF Podcast!TagIsOfTheFeed, Podcast!Subscribed
    <2>2. Podcast!TagFits(f, new)
      BY <1>2, <2>1 DEF Podcast!TagFits
    <2> QED
      BY <1>1, <2>2 DEF Podcast!TagIsOfTheFeed, Podcast!Subscribed, Podcast!TagFits
  <1>6. ASSUME NEW g \in given'
        PROVE  \/ g \in given /\ (g.of # f \/ g.id # e)
               \/ ~Podcast!InFlight(f) /\ g.of = f /\ g.id = e /\ g.kept = kept
    BY <1>1, <1>6
  <1>7. Podcast!HostsWordStands'
    <2> SUFFICES ASSUME NEW g \in given'
                 PROVE  /\ g.of \in DOMAIN subscriptions' /\ Podcast!At(subscriptions'[g.of], g.id) # {}
                        /\ Podcast!KeptOf(subscriptions'[g.of], g.id) = g.kept
      BY DEF Podcast!HostsWordStands, Podcast!Subscribed, Podcast!Kept
    <2>1. CASE g \in given /\ g.of # f
      BY <1>1, <2>1 DEF Podcast!HostsWordStands, Podcast!Subscribed, Podcast!Kept
    <2>2. CASE g \in given /\ g.of = f /\ g.id # e
      BY <1>1, <1>2, <1>3, <2>2 DEF Podcast!HostsWordStands, Podcast!Subscribed, Podcast!Kept
    <2>3. CASE g.of = f /\ g.id = e /\ g.kept = kept
      BY <1>1, <1>2, <1>3, <2>3
    <2> QED
      BY <1>6, <2>1, <2>2, <2>3
  <1>8. Podcast!CopiesAgree'
    <2> SUFFICES ASSUME NEW r \in Refreshers, refreshing[r] # Podcast!Idle
                 PROVE  /\ Podcast!TagFits(refreshing[r].of, refreshing[r].copy)'
                        /\ \A g \in given' : g.of = refreshing[r].of =>
                             /\ refreshing[r].at = "sent" => Podcast!At(refreshing[r].copy, g.id) # {}
                             /\ Podcast!At(refreshing[r].copy, g.id) # {} =>
                                  Podcast!KeptOf(refreshing[r].copy, g.id) = g.kept
      BY <1>1 DEF Podcast!CopiesAgree
    <2>1. Podcast!TagFits(refreshing[r].of, refreshing[r].copy)'
      BY <1>1 DEF Podcast!CopiesAgree, Podcast!TagFits
    <2>2. ASSUME NEW g \in given', g.of = refreshing[r].of
          PROVE  g \in given
      BY <1>6, <2>2 DEF Podcast!InFlight
    <2> QED
      BY <2>1, <2>2 DEF Podcast!CopiesAgree
  <1> QED
    BY <1>4, <1>5, <1>7, <1>8

(* To subscribe and to unsubscribe leave the other feeds alone.            *)
LEMMA SubscribeKeeps ==
    ASSUME Podcast!QueueInv, NEW f \in Feeds, Podcast!Subscribe(f) \/ Podcast!Unsubscribe(f)
    PROVE  Podcast!QueueInv'
  <1> USE DEF Podcast!QueueInv, Podcast!PodcastsKept
  <1>1. CASE Podcast!Subscribe(f)
    <2>1. /\ f \notin DOMAIN subscriptions
          /\ subscriptions' = [y \in DOMAIN subscriptions \cup {f} |-> IF y = f THEN Podcast!Empty ELSE subscriptions[y]]
          /\ refreshing' = refreshing /\ announced' = announced /\ given' = given
      BY <1>1 DEF Podcast!Subscribe, Podcast!Subscribed, Podcast!Extend
    <2>2. Podcast!Empty \in Podcast!Subscription /\ Podcast!TagFits(f, Podcast!Empty)
      BY DEF Podcast!Empty, Podcast!Subscription, Podcast!TagFits, Podcast!ToSet
    <2>3. Podcast!TypeOK'
      BY <2>1, <2>2 DEF Podcast!TypeOK, Podcast!Subscribed
    <2>4. Podcast!TagIsOfTheFeed'
      BY <2>1, <2>2, ZenonT(30) DEF Podcast!TagIsOfTheFeed, Podcast!Subscribed, Podcast!TagFits
    <2>5. Podcast!HostsWordStands'
      BY <2>1 DEF Podcast!HostsWordStands, Podcast!Subscribed, Podcast!Kept
    <2>6. Podcast!CopiesAgree'
      BY <2>1 DEF Podcast!CopiesAgree, Podcast!TagFits
    <2> QED
      BY <2>3, <2>4, <2>5, <2>6
  <1>2. CASE Podcast!Unsubscribe(f)
    <2>1. /\ subscriptions' = [g \in DOMAIN subscriptions \ {f} |-> subscriptions[g]]
          /\ refreshing' = refreshing /\ announced' = announced /\ given' = {g \in given : g.of # f}
      BY <1>2 DEF Podcast!Unsubscribe, Podcast!Subscribed
    <2>2. Podcast!TypeOK'
      BY <2>1 DEF Podcast!TypeOK, Podcast!Subscribed
    <2>3. Podcast!TagIsOfTheFeed'
      BY <2>1 DEF Podcast!TagIsOfTheFeed, Podcast!Subscribed, Podcast!TagFits
    <2>4. Podcast!HostsWordStands'
      BY <2>1 DEF Podcast!HostsWordStands, Podcast!Subscribed, Podcast!Kept
    <2>5. Podcast!CopiesAgree'
      BY <2>1 DEF Podcast!CopiesAgree, Podcast!TagFits
    <2> QED
      BY <2>2, <2>3, <2>4, <2>5
  <1> QED
    BY <1>1, <1>2

(* A refresh begins with the copy that is there, and one that learns       *)
(* nothing leaves it.                                                      *)
LEMMA BeginKeeps ==
    ASSUME Podcast!QueueInv, NEW r \in Refreshers,
           (\E f \in Feeds : Podcast!Begin(r, f)) \/ Podcast!NothingNew(r)
    PROVE  Podcast!QueueInv'
  <1> USE DEF Podcast!QueueInv, Podcast!PodcastsKept
  <1>0. /\ subscriptions' = subscriptions /\ announced' = announced /\ given' = given
        /\ refreshing \in [Refreshers -> {Podcast!Idle} \cup
                [at : {"sent", "parsed"}, of : Feeds, copy : Podcast!Subscription]]
    BY DEF Podcast!Begin, Podcast!NothingNew, Podcast!TypeOK
  <1>1. Podcast!TagIsOfTheFeed' /\ Podcast!HostsWordStands'
    BY <1>0 DEF Podcast!TagIsOfTheFeed, Podcast!HostsWordStands, Podcast!Subscribed, Podcast!TagFits,
                Podcast!Kept
  <1>2. CASE \E f \in Feeds : Podcast!Begin(r, f)
    <2> PICK f \in Feeds : Podcast!Begin(r, f)
      BY <1>2
    <2> DEFINE c == [at |-> "sent", of |-> f, copy |-> subscriptions[f]]
    <2>1. /\ f \in DOMAIN subscriptions /\ subscriptions[f] \in Podcast!Subscription
          /\ refreshing' = [refreshing EXCEPT ![r] = c]
      BY DEF Podcast!Begin, Podcast!Subscribed, Podcast!TypeOK
    <2>2. /\ c \in [at : {"sent", "parsed"}, of : Feeds, copy : Podcast!Subscription]
          /\ c.of = f /\ c.copy = subscriptions[f]
      BY <2>1
    <2> HIDE DEF c
    <2>3. Podcast!TypeOK'
      BY <1>0, <2>1, <2>2 DEF Podcast!TypeOK, Podcast!Subscribed
    <2>4. Podcast!TagFits(f, subscriptions[f])
      BY <2>1 DEF Podcast!TagIsOfTheFeed, Podcast!Subscribed
    <2>5. \A g \in given : g.of = f => Podcast!At(subscriptions[f], g.id) # {}
                                       /\ Podcast!KeptOf(subscriptions[f], g.id) = g.kept
      BY DEF Podcast!HostsWordStands, Podcast!Kept
    <2>6. Podcast!CopiesAgree'
      <3> SUFFICES ASSUME NEW q \in Refreshers, refreshing'[q] # Podcast!Idle
                   PROVE  /\ Podcast!TagFits(refreshing'[q].of, refreshing'[q].copy)
                          /\ \A g \in given : g.of = refreshing'[q].of =>
                               /\ refreshing'[q].at = "sent" => Podcast!At(refreshing'[q].copy, g.id) # {}
                               /\ Podcast!At(refreshing'[q].copy, g.id) # {} =>
                                    Podcast!KeptOf(refreshing'[q].copy, g.id) = g.kept
        BY <1>0 DEF Podcast!CopiesAgree, Podcast!TagFits
      <3>1. CASE q = r
        BY <1>0, <2>1, <2>2, <2>4, <2>5, <3>1
      <3>2. CASE q # r
        BY <1>0, <2>1, <3>2 DEF Podcast!CopiesAgree
      <3> QED
        BY <3>1, <3>2
    <2> QED
      BY <1>1, <2>3, <2>6
  <1>3. CASE Podcast!NothingNew(r)
    <2>1. refreshing' = [refreshing EXCEPT ![r] = Podcast!Idle]
      BY <1>3 DEF Podcast!NothingNew
    <2>2. Podcast!TypeOK'
      BY <1>0, <2>1 DEF Podcast!TypeOK, Podcast!Subscribed
    <2>3. Podcast!CopiesAgree'
      BY <1>0, <2>1 DEF Podcast!CopiesAgree, Podcast!TagFits
    <2> QED
      BY <1>1, <2>2, <2>3
  <1> QED
    BY <1>2, <1>3

(* An answer makes a copy of the version that came, and the host is told   *)
(* of what is new in it.                                                   *)
LEMMA AnswerKeeps ==
    ASSUME Podcast!QueueInv, NEW r \in Refreshers, NEW v \in Versions, NEW tagged \in BOOLEAN,
           Podcast!Answer(r, v, tagged)
    PROVE  Podcast!QueueInv'
  <1> USE DEF Podcast!QueueInv, Podcast!PodcastsKept
  <1> DEFINE f == refreshing[r].of
             sub == refreshing[r].copy
             new == Podcast!Parsed(sub, v, tagged)
             c == [at |-> "parsed", of |-> f, copy |-> new]
  <1>1. /\ subscriptions' = subscriptions /\ given' = given
        /\ refreshing \in [Refreshers -> {Podcast!Idle} \cup
                [at : {"sent", "parsed"}, of : Feeds, copy : Podcast!Subscription]]
        /\ refreshing[r].at = "sent"
        /\ refreshing' = [refreshing EXCEPT ![r] = c]
        /\ announced' = announced \cup {<<f, e>> : e \in {x \in Podcast!ToSet(v) : Podcast!IsNew(sub, x)}}
    BY DEF Podcast!Answer, Podcast!TypeOK
  <1>2. /\ refreshing[r] # Podcast!Idle /\ f \in Feeds /\ sub \in Podcast!Subscription
    BY <1>1 DEF Podcast!Idle
  <1>3. /\ Podcast!TagFits(f, sub)
        /\ \A g \in given : g.of = f =>
             Podcast!At(sub, g.id) # {} /\ Podcast!KeptOf(sub, g.id) = g.kept
    BY <1>1, <1>2 DEF Podcast!CopiesAgree
  <1> HIDE DEF f, sub
  <1>4. /\ new \in Podcast!Subscription
        /\ new.feed = v /\ (new.tagged => new.etag = v)
        /\ [i \in DOMAIN new.episodes |-> new.episodes[i].id] = v
        /\ \A e : Podcast!At(new, e) # {} => Podcast!KeptOf(new, e) = Podcast!KeptOf(sub, e)
    BY <1>2, DispatchKeeps
  <1>5. \A e : Podcast!At(sub, e) # {} => e \in Podcast!ToSet(sub.feed)
    <2> SUFFICES ASSUME NEW i \in DOMAIN sub.episodes
                 PROVE  sub.episodes[i].id \in Podcast!ToSet(sub.feed)
      BY DEF Podcast!At
    <2> DEFINE ids == [j \in DOMAIN sub.episodes |-> sub.episodes[j].id]
    <2>1. ids = sub.feed /\ i \in DOMAIN ids /\ ids[i] = sub.episodes[i].id
      BY <1>3 DEF Podcast!TagFits
    <2> HIDE DEF ids
    <2> QED
      BY <2>1 DEF Podcast!ToSet
  <1> HIDE DEF new
  <1>6. /\ c \in [at : {"sent", "parsed"}, of : Feeds, copy : Podcast!Subscription]
        /\ c.of = f /\ c.copy = new /\ c.at = "parsed"
    BY <1>2, <1>4
  <1> HIDE DEF c
  <1>7. ASSUME NEW e \in Podcast!ToSet(v)
        PROVE  <<f, e>> \in announced'
    <2>1. CASE Podcast!At(sub, e) = {}
      <3>1. e \in {x \in Podcast!ToSet(v) : Podcast!IsNew(sub, x)}
        BY <2>1 DEF Podcast!IsNew
      <3> QED
        BY <1>1, <3>1
    <2>2. CASE Podcast!At(sub, e) # {}
      BY <1>1, <1>3, <1>5, <2>2 DEF Podcast!TagFits
    <2> QED
      BY <2>1, <2>2
  <1>8. Podcast!TypeOK'
    BY <1>1, <1>6 DEF Podcast!TypeOK, Podcast!Subscribed
  <1>9. Podcast!TagIsOfTheFeed'
    BY <1>1 DEF Podcast!TagIsOfTheFeed, Podcast!Subscribed, Podcast!TagFits
  <1>10. Podcast!HostsWordStands'
    BY <1>1 DEF Podcast!HostsWordStands, Podcast!Subscribed, Podcast!Kept
  <1>11. Podcast!CopiesAgree'
    <2> SUFFICES ASSUME NEW q \in Refreshers, refreshing'[q] # Podcast!Idle
                 PROVE  /\ Podcast!TagFits(refreshing[q].of, refreshing[q].copy)'
                        /\ \A g \in given : g.of = refreshing'[q].of =>
                             /\ refreshing'[q].at = "sent" => Podcast!At(refreshing'[q].copy, g.id) # {}
                             /\ Podcast!At(refreshing'[q].copy, g.id) # {} =>
                                  Podcast!KeptOf(refreshing'[q].copy, g.id) = g.kept
      BY <1>1 DEF Podcast!CopiesAgree
    <2>1. CASE q = r
      <3>1. refreshing'[q] = c
        BY <1>1, <2>1
      <3>2. Podcast!TagFits(refreshing[q].of, refreshing[q].copy)'
        BY <1>4, <1>6, <1>7, <3>1 DEF Podcast!TagFits
      <3>3. ASSUME NEW g \in given, g.of = f, Podcast!At(new, g.id) # {}
            PROVE  Podcast!KeptOf(new, g.id) = g.kept
        BY <1>3, <1>4, <3>3
      <3> QED
        BY <1>6, <3>1, <3>2, <3>3
    <2>2. CASE q # r
      <3>1. refreshing'[q] = refreshing[q]
        BY <1>1, <2>2
      <3>2. Podcast!TagFits(refreshing[q].of, refreshing[q].copy)'
        BY <1>1, <3>1 DEF Podcast!CopiesAgree, Podcast!TagFits
      <3> QED
        BY <3>1, <3>2 DEF Podcast!CopiesAgree
    <2> QED
      BY <2>1, <2>2
  <1> QED
    BY <1>8, <1>9, <1>10, <1>11

(* The copy goes back, with all that the host has said of what is in it.   *)
LEMMA StoreKeeps ==
    ASSUME Podcast!QueueInv, NEW r \in Refreshers, Podcast!Store(r)
    PROVE  Podcast!QueueInv'
  <1> USE DEF Podcast!QueueInv, Podcast!PodcastsKept
  <1> DEFINE f == refreshing[r].of
             sub == refreshing[r].copy
  <1>1. /\ announced' = announced
        /\ refreshing \in [Refreshers -> {Podcast!Idle} \cup
                [at : {"sent", "parsed"}, of : Feeds, copy : Podcast!Subscription]]
        /\ refreshing[r].at = "parsed"
        /\ refreshing' = [refreshing EXCEPT ![r] = Podcast!Idle]
        /\ subscriptions' = [y \in DOMAIN subscriptions \cup {f} |-> IF y = f THEN sub ELSE subscriptions[y]]
        /\ given' = {g \in given : g.of # f \/ g.id \in Podcast!ToSet(sub.feed)}
    BY DEF Podcast!Store, Podcast!TypeOK, Podcast!Extend, Podcast!Subscribed
  <1>2. /\ refreshing[r] # Podcast!Idle /\ f \in Feeds /\ sub \in Podcast!Subscription
    BY <1>1 DEF Podcast!Idle
  <1>3. /\ Podcast!TagFits(f, sub)
        /\ \A g \in given : g.of = f /\ Podcast!At(sub, g.id) # {} => Podcast!KeptOf(sub, g.id) = g.kept
    BY <1>1, <1>2 DEF Podcast!CopiesAgree
  <1> HIDE DEF f, sub
  <1>4. \A e \in Podcast!ToSet(sub.feed) : Podcast!At(sub, e) # {}
    <2> SUFFICES ASSUME NEW i \in DOMAIN sub.feed
                 PROVE  Podcast!At(sub, sub.feed[i]) # {}
      BY DEF Podcast!ToSet
    <2> DEFINE ids == [j \in DOMAIN sub.episodes |-> sub.episodes[j].id]
    <2>1. ids = sub.feed /\ DOMAIN ids = DOMAIN sub.episodes /\ \A j \in DOMAIN ids : ids[j] = sub.episodes[j].id
      BY <1>3 DEF Podcast!TagFits
    <2> HIDE DEF ids
    <2> QED
      BY <2>1 DEF Podcast!At
  <1>5. Podcast!TypeOK'
    BY <1>1, <1>2 DEF Podcast!TypeOK, Podcast!Subscribed
  <1>6. Podcast!TagIsOfTheFeed'
    <2> SUFFICES ASSUME NEW y \in DOMAIN subscriptions'
                 PROVE  Podcast!TagFits(y, subscriptions'[y])
      BY <1>1 DEF Podcast!TagIsOfTheFeed, Podcast!Subscribed, Podcast!TagFits
    <2>1. CASE y = f
      BY <1>1, <1>3, <2>1
    <2>2. CASE y # f
      BY <1>1, <2>2 DEF Podcast!TagIsOfTheFeed, Podcast!Subscribed
    <2> QED
      BY <2>1, <2>2
  <1>7. Podcast!HostsWordStands'
    <2> SUFFICES ASSUME NEW g \in given'
                 PROVE  /\ g.of \in DOMAIN subscriptions' /\ Podcast!At(subscriptions'[g.of], g.id) # {}
                        /\ Podcast!KeptOf(subscriptions'[g.of], g.id) = g.kept
      BY DEF Podcast!HostsWordStands, Podcast!Subscribed, Podcast!Kept
    <2>1. CASE g.of = f
      BY <1>1, <1>3, <1>4, <2>1
    <2>2. CASE g.of # f
      BY <1>1, <2>2 DEF Podcast!HostsWordStands, Podcast!Subscribed, Podcast!Kept
    <2> QED
      BY <2>1, <2>2
  <1>8. Podcast!CopiesAgree'
    BY <1>1, ZenonT(30) DEF Podcast!CopiesAgree, Podcast!TagFits
  <1> QED
    BY <1>5, <1>6, <1>7, <1>8

(* The invariant of the podcast queue is inductive.                        *)
LEMMA QueueInductive ==
    /\ Podcast!Init => Podcast!QueueInv
    /\ Podcast!QueueInv /\ [Podcast!Next]_(Podcast!vars) => Podcast!QueueInv'
  <1> USE DEF Podcast!QueueInv, Podcast!PodcastsKept
  <1>1. ASSUME Podcast!Init PROVE Podcast!QueueInv
    <2>1. DOMAIN subscriptions = {}
      BY <1>1 DEF Podcast!Init
    <2>2. /\ given = {} /\ subscriptions \in [{} -> Podcast!Subscription]
          /\ refreshing = [r \in Refreshers |-> Podcast!Idle]
      BY <1>1, <2>1 DEF Podcast!Init
    <2> QED
      BY <2>1, <2>2 DEF Podcast!TypeOK, Podcast!HostsWordStands, Podcast!TagIsOfTheFeed,
                        Podcast!CopiesAgree, Podcast!Subscribed
  <1>2. ASSUME Podcast!QueueInv, Podcast!Next PROVE Podcast!QueueInv'
    <2>1. ASSUME NEW f \in Feeds, NEW e \in Podcast!Episodes,
                 \/ \E s \in States : Podcast!SetState(f, e, s)
                 \/ \E p \in Positions : Podcast!SetResumePosition(f, e, p)
                 \/ Podcast!RequestDownload(f, e)
          PROVE  Podcast!QueueInv'
      <3>1. f \in DOMAIN subscriptions /\ Podcast!At(subscriptions[f], e) # {}
        BY <2>1 DEF Podcast!SetState, Podcast!SetResumePosition, Podcast!RequestDownload, Podcast!Change,
                    Podcast!Subscribed
      <3>2. Podcast!Kept(f, e) \in Podcast!Marks
        <4> DEFINE sub == subscriptions[f]
        <4>1. sub \in Podcast!Subscription
          BY <1>2, <3>1 DEF Podcast!TypeOK, Podcast!Subscribed
        <4> HIDE DEF sub
        <4>2. Podcast!At(sub, e) # {} => Podcast!KeptOf(sub, e) \in Podcast!Marks
          <5> HAVE Podcast!At(sub, e) # {}
          <5>1. Podcast!Min(Podcast!At(sub, e)) \in DOMAIN sub.episodes
            BY <4>1, FirstAt
          <5>2. sub.episodes[Podcast!Min(Podcast!At(sub, e))] \in Podcast!Episode
            BY <4>1, <5>1 DEF Podcast!Subscription
          <5> QED
            BY <5>2 DEF Podcast!KeptOf, Podcast!Episode
        <4> QED
          BY <3>1, <4>2 DEF Podcast!Kept, sub
      <3>3. \E kept \in Podcast!Marks : Podcast!Change(f, e, kept)
        <4> DEFINE m == Podcast!Kept(f, e)
        <4>1. \/ \E s \in States : Podcast!Change(f, e, [m EXCEPT !.state = s])
              \/ \E p \in Positions : Podcast!Change(f, e, [m EXCEPT !.resume = p])
              \/ Podcast!Change(f, e, [m EXCEPT !.auto = TRUE])
          BY <2>1 DEF Podcast!SetState, Podcast!SetResumePosition, Podcast!RequestDownload
        <4> HIDE DEF m
        <4>2. /\ \A s \in States : [m EXCEPT !.state = s] \in Podcast!Marks
              /\ \A p \in Positions : [m EXCEPT !.resume = p] \in Podcast!Marks
              /\ [m EXCEPT !.auto = TRUE] \in Podcast!Marks
          BY <3>2 DEF Podcast!Marks, m
        <4> QED
          BY <4>1, <4>2
      <3> QED
        BY <1>2, <3>3, ChangeKeeps
    <2>2. \/ \E f \in Feeds : Podcast!Subscribe(f) \/ Podcast!Unsubscribe(f)
          \/ \E r \in Refreshers : (\E f \in Feeds : Podcast!Begin(r, f)) \/ Podcast!NothingNew(r)
          \/ \E r \in Refreshers : Podcast!Store(r)
          \/ \E r \in Refreshers, v \in Versions, tagged \in BOOLEAN : Podcast!Answer(r, v, tagged)
          \/ \E f \in Feeds, e \in Podcast!Episodes :
                \/ \E s \in States : Podcast!SetState(f, e, s)
                \/ \E p \in Positions : Podcast!SetResumePosition(f, e, p)
                \/ Podcast!RequestDownload(f, e)
      BY <1>2 DEF Podcast!Next
    <2> QED
      BY <1>2, <2>1, <2>2, SubscribeKeeps, BeginKeeps, AnswerKeeps, StoreKeeps
  <1>3. ASSUME Podcast!QueueInv, UNCHANGED Podcast!vars PROVE Podcast!QueueInv'
    <2>1. /\ subscriptions' = subscriptions /\ refreshing' = refreshing
          /\ announced' = announced /\ given' = given
      BY <1>3 DEF Podcast!vars
    <2>2. Podcast!TypeOK' /\ Podcast!TagIsOfTheFeed'
      BY <1>3, <2>1 DEF Podcast!TypeOK, Podcast!TagIsOfTheFeed, Podcast!Subscribed, Podcast!TagFits
    <2>3. Podcast!HostsWordStands'
      BY <1>3, <2>1 DEF Podcast!HostsWordStands, Podcast!Subscribed, Podcast!Kept
    <2>4. Podcast!CopiesAgree'
      BY <1>3, <2>1 DEF Podcast!CopiesAgree, Podcast!TagFits
    <2> QED
      BY <2>2, <2>3, <2>4
  <1> QED
    BY <1>1, <1>2, <1>3

-----------------------------------------------------------------------------
(* MusicBrainz                                                             *)

(* A request that is let through leaves the cache alone.                   *)
LEMMA AcquireKeeps ==
    ASSUME Brainz!LookupInv, NEW t \in Threads, Brainz!Acquire(t)
    PROVE  Brainz!LookupInv'
  <1> USE DEF Brainz!LookupInv
  <1>1. /\ now' = now /\ cache' = cache /\ answered' = answered /\ result' = result
        /\ request' = request /\ at' = [at EXCEPT ![t] = "granted"] /\ at[t] = "limited"
        /\ IF tokens = 0 THEN tokens' = 1 /\ nextToken' = now + Period
           ELSE tokens' = 0 /\ nextToken' = nextToken
    BY DEF Brainz!Acquire
  <1>2. Brainz!TypeOK'
    <2>1. tokens' \in {0, 1} /\ nextToken' \in Int
      BY <1>1, BrainzAssumption DEF Brainz!TypeOK
    <2> QED
      BY <1>1, <2>1 DEF Brainz!TypeOK
  <1>3. Brainz!CacheInv' /\ Brainz!LookupsHold'
    BY <1>1 DEF Brainz!CacheInv, Brainz!LookupsHold
  <1> QED
    BY <1>2, <1>3

(* An answer is kept, and a cache that is too large keeps what is good.    *)
LEMMA PutKeeps ==
    ASSUME Brainz!LookupInv, NEW t \in Threads, Brainz!Answer(t)
    PROVE  Brainz!LookupInv'
  <1> USE DEF Brainz!LookupInv
  <1> DEFINE q == request[t]
             body == [of |-> q, time |-> now]
             full == [r \in DOMAIN cache \cup {q} |->
                        IF r = q THEN [body |-> body, expires |-> now + Ttl] ELSE cache[r]]
  <1>1. /\ now' = now /\ tokens' = tokens /\ nextToken' = nextToken
        /\ at' = [at EXCEPT ![t] = "idle"] /\ request' = [request EXCEPT ![t] = None]
        /\ result' = [result EXCEPT ![t] = Brainz!Reading(q, body, Brainz!Parsed(q, body))]
        /\ cache' = Brainz!Evict(full) /\ q.kind # "fingerprint"
        /\ answered' = [r \in DOMAIN answered \cup {q} |-> IF r = q THEN now ELSE answered[r]]
    BY DEF Brainz!Answer, Brainz!Returns, Brainz!Body, Brainz!Put
  <1>2. now \in Nat /\ Ttl \in Nat /\ DOMAIN result = Threads /\ Ttl \div 2 \in Nat
    BY BrainzAssumption DEF Brainz!TypeOK
  <1>3. body.of = q /\ body.time = now
    OBVIOUS
  <1> HIDE DEF q, body
  <1>4. /\ DOMAIN full = DOMAIN cache \cup {q}
        /\ \A r \in DOMAIN full : /\ r.kind # "fingerprint" /\ full[r].body.of = r
                                  /\ full[r].body.time \in Nat
                                  /\ full[r].expires = full[r].body.time + Ttl
        /\ full[q].body.time = now
        /\ \A r \in DOMAIN cache : r # q => full[r] = cache[r]
    BY <1>1, <1>2, <1>3 DEF Brainz!CacheInv
  <1> HIDE DEF full
  <1>5. /\ DOMAIN cache' \subseteq DOMAIN full
        /\ \A r \in DOMAIN cache' : cache'[r] = full[r]
        /\ \A r \in DOMAIN full : full[r].expires >= now - Ttl \div 2 => r \in DOMAIN cache'
    BY <1>1 DEF Brainz!Evict, Brainz!Stays
  <1>6. /\ DOMAIN answered' = DOMAIN answered \cup {q} /\ answered'[q] = now
        /\ \A r \in DOMAIN answered : r # q => answered'[r] = answered[r]
        /\ answered' \in [DOMAIN answered' -> Nat]
    BY <1>1, <1>2 DEF Brainz!TypeOK
  <1>7. Brainz!TypeOK'
    <2>1. DOMAIN result' = Threads
      BY <1>1, <1>2
    <2> QED
      BY <1>1, <1>6, <2>1 DEF Brainz!TypeOK
  <1>8. Brainz!CacheInv'
    <2>1. \A r \in DOMAIN answered' : answered'[r] <= now
      BY <1>2, <1>6 DEF Brainz!CacheInv
    <2> QED
      BY <1>1, <1>4, <1>5, <2>1 DEF Brainz!CacheInv
  <1>9. Brainz!LookupsHold'
    <2>1. ASSUME NEW u \in Threads, result'[u] # None, "body" \in DOMAIN result'[u]
          PROVE  /\ result'[u].body.of = result'[u].to
                 /\ result'[u].read - result'[u].body.time <= Ttl
                 /\ result'[u].to.kind = "fingerprint" => result'[u].read = result'[u].body.time
      <3>1. CASE u = t
        <4>1. result'[u].body = body /\ result'[u].to = q /\ result'[u].read = now
          BY <1>1, <1>2, <3>1 DEF Brainz!Reading
        <4> QED
          BY <1>2, <1>3, <4>1
      <3>2. CASE u # t
        <4>1. result'[u] = result[u]
          BY <1>1, <1>2, <3>2
        <4> QED
          BY <2>1, <4>1 DEF Brainz!LookupsHold
      <3> QED
        BY <3>1, <3>2
    <2>2. ASSUME NEW r \in DOMAIN answered', now <= answered'[r] + Ttl
          PROVE  r \in DOMAIN cache' /\ cache'[r].body.time = answered'[r]
      <3>1. r \in DOMAIN full /\ full[r].body.time = answered'[r] /\ answered'[r] \in Nat
        <4>1. CASE r = q
          BY <1>2, <1>4, <1>6, <4>1
        <4>2. CASE r # q
          BY <1>4, <1>6, <2>2, <4>2 DEF Brainz!LookupsHold, Brainz!TypeOK
        <4> QED
          BY <4>1, <4>2
      <3>2. full[r].expires >= now - Ttl \div 2
        <4>1. full[r].expires = answered'[r] + Ttl
          BY <1>4, <3>1
        <4> QED
          BY <1>2, <2>2, <3>1, <4>1
      <3> QED
        BY <1>5, <3>1, <3>2
    <2> QED
      BY <1>1, <2>1, <2>2 DEF Brainz!LookupsHold
  <1> QED
    BY <1>7, <1>8, <1>9

(* A thread is handed something that is not asked for anew, or nothing.    *)
LEMMA ReturnKeepsCache ==
    ASSUME Brainz!LookupInv, NEW t \in Threads,
           Brainz!Cached(t) \/ Brainz!AnswerFingerprint(t) \/ Brainz!Fail(t)
    PROVE  Brainz!LookupInv'
  <1> USE DEF Brainz!LookupInv
  <1>1. /\ now' = now /\ tokens' = tokens /\ nextToken' = nextToken
        /\ cache' = cache /\ answered' = answered
        /\ at' = [at EXCEPT ![t] = "idle"] /\ request' = [request EXCEPT ![t] = None]
    BY DEF Brainz!Cached, Brainz!AnswerFingerprint, Brainz!Fail, Brainz!Returns
  <1>2. now \in Nat /\ Ttl \in Nat /\ DOMAIN result = Threads
    BY BrainzAssumption DEF Brainz!TypeOK
  <1>3. /\ DOMAIN result' = Threads /\ \A u \in Threads : u # t => result'[u] = result[u]
        /\ "body" \in DOMAIN result'[t] =>
             /\ result'[t].body.of = result'[t].to
             /\ result'[t].read - result'[t].body.time <= Ttl
             /\ result'[t].to.kind = "fingerprint" => result'[t].read = result'[t].body.time
    <2>1. CASE Brainz!Cached(t)
      <3> DEFINE q == request[t]
                 body == cache[q].body
      <3>1. /\ q \in DOMAIN cache /\ now <= cache[q].expires
            /\ result' = [result EXCEPT ![t] = Brainz!Reading(q, body, Brainz!Parsed(q, body))]
        BY <2>1 DEF Brainz!Cached, Brainz!Good, Brainz!Returns
      <3>2. /\ q.kind # "fingerprint" /\ body.of = q /\ body.time \in Nat /\ now <= body.time + Ttl
        BY <3>1 DEF Brainz!CacheInv
      <3> HIDE DEF q, body
      <3>3. /\ DOMAIN result' = Threads /\ \A u \in Threads : u # t => result'[u] = result[u]
            /\ result'[t].body = body /\ result'[t].to = q /\ result'[t].read = now
        BY <1>2, <3>1 DEF Brainz!Reading
      <3> QED
        BY <1>2, <3>2, <3>3
    <2>2. CASE Brainz!AnswerFingerprint(t)
      <3> DEFINE q == request[t]
                 body == [of |-> q, time |-> now]
      <3>1. result' = [result EXCEPT ![t] = Brainz!Reading(q, body, Brainz!Matches(body))]
        BY <2>2 DEF Brainz!AnswerFingerprint, Brainz!Returns, Brainz!Body
      <3>2. body.of = q /\ body.time = now
        OBVIOUS
      <3> HIDE DEF q, body
      <3>3. /\ DOMAIN result' = Threads /\ \A u \in Threads : u # t => result'[u] = result[u]
            /\ result'[t].body = body /\ result'[t].to = q /\ result'[t].read = now
        BY <1>2, <3>1 DEF Brainz!Reading
      <3> QED
        BY <1>2, <3>2, <3>3
    <2>3. CASE Brainz!Fail(t)
      <3>1. result' = [result EXCEPT ![t] = [failed |-> TRUE]]
        BY <2>3 DEF Brainz!Fail, Brainz!Returns
      <3>2. result'[t] = [failed |-> TRUE]
        BY <1>2, <3>1
      <3>3. "body" \notin DOMAIN result'[t]
        BY <3>2
      <3> QED
        BY <1>2, <3>1, <3>3
    <2> QED
      BY <2>1, <2>2, <2>3
  <1>4. Brainz!TypeOK'
    BY <1>1, <1>3 DEF Brainz!TypeOK
  <1>5. Brainz!CacheInv'
    BY <1>1 DEF Brainz!CacheInv
  <1>6. Brainz!LookupsHold'
    BY <1>1, <1>3 DEF Brainz!LookupsHold
  <1> QED
    BY <1>4, <1>5, <1>6

(* The invariant of the lookups is inductive.                              *)
LEMMA LookupInductive ==
    /\ Brainz!Init => Brainz!LookupInv
    /\ Brainz!LookupInv /\ [Brainz!Next]_(Brainz!vars) => Brainz!LookupInv'
  <1> USE DEF Brainz!LookupInv
  <1>1. ASSUME Brainz!Init PROVE Brainz!LookupInv
    <2>1. DOMAIN cache = {} /\ DOMAIN answered = {} /\ now = 1 /\ tokens = 0 /\ nextToken = 0
      BY <1>1 DEF Brainz!Init, Brainz!Epoch
    <2>2. answered \in [{} -> Nat]
      BY <1>1 DEF Brainz!Init
    <2>3. Brainz!TypeOK
      BY <1>1, <2>1, <2>2 DEF Brainz!Init, Brainz!TypeOK
    <2>4. Brainz!CacheInv
      BY <2>1 DEF Brainz!CacheInv
    <2>5. Brainz!LookupsHold
      BY <1>1, <2>1 DEF Brainz!Init, Brainz!LookupsHold
    <2> QED
      BY <2>3, <2>4, <2>5
  <1>2. ASSUME Brainz!LookupInv, Brainz!Next PROVE Brainz!LookupInv'
    <2>1. CASE Brainz!Tick
      <3>1. /\ now' = now + 1 /\ UNCHANGED <<tokens, nextToken, at, request, cache, result, answered>>
        BY <2>1 DEF Brainz!Tick
      <3>2. now \in Nat
        BY <1>2 DEF Brainz!TypeOK
      <3>3. Brainz!TypeOK'
        BY <1>2, <3>1 DEF Brainz!TypeOK
      <3>4. Brainz!CacheInv'
        BY <1>2, <3>1, <3>2 DEF Brainz!CacheInv, Brainz!TypeOK
      <3>5. Brainz!LookupsHold'
        <4>1. \A q \in DOMAIN answered : now' <= answered[q] + Ttl => now <= answered[q] + Ttl
          BY <1>2, <3>1, <3>2, BrainzAssumption DEF Brainz!TypeOK
        <4> QED
          BY <1>2, <3>1, <4>1 DEF Brainz!LookupsHold
      <3> QED
        BY <3>3, <3>4, <3>5
    <2>2. CASE Brainz!Close
      <3>1. /\ tokens' = 1 /\ nextToken' = 0
            /\ UNCHANGED <<now, at, request, cache, result, answered>>
        BY <2>2 DEF Brainz!Close, Brainz!Epoch
      <3>2. Brainz!TypeOK'
        BY <1>2, <3>1 DEF Brainz!TypeOK
      <3>3. Brainz!CacheInv' /\ Brainz!LookupsHold'
        BY <1>2, <3>1 DEF Brainz!CacheInv, Brainz!LookupsHold
      <3> QED
        BY <3>2, <3>3
    <2>3. ASSUME NEW t \in Threads, Brainz!Send(t) \/ \E q \in Lookups : Brainz!LookUp(t, q)
          PROVE  Brainz!LookupInv'
      <3>1. /\ now' = now /\ tokens' = tokens /\ nextToken' = nextToken
            /\ cache' = cache /\ answered' = answered
        BY <2>3 DEF Brainz!Send, Brainz!LookUp
      <3>2. Brainz!TypeOK'
        <4>1. CASE Brainz!Send(t)
          BY <1>2, <3>1, <4>1 DEF Brainz!Send, Brainz!TypeOK
        <4>2. ASSUME NEW q \in Lookups, Brainz!LookUp(t, q) PROVE Brainz!TypeOK'
          BY <1>2, <3>1, <4>2 DEF Brainz!LookUp, Brainz!TypeOK
        <4> QED
          BY <2>3, <4>1, <4>2
      <3>3. Brainz!CacheInv'
        BY <1>2, <3>1 DEF Brainz!CacheInv
      <3>4. \A u \in Threads : result'[u] = result[u] \/ result'[u] = None
        BY <1>2, <2>3 DEF Brainz!Send, Brainz!LookUp, Brainz!TypeOK
      <3>5. Brainz!LookupsHold'
        BY <1>2, <3>1, <3>4 DEF Brainz!LookupsHold
      <3> QED
        BY <3>2, <3>3, <3>5
    <2>4. \/ Brainz!Tick \/ Brainz!Close
          \/ \E t \in Threads :
                \/ Brainz!Send(t) \/ \E q \in Lookups : Brainz!LookUp(t, q)
                \/ Brainz!Acquire(t) \/ Brainz!Answer(t)
                \/ Brainz!Cached(t) \/ Brainz!AnswerFingerprint(t) \/ Brainz!Fail(t)
      BY <1>2 DEF Brainz!Next
    <2> QED
      BY <1>2, <2>1, <2>2, <2>3, <2>4, AcquireKeeps, PutKeeps, ReturnKeepsCache
  <1>3. ASSUME Brainz!LookupInv, UNCHANGED Brainz!vars PROVE Brainz!LookupInv'
    BY <1>3 DEF Brainz!vars, Brainz!TypeOK, Brainz!CacheInv, Brainz!LookupsHold
  <1> QED
    BY <1>1, <1>2, <1>3

-----------------------------------------------------------------------------

(* What the services keep. Of a podcast (PodcastQueue), what the host said  *)
(* of an episode with no refresh of its feed under way outlasts the          *)
(* refreshes to come, and a tag that came with the feed held is the one      *)
(* sent. A caller of send() (HttpClient) is handed one whole answer as long  *)
(* as no form was freed by another's send, and one that ran alone is         *)
(* cancelled by its own token only. No lookup (MusicBrainz) is answered from *)
(* another's body or from an old one. The words said during a refresh, the   *)
(* cancellation of sends that overlap, what follows a form freed twice and   *)
(* the rate of the lookups are not covered.                                  *)
THEOREM ServicesAreKept == Spec => []ServicesKept
  <1> DEFINE Inv == /\ machine = "Podcast" => Podcast!QueueInv
                    /\ machine = "Http" => Http!HttpInv
                    /\ machine = "Brainz" => Brainz!LookupInv
  <1>1. Init => Inv
    <2>1. Init => /\ machine = "Podcast" => Podcast!Init
                  /\ machine = "Http" => Http!Init
                  /\ machine = "Brainz" => Brainz!Init
      BY DEF Init, InitPodcast, InitCodes, InitSession, InitChain, InitLifecycle, InitIpc, InitHttp,
             InitPainted, InitBrainz, InitPipe, InitEqualizer, InitLibrary
    <2>2. Http!Init => Http!HttpInv
      <3> SUFFICES ASSUME Http!Init PROVE Http!HttpInv
        OBVIOUS
      <3>1. Http!TypeOK
        <4>1. Http!NoAnswer \in [hop : Nat, status : {0, 200, 301}, headers : Seq(Nat)]
          <5>1. <<>> \in Seq(Nat)
            OBVIOUS
          <5> QED
            BY <5>1 DEF Http!NoAnswer
        <4> QED
          BY <4>1, ZenonT(30) DEF Http!Init, Http!TypeOK
      <3>2. Http!TransferInv
        BY HttpAssumption DEF Http!Init, Http!TransferInv, Http!NoAnswer
      <3>3. Http!ClientInv /\ Http!RequestsHold
        BY DEF Http!Init, Http!ClientInv, Http!RequestsHold, Http!NoAnswer, Http!Busy
      <3> QED
        BY <3>1, <3>2, <3>3 DEF Http!HttpInv
    <2> QED
      BY <2>1, <2>2, QueueInductive, LookupInductive
  <1>2. Inv /\ [Next]_vars => Inv'
    BY ServiceSteps, HttpInductive, QueueInductive, LookupInductive
  <1>3. Inv => ServicesKept
    BY DEF ServicesKept, Podcast!QueueInv, Http!HttpInv, Brainz!LookupInv
  <1> QED
    BY <1>1, <1>2, <1>3, PTL DEF Spec
===============================================================================
