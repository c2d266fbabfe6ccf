------------------------- MODULE ScrobbleQueueProofs -------------------------
(***************************************************************************)
(* Proofs about the scrobbler, for any listens, services and sources, any  *)
(* number of crashes and of lost answers.                                  *)
(***************************************************************************)
EXTENDS ScrobbleQueue, FiniteSetTheorems, SequenceTheorems, TLAPS

-----------------------------------------------------------------------------
(* Sequences without repetition                                            *)

Distinct(s) == \A i, j \in 1..Len(s) : i # j => s[i] # s[j]

(* A row is put at the end.                                                *)
LEMMA AppendRow ==
    ASSUME NEW S, NEW s \in Seq(S), NEW x \in S
    PROVE  /\ Append(s, x) \in Seq(S)
           /\ ToSet(Append(s, x)) = ToSet(s) \cup {x}
           /\ Distinct(s) /\ x \notin ToSet(s) => Distinct(Append(s, x))
           /\ \A i \in 1..Len(s) : Append(s, x)[i] = s[i]
           /\ Len(Append(s, x)) = Len(s) + 1
  <1>1. /\ Append(s, x) \in Seq(S)
        /\ Len(Append(s, x)) = Len(s) + 1
        /\ \A i \in 1..Len(s) : Append(s, x)[i] = s[i]
        /\ Append(s, x)[Len(s) + 1] = x
    OBVIOUS
  <1>2. DOMAIN s = 1..Len(s) /\ DOMAIN Append(s, x) = 1..(Len(s) + 1)
    BY <1>1
  <1>3. ToSet(Append(s, x)) = ToSet(s) \cup {x}
    BY <1>1, <1>2 DEF ToSet
  <1>4. Distinct(s) /\ x \notin ToSet(s) => Distinct(Append(s, x))
    BY <1>1, <1>2 DEF ToSet, Distinct
  <1> QED
    BY <1>1, <1>3, <1>4

(* The first item is taken.                                                *)
LEMMA TakeFirst ==
    ASSUME NEW S, NEW s \in Seq(S), s # <<>>
    PROVE  /\ Head(s) \in S /\ Tail(s) \in Seq(S)
           /\ ToSet(s) = ToSet(Tail(s)) \cup {Head(s)}
           /\ Distinct(s) => Distinct(Tail(s)) /\ Head(s) \notin ToSet(Tail(s))
  <1>1. /\ Len(s) \in Nat \ {0} /\ Tail(s) \in Seq(S) /\ Len(Tail(s)) = Len(s) - 1
        /\ \A i \in 1..Len(s) - 1 : Tail(s)[i] = s[i + 1]
        /\ Head(s) = s[1] /\ Head(s) \in S
    OBVIOUS
  <1>2. DOMAIN s = 1..Len(s) /\ DOMAIN Tail(s) = 1..Len(s) - 1
    BY <1>1
  <1>3. \A i \in 1..Len(s) : i = 1 \/ (i - 1 \in 1..Len(s) - 1 /\ s[i] = Tail(s)[i - 1])
    BY <1>1
  <1>4. \A i \in 1..Len(s) - 1 : i + 1 \in 1..Len(s) /\ i + 1 # 1
    BY <1>1
  <1>5. ToSet(s) = ToSet(Tail(s)) \cup {Head(s)}
    <2>1. ASSUME NEW x \in ToSet(s) PROVE x \in ToSet(Tail(s)) \cup {Head(s)}
      <3>1. PICK i \in 1..Len(s) : x = s[i]
        BY <1>2, <2>1 DEF ToSet
      <3>2. CASE i = 1
        BY <1>1, <3>1, <3>2
      <3>3. CASE i # 1
        BY <1>2, <1>3, <3>1, <3>3 DEF ToSet
      <3> QED
        BY <3>2, <3>3
    <2>2. ASSUME NEW x \in ToSet(Tail(s)) PROVE x \in ToSet(s)
      <3>1. PICK i \in 1..Len(s) - 1 : x = Tail(s)[i]
        BY <1>2, <2>2 DEF ToSet
      <3>2. i + 1 \in 1..Len(s) /\ x = s[i + 1]
        BY <1>1, <1>4, <3>1
      <3> QED
        BY <1>2, <3>2 DEF ToSet
    <2>3. Head(s) \in ToSet(s)
      BY <1>1, <1>2 DEF ToSet
    <2> QED
      BY <2>1, <2>2, <2>3
  <1>6. ASSUME Distinct(s)
        PROVE  Distinct(Tail(s)) /\ Head(s) \notin ToSet(Tail(s))
    BY <1>1, <1>2, <1>4, <1>6 DEF ToSet, Distinct
  <1> QED
    BY <1>1, <1>5, <1>6

Prefix(p, s) == Len(p) <= Len(s) /\ \A i \in 1..Len(p) : s[i] = p[i]

(* What is left once the rows that were read are deleted.                  *)
LEMMA DropPrefix ==
    ASSUME NEW S, NEW s \in Seq(S), NEW p \in Seq(S), Prefix(p, s), Distinct(s)
    PROVE  LET rest == SubSeq(s, Len(p) + 1, Len(s))
           IN  /\ rest \in Seq(S) /\ Distinct(rest) /\ Distinct(p)
               /\ ToSet(rest) \cup ToSet(p) = ToSet(s)
               /\ ToSet(rest) \cap ToSet(p) = {}
  <1> DEFINE rest == SubSeq(s, Len(p) + 1, Len(s))
             n == Len(s) - Len(p)
  <1>1. /\ Len(p) \in Nat /\ Len(s) \in Nat /\ Len(p) <= Len(s) /\ n \in Nat
        /\ \A i \in 1..Len(p) : s[i] = p[i]
        /\ DOMAIN s = 1..Len(s) /\ DOMAIN p = 1..Len(p)
    BY DEF Prefix
  <1>2. /\ rest \in Seq(S) /\ Len(rest) = n /\ DOMAIN rest = 1..n
        /\ \A i \in 1..n : rest[i] = s[Len(p) + i]
    <2>1. /\ Len(p) + 1 \in Int /\ Len(s) \in Int
          /\ \A i \in Len(p) + 1 .. Len(s) : s[i] \in S
      BY <1>1
    <2>2. /\ rest \in Seq(S)
          /\ Len(rest) = IF Len(p) + 1 <= Len(s) THEN Len(s) - (Len(p) + 1) + 1 ELSE 0
          /\ \A i \in 1 .. Len(s) - (Len(p) + 1) + 1 : rest[i] = s[(Len(p) + 1) + i - 1]
      BY <2>1, SubSeqProperties
    <2>3. Len(p) + 1 <= Len(s) => Len(s) - (Len(p) + 1) + 1 = n
      BY <1>1
    <2>4. Len(p) + 1 <= Len(s) \/ n = 0
      <3>1. Len(p) \in Nat /\ Len(s) \in Nat /\ Len(p) <= Len(s)
        BY <1>1
      <3> QED
        BY <3>1
    <2>5. Len(s) - (Len(p) + 1) + 1 = n /\ \A i \in 1..n : (Len(p) + 1) + i - 1 = Len(p) + i
      BY <1>1
    <2> HIDE DEF rest, n
    <2> QED
      BY <2>2, <2>3, <2>4, <2>5
  <1>3. \A i \in 1..n : Len(p) + i \in 1..Len(s) /\ Len(p) + i \notin 1..Len(p)
    BY <1>1
  <1>4. ASSUME NEW i \in 1..Len(s), i \notin 1..Len(p)
        PROVE  i - Len(p) \in 1..n /\ s[i] = rest[i - Len(p)]
    <2>1. i - Len(p) \in 1..n /\ Len(p) + (i - Len(p)) = i
      BY <1>1, <1>4
    <2> QED
      BY <1>2, <2>1
  <1>5. Distinct(p)
    BY <1>1 DEF Distinct
  <1>6. Distinct(rest)
    <2> SUFFICES ASSUME NEW i \in 1..n, NEW j \in 1..n, i # j PROVE rest[i] # rest[j]
      BY <1>2 DEF Distinct
    <2>1. Len(p) + i \in 1..Len(s) /\ Len(p) + j \in 1..Len(s) /\ Len(p) + i # Len(p) + j
      BY <1>1, <1>3
    <2> QED
      BY <1>2, <2>1 DEF Distinct
  <1>7. ToSet(rest) \cup ToSet(p) = ToSet(s)
    <2>1. ASSUME NEW x \in ToSet(s) PROVE x \in ToSet(rest) \cup ToSet(p)
      <3>1. PICK i \in 1..Len(s) : x = s[i]
        BY <1>1 DEF ToSet
      <3>2. CASE i \in 1..Len(p)
        BY <1>1, <3>1, <3>2 DEF ToSet
      <3>3. CASE i \notin 1..Len(p)
        BY <1>2, <1>4, <3>1, <3>3 DEF ToSet
      <3> QED
        BY <3>2, <3>3
    <2>2. ASSUME NEW x \in ToSet(p) PROVE x \in ToSet(s)
      <3>1. PICK i \in 1..Len(p) : x = p[i]
        BY <1>1 DEF ToSet
      <3>2. i \in 1..Len(s) /\ x = s[i]
        BY <1>1, <3>1 DEF Prefix
      <3> QED
        BY <1>1, <3>2 DEF ToSet
    <2>3. ASSUME NEW x \in ToSet(rest) PROVE x \in ToSet(s)
      <3>1. PICK i \in 1..n : x = rest[i]
        BY <1>2 DEF ToSet
      <3> QED
        BY <1>1, <1>2, <1>3, <3>1, ZenonT(30) DEF ToSet
    <2> QED
      BY <2>1, <2>2, <2>3
  <1>8. ToSet(rest) \cap ToSet(p) = {}
    <2> SUFFICES ASSUME NEW x \in ToSet(rest), x \in ToSet(p) PROVE FALSE
      OBVIOUS
    <2>1. PICK i \in 1..n : x = rest[i]
      BY <1>2 DEF ToSet
    <2>2. PICK j \in 1..Len(p) : x = p[j]
      BY <1>1 DEF ToSet
    <2>3. j \in 1..Len(s) /\ s[j] = x /\ s[Len(p) + i] = x /\ Len(p) + i # j
      <3>1. s[j] = x /\ s[Len(p) + i] = x
        BY <1>1, <1>2, <2>1, <2>2, ZenonT(30)
      <3>2. j \in 1..Len(s) /\ Len(p) + i # j
        BY <1>1, <1>3, <2>2 DEF Prefix
      <3> QED
        BY <3>1, <3>2
    <2>4. Len(p) + i \in 1..Len(s)
      BY <1>3
    <2> QED
      BY <2>3, <2>4 DEF Distinct
  <1> QED
    BY <1>2, <1>5, <1>6, <1>7, <1>8

(* A sequence without repetition is as long as its set of items is large.  *)
LEMMA DistinctCount ==
    ASSUME NEW S, NEW s \in Seq(S), Distinct(s)
    PROVE  Cardinality(ToSet(s)) = Len(s)
  <1>1. Len(s) \in Nat /\ DOMAIN s = 1..Len(s) /\ s = [i \in 1..Len(s) |-> s[i]]
    OBVIOUS
  <1>2. s \in Bijection(1..Len(s), ToSet(s))
    BY <1>1 DEF Distinct, ToSet, Bijection, Injection, Surjection, IsInjective
  <1>3. ExistsBijection(1..Len(s), ToSet(s))
    BY <1>2 DEF ExistsBijection
  <1>4. IsFiniteSet(1..Len(s)) /\ Cardinality(1..Len(s)) = Len(s)
    <2>1. 1 \in Int /\ Len(s) \in Int
      BY <1>1
    <2>2. /\ IsFiniteSet(1..Len(s))
          /\ Cardinality(1..Len(s)) = IF 1 > Len(s) THEN 0 ELSE Len(s) - 1 + 1
      BY <2>1, FS_Interval
    <2> QED
      BY <1>1, <2>2
  <1>5. Cardinality(ToSet(s)) = Cardinality(1..Len(s))
    BY <1>3, <1>4, FS_Bijection
  <1> QED
    BY <1>4, <1>5

-----------------------------------------------------------------------------
(* The invariant                                                           *)

Holding == {"commit", "item", "send", "answered"}

(* Rows, and counts that only grow.                                        *)
TypeOK ==
    /\ queue \in Seq(Listen) /\ committed \in Seq(Listen) /\ batch \in Seq(Listen)
    /\ inTxn \in BOOLEAN
    /\ pc \in {"idle", "begin", "delete"} \cup Holding
    /\ loggedIn \subseteq Service /\ submitted \subseteq Listen
    /\ accepted \in [Listen -> Nat] /\ unanswered \in [Listen -> Nat]
    /\ lateSends \in [Service -> Nat]

(* Where flush() is tells what is in its hands and on the disk.            *)
PlaceInv ==
    /\ pc = "idle" => batch = <<>>
    /\ pc \in {"send", "answered"} => batch # <<>>
    /\ pc \in {"delete", "commit"} => inTxn
    /\ pc \notin {"delete", "commit"} => ~inTxn /\ committed = queue

(* No row is twice in the table or in the batch, nor in both.              *)
RowsInv ==
    /\ Distinct(queue) /\ Distinct(batch) /\ Distinct(committed)
    /\ pc \in {"begin", "delete"} => Prefix(batch, queue)
    /\ pc \in Holding => ToSet(batch) \cap ToSet(queue) = {}
    /\ ToSet(queue) \cup ToSet(batch) \cup ToSet(committed) \subseteq submitted

(* What a service has taken and confirmed is nowhere any more, but for the *)
(* item whose answer has just come in.                                     *)
JustTaken(l) == pc = "answered" /\ answer = "2xx" /\ l = Head(batch)
TakenInv ==
    /\ \A l \in Listen : accepted[l] <= 1 + unanswered[l]
    /\ \A l \in ToSet(queue) \cup ToSet(batch) \cup ToSet(committed) :
            accepted[l] <= unanswered[l] \/ JustTaken(l)
    /\ \A l \in Listen \ submitted : accepted[l] = 0
    /\ pc = "answered" /\ answer = "2xx" => accepted[Head(batch)] > 0

(* A request leaves late at most once: its service was logged in when the  *)
(* credentials were read.                                                  *)
LateInv ==
    \A s \in Service :
        /\ s \in loggedIn => lateSends[s] = 0
        /\ lateSends[s] <= 1
        /\ pc = "send" /\ ItemSource = s => lateSends[s] = 0

(* The inductive invariant.                                                *)
ScrobbleInv == TypeOK /\ PlaceInv /\ RowsInv /\ TakenInv /\ NoOtherLoss /\ LateInv

(* A row enters the table, and with no transaction open the disk.          *)
LEMMA EnqueueRow ==
    ASSUME TypeOK, PlaceInv, RowsInv, NEW x \in Listen, x \notin ToSet(queue), Enqueue(x)
    PROVE  /\ queue' \in Seq(Listen) /\ committed' \in Seq(Listen) /\ inTxn' = inTxn
           /\ ToSet(queue') = ToSet(queue) \cup {x}
           /\ Distinct(queue') /\ Distinct(committed')
           /\ ToSet(committed') \subseteq ToSet(committed) \cup {x}
           /\ pc \in {"delete", "commit"} \/ committed' = queue'
           /\ Prefix(batch, queue) => Prefix(batch, queue')
  <1>1. /\ queue' = Append(queue, x) /\ inTxn' = inTxn
        /\ committed' = committed \/ (committed' = queue' /\ ~inTxn)
        /\ inTxn \/ committed' = queue'
    BY DEF Enqueue, TypeOK
  <1>2. /\ queue' \in Seq(Listen) /\ ToSet(queue') = ToSet(queue) \cup {x}
        /\ Distinct(queue') /\ Len(queue') = Len(queue) + 1
        /\ \A i \in 1..Len(queue) : queue'[i] = queue[i]
    BY <1>1, AppendRow DEF TypeOK, RowsInv
  <1>3. committed' \in Seq(Listen) /\ Distinct(committed')
    BY <1>1, <1>2 DEF TypeOK, RowsInv
  <1>4. pc \in {"delete", "commit"} \/ (committed' = queue' /\ committed = queue)
    BY <1>1 DEF PlaceInv
  <1>5. ToSet(committed') \subseteq ToSet(committed) \cup {x}
    <2>1. CASE committed' = committed
      BY <2>1
    <2>2. CASE committed' = queue' /\ ~inTxn
      <3>2. CASE committed = queue
        BY <1>2, <2>2, <3>2
      <3>3. CASE pc \in {"delete", "commit"} /\ committed # queue
        BY <2>2, <3>3, <1>1 DEF PlaceInv
      <3> QED
        BY <1>4, <3>2, <3>3
    <2> QED
      BY <1>1, <2>1, <2>2
  <1>6. Prefix(batch, queue) => Prefix(batch, queue')
    BY <1>2 DEF Prefix, TypeOK
  <1> QED
    BY <1>1, <1>2, <1>3, <1>4, <1>5, <1>6

(* flush() goes on to the next item.                                       *)
LEMMA ItemDone ==
    ASSUME TypeOK, RowsInv, batch # <<>>, NextItem
    PROVE  /\ Head(batch) \in Listen /\ batch' \in Seq(Listen) /\ Distinct(batch')
           /\ ToSet(batch) = ToSet(batch') \cup {Head(batch)}
           /\ Head(batch) \notin ToSet(batch')
           /\ pc' = "item" /\ answer' = "none"
  BY TakeFirst DEF TypeOK, RowsInv, NextItem

(* submit() only appends a row that no service knows.                      *)
LEMMA SubmitKeeps ==
    ASSUME ScrobbleInv, NEW l \in Listen, Submit(l)
    PROVE  ScrobbleInv'
  <1> USE DEF ScrobbleInv
  <1>1. /\ l \notin submitted /\ submitted' = submitted \cup {l} /\ Enqueue(l)
        /\ UNCHANGED <<flushVars, envVars, accepted, unanswered, dropped, lost, lateSends, crashes>>
    BY DEF Submit
  <1> USE DEF flushVars, envVars
  <1>2. l \notin ToSet(queue) \cup ToSet(batch) \cup ToSet(committed)
    BY <1>1 DEF RowsInv
  <1>3. /\ queue' \in Seq(Listen) /\ committed' \in Seq(Listen) /\ inTxn' = inTxn
        /\ ToSet(queue') = ToSet(queue) \cup {l}
        /\ Distinct(queue') /\ Distinct(committed')
        /\ ToSet(committed') \subseteq ToSet(committed) \cup {l}
        /\ pc \in {"delete", "commit"} \/ committed' = queue'
        /\ Prefix(batch, queue) => Prefix(batch, queue')
    BY <1>1, <1>2, EnqueueRow
  <1>4. TypeOK'
    BY <1>1, <1>3 DEF TypeOK
  <1>5. PlaceInv'
    BY <1>1, <1>3 DEF PlaceInv
  <1>6. RowsInv'
    BY <1>1, <1>2, <1>3 DEF RowsInv
  <1>7. TakenInv'
    <2>1. accepted[l] = 0 /\ unanswered[l] \in Nat
      BY <1>1 DEF TakenInv, TypeOK
    <2> QED
      BY <1>1, <1>3, <2>1 DEF TakenInv, JustTaken
  <1>8. NoOtherLoss'
    BY <1>1, <1>3 DEF NoOtherLoss, InFlight
  <1>9. LateInv'
    BY <1>1 DEF LateInv, ItemSource
  <1> QED
    BY <1>4, <1>5, <1>6, <1>7, <1>8, <1>9

(* drain() moves the rows from the table to the hands of flush().          *)
LEMMA DrainKeeps ==
    ASSUME ScrobbleInv, Select \/ BeginDelete \/ DeleteSelected \/ Commit
    PROVE  ScrobbleInv'
  <1> USE DEF ScrobbleInv
  <1>1. CASE Select
    <2>1. /\ pc = "idle" /\ batch' = queue /\ pc' = "begin"
          /\ UNCHANGED <<storeVars, token, answer, envVars, history>>
      BY <1>1 DEF Select
    <2> USE DEF storeVars, envVars, history
    <2>2. TypeOK' /\ PlaceInv'
      BY <2>1 DEF TypeOK, PlaceInv
    <2>3. RowsInv'
      <3>1. Prefix(queue, queue)
        BY DEF Prefix, TypeOK
      <3> QED
        BY <2>1, <3>1 DEF RowsInv, Holding
    <2>4. TakenInv'
      BY <2>1 DEF TakenInv, JustTaken
    <2>5. NoOtherLoss'
      BY <2>1 DEF NoOtherLoss, InFlight
    <2>6. LateInv'
      BY <2>1 DEF LateInv, ItemSource
    <2> QED
      BY <2>2, <2>3, <2>4, <2>5, <2>6
  <1>2. CASE BeginDelete
    <2>1. /\ pc = "begin" /\ inTxn' = TRUE /\ pc' = "delete"
          /\ UNCHANGED <<queue, committed, batch, token, answer, envVars, history>>
      BY <1>2 DEF BeginDelete
    <2> USE DEF envVars, history
    <2>2. TypeOK' /\ PlaceInv'
      BY <2>1 DEF TypeOK, PlaceInv
    <2>3. RowsInv'
      BY <2>1 DEF RowsInv, Holding
    <2>4. TakenInv'
      BY <2>1 DEF TakenInv, JustTaken
    <2>5. NoOtherLoss'
      BY <2>1 DEF NoOtherLoss, InFlight
    <2>6. LateInv'
      BY <2>1 DEF LateInv, ItemSource
    <2> QED
      BY <2>2, <2>3, <2>4, <2>5, <2>6
  <1>3. CASE DeleteSelected
    <2>1. /\ pc = "delete" /\ pc' = "commit"
          /\ queue' = SubSeq(queue, Len(batch) + 1, Len(queue))
          /\ UNCHANGED <<committed, inTxn, batch, token, answer, envVars, history>>
      BY <1>3 DEF DeleteSelected
    <2> USE DEF envVars, history
    <2>2. Prefix(batch, queue) /\ Distinct(queue)
      BY <2>1 DEF RowsInv
    <2>3. /\ queue' \in Seq(Listen) /\ Distinct(queue')
          /\ ToSet(queue') \cup ToSet(batch) = ToSet(queue)
          /\ ToSet(queue') \cap ToSet(batch) = {}
      BY <2>1, <2>2, DropPrefix DEF TypeOK
    <2>4. TypeOK' /\ PlaceInv'
      BY <2>1, <2>3 DEF TypeOK, PlaceInv, Holding
    <2>5. RowsInv'
      BY <2>1, <2>3 DEF RowsInv
    <2>6. TakenInv'
      BY <2>1, <2>3 DEF TakenInv, JustTaken
    <2>7. NoOtherLoss'
      BY <2>1, <2>3 DEF NoOtherLoss, InFlight
    <2>8. LateInv'
      BY <2>1 DEF LateInv, ItemSource
    <2> QED
      BY <2>4, <2>5, <2>6, <2>7, <2>8
  <1>4. CASE Commit
    <2>1. /\ pc = "commit" /\ committed' = queue /\ inTxn' = FALSE /\ pc' = "item"
          /\ UNCHANGED <<queue, batch, token, answer, envVars, history>>
      BY <1>4 DEF Commit
    <2> USE DEF envVars, history
    <2>2. TypeOK' /\ PlaceInv'
      BY <2>1 DEF TypeOK, PlaceInv, Holding
    <2>3. RowsInv'
      BY <2>1 DEF RowsInv, Holding
    <2>4. TakenInv'
      BY <2>1 DEF TakenInv, JustTaken
    <2>5. NoOtherLoss'
      BY <2>1 DEF NoOtherLoss, InFlight
    <2>6. LateInv'
      BY <2>1 DEF LateInv, ItemSource
    <2> QED
      BY <2>2, <2>3, <2>4, <2>5, <2>6
  <1> QED
    BY <1>1, <1>2, <1>3, <1>4

(* An item is done with: it goes back into the table, or it is dropped for *)
(* its source, or its service has taken it.                                *)
LEMMA ItemKeeps ==
    ASSUME ScrobbleInv,
           SkipUnknownSource \/ RequeueWithoutCredentials \/ ForgetSubmitted \/ RequeueFailed
    PROVE  ScrobbleInv'
  <1> USE DEF ScrobbleInv
  <1> DEFINE l == Head(batch)
  <1>1. /\ batch # <<>> /\ NextItem /\ pc \in {"item", "answered"}
        /\ UNCHANGED <<envVars, submitted, accepted, unanswered, lost, lateSends, crashes>>
    BY DEF SkipUnknownSource, RequeueWithoutCredentials, ForgetSubmitted, RequeueFailed,
           PlaceInv, envVars, history
  <1>2. /\ l \in Listen /\ batch' \in Seq(Listen) /\ Distinct(batch')
        /\ ToSet(batch) = ToSet(batch') \cup {l} /\ l \notin ToSet(batch')
        /\ pc' = "item" /\ answer' = "none"
    BY <1>1, ItemDone
  <1>3. /\ ~inTxn /\ committed = queue /\ ToSet(batch) \cap ToSet(queue) = {}
        /\ l \in submitted
    BY <1>1, <1>2 DEF PlaceInv, RowsInv, Holding
  <1>4. LateInv'
    BY <1>1, <1>2 DEF LateInv, ItemSource, envVars
  <1>5. CASE SkipUnknownSource \/ ForgetSubmitted
    <2>1. /\ UNCHANGED storeVars /\ dropped \subseteq dropped'
          /\ l \in dropped' \/ accepted[l] > 0
      BY <1>5 DEF SkipUnknownSource, ForgetSubmitted, history, TakenInv
    <2> HIDE DEF l
    <2> USE DEF storeVars
    <2>2. TypeOK' /\ PlaceInv'
      BY <1>1, <1>2, <1>3, <2>1 DEF TypeOK, PlaceInv, Holding, envVars
    <2>3. RowsInv'
      BY <1>1, <1>2, <1>3, <2>1 DEF RowsInv, Holding
    <2>4. TakenInv'
      <3>1. \A k \in ToSet(queue) \cup ToSet(batch') : k # l
        BY <1>2, <1>3
      <3>2. \A k \in ToSet(queue) \cup ToSet(batch') : ~JustTaken(k)
        BY <3>1 DEF JustTaken, l
      <3> QED
        BY <1>1, <1>2, <1>3, <2>1, <3>2 DEF TakenInv
    <2>5. NoOtherLoss'
      BY <1>1, <1>2, <2>1 DEF NoOtherLoss, InFlight
    <2> QED
      BY <1>4, <2>2, <2>3, <2>4, <2>5
  <1>6. CASE RequeueWithoutCredentials \/ RequeueFailed
    <2>1. Enqueue(l) /\ dropped' = dropped /\ (pc = "item" \/ answer = "failed")
      BY <1>6 DEF RequeueWithoutCredentials, RequeueFailed, history
    <2> HIDE DEF l
    <2>2. l \notin ToSet(queue)
      BY <1>2, <1>3
    <2>3. /\ queue' \in Seq(Listen) /\ committed' \in Seq(Listen) /\ inTxn' = inTxn
          /\ ToSet(queue') = ToSet(queue) \cup {l}
          /\ Distinct(queue') /\ Distinct(committed') /\ committed' = queue'
      BY <1>1, <1>2, <2>1, <2>2, EnqueueRow
    <2>4. TypeOK' /\ PlaceInv'
      BY <1>1, <1>2, <1>3, <2>3 DEF TypeOK, PlaceInv, Holding, envVars
    <2>5. RowsInv'
      BY <1>1, <1>2, <1>3, <2>3 DEF RowsInv, Holding
    <2>6. TakenInv'
      <3>1. \A k \in Listen : ~JustTaken(k)
        BY <1>1, <2>1 DEF JustTaken
      <3>2. \A k \in ToSet(queue) \cup ToSet(batch) \cup ToSet(committed) :
                accepted[k] <= unanswered[k]
        <4> SUFFICES ASSUME NEW k \in ToSet(queue) \cup ToSet(batch) \cup ToSet(committed)
                     PROVE  accepted[k] <= unanswered[k]
          OBVIOUS
        <4>1. k \in Listen
          BY DEF RowsInv, TypeOK
        <4> QED
          BY <3>1, <4>1 DEF TakenInv
      <3>3. ToSet(queue') \cup ToSet(batch') \cup ToSet(committed')
                \subseteq ToSet(queue) \cup ToSet(batch) \cup ToSet(committed)
        BY <1>2, <2>3
      <3>4. pc' # "answered"
        BY <1>2
      <3> QED
        BY <1>1, <3>2, <3>3, <3>4 DEF TakenInv
    <2>7. NoOtherLoss'
      BY <1>1, <1>2, <2>1, <2>3 DEF NoOtherLoss, InFlight
    <2> QED
      BY <1>4, <2>4, <2>5, <2>6, <2>7
  <1> QED
    BY <1>5, <1>6

(* The request: what the service takes is counted with its answer.         *)
LEMMA SendKeeps ==
    ASSUME ScrobbleInv, LoadCredentials \/ Send \/ FlushReturns
    PROVE  ScrobbleInv'
  <1> USE DEF ScrobbleInv
  <1>1. CASE LoadCredentials
    <2>1. /\ pc = "item" /\ batch # <<>> /\ pc' = "send" /\ ItemSource \in loggedIn
          /\ UNCHANGED <<storeVars, batch, answer, envVars, history>>
      BY <1>1 DEF LoadCredentials
    <2> USE DEF storeVars, envVars, history
    <2>2. TypeOK' /\ PlaceInv'
      BY <2>1 DEF TypeOK, PlaceInv, Holding
    <2>3. RowsInv'
      BY <2>1 DEF RowsInv, Holding
    <2>4. TakenInv'
      BY <2>1 DEF TakenInv, JustTaken
    <2>5. NoOtherLoss'
      BY <2>1 DEF NoOtherLoss, InFlight
    <2>6. LateInv'
      BY <2>1 DEF LateInv, ItemSource
    <2> QED
      BY <2>2, <2>3, <2>4, <2>5, <2>6
  <1>2. CASE FlushReturns
    <2>1. /\ pc = "item" /\ batch = <<>> /\ pc' = "idle"
          /\ UNCHANGED <<storeVars, batch, token, answer, envVars, history>>
      BY <1>2 DEF FlushReturns
    <2> USE DEF storeVars, envVars, history
    <2>2. TypeOK' /\ PlaceInv'
      BY <2>1 DEF TypeOK, PlaceInv, Holding
    <2>3. RowsInv'
      BY <2>1 DEF RowsInv, Holding
    <2>4. TakenInv'
      BY <2>1 DEF TakenInv, JustTaken
    <2>5. NoOtherLoss'
      BY <2>1 DEF NoOtherLoss, InFlight, ToSet
    <2>6. LateInv'
      BY <2>1 DEF LateInv, ItemSource
    <2> QED
      BY <2>2, <2>3, <2>4, <2>5, <2>6
  <1>3. CASE Send
    <2> DEFINE l == Head(batch)
    <2>1. /\ pc = "send" /\ pc' = "answered" /\ answer' \in {"2xx", "failed"}
          /\ UNCHANGED <<storeVars, batch, token, envVars, submitted, dropped, lost, crashes>>
      BY <1>3 DEF Send
    <2> USE DEF storeVars, envVars
    <2>2. \/ /\ accepted' = [accepted EXCEPT ![l] = @ + 1]
             /\ answer' = "2xx" /\ unanswered' = unanswered
          \/ /\ accepted' = [accepted EXCEPT ![l] = @ + 1]
             /\ answer' = "failed" /\ unanswered' = [unanswered EXCEPT ![l] = @ + 1]
          \/ answer' = "failed" /\ accepted' = accepted /\ unanswered' = unanswered
      BY <1>3 DEF Send
    <2>3. lateSends' = IF ItemSource \in loggedIn THEN lateSends
                       ELSE [lateSends EXCEPT ![ItemSource] = @ + 1]
      BY <1>3 DEF Send
    <2>4. l \in Listen /\ l \in ToSet(batch) /\ l \in submitted
      BY <2>1, TakeFirst DEF PlaceInv, RowsInv, TypeOK
    <2>5. accepted[l] \in Nat /\ unanswered[l] \in Nat /\ accepted[l] <= unanswered[l]
      BY <2>1, <2>4 DEF TakenInv, JustTaken, TypeOK
    <2>6. LateInv'
      <3>1. lateSends \in [Service -> Nat] /\ batch' = batch /\ loggedIn' = loggedIn
        BY <2>1 DEF TypeOK
      <3> QED
        BY <2>1, <2>3, <3>1 DEF LateInv
    <2>7. lateSends' \in [Service -> Nat]
      <3>1. lateSends \in [Service -> Nat]
        BY DEF TypeOK
      <3>2. CASE ItemSource \in Service
        BY <2>3, <3>1, <3>2
      <3>3. CASE ItemSource \notin Service
        BY <2>3, <3>1, <3>3
      <3> QED
        BY <3>2, <3>3
    <2> HIDE DEF l
    <2>8. accepted' \in [Listen -> Nat] /\ unanswered' \in [Listen -> Nat]
      <3>1. accepted \in [Listen -> Nat] /\ unanswered \in [Listen -> Nat]
        BY DEF TypeOK
      <3>2. /\ [accepted EXCEPT ![l] = @ + 1] \in [Listen -> Nat]
            /\ [unanswered EXCEPT ![l] = @ + 1] \in [Listen -> Nat]
        BY <2>4, <3>1
      <3> QED
        BY <2>2, <3>1, <3>2
    <2>9. /\ \A k \in Listen \ {l} : accepted'[k] = accepted[k] /\ unanswered'[k] = unanswered[k]
          /\ answer' = "2xx" => accepted'[l] > 0
          /\ answer' = "failed" => accepted'[l] <= unanswered'[l]
          /\ accepted'[l] <= 1 + unanswered'[l]
          /\ accepted'[l] >= accepted[l]
      BY <2>2, <2>4, <2>5 DEF TypeOK
    <2>10. TypeOK' /\ PlaceInv'
      BY <2>1, <2>7, <2>8 DEF TypeOK, PlaceInv, Holding
    <2>11. RowsInv'
      BY <2>1 DEF RowsInv, Holding
    <2>12. TakenInv'
      <3>1. \A k \in Listen : ~JustTaken(k)
        BY <2>1 DEF JustTaken
      <3>2. l = Head(batch') /\ (answer' = "2xx" => JustTaken(l)')
        BY <2>1 DEF JustTaken, l
      <3>3. \A k \in Listen : accepted'[k] <= 1 + unanswered'[k]
        BY <2>9 DEF TakenInv
      <3>4. \A k \in ToSet(queue') \cup ToSet(batch') \cup ToSet(committed') :
                accepted'[k] <= unanswered'[k] \/ JustTaken(k)'
        <4> SUFFICES ASSUME NEW k \in ToSet(queue') \cup ToSet(batch') \cup ToSet(committed')
                     PROVE  accepted'[k] <= unanswered'[k] \/ JustTaken(k)'
          OBVIOUS
        <4>1. k \in submitted /\ k \in Listen
          BY <2>1 DEF RowsInv, TypeOK
        <4>2. CASE k = l
          BY <2>1, <2>9, <3>2, <4>2 DEF JustTaken
        <4>3. CASE k # l
          BY <2>1, <2>9, <3>1, <4>1, <4>3 DEF TakenInv
        <4> QED
          BY <4>2, <4>3
      <3>5. \A k \in Listen \ submitted' : accepted'[k] = 0
        BY <2>1, <2>4, <2>9 DEF TakenInv
      <3>6. pc' = "answered" /\ answer' = "2xx" => accepted'[Head(batch')] > 0
        BY <2>9, <3>2
      <3> QED
        BY <3>3, <3>4, <3>5, <3>6 DEF TakenInv
    <2>13. NoOtherLoss'
      <3> SUFFICES ASSUME NEW k \in submitted
                   PROVE  \/ k \in ToSet(queue') \cup InFlight'
                          \/ accepted'[k] > 0 \/ k \in dropped' \/ k \in lost'
        BY <2>1 DEF NoOtherLoss
      <3>1. queue' = queue /\ dropped' = dropped /\ lost' = lost /\ InFlight' = InFlight
        BY <2>1 DEF InFlight
      <3>2. accepted[k] > 0 => accepted'[k] > 0
        <4>1. k \in Listen /\ accepted[k] \in Nat /\ accepted'[k] \in Nat
          BY <2>8 DEF TypeOK
        <4>2. CASE k = l
          BY <2>9, <4>1, <4>2
        <4>3. CASE k # l
          BY <2>9, <4>1, <4>3
        <4> QED
          BY <4>2, <4>3
      <3> QED
        BY <3>1, <3>2 DEF NoOtherLoss
    <2> QED
      BY <2>6, <2>10, <2>11, <2>12, <2>13
  <1> QED
    BY <1>1, <1>2, <1>3

(* The user, the network, and a crash.                                     *)
LEMMA OutsideKeeps ==
    ASSUME ScrobbleInv,
           (\E s \in Service : LogIn(s) \/ LogOut(s)) \/ NetworkChanges \/ Crash
               \/ UNCHANGED vars
    PROVE  ScrobbleInv'
  <1> USE DEF ScrobbleInv
  <1>1. CASE (\E s \in Service : LogIn(s) \/ LogOut(s)) \/ NetworkChanges \/ UNCHANGED vars
    <2>1. UNCHANGED <<storeVars, flushVars, submitted, accepted, unanswered, dropped, lost>>
      BY <1>1 DEF LogIn, LogOut, NetworkChanges, vars, history
    <2>2. loggedIn' \subseteq Service /\ lateSends' \in [Service -> Nat] /\ LateInv'
      <3>1. CASE \E s \in Service : LogIn(s)
        <4>1. PICK s \in Service : LogIn(s)
          BY <3>1
        <4>2. /\ loggedIn' = loggedIn \cup {s} /\ lateSends' = [lateSends EXCEPT ![s] = 0]
              /\ ItemSource' = ItemSource /\ pc' = pc
          BY <4>1, <2>1 DEF LogIn, ItemSource, flushVars
        <4> QED
          BY <4>2 DEF TypeOK, LateInv
      <3>2. CASE (\E s \in Service : LogOut(s)) \/ NetworkChanges \/ UNCHANGED vars
        <4>1. /\ loggedIn' \subseteq loggedIn /\ lateSends' = lateSends
              /\ ItemSource' = ItemSource /\ pc' = pc
          BY <3>2, <2>1 DEF LogOut, NetworkChanges, vars, history, ItemSource, flushVars, envVars
        <4> QED
          BY <4>1 DEF TypeOK, LateInv
      <3> QED
        BY <1>1, <3>1, <3>2
    <2> USE DEF storeVars, flushVars
    <2>3. TypeOK' /\ PlaceInv'
      BY <2>1, <2>2 DEF TypeOK, PlaceInv
    <2>4. RowsInv'
      BY <2>1 DEF RowsInv
    <2>5. TakenInv'
      BY <2>1 DEF TakenInv, JustTaken
    <2>6. NoOtherLoss'
      BY <2>1 DEF NoOtherLoss, InFlight
    <2> QED
      BY <2>2, <2>3, <2>4, <2>5, <2>6
  <1>2. CASE Crash
    <2>1. /\ lost' = lost \cup ((ToSet(queue) \cup ToSet(batch)) \ ToSet(committed))
          /\ queue' = committed /\ committed' = committed /\ inTxn' = FALSE
          /\ pc' = "idle" /\ batch' = <<>>
          /\ UNCHANGED <<envVars, submitted, accepted, unanswered, dropped, lateSends>>
      BY <1>2 DEF Crash
    <2> USE DEF envVars
    <2>2. TypeOK' /\ PlaceInv'
      <3>1. <<>> \in Seq(Listen)
        OBVIOUS
      <3>2. TypeOK'
        BY <2>1, <3>1 DEF TypeOK
      <3>3. PlaceInv'
        BY <2>1 DEF PlaceInv
      <3> QED
        BY <3>2, <3>3
    <2>3. ToSet(batch') = {} /\ Distinct(batch')
      BY <2>1 DEF ToSet, Distinct
    <2>4. RowsInv'
      BY <2>1, <2>3 DEF RowsInv, Holding
    <2>5. TakenInv'
      <3>1. \A k \in ToSet(committed) : accepted[k] <= unanswered[k]
        <4>1. CASE pc = "answered"
          <5>1. ToSet(batch) \cap ToSet(committed) = {} /\ Head(batch) \in ToSet(batch)
            BY <4>1, TakeFirst DEF PlaceInv, RowsInv, TypeOK, Holding
          <5> QED
            BY <5>1 DEF TakenInv, JustTaken
        <4>2. CASE pc # "answered"
          BY <4>2 DEF TakenInv, JustTaken
        <4> QED
          BY <4>1, <4>2
      <3> QED
        BY <2>1, <2>3, <3>1 DEF TakenInv, JustTaken
    <2>6. NoOtherLoss'
      <3>1. InFlight \subseteq ToSet(batch)
        BY DEF InFlight
      <3> QED
        BY <2>1, <3>1 DEF NoOtherLoss, InFlight
    <2>7. LateInv'
      BY <2>1 DEF LateInv
    <2> QED
      BY <2>2, <2>4, <2>5, <2>6, <2>7
  <1> QED
    BY <1>1, <1>2

LEMMA ScrobbleInductive == ScrobbleInv /\ [Next]_vars => ScrobbleInv'
  <1> SUFFICES ASSUME ScrobbleInv, [Next]_vars PROVE ScrobbleInv'
    OBVIOUS
  <1>1. CASE \E l \in Listen : Submit(l)
    BY <1>1, SubmitKeeps
  <1>2. CASE FlushStep
    BY <1>2, DrainKeeps, ItemKeeps, SendKeeps DEF FlushStep
  <1>3. CASE (\E s \in Service : LogIn(s) \/ LogOut(s)) \/ NetworkChanges \/ Crash
             \/ UNCHANGED vars
    BY <1>3, OutsideKeeps
  <1> QED
    BY <1>1, <1>2, <1>3 DEF Next

LEMMA ScrobbleStarts == Init => ScrobbleInv
  <1> SUFFICES ASSUME Init PROVE ScrobbleInv
    OBVIOUS
  <1> USE DEF Init
  <1>1. <<>> \in Seq(Listen)
    OBVIOUS
  <1>5. TypeOK
    BY <1>1 DEF TypeOK
  <1>6. PlaceInv
    BY DEF PlaceInv
  <1>2. ToSet(<<>>) = {} /\ Distinct(<<>>)
    BY DEF ToSet, Distinct
  <1>3. RowsInv
    BY <1>2 DEF RowsInv, Holding
  <1>4. TakenInv /\ NoOtherLoss /\ LateInv
    BY <1>2 DEF TakenInv, NoOtherLoss, LateInv
  <1> QED
    BY <1>3, <1>4, <1>5, <1>6 DEF ScrobbleInv

THEOREM ScrobbleInvariant == Spec => []ScrobbleInv
  BY ScrobbleStarts, ScrobbleInductive, PTL DEF Spec

-----------------------------------------------------------------------------
(* What it gives                                                           *)

(* A listen submitted is in the table or in the hands of flush() until its *)
(* service takes it, whichever requests fail, however often the program    *)
(* crashes: an unknown source and a crash are the two ways to lose it.     *)
THEOREM ListensAreKept == Spec => []NoOtherLoss
  <1>1. ScrobbleInv => NoOtherLoss
    BY DEF ScrobbleInv
  <1> QED
    BY <1>1, ScrobbleInvariant, PTL

(* A listen is in one place, once, and no service takes it more often than *)
(* its answers were lost.                                                  *)
THEOREM TakenOnce == Spec => []NoDoubleScrobble
  <1>1. ScrobbleInv => NoDoubleScrobble
    <2> SUFFICES ASSUME ScrobbleInv PROVE NoDoubleScrobble
      OBVIOUS
    <2> USE DEF ScrobbleInv
    <2>1. Cardinality(ToSet(queue)) = Len(queue)
      BY DistinctCount DEF TypeOK, RowsInv
    <2>2. ToSet(queue) \cap InFlight = {}
      BY DEF InFlight, RowsInv, Holding
    <2>3. ~inTxn => InFlight \cap ToSet(committed) = {}
      BY <2>2 DEF PlaceInv
    <2> QED
      BY <2>1, <2>2, <2>3 DEF NoDoubleScrobble, TakenInv
  <1> QED
    BY <1>1, ScrobbleInvariant, PTL

(* After a log out at most the request whose credentials had been read     *)
(* leaves.                                                                 *)
THEOREM NothingAfterLogOut == Spec => []LogOutStopsSending
  <1>1. ScrobbleInv => LogOutStopsSending
    BY DEF ScrobbleInv, LateInv, LogOutStopsSending
  <1> QED
    BY <1>1, ScrobbleInvariant, PTL
==============================================================================
