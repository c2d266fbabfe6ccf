--------------------------- MODULE SyncMergeProofs ---------------------------
(***************************************************************************)
(* Proofs about merging, for any devices, any number of changes, and any   *)
(* batches in any order.                                                   *)
(***************************************************************************)
EXTENDS SyncMerge, FiniteSetTheorems, TLAPS

(* What apply_changes() makes of a replica, case by case.                  *)
LEMMA ApplyCases ==
    ASSUME NEW s \in Replica, NEW c \in Change
    PROVE  /\ ApplyChange(s, c) \in Replica
           /\ \/ /\ c.edit.field = "PlayCount"
                 /\ ApplyChange(s, c) = [s EXCEPT !.play_count = @ + 1]
              \/ /\ c.edit.field = "Rating"
                 /\ ApplyChange(s, c) = ApplyRating(s, c)
              \/ /\ c.edit.field = "LastPlayedAt"
                 /\ ApplyChange(s, c) = ApplyLastPlayedAt(s, c)
              \/ /\ c.edit.field = "Tombstone"
                 /\ ApplyChange(s, c) = ApplyTombstone(s, c)
              \/ /\ c.edit.field = "Insert"
                 /\ ApplyChange(s, c) = ApplyInsert(s, c)
  <1> DEFINE e == c.edit
  <1>1. /\ c.lamport \in Stamp
        /\ e \in Edit
    BY DEF Change
  <1>2. \/ e.field = "PlayCount" /\ e.value = 1
        \/ e.field = "Rating"
        \/ e.field = "LastPlayedAt" /\ e.value \in Nat
        \/ e.field = "Tombstone"
        \/ e.field = "Insert"
    BY <1>1, PlayedAtAssumption DEF Edit
  <1>3. CASE e.field = "PlayCount" /\ e.value = 1
    <2>1. ApplyChange(s, c) = [s EXCEPT !.play_count = @ + 1]
      BY <1>3 DEF ApplyChange, ApplyPlayCount
    <2>2. [s EXCEPT !.play_count = @ + 1] \in Replica
      BY DEF Replica
    <2> QED
      BY <1>3, <2>1, <2>2
  <1>4. CASE e.field = "Rating"
    <2>1. ApplyChange(s, c) = ApplyRating(s, c)
      BY <1>4 DEF ApplyChange
    <2>2. ApplyRating(s, c) \in Replica
      BY <1>1 DEF ApplyRating, Replica
    <2> QED
      BY <1>4, <2>1, <2>2
  <1>5. CASE e.field = "LastPlayedAt" /\ e.value \in Nat
    <2>1. ApplyChange(s, c) = ApplyLastPlayedAt(s, c)
      BY <1>5 DEF ApplyChange
    <2>2. ApplyLastPlayedAt(s, c) \in Replica
      BY <1>5 DEF ApplyLastPlayedAt, Replica
    <2> QED
      BY <1>5, <2>1, <2>2
  <1>6. CASE e.field = "Tombstone"
    <2>1. ApplyChange(s, c) = ApplyTombstone(s, c)
      BY <1>6 DEF ApplyChange
    <2>2. ApplyTombstone(s, c) \in Replica
      BY <1>1 DEF ApplyTombstone, Replica
    <2> QED
      BY <1>6, <2>1, <2>2
  <1>7. CASE e.field = "Insert"
    <2>1. ApplyChange(s, c) = ApplyInsert(s, c)
      BY <1>7 DEF ApplyChange
    <2>2. ApplyInsert(s, c) \in Replica
      BY <1>1 DEF ApplyInsert, Replica, Before, Stamp
    <2> QED
      BY <1>7, <2>1, <2>2
  <1> QED
    BY <1>2, <1>3, <1>4, <1>5, <1>6, <1>7

-----------------------------------------------------------------------------
(* Every stamp a clock gives to a change has ticked at least once.         *)
ClockInv ==
    /\ \A c \in log : 1 <= c.lamport.clock
    /\ \A d \in Device :
          /\ editTick[d].at = "loaded" => 1 <= editTick[d].next.clock
          /\ editTick[d].at = "stored" => 1 <= lamport[d].clock
          /\ mergeTick[d].at = "loaded" => 1 <= mergeTick[d].next.clock

TypeInv == TypeOK /\ ClockInv

(* What a tick makes of a clock: a stamp of the given device, later than   *)
(* the clock and than the remote one.                                      *)
LEMMA TickPasses ==
    ASSUME NEW l \in Stamp, NEW clock \in Nat, NEW device \in Nat
    PROVE  /\ Tick(l, clock, device) \in Stamp
           /\ Tick(l, clock, device).device = device
           /\ 1 <= Tick(l, clock, device).clock
           /\ l.clock < Tick(l, clock, device).clock
           /\ clock < Tick(l, clock, device).clock
  BY DEF Tick, Stamp

(* What the two loads and the two stores leave in the variables, for any   *)
(* number of callers.                                                      *)
LEMMA LoadEdit ==
    ASSUME TypeOK, NEW d \in Device, StartEdit(d)
    PROVE  /\ editTick'[d] = Loaded(Tick(lamport[d], 0, DeviceId[d]))
           /\ editTick'[d] \in Call /\ editTick' \in [Device -> Call]
           /\ editTick'[d].next = Tick(lamport[d], 0, DeviceId[d])
           /\ editTick'[d].at = "loaded"
           /\ lamport[d].clock < editTick'[d].next.clock
           /\ 1 <= editTick'[d].next.clock
           /\ editTick'[d].next.device = DeviceId[d]
           /\ \A e \in Device \ {d} : editTick'[e] = editTick[e]
  <1>1. /\ lamport[d] \in Stamp /\ DeviceId[d] \in Nat
        /\ editTick \in [Device -> Call]
    BY DeviceAssumption DEF TypeOK
  <1> DEFINE t == Tick(lamport[d], 0, DeviceId[d])
  <1>2. /\ t \in Stamp /\ t.device = DeviceId[d] /\ 1 <= t.clock
        /\ lamport[d].clock < t.clock
    BY <1>1, TickPasses
  <1> HIDE DEF t
  <1>3. Loaded(t) \in Call /\ Loaded(t).next = t /\ Loaded(t).at = "loaded"
    BY <1>2 DEF Loaded, Call
  <1>4. editTick' = [editTick EXCEPT ![d] = Loaded(t)]
    BY DEF StartEdit, t
  <1>5. /\ editTick'[d] = Loaded(t) /\ editTick' \in [Device -> Call]
        /\ \A e \in Device \ {d} : editTick'[e] = editTick[e]
    BY <1>1, <1>3, <1>4
  <1> QED
    BY <1>2, <1>3, <1>5 DEF t

LEMMA StoreEdit ==
    ASSUME TypeOK, NEW d \in Device, TickEdit(d)
    PROVE  /\ lamport' \in [Device -> Stamp] /\ editTick' \in [Device -> Call]
           /\ lamport'[d] = editTick[d].next
           /\ editTick[d].at = "loaded" /\ editTick'[d].at = "stored"
           /\ \A e \in Device \ {d} : /\ editTick'[e] = editTick[e]
                                      /\ lamport'[e] = lamport[e]
  <1>1. /\ lamport \in [Device -> Stamp] /\ editTick \in [Device -> Call]
        /\ editTick[d].next \in Stamp
    BY DEF TypeOK, Call
  <1>2. Stored \in Call /\ Stored.at = "stored"
    BY DEF Stored, Call, Absent, Stamp
  <1> QED
    BY <1>1, <1>2 DEF TickEdit

LEMMA StoreMerge ==
    ASSUME TypeOK, NEW d \in Device, TickMerge(d)
    PROVE  /\ lamport' \in [Device -> Stamp] /\ mergeTick' \in [Device -> Call]
           /\ lamport'[d] = mergeTick[d].next
           /\ mergeTick[d].at = "loaded" /\ mergeTick'[d].at = "idle"
           /\ \A e \in Device \ {d} : /\ mergeTick'[e] = mergeTick[e]
                                      /\ lamport'[e] = lamport[e]
  <1>1. /\ lamport \in [Device -> Stamp] /\ mergeTick \in [Device -> Call]
        /\ mergeTick[d].next \in Stamp
    BY DEF TypeOK, Call
  <1>2. NoCall \in Call /\ NoCall.at = "idle"
    BY DEF NoCall, Call, Absent, Stamp
  <1> QED
    BY <1>1, <1>2 DEF TickMerge

LEMMA LoadMerge ==
    ASSUME TypeOK, NEW d \in Device, NEW batch \in SUBSET log, Receive(d, batch)
    PROVE  /\ mergeTick' \in [Device -> Call]
           /\ mergeTick'[d].at = "loaded"
           /\ 1 <= mergeTick'[d].next.clock
           /\ lamport[d].clock < mergeTick'[d].next.clock
           /\ \A c \in batch : c.lamport.clock < mergeTick'[d].next.clock
           /\ \A e \in Device \ {d} : mergeTick'[e] = mergeTick[e]
  <1>1. PICK last \in batch :
           /\ \A c \in batch : ~Before(last.lamport, c.lamport)
           /\ mergeTick' = [mergeTick EXCEPT ![d] =
                Loaded(Tick(lamport[d], last.lamport.clock, last.lamport.device))]
    BY DEF Receive
  <1>2. /\ lamport[d] \in Stamp /\ last.lamport \in Stamp
        /\ last.lamport.clock \in Nat /\ last.lamport.device \in Nat
        /\ mergeTick \in [Device -> Call]
        /\ \A c \in batch : c.lamport \in Stamp
    BY DEF TypeOK, Change, Stamp
  <1> DEFINE t == Tick(lamport[d], last.lamport.clock, last.lamport.device)
  <1>3. /\ t \in Stamp /\ 1 <= t.clock /\ lamport[d].clock < t.clock
        /\ last.lamport.clock < t.clock
    BY <1>2, TickPasses
  <1> HIDE DEF t
  <1>4. Loaded(t) \in Call /\ Loaded(t).next = t /\ Loaded(t).at = "loaded"
    BY <1>3 DEF Loaded, Call
  <1>5. /\ mergeTick'[d] = Loaded(t) /\ mergeTick' \in [Device -> Call]
        /\ \A e \in Device \ {d} : mergeTick'[e] = mergeTick[e]
    BY <1>1, <1>2, <1>4 DEF t
  <1>6. \A c \in batch : c.lamport.clock <= last.lamport.clock
    BY <1>1, <1>2 DEF Before, Stamp
  <1>7. \A c \in batch : c.lamport.clock < t.clock
    BY <1>2, <1>3, <1>6 DEF Stamp
  <1> QED
    BY <1>3, <1>4, <1>5, <1>7

(* What recording a change adds to the log.                                *)
LEMMA Stamped ==
    ASSUME TypeOK, NEW d \in Device, NEW edit \in Edit, StampEdit(d, edit)
    PROVE  \E c \in Change : /\ c.by = d /\ c.lamport = lamport[d]
                             /\ log' = log \cup {c}
                             /\ IsFiniteSet(log')
                             /\ log' \in SUBSET Change
                             /\ editTick' \in [Device -> Call]
                             /\ editTick'[d].at = "idle"
                             /\ \A e \in Device \ {d} : editTick'[e] = editTick[e]
  <1> DEFINE mine == {c \in log : c.by = d}
             new == [edit |-> edit, lamport |-> lamport[d], by |-> d,
                     nth |-> Cardinality(mine)]
  <1>1. Cardinality(mine) \in Nat
    <2>1. IsFiniteSet(mine)
      BY FS_Subset DEF TypeOK
    <2> QED
      BY <2>1, FS_CardinalityType
  <1>2. lamport[d] \in Stamp /\ editTick \in [Device -> Call]
    BY DEF TypeOK
  <1>3. new \in Change /\ new.by = d /\ new.lamport = lamport[d]
    BY <1>1, <1>2 DEF Change
  <1>4. log' = log \cup {new} /\ editTick' = [editTick EXCEPT ![d] = NoCall]
    BY DEF StampEdit
  <1>5. NoCall \in Call /\ NoCall.at = "idle"
    BY DEF NoCall, Call, Absent, Stamp
  <1> HIDE DEF new
  <1>6. IsFiniteSet(log') /\ log' \in SUBSET Change
    BY <1>3, <1>4, FS_AddElement DEF TypeOK
  <1>7. /\ editTick' \in [Device -> Call] /\ editTick'[d].at = "idle"
        /\ \A e \in Device \ {d} : editTick'[e] = editTick[e]
    BY <1>2, <1>4, <1>5
  <1> QED
    BY <1>3, <1>4, <1>6, <1>7

(* They hold of the empty log and clocks at zero.                          *)
LEMMA TypeInit == Init => TypeInv
  <1>1. Absent \in Stamp
    BY DEF Absent, Stamp
  <1>2. NoCall \in Call /\ NoCall.at = "idle"
    BY <1>1 DEF NoCall, Call
  <1>3. EmptyReplica \in Replica
    BY <1>1 DEF EmptyReplica, Replica
  <1>4. IsFiniteSet({})
    BY FS_EmptySet
  <1> QED
    BY <1>1, <1>2, <1>3, <1>4 DEF Init, TypeInv, TypeOK, ClockInv

(* Every step keeps them, whoever calls tick_lamport() and when.           *)
LEMMA TypeStep == TypeInv /\ [Next]_vars => TypeInv'
  <1> SUFFICES ASSUME TypeInv, [Next]_vars PROVE TypeInv'
    OBVIOUS
  <1>0. TypeOK /\ ClockInv
    BY DEF TypeInv
  <1>1. ASSUME NEW d \in Device, StartEdit(d) PROVE TypeInv'
    <2>1. UNCHANGED <<log, lamport, mergeTick, pending, replica, folded,
                      inOrder, compacted>>
      BY <1>1 DEF StartEdit, merged
    <2>2. TypeOK'
      BY <1>0, <1>1, <2>1, LoadEdit DEF TypeOK
    <2>3. ClockInv'
      BY <1>0, <1>1, <2>1, LoadEdit DEF ClockInv
    <2> QED
      BY <2>2, <2>3 DEF TypeInv
  <1>2. ASSUME NEW d \in Device, TickEdit(d) PROVE TypeInv'
    <2>1. UNCHANGED <<log, mergeTick, pending, replica, folded, inOrder, compacted>>
      BY <1>2 DEF TickEdit, merged
    <2>2. TypeOK'
      BY <1>0, <1>2, <2>1, StoreEdit DEF TypeOK
    <2>3. ClockInv'
      BY <1>0, <1>2, <2>1, StoreEdit DEF ClockInv
    <2> QED
      BY <2>2, <2>3 DEF TypeInv
  <1>3. ASSUME NEW d \in Device, NEW edit \in Edit, StampEdit(d, edit)
        PROVE  TypeInv'
    <2>1. UNCHANGED <<lamport, mergeTick, pending, replica, folded, inOrder, compacted>>
      BY <1>3 DEF StampEdit, merged
    <2>2. PICK c \in Change : /\ c.by = d /\ c.lamport = lamport[d]
                              /\ log' = log \cup {c}
                              /\ IsFiniteSet(log')
                              /\ log' \in SUBSET Change
                              /\ editTick' \in [Device -> Call]
                              /\ editTick'[d].at = "idle"
                              /\ \A e \in Device \ {d} : editTick'[e] = editTick[e]
      BY <1>0, <1>3, Stamped
    <2>3. TypeOK'
      BY <1>0, <2>1, <2>2 DEF TypeOK
    <2>4. 1 <= c.lamport.clock
      BY <1>0, <1>3, <2>2 DEF StampEdit, ClockInv
    <2>5. ClockInv'
      BY <1>0, <2>1, <2>2, <2>4 DEF ClockInv
    <2> QED
      BY <2>3, <2>5 DEF TypeInv
  <1>4. ASSUME NEW d \in Device, NEW batch \in SUBSET log, Receive(d, batch)
        PROVE  TypeInv'
    <2>1. /\ UNCHANGED <<log, lamport, editTick, replica, folded, inOrder, compacted>>
          /\ pending' = [pending EXCEPT ![d] = batch]
      BY <1>4 DEF Receive, merged
    <2>2. TypeOK'
      BY <1>0, <1>4, <2>1, LoadMerge DEF TypeOK
    <2>3. ClockInv'
      BY <1>0, <1>4, <2>1, LoadMerge DEF ClockInv
    <2> QED
      BY <2>2, <2>3 DEF TypeInv
  <1>5. ASSUME NEW d \in Device, TickMerge(d) PROVE TypeInv'
    <2>1. UNCHANGED <<log, editTick, pending, replica, folded, inOrder, compacted>>
      BY <1>5 DEF TickMerge, merged
    <2>2. TypeOK'
      BY <1>0, <1>5, <2>1, StoreMerge DEF TypeOK
    <2>3. ClockInv'
      BY <1>0, <1>5, <2>1, StoreMerge DEF ClockInv
    <2> QED
      BY <2>2, <2>3 DEF TypeInv
  <1>6. ASSUME NEW d \in Device, NEW c \in pending[d], Fold(d, c)
        PROVE  TypeInv'
    <2>1. c \in log /\ c \in Change /\ replica[d] \in Replica
      BY <1>0, <1>6 DEF TypeOK
    <2>2. ApplyChange(replica[d], c) \in Replica
      BY <2>1, ApplyCases
    <2>3. /\ UNCHANGED <<log, lamport, editTick, mergeTick, compacted>>
          /\ replica' = [replica EXCEPT ![d] = ApplyChange(@, c)]
          /\ pending' = [pending EXCEPT ![d] = @ \ {c}]
          /\ folded' = [folded EXCEPT ![d] = @ \cup {c}]
          /\ inOrder' = [inOrder EXCEPT
                ![d] = @ /\ \A old \in folded[d] : Before(old.lamport, c.lamport)]
      BY <1>6 DEF Fold, clocks
    <2>4. inOrder' \in [Device -> BOOLEAN]
      BY <1>0, <2>3, Zenon DEF TypeOK
    <2>5. TypeOK'
      BY <1>0, <2>1, <2>2, <2>3, <2>4 DEF TypeOK
    <2>6. ClockInv'
      BY <1>0, <2>3 DEF ClockInv
    <2> QED
      BY <2>5, <2>6 DEF TypeInv
  <1>7. ASSUME NEW d \in Device, Compact(d) PROVE TypeInv'
    <2>0. replica[d] \in Replica /\ Absent \in Stamp
      BY <1>0 DEF TypeOK, Stamp, Absent
    <2>1. [replica[d] EXCEPT !.tombstone = Absent] \in Replica
      BY <2>0 DEF Replica
    <2>2. /\ UNCHANGED <<log, lamport, editTick, mergeTick, pending, folded, inOrder>>
          /\ replica' = [replica EXCEPT ![d].tombstone = Absent]
          /\ compacted' = [compacted EXCEPT ![d] = TRUE]
      BY <1>7 DEF Compact, clocks
    <2>3. TypeOK'
      BY <1>0, <2>1, <2>2 DEF TypeOK
    <2>4. ClockInv'
      BY <1>0, <2>2 DEF ClockInv
    <2> QED
      BY <2>3, <2>4 DEF TypeInv
  <1>8. CASE UNCHANGED vars
    BY <1>0, <1>8 DEF vars, TypeInv, TypeOK, ClockInv
  <1> QED
    BY <1>1, <1>2, <1>3, <1>4, <1>5, <1>6, <1>7, <1>8 DEF Next

(* The types and the ticks are one inductive invariant.                    *)
THEOREM TypeInvariant == Spec => []TypeInv
  BY TypeInit, TypeStep, PTL DEF Spec

(* Every variable keeps its type.                                          *)
THEOREM TypeCorrect == Spec => []TypeOK
  BY TypeInvariant, PTL DEF TypeInv

-----------------------------------------------------------------------------
(* What the clock of a device owes to its own changes, to its calls of     *)
(* tick_lamport() and to what it merges, when one thread makes the calls.  *)
MineOk(d) ==
    \A c \in log : c.by = d => /\ c.lamport.device = DeviceId[d]
                               /\ c.lamport.clock <= lamport[d].clock

CallsOk(d) ==
    /\ editTick[d].at = "idle" \/ mergeTick[d].at = "idle"
    /\ mergeTick[d].at # "stored"
    /\ editTick[d].at = "loaded" =>
          /\ editTick[d].next.device = DeviceId[d]
          /\ lamport[d].clock < editTick[d].next.clock
    /\ mergeTick[d].at = "loaded" => lamport[d].clock < mergeTick[d].next.clock

StoredOk(d) ==
    editTick[d].at = "stored" =>
        /\ lamport[d].device = DeviceId[d]
        /\ \A c \in log : c.by = d => c.lamport.clock < lamport[d].clock
        /\ \A c \in folded[d] \cup pending[d] : c.lamport.clock < lamport[d].clock

MergedOk(d) ==
    /\ \A c \in folded[d] : c.lamport.clock <= lamport[d].clock
    /\ mergeTick[d].at = "idle" =>
          \A c \in pending[d] : c.lamport.clock <= lamport[d].clock
    /\ mergeTick[d].at = "loaded" =>
          \A c \in pending[d] : c.lamport.clock < mergeTick[d].next.clock

StampInv ==
    /\ \A d \in Device : MineOk(d) /\ CallsOk(d) /\ StoredOk(d) /\ MergedOk(d)
    /\ \A a, b \in log : a.by = b.by /\ a.lamport = b.lamport => a = b

(* They hold of the empty log and clocks at zero.                          *)
LEMMA StampInit == Init => StampInv
  BY DEF Init, StampInv, MineOk, CallsOk, StoredOk, MergedOk, NoCall, Absent

(* The numbers a step of the clocks compares.                              *)
LEMMA ClockTypes ==
    ASSUME TypeOK
    PROVE  /\ \A c \in log : c.lamport.clock \in Nat
           /\ \A d \in Device : /\ lamport[d].clock \in Nat
                                /\ editTick[d].next.clock \in Nat
                                /\ mergeTick[d].next.clock \in Nat
                                /\ pending[d] \subseteq log
                                /\ folded[d] \subseteq log
  BY DEF TypeOK, Change, Call, Stamp

(* One caller at a time: every step keeps them.                            *)
LEMMA StampStep ==
    ASSUME OneCaller = TRUE
    PROVE  TypeInv /\ StampInv /\ [Next]_vars => StampInv'
  <1> SUFFICES ASSUME TypeInv, StampInv, [Next]_vars PROVE StampInv'
    OBVIOUS
  <1> DEFINE Ok(d) == MineOk(d) /\ CallsOk(d) /\ StoredOk(d) /\ MergedOk(d)
             Distinct == \A a, b \in log : a.by = b.by /\ a.lamport = b.lamport => a = b
  <1>0. /\ TypeOK /\ TypeOK' /\ Distinct
        /\ \A d \in Device : Ok(d)
    BY TypeStep DEF TypeInv, StampInv
  <1> USE ClockTypes
  <1> SUFFICES Distinct' /\ \A d \in Device : Ok(d)'
    BY DEF StampInv
  <1>1. ASSUME NEW d \in Device, StartEdit(d)
        PROVE  Distinct' /\ \A e \in Device : Ok(e)'
    <2>1. UNCHANGED <<log, lamport, mergeTick, pending, folded>>
      BY <1>1 DEF StartEdit, merged
    <2>2. mergeTick[d].at = "idle"
      BY <1>1 DEF StartEdit
    <2>3. Ok(d)'
      BY <1>0, <1>1, <2>1, <2>2, LoadEdit
      DEF MineOk, CallsOk, StoredOk, MergedOk
    <2>4. ASSUME NEW e \in Device \ {d} PROVE Ok(e)'
      <3>1. editTick'[e] = editTick[e]
        BY <1>0, <1>1, LoadEdit
      <3> QED
        BY <1>0, <2>1, <3>1 DEF MineOk, CallsOk, StoredOk, MergedOk
    <2> QED
      BY <1>0, <2>1, <2>3, <2>4
  <1>2. ASSUME NEW d \in Device, TickEdit(d)
        PROVE  Distinct' /\ \A e \in Device : Ok(e)'
    <2>1. UNCHANGED <<log, mergeTick, pending, folded>>
      BY <1>2 DEF TickEdit, merged
    <2>2. /\ lamport'[d] = editTick[d].next /\ editTick[d].at = "loaded"
          /\ editTick'[d].at = "stored"
          /\ \A e \in Device \ {d} : /\ editTick'[e] = editTick[e]
                                     /\ lamport'[e] = lamport[e]
      BY <1>0, <1>2, StoreEdit
    <2>3. /\ mergeTick[d].at = "idle" /\ lamport'[d].device = DeviceId[d]
          /\ lamport[d].clock < lamport'[d].clock
      BY <1>0, <2>2 DEF CallsOk
    <2>4. /\ MineOk(d)' /\ StoredOk(d)'
      <3>1. \A c \in log : c.by = d => /\ c.lamport.device = DeviceId[d]
                                       /\ c.lamport.clock < lamport'[d].clock
        BY <1>0, <2>2, <2>3 DEF MineOk
      <3>2. \A c \in folded[d] \cup pending[d] : c.lamport.clock < lamport'[d].clock
        BY <1>0, <2>2, <2>3 DEF MergedOk
      <3>3. \A c \in log : c.by = d => /\ c.lamport.device = DeviceId[d]
                                       /\ c.lamport.clock <= lamport'[d].clock
        BY <1>0, <2>2, <3>1
      <3>4. MineOk(d)'
        BY <2>1, <3>3 DEF MineOk
      <3>5. StoredOk(d)'
        BY <2>1, <2>3, <3>1, <3>2 DEF StoredOk
      <3> QED
        BY <3>4, <3>5
    <2>5. CallsOk(d)' /\ MergedOk(d)'
      <3>1. \A c \in folded[d] \cup pending[d] : c.lamport.clock <= lamport'[d].clock
        BY <1>0, <2>2, <2>3 DEF MergedOk
      <3> QED
        BY <1>0, <2>1, <2>2, <2>3, <3>1 DEF CallsOk, MergedOk
    <2>6. ASSUME NEW e \in Device \ {d} PROVE Ok(e)'
      <3>1. editTick'[e] = editTick[e] /\ lamport'[e] = lamport[e]
        BY <2>2
      <3> QED
        BY <1>0, <2>1, <3>1 DEF MineOk, CallsOk, StoredOk, MergedOk
    <2> QED
      BY <1>0, <2>1, <2>4, <2>5, <2>6
  <1>3. ASSUME NEW d \in Device, NEW edit \in Edit, StampEdit(d, edit)
        PROVE  Distinct' /\ \A e \in Device : Ok(e)'
    <2>1. UNCHANGED <<lamport, mergeTick, pending, folded>>
      BY <1>3 DEF StampEdit, merged
    <2>2. PICK c \in Change : /\ c.by = d /\ c.lamport = lamport[d]
                              /\ log' = log \cup {c}
                              /\ IsFiniteSet(log')
                              /\ log' \in SUBSET Change
                              /\ editTick' \in [Device -> Call]
                              /\ editTick'[d].at = "idle"
                              /\ \A e \in Device \ {d} : editTick'[e] = editTick[e]
      BY <1>0, <1>3, Stamped
    <2>3. /\ editTick[d].at = "stored"
          /\ lamport[d].device = DeviceId[d]
          /\ \A old \in log : old.by = d => old.lamport.clock < lamport[d].clock
          /\ lamport[d].clock \in Nat
      BY <1>0, <1>3 DEF StampEdit, StoredOk
    <2>4. \A old \in log : old.by = d => old.lamport # c.lamport
      BY <1>0, <2>2, <2>3
    <2>5. Distinct'
      BY <1>0, <2>2, <2>4
    <2>6. Ok(d)'
      BY <1>0, <2>1, <2>2, <2>3 DEF MineOk, CallsOk, StoredOk, MergedOk
    <2>7. ASSUME NEW e \in Device \ {d} PROVE Ok(e)'
      <3>1. editTick'[e] = editTick[e] /\ \A x \in log' : x.by = e => x \in log
        BY <2>2
      <3> QED
        BY <1>0, <2>1, <3>1 DEF MineOk, CallsOk, StoredOk, MergedOk
    <2> QED
      BY <2>5, <2>6, <2>7
  <1>4. ASSUME NEW d \in Device, NEW batch \in SUBSET log, Receive(d, batch)
        PROVE  Distinct' /\ \A e \in Device : Ok(e)'
    <2>1. /\ UNCHANGED <<log, lamport, editTick, folded>>
          /\ pending' = [pending EXCEPT ![d] = batch]
          /\ editTick[d].at = "idle"
      BY <1>4 DEF Receive, merged
    <2>2. /\ pending'[d] = batch
          /\ \A e \in Device \ {d} : pending'[e] = pending[e]
      BY <1>0, <2>1 DEF TypeOK
    <2>3. Ok(d)'
      BY <1>0, <1>4, <2>1, <2>2, LoadMerge
      DEF MineOk, CallsOk, StoredOk, MergedOk
    <2>4. ASSUME NEW e \in Device \ {d} PROVE Ok(e)'
      <3>1. mergeTick'[e] = mergeTick[e]
        BY <1>0, <1>4, LoadMerge
      <3> QED
        BY <1>0, <2>1, <2>2, <3>1 DEF MineOk, CallsOk, StoredOk, MergedOk
    <2> QED
      BY <1>0, <2>1, <2>3, <2>4
  <1>5. ASSUME NEW d \in Device, TickMerge(d)
        PROVE  Distinct' /\ \A e \in Device : Ok(e)'
    <2>1. UNCHANGED <<log, editTick, pending, folded>>
      BY <1>5 DEF TickMerge, merged
    <2>2. /\ lamport'[d] = mergeTick[d].next /\ mergeTick[d].at = "loaded"
          /\ mergeTick'[d].at = "idle"
          /\ \A e \in Device \ {d} : /\ mergeTick'[e] = mergeTick[e]
                                     /\ lamport'[e] = lamport[e]
      BY <1>0, <1>5, StoreMerge
    <2>3. editTick[d].at = "idle" /\ lamport[d].clock < lamport'[d].clock
      BY <1>0, <2>2 DEF CallsOk
    <2>4. MineOk(d)'
      BY <1>0, <2>1, <2>2, <2>3 DEF MineOk
    <2>5. CallsOk(d)' /\ StoredOk(d)' /\ MergedOk(d)'
      BY <1>0, <2>1, <2>2, <2>3 DEF CallsOk, StoredOk, MergedOk
    <2>6. ASSUME NEW e \in Device \ {d} PROVE Ok(e)'
      <3>1. mergeTick'[e] = mergeTick[e] /\ lamport'[e] = lamport[e]
        BY <2>2
      <3> QED
        BY <1>0, <2>1, <3>1 DEF MineOk, CallsOk, StoredOk, MergedOk
    <2> QED
      BY <1>0, <2>1, <2>4, <2>5, <2>6
  <1>6. ASSUME NEW d \in Device, NEW c \in pending[d], Fold(d, c)
        PROVE  Distinct' /\ \A e \in Device : Ok(e)'
    <2>1. /\ UNCHANGED <<log, lamport, editTick, mergeTick>>
          /\ mergeTick[d].at = "idle"
          /\ pending' = [pending EXCEPT ![d] = @ \ {c}]
          /\ folded' = [folded EXCEPT ![d] = @ \cup {c}]
      BY <1>6 DEF Fold, clocks
    <2>2. /\ pending'[d] = pending[d] \ {c} /\ folded'[d] = folded[d] \cup {c}
          /\ \A e \in Device \ {d} : /\ pending'[e] = pending[e]
                                     /\ folded'[e] = folded[e]
      BY <1>0, <2>1 DEF TypeOK
    <2>3. Ok(d)'
      BY <1>0, <1>6, <2>1, <2>2 DEF MineOk, CallsOk, StoredOk, MergedOk
    <2>4. ASSUME NEW e \in Device \ {d} PROVE Ok(e)'
      BY <1>0, <2>1, <2>2 DEF MineOk, CallsOk, StoredOk, MergedOk
    <2> QED
      BY <1>0, <2>1, <2>3, <2>4
  <1>7. CASE UNCHANGED <<log, lamport, editTick, mergeTick, pending, folded>>
    BY <1>0, <1>7 DEF MineOk, CallsOk, StoredOk, MergedOk
  <1>8. ASSUME NEW d \in Device, Compact(d)
        PROVE  UNCHANGED <<log, lamport, editTick, mergeTick, pending, folded>>
    BY <1>8 DEF Compact, clocks
  <1>9. CASE UNCHANGED vars
    BY <1>7, <1>9 DEF vars
  <1> QED
    BY <1>1, <1>2, <1>3, <1>4, <1>5, <1>6, <1>7, <1>8, <1>9 DEF Next

(* With one caller at a time, the clocks order the changes.                *)
THEOREM StampInvariant ==
    ASSUME OneCaller = TRUE
    PROVE  Spec => [](TypeInv /\ StampInv)
  BY TypeInit, TypeStep, StampInit, StampStep, PTL DEF Spec

(* Equal stamps come from two devices of one hash, on any number of        *)
(* devices, as long as each ticks its clock from one thread at a time.     *)
THEOREM UniqueStamps ==
    ASSUME OneCaller = TRUE
    PROVE  Spec => []StampsAreUnique
  <1>1. TypeInv /\ StampInv => StampsAreUnique
    <2> SUFFICES ASSUME TypeInv, StampInv, NEW a \in log, NEW b \in log,
                        a.lamport = b.lamport, a # b
                 PROVE  a.by # b.by /\ DeviceId[a.by] = DeviceId[b.by]
      BY DEF StampsAreUnique
    <2>1. a.by \in Device /\ b.by \in Device
      BY DEF TypeInv, TypeOK, Change
    <2>2. a.lamport.device = DeviceId[a.by] /\ b.lamport.device = DeviceId[b.by]
      BY <2>1 DEF StampInv, MineOk
    <2> QED
      BY <2>1, <2>2 DEF StampInv
  <1> QED
    BY <1>1, StampInvariant, PTL

(* An edit is later than everything its device had merged, as long as the  *)
(* device ticks its clock from one thread at a time.                       *)
THEOREM EditIsLatest ==
    ASSUME OneCaller = TRUE
    PROVE  Spec => LocalEditIsLatest
  <1> DEFINE A == \A c \in log' \ log : \A old \in folded[c.by] :
                      Before(old.lamport, c.lamport)
  <1>1. TypeInv /\ StampInv /\ [Next]_vars => [A]_vars
    <2> SUFFICES ASSUME TypeInv, StampInv, Next PROVE A
      OBVIOUS
    <2>1. ASSUME NEW d \in Device, NEW edit \in Edit, StampEdit(d, edit) PROVE A
      <3>1. PICK c \in Change : c.by = d /\ c.lamport = lamport[d] /\ log' = log \cup {c}
        BY <2>1, Stamped DEF TypeInv
      <3>2. \A old \in folded[d] : old.lamport.clock < lamport[d].clock
        BY <2>1 DEF StampInv, StoredOk, StampEdit
      <3> QED
        BY <3>1, <3>2 DEF Before
    <2>2. CASE UNCHANGED log
      BY <2>2
    <2> QED
      BY <2>1, <2>2
      DEF Next, StartEdit, TickEdit, Receive, TickMerge, Fold, Compact
  <1> QED
    BY <1>1, StampInvariant, PTL DEF Spec, LocalEditIsLatest

-----------------------------------------------------------------------------
(* Stamps are totally ordered, and every stamp of a change is later than   *)
(* Absent.                                                                 *)
LEMMA BeforeOrder ==
    ASSUME NEW a \in Stamp, NEW b \in Stamp, NEW c \in Stamp
    PROVE  /\ Before(a, b) /\ Before(b, c) => Before(a, c)
           /\ ~(Before(a, b) /\ Before(b, a))
           /\ Before(a, b) \/ Before(b, a) \/ a = b
           /\ 1 <= a.clock => Before(Absent, a)
  BY DEF Before, Stamp, Absent

(* A change adds itself to the changes of its own field, and of no other.  *)
LEMMA OfUnion ==
    ASSUME NEW F, NEW c
    PROVE  /\ \A field : c.edit.field # field => Of(F \cup {c}, field) = Of(F, field)
           /\ Of(F \cup {c}, c.edit.field) = Of(F, c.edit.field) \cup {c}
  BY DEF Of

(* What a replica s owes to the set F of changes folded into it.           *)
RatingOk(s, F) ==
    /\ s.rating = Absent \/ \E c \in Of(F, "Rating") : c.lamport = s.rating
    /\ \A c \in Of(F, "Rating") : ~Before(s.rating, c.lamport)

PlayedOk(s, F) ==
    /\ \/ s.last_played_at = 0
       \/ \E c \in Of(F, "LastPlayedAt") : c.edit.value = s.last_played_at
    /\ \A c \in Of(F, "LastPlayedAt") : c.edit.value <= s.last_played_at

TombstoneOk(s, F) ==
    s.tombstone = Absent \/ \E t \in Of(F, "Tombstone") : t.lamport = s.tombstone

DeletedOk(s, F, compact) ==
  ~compact =>
    \A t \in Of(F, "Tombstone") :
        /\ Of(F, "Tombstone") = {t}
        /\ \A i \in Of(F, "Insert") : Before(i.lamport, t.lamport)
        => ~s.member /\ s.tombstone = t.lamport

CountOk(s, F) == s.play_count >= Cardinality(Of(F, "PlayCount"))

ReplicaOk(s, F, compact) ==
    /\ RatingOk(s, F) /\ PlayedOk(s, F) /\ TombstoneOk(s, F)
    /\ DeletedOk(s, F, compact) /\ CountOk(s, F)

(* Folding a change in keeps every one of them, wherever the change comes  *)
(* in the order and whether or not it was folded before.                   *)
LEMMA FoldKeepsReplicaOk ==
    ASSUME NEW s \in Replica, NEW F \in SUBSET Change, NEW c \in Change,
           NEW b \in BOOLEAN, IsFiniteSet(F), 1 <= c.lamport.clock,
           ReplicaOk(s, F, b)
    PROVE  ReplicaOk(ApplyChange(s, c), F \cup {c}, b)
  <1> DEFINE r == ApplyChange(s, c)
             G == F \cup {c}
  <1>1. /\ r \in Replica
        /\ s.rating \in Stamp /\ s.tombstone \in Stamp /\ c.lamport \in Stamp
        /\ s.play_count \in Nat /\ s.last_played_at \in Nat
    BY ApplyCases DEF Replica, Change
  <1>2. \A x \in G : x.lamport \in Stamp
    BY DEF Change
  <1>3. \A x \in Of(G, "LastPlayedAt") : x.edit.value \in Nat
    BY PlayedAtAssumption DEF Change, Edit, Of
  <1>4. CASE c.edit.field = "PlayCount"
    <2>1. r = [s EXCEPT !.play_count = @ + 1]
      BY <1>4, ApplyCases
    <2>2. /\ r.rating = s.rating /\ r.tombstone = s.tombstone
          /\ r.member = s.member /\ r.last_played_at = s.last_played_at
          /\ r.play_count = s.play_count + 1
      BY <2>1 DEF Replica
    <2>3. /\ Of(G, "PlayCount") = Of(F, "PlayCount") \cup {c}
          /\ Of(G, "Rating") = Of(F, "Rating")
          /\ Of(G, "LastPlayedAt") = Of(F, "LastPlayedAt")
          /\ Of(G, "Tombstone") = Of(F, "Tombstone")
          /\ Of(G, "Insert") = Of(F, "Insert")
      <3>1. \A f : f # "PlayCount" => Of(G, f) = Of(F, f)
        BY <1>4, OfUnion, ZenonT(30)
      <3>2. Of(G, "PlayCount") = Of(F, "PlayCount") \cup {c}
        BY <1>4, OfUnion
      <3> QED
        BY <3>1, <3>2
    <2>4. Cardinality(Of(G, "PlayCount")) <= Cardinality(Of(F, "PlayCount")) + 1
      <3>1. IsFiniteSet(Of(F, "PlayCount"))
        BY FS_Subset DEF Of
      <3>2. Cardinality(Of(F, "PlayCount")) \in Nat
        BY <3>1, FS_CardinalityType
      <3>3. \/ Cardinality(Of(F, "PlayCount") \cup {c}) = Cardinality(Of(F, "PlayCount"))
            \/ Cardinality(Of(F, "PlayCount") \cup {c}) = Cardinality(Of(F, "PlayCount")) + 1
        BY <3>1, FS_AddElement
      <3> DEFINE n == Cardinality(Of(F, "PlayCount"))
                 m == Cardinality(Of(G, "PlayCount"))
      <3>4. m = n \/ m = n + 1
        BY <2>3, <3>3
      <3> HIDE DEF n, m
      <3>5. n \in Nat
        BY <3>2 DEF n
      <3>6. m <= n + 1
        BY <3>4, <3>5
      <3> QED
        BY <3>6 DEF n, m
    <2>5. CountOk(r, G)
      <3>1. IsFiniteSet(Of(F, "PlayCount")) /\ IsFiniteSet(Of(G, "PlayCount"))
        <4>1. IsFiniteSet(Of(F, "PlayCount"))
          BY FS_Subset DEF Of
        <4>2. IsFiniteSet(Of(F, "PlayCount") \cup {c})
          BY <4>1, FS_AddElement
        <4>3. Of(G, "PlayCount") = Of(F, "PlayCount") \cup {c}
          BY <2>3
        <4> QED
          BY <4>1, <4>2, <4>3
      <3>2. /\ Cardinality(Of(F, "PlayCount")) \in Nat
            /\ Cardinality(Of(G, "PlayCount")) \in Nat
        BY <3>1, FS_CardinalityType
      <3>3. s.play_count >= Cardinality(Of(F, "PlayCount"))
        BY DEF ReplicaOk, CountOk
      <3> QED
        BY <1>1, <2>2, <2>4, <3>2, <3>3 DEF CountOk
    <2> HIDE DEF r, G
    <2>6. ReplicaOk(r, G, b)
      BY <2>2, <2>3, <2>5
      DEF ReplicaOk, RatingOk, PlayedOk, TombstoneOk, DeletedOk
    <2> QED
      BY <2>6 DEF r, G
  <1>5. CASE c.edit.field = "Rating"
    <2>1. r = ApplyRating(s, c)
      BY <1>5, ApplyCases
    <2>2. /\ r.rating = IF Before(s.rating, c.lamport) THEN c.lamport ELSE s.rating
          /\ r.play_count = s.play_count /\ r.tombstone = s.tombstone
          /\ r.member = s.member /\ r.last_played_at = s.last_played_at
      BY <2>1 DEF Replica, ApplyRating
    <2>3. /\ Of(G, "PlayCount") = Of(F, "PlayCount")
          /\ Of(G, "Rating") = Of(F, "Rating") \cup {c}
          /\ Of(G, "LastPlayedAt") = Of(F, "LastPlayedAt")
          /\ Of(G, "Tombstone") = Of(F, "Tombstone")
          /\ Of(G, "Insert") = Of(F, "Insert")
      <3>1. \A f : f # "Rating" => Of(G, f) = Of(F, f)
        BY <1>5, OfUnion, ZenonT(30)
      <3>2. Of(G, "Rating") = Of(F, "Rating") \cup {c}
        BY <1>5, OfUnion
      <3> QED
        BY <3>1, <3>2
    <2>4. \A x \in Of(F, "Rating") : x.lamport \in Stamp
      BY <1>2 DEF Of
    <2> HIDE DEF r, G
    <2>5. RatingOk(r, G)
      <3>1. \A x \in Of(F, "Rating") : ~Before(r.rating, x.lamport)
        BY <1>1, <2>2, <2>4, BeforeOrder DEF ReplicaOk, RatingOk
      <3>2. ~Before(r.rating, c.lamport)
        BY <1>1, <2>2, BeforeOrder
      <3>3. r.rating = Absent \/ \E x \in Of(G, "Rating") : x.lamport = r.rating
        BY <2>2, <2>3 DEF ReplicaOk, RatingOk
      <3> QED
        BY <2>3, <3>1, <3>2, <3>3 DEF RatingOk
    <2>6. ReplicaOk(r, G, b)
      BY <2>2, <2>3, <2>5
      DEF ReplicaOk, PlayedOk, TombstoneOk, DeletedOk, CountOk
    <2> QED
      BY <2>6 DEF r, G
  <1>6. CASE c.edit.field = "LastPlayedAt"
    <2>1. r = ApplyLastPlayedAt(s, c)
      BY <1>6, ApplyCases
    <2>2. /\ r.last_played_at = IF c.edit.value > s.last_played_at
                                THEN c.edit.value ELSE s.last_played_at
          /\ r.play_count = s.play_count /\ r.tombstone = s.tombstone
          /\ r.member = s.member /\ r.rating = s.rating
      BY <2>1 DEF Replica, ApplyLastPlayedAt
    <2>3. /\ Of(G, "PlayCount") = Of(F, "PlayCount")
          /\ Of(G, "Rating") = Of(F, "Rating")
          /\ Of(G, "LastPlayedAt") = Of(F, "LastPlayedAt") \cup {c}
          /\ Of(G, "Tombstone") = Of(F, "Tombstone")
          /\ Of(G, "Insert") = Of(F, "Insert")
      <3>1. \A f : f # "LastPlayedAt" => Of(G, f) = Of(F, f)
        BY <1>6, OfUnion, ZenonT(30)
      <3>2. Of(G, "LastPlayedAt") = Of(F, "LastPlayedAt") \cup {c}
        BY <1>6, OfUnion
      <3> QED
        BY <3>1, <3>2
    <2> HIDE DEF r, G
    <2>4. PlayedOk(r, G)
      <3>1. c.edit.value \in Nat /\ \A x \in Of(F, "LastPlayedAt") : x.edit.value \in Nat
        BY <1>3, <2>3
      <3>2. \A x \in Of(G, "LastPlayedAt") : x.edit.value <= r.last_played_at
        BY <1>1, <2>2, <2>3, <3>1 DEF ReplicaOk, PlayedOk
      <3>3. \/ r.last_played_at = 0
            \/ \E x \in Of(G, "LastPlayedAt") : x.edit.value = r.last_played_at
        BY <2>2, <2>3 DEF ReplicaOk, PlayedOk
      <3> QED
        BY <3>2, <3>3 DEF PlayedOk
    <2>6. ReplicaOk(r, G, b)
      BY <2>2, <2>3, <2>4
      DEF ReplicaOk, RatingOk, TombstoneOk, DeletedOk, CountOk
    <2> QED
      BY <2>6 DEF r, G
  <1>7. CASE c.edit.field = "Tombstone"
    <2>1. r = ApplyTombstone(s, c)
      BY <1>7, ApplyCases
    <2>2. /\ r.member = FALSE /\ r.tombstone = c.lamport
          /\ r.play_count = s.play_count /\ r.rating = s.rating
          /\ r.last_played_at = s.last_played_at
      BY <2>1 DEF Replica, ApplyTombstone
    <2>3. /\ Of(G, "PlayCount") = Of(F, "PlayCount")
          /\ Of(G, "Rating") = Of(F, "Rating")
          /\ Of(G, "LastPlayedAt") = Of(F, "LastPlayedAt")
          /\ Of(G, "Tombstone") = Of(F, "Tombstone") \cup {c}
          /\ Of(G, "Insert") = Of(F, "Insert")
      <3>1. \A f : f # "Tombstone" => Of(G, f) = Of(F, f)
        BY <1>7, OfUnion, ZenonT(30)
      <3>2. Of(G, "Tombstone") = Of(F, "Tombstone") \cup {c}
        BY <1>7, OfUnion
      <3> QED
        BY <3>1, <3>2
    <2> HIDE DEF r, G
    <2>4. TombstoneOk(r, G) /\ DeletedOk(r, G, b)
      BY <2>2, <2>3 DEF TombstoneOk, DeletedOk
    <2>6. ReplicaOk(r, G, b)
      BY <2>2, <2>3, <2>4 DEF ReplicaOk, RatingOk, PlayedOk, CountOk
    <2> QED
      BY <2>6 DEF r, G
  <1>8. CASE c.edit.field = "Insert"
    <2>1. r = ApplyInsert(s, c)
      BY <1>8, ApplyCases
    <2>2. /\ r.member = (s.member \/ Before(s.tombstone, c.lamport))
          /\ r.tombstone = s.tombstone
          /\ r.play_count = s.play_count /\ r.rating = s.rating
          /\ r.last_played_at = s.last_played_at
      BY <2>1 DEF Replica, ApplyInsert
    <2>3. /\ Of(G, "PlayCount") = Of(F, "PlayCount")
          /\ Of(G, "Rating") = Of(F, "Rating")
          /\ Of(G, "LastPlayedAt") = Of(F, "LastPlayedAt")
          /\ Of(G, "Tombstone") = Of(F, "Tombstone")
          /\ Of(G, "Insert") = Of(F, "Insert") \cup {c}
      <3>1. \A f : f # "Insert" => Of(G, f) = Of(F, f)
        BY <1>8, OfUnion, ZenonT(30)
      <3>2. Of(G, "Insert") = Of(F, "Insert") \cup {c}
        BY <1>8, OfUnion
      <3> QED
        BY <3>1, <3>2
    <2> HIDE DEF r, G
    <2>4. DeletedOk(r, G, b)
      <3> SUFFICES ASSUME ~b, NEW t \in Of(G, "Tombstone"),
                          Of(G, "Tombstone") = {t},
                          \A i \in Of(G, "Insert") : Before(i.lamport, t.lamport)
                   PROVE  ~r.member /\ r.tombstone = t.lamport
        BY DEF DeletedOk
      <3>1. ~s.member /\ s.tombstone = t.lamport
        BY <2>3 DEF ReplicaOk, DeletedOk
      <3>2. Before(c.lamport, t.lamport)
        BY <2>3
      <3>3. ~Before(s.tombstone, c.lamport)
        BY <1>1, <3>1, <3>2, BeforeOrder
      <3> QED
        BY <2>2, <3>1, <3>3
    <2>6. ReplicaOk(r, G, b)
      BY <2>2, <2>3, <2>4
      DEF ReplicaOk, RatingOk, PlayedOk, TombstoneOk, CountOk
    <2> QED
      BY <2>6 DEF r, G
  <1> QED
    BY <1>4, <1>5, <1>6, <1>7, <1>8, ApplyCases

(* Folding in a change later than all before it keeps the membership rule. *)
LEMMA FoldKeepsRule ==
    ASSUME NEW s \in Replica, NEW F \in SUBSET Change, NEW c \in Change,
           \A x \in F \cup {c} : 1 <= x.lamport.clock,
           TombstoneOk(s, F),
           \A old \in F : Before(old.lamport, c.lamport),
           s.member <=> InsertedAndNotDeletedSince(F)
    PROVE  ApplyChange(s, c).member <=> InsertedAndNotDeletedSince(F \cup {c})
  <1> DEFINE r == ApplyChange(s, c)
             G == F \cup {c}
  <1>1. /\ s.tombstone \in Stamp
        /\ \A x \in G : x.lamport \in Stamp
    BY DEF Replica, Change
  <1>2. CASE c.edit.field \in {"PlayCount", "Rating", "LastPlayedAt"}
    <2>1. r.member = s.member
      <3>1. CASE c.edit.field = "PlayCount"
        <4>1. r = [s EXCEPT !.play_count = @ + 1]
          BY <3>1, ApplyCases
        <4> QED
          BY <4>1 DEF Replica
      <3>2. CASE c.edit.field = "Rating"
        <4>1. r = ApplyRating(s, c)
          BY <3>2, ApplyCases
        <4> QED
          BY <4>1 DEF Replica, ApplyRating
      <3>3. CASE c.edit.field = "LastPlayedAt"
        <4>1. r = ApplyLastPlayedAt(s, c)
          BY <3>3, ApplyCases
        <4> QED
          BY <4>1 DEF Replica, ApplyLastPlayedAt
      <3> QED
        BY <1>2, <3>1, <3>2, <3>3
    <2>2. Of(G, "Insert") = Of(F, "Insert") /\ Of(G, "Tombstone") = Of(F, "Tombstone")
      <3>1. c.edit.field # "Insert" /\ c.edit.field # "Tombstone"
        BY <1>2
      <3>2. \A f : c.edit.field # f => Of(G, f) = Of(F, f)
        BY OfUnion
      <3> QED
        BY <3>1, <3>2
    <2> HIDE DEF r, G
    <2>3. r.member <=> InsertedAndNotDeletedSince(G)
      BY <2>1, <2>2 DEF InsertedAndNotDeletedSince
    <2> QED
      BY <2>3 DEF r, G
  <1>3. CASE c.edit.field = "Tombstone"
    <2>0. r = ApplyTombstone(s, c)
      BY <1>3, ApplyCases
    <2>1. r.member = FALSE
      BY <2>0 DEF Replica, ApplyTombstone
    <2>2. Of(G, "Insert") = Of(F, "Insert") /\ c \in Of(G, "Tombstone")
      <3>1. \A f : f # "Tombstone" => Of(G, f) = Of(F, f)
        BY <1>3, OfUnion
      <3>2. Of(G, "Tombstone") = Of(F, "Tombstone") \cup {c}
        BY <1>3, OfUnion, ZenonT(30)
      <3> QED
        BY <3>1, <3>2
    <2>3. \A i \in Of(G, "Insert") : ~Before(c.lamport, i.lamport)
      BY <1>1, <2>2, BeforeOrder DEF Of
    <2> HIDE DEF r, G
    <2>4. ~InsertedAndNotDeletedSince(G)
      BY <2>2, <2>3 DEF InsertedAndNotDeletedSince
    <2> QED
      BY <2>1, <2>4 DEF r, G
  <1>4. CASE c.edit.field = "Insert"
    <2>0. r = ApplyInsert(s, c)
      BY <1>4, ApplyCases
    <2>1. r.member = (s.member \/ Before(s.tombstone, c.lamport))
      BY <2>0 DEF Replica, ApplyInsert
    <2>2. /\ c \in Of(G, "Insert")
          /\ Of(G, "Tombstone") = Of(F, "Tombstone")
      <3>1. \A f : f # "Insert" => Of(G, f) = Of(F, f)
        BY <1>4, OfUnion, ZenonT(30)
      <3>2. Of(G, "Insert") = Of(F, "Insert") \cup {c}
        BY <1>4, OfUnion, ZenonT(30)
      <3> QED
        BY <3>1, <3>2
    <2>3. Before(s.tombstone, c.lamport)
      <3>1. CASE s.tombstone = Absent
        BY <1>1, <3>1, BeforeOrder
      <3>2. CASE \E t \in Of(F, "Tombstone") : t.lamport = s.tombstone
        BY <3>2 DEF Of
      <3> QED
        BY <3>1, <3>2 DEF TombstoneOk
    <2>4. \A t \in Of(G, "Tombstone") : Before(t.lamport, c.lamport)
      BY <2>2 DEF Of
    <2> HIDE DEF r, G
    <2>5. InsertedAndNotDeletedSince(G)
      BY <2>2, <2>4 DEF InsertedAndNotDeletedSince
    <2> QED
      BY <2>1, <2>3, <2>5 DEF r, G
  <1> QED
    BY <1>2, <1>3, <1>4, ApplyCases

-----------------------------------------------------------------------------
(* What every replica owes to the changes folded into it, at every step.   *)
RuleOk(s, F, ordered) == ordered => (s.member <=> InsertedAndNotDeletedSince(F))

ReplicaInv ==
    \A d \in Device : /\ ReplicaOk(replica[d], folded[d], compacted[d])
                      /\ RuleOk(replica[d], folded[d], inOrder[d])

(* The empty replica owes nothing.                                         *)
LEMMA ReplicaInit == Init => ReplicaInv
  <1> SUFFICES ASSUME Init PROVE ReplicaInv
    OBVIOUS
  <1>1. \A f : Of({}, f) = {}
    BY DEF Of
  <1>2. IsFiniteSet({}) /\ Cardinality({}) = 0
    BY FS_EmptySet
  <1>3. ReplicaOk(EmptyReplica, {}, FALSE)
    BY <1>1, <1>2 DEF ReplicaOk, RatingOk, PlayedOk, TombstoneOk, DeletedOk,
                      CountOk, EmptyReplica
  <1>4. RuleOk(EmptyReplica, {}, TRUE)
    BY <1>1 DEF RuleOk, InsertedAndNotDeletedSince, EmptyReplica
  <1> QED
    BY <1>3, <1>4 DEF Init, ReplicaInv

(* Compacting keeps what does not speak of a device that never compacted.  *)
LEMMA CompactKeepsReplicaOk ==
    ASSUME NEW s \in Replica, NEW F \in SUBSET Change, NEW b, ReplicaOk(s, F, b)
    PROVE  ReplicaOk([s EXCEPT !.tombstone = Absent], F, TRUE)
  <1> DEFINE r == [s EXCEPT !.tombstone = Absent]
  <1>1. /\ r.rating = s.rating /\ r.last_played_at = s.last_played_at
        /\ r.play_count = s.play_count /\ r.tombstone = Absent
    BY DEF Replica
  <1> HIDE DEF r
  <1>2. ReplicaOk(r, F, TRUE)
    BY <1>1 DEF ReplicaOk, RatingOk, PlayedOk, TombstoneOk, CountOk, DeletedOk
  <1> QED
    BY <1>2 DEF r

(* Every step keeps them: only Fold and Compact touch a replica.           *)
LEMMA ReplicaStep == TypeInv /\ ReplicaInv /\ [Next]_vars => ReplicaInv'
  <1> SUFFICES ASSUME TypeInv, ReplicaInv, [Next]_vars PROVE ReplicaInv'
    OBVIOUS
  <1>1. CASE UNCHANGED merged
    BY <1>1 DEF merged, ReplicaInv
  <1>2. ASSUME NEW d \in Device,
               \/ StartEdit(d) \/ TickEdit(d) \/ TickMerge(d)
               \/ \E edit \in Edit : StampEdit(d, edit)
               \/ \E batch \in SUBSET log : Receive(d, batch)
        PROVE  UNCHANGED merged
    BY <1>2 DEF StartEdit, TickEdit, TickMerge, StampEdit, Receive
  <1>3. ASSUME NEW d \in Device, NEW c \in pending[d], Fold(d, c)
        PROVE  ReplicaInv'
    <2>1. /\ replica \in [Device -> Replica] /\ folded \in [Device -> SUBSET log]
          /\ inOrder \in [Device -> BOOLEAN] /\ compacted[d] \in BOOLEAN
          /\ c \in log /\ log \subseteq Change /\ folded[d] \in SUBSET Change
      BY DEF TypeInv, TypeOK
    <2>2. \A x \in folded[d] \cup {c} : 1 <= x.lamport.clock
      BY <2>1 DEF TypeInv, ClockInv
    <2>3. IsFiniteSet(folded[d])
      BY <2>1, FS_Subset DEF TypeInv, TypeOK
    <2>4. ReplicaOk(replica[d], folded[d], compacted[d])
      BY DEF ReplicaInv
    <2>5. ReplicaOk(ApplyChange(replica[d], c), folded[d] \cup {c}, compacted[d])
      BY <2>1, <2>2, <2>3, <2>4, FoldKeepsReplicaOk
    <2>6. ASSUME inOrder[d], \A old \in folded[d] : Before(old.lamport, c.lamport)
          PROVE  ApplyChange(replica[d], c).member
                   <=> InsertedAndNotDeletedSince(folded[d] \cup {c})
      <3>1. replica[d].member <=> InsertedAndNotDeletedSince(folded[d])
        BY <2>6 DEF ReplicaInv, RuleOk
      <3>2. TombstoneOk(replica[d], folded[d])
        BY <2>4 DEF ReplicaOk
      <3> QED
        BY <2>1, <2>2, <2>6, <3>1, <3>2, FoldKeepsRule
    <2>7. /\ replica'[d] = ApplyChange(replica[d], c)
          /\ folded'[d] = folded[d] \cup {c}
          /\ inOrder'[d] <=> /\ inOrder[d]
                             /\ \A old \in folded[d] : Before(old.lamport, c.lamport)
          /\ \A e \in Device \ {d} : /\ replica'[e] = replica[e]
                                     /\ folded'[e] = folded[e]
                                     /\ inOrder'[e] = inOrder[e]
          /\ compacted' = compacted
      BY <1>3, <2>1 DEF Fold
    <2>8. /\ ReplicaOk(replica'[d], folded'[d], compacted'[d])
          /\ RuleOk(replica'[d], folded'[d], inOrder'[d])
      BY <2>5, <2>6, <2>7 DEF RuleOk
    <2> QED
      BY <2>7, <2>8 DEF ReplicaInv
  <1>4. ASSUME NEW d \in Device, Compact(d) PROVE ReplicaInv'
    <2> DEFINE r == [replica[d] EXCEPT !.tombstone = Absent]
    <2>1. /\ replica \in [Device -> Replica] /\ replica[d] \in Replica
          /\ folded[d] \in SUBSET Change
      BY DEF TypeInv, TypeOK
    <2>2. ReplicaOk(r, folded[d], TRUE)
      BY <1>4, <2>1, CompactKeepsReplicaOk DEF Compact, ReplicaInv
    <2>3. r.member = replica[d].member
      BY <2>1 DEF Replica
    <2>4. RuleOk(r, folded[d], inOrder[d])
      BY <2>3 DEF ReplicaInv, RuleOk
    <2>5. /\ replica'[d] = r
          /\ compacted'[d] = TRUE
          /\ \A e \in Device \ {d} : /\ replica'[e] = replica[e]
                                     /\ compacted'[e] = compacted[e]
          /\ UNCHANGED <<folded, inOrder>>
      BY <1>4, <2>1 DEF Compact, TypeInv, TypeOK
    <2> HIDE DEF r
    <2> QED
      BY <2>2, <2>4, <2>5 DEF ReplicaInv
  <1>5. CASE UNCHANGED vars
    BY <1>1, <1>5 DEF vars, merged
  <1> QED
    BY <1>1, <1>2, <1>3, <1>4, <1>5 DEF Next

(* Every replica is what the changes folded into it make of it, in         *)
(* whatever order they came.                                               *)
THEOREM ReplicaInvariant == Spec => [](TypeInv /\ ReplicaInv)
  BY TypeInit, TypeStep, ReplicaInit, ReplicaStep, PTL DEF Spec

(* Single values are those of the latest change merged.                    *)
THEOREM LatestValueWins == Spec => []LatestWins
  <1>1. TypeInv /\ ReplicaInv => LatestWins
    <2> SUFFICES ASSUME TypeInv, ReplicaInv, NEW d \in Device
                 PROVE  /\ replica[d].rating \in
                             {c.lamport : c \in Of(folded[d], "Rating")} \cup {Absent}
                        /\ \A s \in {c.lamport : c \in Of(folded[d], "Rating")} :
                              ~Before(replica[d].rating, s)
                        /\ replica[d].last_played_at \in
                             {c.edit.value : c \in Of(folded[d], "LastPlayedAt")} \cup {0}
                        /\ \A t \in {c.edit.value : c \in Of(folded[d], "LastPlayedAt")} :
                              t <= replica[d].last_played_at
      BY DEF LatestWins
    <2>1. RatingOk(replica[d], folded[d]) /\ PlayedOk(replica[d], folded[d])
      BY DEF ReplicaInv, ReplicaOk
    <2>2. /\ replica[d].rating \in
               {c.lamport : c \in Of(folded[d], "Rating")} \cup {Absent}
          /\ \A s \in {c.lamport : c \in Of(folded[d], "Rating")} :
                ~Before(replica[d].rating, s)
      BY <2>1 DEF RatingOk
    <2>3. /\ replica[d].last_played_at \in
               {c.edit.value : c \in Of(folded[d], "LastPlayedAt")} \cup {0}
          /\ \A t \in {c.edit.value : c \in Of(folded[d], "LastPlayedAt")} :
                t <= replica[d].last_played_at
      BY <2>1 DEF PlayedOk
    <2> QED
      BY <2>2, <2>3
  <1> QED
    BY <1>1, ReplicaInvariant, PTL

(* No merge loses a play of any device.                                    *)
THEOREM PlaysAreKept == Spec => []NoPlayIsLost
  <1>1. ReplicaInv => NoPlayIsLost
    BY DEF ReplicaInv, ReplicaOk, CountOk, NoPlayIsLost
  <1> QED
    BY <1>1, ReplicaInvariant, PTL

(* The one tombstone of a track keeps it deleted, until it is compacted.   *)
THEOREM DeletionHolds == Spec => []DeletedStaysDeleted
  <1>1. ReplicaInv => DeletedStaysDeleted
    BY DEF ReplicaInv, ReplicaOk, DeletedOk, DeletedStaysDeleted
  <1> QED
    BY <1>1, ReplicaInvariant, PTL

(* A merge in the order of the stamps obeys the membership rule.           *)
THEOREM OrderedMergeObeysRule == Spec => []MembershipRuleInOrder
  <1>1. ReplicaInv => MembershipRuleInOrder
    BY DEF ReplicaInv, RuleOk, MembershipRuleInOrder
  <1> QED
    BY <1>1, ReplicaInvariant, PTL
==============================================================================
