------------------------------ MODULE SyncMerge ------------------------------
(***************************************************************************)
(* Devices that exchange changes and merge them with apply_changes()       *)
(* (sync/transport.cpp), stamped by the Lamport clock of the sync engine   *)
(* (sync/engine.cpp).                                                      *)
(*                                                                         *)
(* The transport may deliver any changes to any device, in batches of any  *)
(* size, late, out of order and again (an interrupted sync is resumed from *)
(* an old watermark).  apply_changes() sorts the batch and folds it in one *)
(* change at a time; each change folded is a step here.                    *)
(*                                                                         *)
(* tick_lamport() loads the clock, computes and stores it without a lock:  *)
(* two steps here.  A host ticks it for the changes its user makes and for *)
(* those it merges, from one thread at a time (OneCaller) or from two.     *)
(*                                                                         *)
(* The maps of SyncState are keyed by entity, and no rule relates two      *)
(* entities, so one entity is enough: one track with a play count, a       *)
(* last-played time and a rating, in one playlist.  The rating stands for  *)
(* the other fields the code merges by comparing stamps and the repository *)
(* wants merged so: is_loved, playlist_rename, smart_rules and bookmarks.  *)
(* A rating is known by the stamp of the change that set it.               *)
(***************************************************************************)
EXTENDS Integers, FiniteSets

CONSTANTS
    Device,
    DeviceId,       \* device -> the 32 bits of its hash, Lamport::device
    OneCaller,      \* a host ticks and reads its clock from one thread at a time
    PlayedAt,       \* the times last_played_at takes
    CutoffClock,    \* now_unix - floor, the bound compact_tombstones() uses
    MixFields,      \* bound: FALSE when all changes are to one field
    MaxChanges,     \* bound: changes recorded
    MaxClock        \* bound: no device's clock goes beyond it

(* Two devices may have the same hash.                                     *)
ASSUME DeviceAssumption == DeviceId \in [Device -> Nat]
ASSUME OneCallerAssumption == OneCaller \in BOOLEAN
ASSUME PlayedAtAssumption == PlayedAt \in SUBSET Nat
ASSUME CutoffClockAssumption == CutoffClock \in Nat
ASSUME BoundsAssumption ==
    MixFields \in BOOLEAN /\ MaxChanges \in Nat /\ MaxClock \in Nat

VARIABLES
    log,        \* the changes recorded so far, on all devices
    lamport,    \* device -> lamport_ of its engine
    editTick,   \* device -> the tick_lamport() of a change its user makes
    mergeTick,  \* device -> the tick_lamport() of the batch it merges
    replica,    \* device -> its SyncState, while and after it merges
    pending,    \* device -> the changes of its batch not folded in yet
    folded,     \* history: device -> the changes ever folded into its replica
    inOrder,    \* history: device -> each was later than those before it
    compacted   \* history: device -> it dropped a tombstone

clocks == <<lamport, editTick, mergeTick>>
merged == <<replica, folded, inOrder, compacted>>
vars == <<log, lamport, editTick, mergeTick, replica, pending, folded, inOrder,
          compacted>>

(* Lamport: ordered by clock, then device.  A map entry that is absent is  *)
(* older than every stamp.                                                 *)
Stamp == [clock : Nat, device : Nat]
Before(a, b) == a.clock < b.clock \/ (a.clock = b.clock /\ a.device < b.device)
Absent == [clock |-> 0, device |-> 0]

Edit == [field : {"PlayCount", "Rating", "Insert", "Tombstone"}, value : {1}]
        \cup [field : {"LastPlayedAt"}, value : PlayedAt]
(* The nth change of the device that made it.                              *)
Change == [edit : Edit, lamport : Stamp, by : Device, nth : Nat]

Of(changes, field) == {c \in changes : c.edit.field = field}

Membership == {"Insert", "Tombstone"}
SameField(f, g) == f = g \/ {f, g} = Membership

Replica == [play_count : Nat, rating : Stamp, last_played_at : Nat,
            member : BOOLEAN, tombstone : Stamp]
EmptyReplica == [play_count |-> 0, rating |-> Absent, last_played_at |-> 0,
                 member |-> FALSE, tombstone |-> Absent]

(* The cases of apply_changes().                                           *)
ApplyPlayCountOverwrites(s, c) == [s EXCEPT !.play_count = c.edit.value]
ApplyPlayCount(s, c) == [s EXCEPT !.play_count = @ + c.edit.value]

ApplyRatingLastArrival(s, c) == [s EXCEPT !.rating = c.lamport]
ApplyRating(s, c) ==
    [s EXCEPT !.rating = IF Before(@, c.lamport) THEN c.lamport ELSE @]

ApplyLastPlayedAt(s, c) ==
    [s EXCEPT !.last_played_at = IF c.edit.value > @ THEN c.edit.value ELSE @]

(* A tombstone is stored whatever one is there, so an older one replaces a *)
(* newer, and erases the track whenever it was inserted.                   *)
ApplyTombstone(s, c) == [s EXCEPT !.member = FALSE, !.tombstone = c.lamport]

ApplyInsertAlways(s, c) == [s EXCEPT !.member = TRUE]
ApplyInsertNeverAgain(s, c) == [s EXCEPT !.member = @ \/ s.tombstone = Absent]
ApplyInsert(s, c) == [s EXCEPT !.member = @ \/ Before(s.tombstone, c.lamport)]

ApplyChange(s, c) ==
    CASE c.edit.field = "PlayCount"    -> ApplyPlayCount(s, c)
      [] c.edit.field = "Rating"       -> ApplyRating(s, c)
      [] c.edit.field = "LastPlayedAt" -> ApplyLastPlayedAt(s, c)
      [] c.edit.field = "Tombstone"    -> ApplyTombstone(s, c)
      [] c.edit.field = "Insert"       -> ApplyInsert(s, c)

(* What tick_lamport() makes of the clock it loaded: it passes the remote  *)
(* one and takes its device.                                               *)
TickIgnoresRemote(l, clock, device) ==
    [clock |-> l.clock + 1, device |-> device]
TickWithoutStep(l, clock, device) ==
    [clock |-> (IF clock > l.clock THEN clock ELSE l.clock), device |-> device]
Tick(l, clock, device) ==
    [clock |-> (IF clock > l.clock THEN clock ELSE l.clock) + 1,
     device |-> device]

(* A call of it: between its load and its store it holds the next value.   *)
Call == [at : {"idle", "loaded", "stored"}, next : Stamp]
NoCall == [at |-> "idle", next |-> Absent]
Loaded(stamp) == [at |-> "loaded", next |-> stamp]
Stored == [at |-> "stored", next |-> Absent]

Init ==
    /\ log = {}
    /\ lamport = [d \in Device |-> Absent]
    /\ editTick = [d \in Device |-> NoCall]
    /\ mergeTick = [d \in Device |-> NoCall]
    /\ replica = [d \in Device |-> EmptyReplica]
    /\ pending = [d \in Device |-> {}]
    /\ folded = [d \in Device |-> {}]
    /\ inOrder = [d \in Device |-> TRUE]
    /\ compacted = [d \in Device |-> FALSE]

-----------------------------------------------------------------------------
(* The devices that are recording a change.                                *)
Editing == {d \in Device : editTick[d].at # "idle"}

(* The host records a change of its user: tick_lamport() in its own name   *)
(* loads the clock and stores the next value, and the change is stamped    *)
(* with what lamport_clock() then reads.                                   *)
StartEdit(d) ==
    /\ editTick[d].at = "idle"
    /\ OneCaller => mergeTick[d].at = "idle"
    /\ Cardinality(log) + Cardinality(Editing) < MaxChanges
    /\ lamport[d].clock < MaxClock
    /\ editTick' = [editTick EXCEPT
          ![d] = Loaded(Tick(lamport[d], 0, DeviceId[d]))]
    /\ UNCHANGED <<log, lamport, mergeTick, pending, merged>>

TickEdit(d) ==
    /\ editTick[d].at = "loaded"
    /\ lamport' = [lamport EXCEPT ![d] = editTick[d].next]
    /\ editTick' = [editTick EXCEPT ![d] = Stored]
    /\ UNCHANGED <<log, mergeTick, pending, merged>>

StampEdit(d, edit) ==
    /\ editTick[d].at = "stored"
    /\ MixFields \/ \A c \in log : SameField(c.edit.field, edit.field)
    /\ log' = log \cup {[edit |-> edit, lamport |-> lamport[d], by |-> d,
                         nth |-> Cardinality({c \in log : c.by = d})]}
    /\ editTick' = [editTick EXCEPT ![d] = NoCall]
    /\ UNCHANGED <<lamport, mergeTick, pending, merged>>

(* A batch arrives and the clock passes the last stamp in it, before the   *)
(* batch is merged; a device merges its own changes like those of others.  *)
Receive(d, batch) ==
    /\ pending[d] = {}
    /\ mergeTick[d].at = "idle"
    /\ OneCaller => editTick[d].at = "idle"
    /\ \E last \in batch :
          /\ \A c \in batch : ~Before(last.lamport, c.lamport)
          /\ mergeTick' = [mergeTick EXCEPT ![d] =
                Loaded(Tick(lamport[d], last.lamport.clock, last.lamport.device))]
    /\ mergeTick'[d].next.clock <= MaxClock
    /\ pending' = [pending EXCEPT ![d] = batch]
    /\ UNCHANGED <<log, lamport, editTick, merged>>

TickMerge(d) ==
    /\ mergeTick[d].at = "loaded"
    /\ lamport' = [lamport EXCEPT ![d] = mergeTick[d].next]
    /\ mergeTick' = [mergeTick EXCEPT ![d] = NoCall]
    /\ UNCHANGED <<log, editTick, pending, merged>>

(* The loop of apply_changes() over the sorted batch; std::sort leaves     *)
(* changes of equal stamps in any order.                                   *)
Fold(d, c) ==
    /\ mergeTick[d].at = "idle"
    /\ c \in pending[d]
    /\ \A other \in pending[d] : ~Before(other.lamport, c.lamport)
    /\ replica' = [replica EXCEPT ![d] = ApplyChange(@, c)]
    /\ pending' = [pending EXCEPT ![d] = @ \ {c}]
    /\ folded' = [folded EXCEPT ![d] = @ \cup {c}]
    /\ inOrder' = [inOrder EXCEPT
          ![d] = @ /\ \A old \in folded[d] : Before(old.lamport, c.lamport)]
    /\ UNCHANGED <<log, clocks, compacted>>

(* compact_tombstones() compares a logical clock with a time in seconds:   *)
(* CutoffClock is beyond every clock a device reaches.                     *)
Compact(d) ==
    /\ pending[d] = {}
    /\ replica[d].tombstone # Absent
    /\ replica[d].tombstone.clock < CutoffClock
    /\ replica' = [replica EXCEPT ![d].tombstone = Absent]
    /\ compacted' = [compacted EXCEPT ![d] = TRUE]
    /\ UNCHANGED <<log, clocks, pending, folded, inOrder>>

Next == \E d \in Device :
    \/ StartEdit(d)
    \/ TickEdit(d)
    \/ \E edit \in Edit : StampEdit(d, edit)
    \/ \E batch \in SUBSET log : Receive(d, batch)
    \/ TickMerge(d)
    \/ \E c \in pending[d] : Fold(d, c)
    \/ Compact(d)

Spec == Init /\ [][Next]_vars

-----------------------------------------------------------------------------
TypeOK ==
    /\ log \in SUBSET Change /\ IsFiniteSet(log)
    /\ lamport \in [Device -> Stamp]
    /\ editTick \in [Device -> Call]
    /\ mergeTick \in [Device -> Call]
    /\ replica \in [Device -> Replica]
    /\ pending \in [Device -> SUBSET log]
    /\ folded \in [Device -> SUBSET log]
    /\ inOrder \in [Device -> BOOLEAN]
    /\ compacted \in [Device -> BOOLEAN]

(* Two changes with the same stamp come from two devices of the same hash, *)
(* although every batch received leaves the sender's device in the         *)
(* receiver's clock: otherwise the order apply_changes() sorts by, and     *)
(* compares single values by, is total (transport_port.hpp:32).  It takes  *)
(* OneCaller: a second thread between the load and the store undoes it.    *)
StampsAreUnique ==
    \A a, b \in log :
        a.lamport = b.lamport =>
            a = b \/ (a.by # b.by /\ DeviceId[a.by] = DeviceId[b.by])

(* A change recorded on a device is later than every change the device has *)
(* merged, whatever is merged while it is being recorded: the user's edit  *)
(* wins over what it was made in sight of.  It takes OneCaller too.        *)
LocalEditIsLatest ==
    [][\A c \in log' \ log : \A old \in folded[c.by] :
          Before(old.lamport, c.lamport)]_vars

(* Whatever the order, the batches and the repetitions in which changes    *)
(* arrived, a rating (and each field it stands for) is that of the latest  *)
(* change that did, and the last-played time the greatest: devices that    *)
(* have merged the same changes agree on both.                             *)
LatestWins ==
    \A d \in Device :
        LET ratings == {c.lamport : c \in Of(folded[d], "Rating")}
            times == {c.edit.value : c \in Of(folded[d], "LastPlayedAt")}
        IN /\ replica[d].rating \in ratings \cup {Absent}
           /\ \A s \in ratings : ~Before(replica[d].rating, s)
           /\ replica[d].last_played_at \in times \cup {0}
           /\ \A t \in times : t <= replica[d].last_played_at

(* The play count has no less than the plays merged, of one device or of   *)
(* several ("sum of per-device deltas", sync-protocol.md:404): a merge may  *)
(* count a play twice, and never overwrites one.                           *)
NoPlayIsLost ==
    \A d \in Device :
        replica[d].play_count >= Cardinality(Of(folded[d], "PlayCount"))

(* A track deleted once, later than every insert merged, stays deleted     *)
(* whatever order they came in and whatever is merged again, until the     *)
(* device compacts its tombstones: then an old insert brings it back.      *)
DeletedStaysDeleted ==
    \A d \in Device : \A t \in Of(folded[d], "Tombstone") :
        /\ ~compacted[d]
        /\ Of(folded[d], "Tombstone") = {t}
        /\ \A i \in Of(folded[d], "Insert") : Before(i.lamport, t.lamport)
        => ~replica[d].member

(* A delete wins only if it is later than every competing insert           *)
(* (shared-spec/sync-protocol.md:411, transport.cpp:135).                  *)
InsertedAndNotDeletedSince(changes) ==
    \E i \in Of(changes, "Insert") :
        \A t \in Of(changes, "Tombstone") : Before(t.lamport, i.lamport)

MembershipRule ==
    \A d \in Device :
        pending[d] = {} =>
            (replica[d].member <=> InsertedAndNotDeletedSince(folded[d]))

(* The rule holds on a device that merges changes in the order of their    *)
(* stamps, as one merge of everything into an empty state does.            *)
MembershipRuleInOrder ==
    \A d \in Device :
        inOrder[d] =>
            (replica[d].member <=> InsertedAndNotDeletedSince(folded[d]))

(* Applying the same set twice yields the same state (REQ-SYN-011,         *)
(* transport.cpp:55): here the set is a single change.                     *)
MergeIdempotent ==
    [][\A d \in Device : \A c \in folded[d] :
          pending[d] = {c} /\ pending'[d] = {} => replica'[d] = replica[d]]_vars
==============================================================================
