--------------------------- MODULE LibraryDatabase ---------------------------
(* The library: its SQLite tables, the smart playlists that are refreshed   *)
(* from them and the importer that fills them.                              *)
(* src/desktop/src/library/library_database.cpp, library_importer.cpp,      *)
(* filesystem_scanner.cpp, sidecar_tag_reader.cpp                           *)
(*                                                                          *)
(* Every statement is a transaction of its own; a refresh or an import is a *)
(* sequence of them that may fail or crash between any two.                 *)
EXTENDS Integers, SequencesExt, FiniteSetsExt

CONSTANTS
    Files,      \* media paths
    Disks,      \* what a scan may meet: media files in the order of the walk and of their
                \* names, each with its sidecar's lines, each a record of the one key it
                \* sets (no lines: no sidecar)
    Stem,       \* from paths to the text of their last part
    Offered,    \* tracks offered to insert_track
    RuleTexts,  \* rule documents offered to save_smart_playlist
    Now,        \* the clock
    MaxLists,   \* bound: saved playlists
    MaxId       \* bound: track ids

\* The rules and their SQL: SmartPlaylist.tla.
CONSTANTS
    Accepts(_),        \* whether a document parses and compiles
    RuleOf(_),           \* its rule: what it matches, its order and its limit
    QueryOf(_),    \* its query: where, params, orderBy, limit
    CanPrepare(_),       \* whether SQLite takes the query's statement
    Chooses(_, _, _),  \* whether a condition, with its parameters, is true of a row
    Describes(_, _),   \* whether what a rule matches is true of a row
    TermLess(_, _, _)  \* whether a term of an order puts one row before another

VARIABLES
    isOpen,   \* db_ # nullptr
    tracks,   \* rows of tracks: a function from their ids
    lists,    \* rows of playlists: their rule documents, by id
    items,    \* rows of playlist_items
    job,      \* the refresh or the import under way
    \* History:
    fresh,    \* no row changed since the last refresh that went through
    asOf,     \* the rows each list was last filled from: none when it is emptied
    removed     \* the items that have gone with their tracks since
vars == <<isOpen, tracks, lists, items, job, fresh, asOf, removed>>

Idle == [op |-> "none"]
NoLimit == 0
Str(s) == [str |-> s]
Num(n) == [num |-> n]

NoRows == <<>>
Init ==
    /\ isOpen = FALSE /\ tracks = NoRows /\ lists = <<>> /\ items = {} /\ job = Idle
    /\ fresh = FALSE /\ asOf = <<>> /\ removed = {}

Rows == <<tracks, lists, items, fresh, asOf, removed>>

Open  == job = Idle /\ ~isOpen /\ isOpen' = TRUE /\ UNCHANGED <<Rows, job>>
Close == job = Idle /\ isOpen /\ isOpen' = FALSE /\ UNCHANGED <<Rows, job>>

\* The process dies; committed statements stay.
Crash == job # Idle /\ isOpen' = FALSE /\ job' = Idle /\ UNCHANGED Rows

\* An operation that is refused (the database is closed, the track invalid,
\* present or absent, the rule one that does not compile) changes nothing.
RowOf(path) == {id \in DOMAIN tracks : tracks[id].path = path}
FreshId == IF DOMAIN tracks = {} THEN 1 ELSE Max(DOMAIN tracks) + 1
Row(path, t) == [path |-> path, title |-> Str(t.title), artist |-> Str(t.artist),
                 duration_ms |-> Num(t.duration), tags |-> {}]
CanInsert == FreshId <= MaxId
Insert(path, t) == [id \in DOMAIN tracks \cup {FreshId} |->
                       IF id = FreshId THEN Row(path, t) ELSE tracks[id]]
Upsert(path, t) ==
    IF RowOf(path) = {} THEN Insert(path, t)
    ELSE [tracks EXCEPT ![CHOOSE id \in RowOf(path) : TRUE] = Row(path, t)]

InsertTrack(path, t) ==
    /\ job = Idle /\ isOpen /\ CanInsert /\ t.duration >= 0 /\ RowOf(path) = {}
    /\ tracks' = Insert(path, t) /\ fresh' = FALSE
    /\ UNCHANGED <<isOpen, lists, items, job, asOf, removed>>

\* The rows of the other tables that name the track go with it.
RemoveTrack(path) ==
    /\ job = Idle /\ isOpen /\ RowOf(path) # {}
    /\ tracks' = [id \in DOMAIN tracks \ RowOf(path) |-> tracks[id]]
    /\ items' = {i \in items : i.track \notin RowOf(path)}
    /\ removed' = removed \cup {i \in items : i.track \in RowOf(path)}
    /\ fresh' = FALSE
    /\ UNCHANGED <<isOpen, lists, job, asOf>>

SaveSmartPlaylist(text) ==
    /\ job = Idle /\ isOpen /\ Len(lists) < MaxLists
    /\ Accepts(text)
    /\ lists' = Append(lists, text) /\ fresh' = FALSE
    /\ asOf' = [l \in DOMAIN lists' |-> IF l \in DOMAIN lists THEN asOf[l] ELSE NoRows]
    /\ UNCHANGED <<isOpen, tracks, items, job, removed>>

-----------------------------------------------------------------------------
(* evaluate_all_smart_playlists                                             *)

\* The values as they meet the "?" of the statement in the order of its
\* text: the list's id, added_at, the rule's own, the limit. They are bound in
\* another order: the id, the rule's, the clock, the limit.
Bindings(q, list) ==
    <<Num(list)>> \o q.params \o <<Num(Now)>>
        \o IF q.limit = NoLimit THEN <<>> ELSE <<Num(q.limit)>>
AddedAt(q, list) == Bindings(q, list)[2]
RuleParams(q, list) == SubSeq(Bindings(q, list), 3, 2 + Len(q.params))
Limit(q, list) == IF q.limit = NoLimit THEN Cardinality(DOMAIN tracks)
                  ELSE Bindings(q, list)[3 + Len(q.params)].num

Chosen(q, list) ==
    {id \in DOMAIN tracks : Chooses(q.where, RuleParams(q, list), tracks[id])}

\* Of these rows a may stand before b: the first term that tells them apart decides.
InOrder(rows, order, a, b) ==
    LET First(i, x, y) == TermLess(order[i], rows[x], rows[y])
        Decides(i) == order[i].field = "random" \/ First(i, a, b) \/ First(i, b, a)
    IN  \A i \in DOMAIN order :
            Decides(i) /\ (\A j \in 1..i-1 : ~Decides(j)) =>
                \/ order[i].field = "random"
                \/ First(i, a, b) = (order[i].direction = "asc")
Rankings(q, S) ==
    {s \in {t \in [1..Cardinality(S) -> S] : \A i, j \in DOMAIN t : t[i] = t[j] => i = j} :
        \A i, j \in DOMAIN s : i < j => InOrder(tracks, q.orderBy, s[i], s[j])}
Smaller(a, b) == IF a < b THEN a ELSE b

StartRefresh == [op |-> "refresh", list |-> 1, step |-> "clear"]
Refresh == job = Idle /\ isOpen /\ job' = StartRefresh /\ UNCHANGED <<isOpen, Rows>>

Query == QueryOf(lists[job.list])

Emptied ==
    /\ job' = [job EXCEPT !.step = "fill"] /\ fresh' = FALSE
    /\ asOf' = [asOf EXCEPT ![job.list] = NoRows] /\ removed' = {i \in removed : i.list # job.list}
ClearForgotten ==   \* mutant: the old rows stay
    /\ job.op = "refresh" /\ job.list <= Len(lists) /\ job.step = "clear"
    /\ Emptied /\ UNCHANGED <<isOpen, tracks, lists, items>>

ClearList ==
    /\ job.op = "refresh" /\ job.list <= Len(lists) /\ job.step = "clear"
    /\ items' = {i \in items : i.list # job.list}
    /\ Emptied /\ UNCHANGED <<isOpen, tracks, lists>>

\* A statement SQLite refuses ends the refresh: this list stays empty and
\* those after it stay as they were.
FillList ==
    /\ job.op = "refresh" /\ job.list <= Len(lists) /\ job.step = "fill"
    /\ UNCHANGED <<isOpen, tracks, lists, fresh, removed>>
    /\ IF ~CanPrepare(Query) THEN job' = Idle /\ UNCHANGED <<items, asOf>>
       ELSE \E s \in Rankings(Query, Chosen(Query, job.list)) :
              /\ items' = items \cup
                    {[list |-> job.list, position |-> i, track |-> s[i],
                      added |-> AddedAt(Query, job.list)] :
                        i \in 1..Smaller(Len(s), Limit(Query, job.list))}
              /\ asOf' = [asOf EXCEPT ![job.list] = tracks]
              /\ job' = [job EXCEPT !.list = @ + 1, !.step = "clear"]

RefreshDone ==
    /\ job.op = "refresh" /\ job.list > Len(lists)
    /\ job' = Idle /\ fresh' = TRUE
    /\ UNCHANGED <<isOpen, tracks, lists, items, asOf, removed>>

-----------------------------------------------------------------------------
(* LibraryImporter::import_files                                            *)

\* The walk ends at max_files.
Scanned(disk, max) == SubSeq(disk, 1, Smaller(max, Len(disk)))

\* SidecarTagReader::read: a later line replaces an earlier one; a duration
\* that is negative fails the file.
ReadsTags(lines) == \A i \in DOMAIN lines : "duration" \in DOMAIN lines[i] => lines[i].duration >= 0
TagsOf(path, lines) ==
    FoldLeft(LAMBDA t, line : [k \in DOMAIN t |-> IF k \in DOMAIN line THEN line[k] ELSE t[k]],
             [title |-> Stem[path], artist |-> <<>>, duration |-> 0], lines)

Import(disk, max) ==
    /\ job = Idle /\ max # 0
    /\ job' = [op |-> "import", files |-> Scanned(disk, max)]
    /\ UNCHANGED <<isOpen, Rows>>

\* One file: its tags are read, its row inserted or replaced. The first
\* failure ends the import, with the rows written so far and no refresh.
ImportFile ==
    /\ job.op = "import" /\ job.files # <<>> /\ UNCHANGED <<isOpen, lists, items, asOf, removed>>
    /\ LET path == Head(job.files).path
           lines == Head(job.files).lines
       IN   IF ~ReadsTags(lines) \/ ~isOpen THEN job' = Idle /\ UNCHANGED <<tracks, fresh>>
           ELSE /\ RowOf(path) = {} => CanInsert
                /\ tracks' = Upsert(path, TagsOf(path, lines)) /\ fresh' = FALSE
                /\ job' = [job EXCEPT !.files = Tail(@)]

ImportRefreshes ==
    /\ job.op = "import" /\ job.files = <<>>
    /\ job' = IF isOpen THEN StartRefresh ELSE Idle
    /\ UNCHANGED <<isOpen, Rows>>

Next ==
    \/ Open \/ Close \/ Crash \/ Refresh \/ ClearList \/ FillList \/ RefreshDone
    \/ \E disk \in Disks : \E max \in 0..Len(disk) : Import(disk, max)
    \/ ImportFile \/ ImportRefreshes
    \/ \E p \in Files : \/ RemoveTrack(p)
                               \/ \E t \in Offered : InsertTrack(p, t)
    \/ \E text \in RuleTexts : SaveSmartPlaylist(text)

-----------------------------------------------------------------------------

\* A path has one row, and playlist rows always name a row that exists, each
\* track once and each position once in its list, whatever is removed,
\* imported again under a reused id or cut off by a crash (the UNIQUE and the
\* REFERENCES clauses of the schema, and the wipe before each refresh).
RowsFit ==
    /\ \A a, b \in DOMAIN tracks : tracks[a].path = tracks[b].path => a = b
    /\ \A i \in items : i.track \in DOMAIN tracks /\ i.list \in DOMAIN lists
    /\ \A i, j \in items : i.list = j.list /\ i # j =>
          i.position # j.position /\ i.track # j.track

\* At any time, also halfway through a refresh or an import, after one that a
\* refused statement or a crash cut off, and whatever was removed meanwhile,
\* a list has the items of its last filling less those whose tracks are gone,
\* or none since it was emptied. Filled, it was numbered from 1, no longer than
\* the limit and in the order of its rule; and when the rule has no literal it
\* held the tracks the rule describes, those that come first in the order.
\* Which tracks a rule with literals chooses is left open (see README.md: they
\* are bound in the wrong order), as is how long a list may stay empty.
ItemsOf(l) == {i \in items : i.list = l}
Placed(l) == {i \in items \cup removed : i.list = l}
IsNumbered(l) ==
    LET rule == RuleOf(lists[l])
    IN  /\ \E n \in 0..Cardinality(DOMAIN asOf[l]) :
             /\ {i.position : i \in Placed(l)} = 1..n
             /\ rule.limit # NoLimit => n <= rule.limit
        /\ \A i, j \in Placed(l) :
              i.position < j.position => InOrder(asOf[l], rule.orderBy, i.track, j.track)
HoldsWhatItSays(l) ==
    LET rule == RuleOf(lists[l])
        says == {id \in DOMAIN asOf[l] : Describes(rule.match, asOf[l][id])}
        size == IF rule.limit = NoLimit THEN Cardinality(says)
                ELSE Smaller(rule.limit, Cardinality(says))
        held == {i.track : i \in Placed(l)}
    IN  /\ {i.position : i \in Placed(l)} = 1..size
        /\ held \subseteq says
        /\ \A a \in held, b \in says \ held : InOrder(asOf[l], rule.orderBy, a, b)
FollowsRule(l) ==
    /\ IsNumbered(l)
    /\ QueryOf(lists[l]).params = <<>> => HoldsWhatItSays(l)
ListsFollowRules == \A l \in DOMAIN lists : FollowsRule(l)

\* When a refresh has gone through and no row has changed since, every list is
\* of the library as it is.
RefreshedListsAreCurrent == fresh => \A l \in DOMAIN lists : asOf[l] = tracks
LibrarySound == RowsFit /\ ListsFollowRules /\ RefreshedListsAreCurrent

\* What is inductive. A row was offered or read from a file that is there.
OnDisk == UNION {{disk[i] : i \in DOMAIN disk} : disk \in Disks}
AllRows == {Row(p, t) : p \in Files, t \in Offered}
              \cup {Row(f.path, TagsOf(f.path, f.lines)) : f \in OnDisk}
Saved == {text \in RuleTexts : Accepts(text)}
TypeOK ==
    /\ isOpen \in BOOLEAN /\ fresh \in BOOLEAN
    /\ IsFiniteSet(DOMAIN tracks) /\ tracks \in [DOMAIN tracks -> AllRows]
    /\ lists \in Seq(Saved)
    /\ DOMAIN asOf = DOMAIN lists /\ \A i \in removed : i.list \in DOMAIN lists
    /\ job \in {Idle} \cup [op : {"refresh"}, list : 1..Len(lists) + 1, step : {"clear", "fill"}]
                      \cup [op : {"import"}, files : Seq(OnDisk)]
Refreshing == job.op = "refresh"
\* The lists behind the one that is being refreshed are of the library as it is;
\* its own items are gone before it is filled.
RefreshedSoFar ==
    Refreshing =>
        /\ \A l \in 1..job.list - 1 : asOf[l] = tracks
        /\ job.step = "fill" => job.list \in DOMAIN lists /\ Placed(job.list) = {} /\ ~fresh
LibraryInv == TypeOK /\ LibrarySound /\ RefreshedSoFar
==============================================================================
