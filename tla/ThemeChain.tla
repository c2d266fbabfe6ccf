------------------------------ MODULE ThemeChain ------------------------------
(* The builder that resolves the theme the application is painted with, and *)
(* the schemas it validates themes by.                                      *)
(* src/desktop/src/theme/chain.cpp, schema.cpp                              *)
(*                                                                          *)
(* A theme is [id, extends, fields], fields as in Themes.tla. The empty     *)
(* theme that build() returns without the built-in ones is Empty.           *)
EXTENDS Integers, Sequences, SequencesExt

CONSTANTS
    Builtins,    \* the ids of the built-in themes, in their order
    Disks,       \* what the directory may hold: id -> theme, or None
    UserThemes,  \* what set_user_theme() is given, None to clear
    Overrides,   \* what upsert_override() is given: [handle, theme], theme may be None
    Modes,
    InheritedFields,
    MaxLoaded,
    None

VARIABLES
    validator,   \* None: not set; "compiled" or "failed" by init()
    disk,
    dirSet,      \* builtin_dir_ is set
    mode, user,
    overrides,
    builtins, loaded,
    cache        \* the cached result and the inputs it was fingerprinted by
vars == <<validator, disk, dirSet, mode, user, overrides, builtins, loaded, cache>>

Empty == [id |-> "none", extends |-> None, fields |-> <<>>]
NoCache == [theme |-> None, print |-> None]

Init ==
    /\ validator = None /\ disk \in Disks /\ dirSet = FALSE
    /\ mode = "dark" /\ user = None /\ overrides = <<>>
    /\ builtins = <<>> /\ loaded = FALSE /\ cache = NoCache

Inputs == <<mode, dirSet, user, overrides>>

-----------------------------------------------------------------------------
(* Resolving                                                                *)

Merge(child, base) ==
    [child EXCEPT !.fields = [p \in DOMAIN @ \cup (DOMAIN base.fields \cap InheritedFields) |->
        IF p \in DOMAIN @ THEN @[p] ELSE base.fields[p]]]

\* The themes that may be extended: the built-in ones, then those of the overrides.
Shelf(all, over) == all \o [i \in DOMAIN over |-> over[i].theme]
\* The first theme of that id: at most one.
Named(id, shelf) ==
    LET here == {i \in DOMAIN shelf : shelf[i] # None /\ shelf[i].id = id}
    IN {shelf[i] : i \in {j \in here : \A k \in here : j <= k}}

\* From the leaf on, each theme extends the next: the way stands still at the theme
\* that extends nothing, and where an id comes again or nobody has it.
Onward(way, shelf) ==
    {t \in Named(way[Len(way)].extends, shelf) : way[Len(way)].extends # None /\ \A i \in DOMAIN way : way[i].id # t.id}
Walk(leaf, shelf) ==
    LET way[n \in 0 .. Len(shelf)] ==
            IF n = 0 THEN <<leaf>>
            ELSE IF Onward(way[n - 1], shelf) = {} THEN way[n - 1]
            ELSE Append(way[n - 1], CHOOSE t \in Onward(way[n - 1], shelf) : TRUE)
    IN way[Len(shelf)]
ReachesBase(way) == way[Len(way)].extends = None

\* The themes of the way's ids, looked up again, the last one first.
FoldDown(way, shelf) ==   \* mutant: the base wins
    LET folded[n \in 0 .. Len(way)] ==
            IF n = 0 THEN way[Len(way)]
            ELSE LET named == Named(way[Len(way) + 1 - n].id, shelf)
                 IN IF named = {} THEN folded[n - 1] ELSE Merge(folded[n - 1], CHOOSE t \in named : TRUE)
    IN folded[Len(way)]
FoldUp(way, shelf) ==
    LET folded[n \in 0 .. Len(way)] ==
            IF n = 0 THEN way[Len(way)]
            ELSE LET named == Named(way[Len(way) + 1 - n].id, shelf)
                 IN IF named = {} THEN folded[n - 1] ELSE Merge(CHOOSE t \in named : TRUE, folded[n - 1])
    IN folded[Len(way)]
ResolveExtends(leaf, shelf) ==
    LET way == Walk(leaf, shelf)
    IN IF leaf.extends = None \/ ~ReachesBase(way) THEN leaf ELSE FoldUp(way, shelf)

\* The user's theme, or the built-in one of the mode, or the first.
Active(all, dark, own) ==
    LET byMode == {i \in DOMAIN all : all[i].id = dark}
    IN IF own # None THEN own
       ELSE IF byMode = {} THEN all[1]
       ELSE all[CHOOSE i \in byMode : \A j \in byMode : i <= j]
\* merge() takes its first argument where both set a field: an override, the
\* second, fills in what the resolved theme has not set.
Filled(resolved, over, shelf) ==
    LET filled[n \in 0 .. Len(over)] ==
            IF n = 0 THEN resolved
            ELSE IF over[n].theme = None THEN filled[n - 1]
            ELSE Merge(filled[n - 1], ResolveExtends(over[n].theme, shelf))
    IN filled[Len(over)]
Resolved(all, dark, own, over) ==
    Filled(ResolveExtends(Active(all, dark, own), Shelf(all, over)), over, Shelf(all, over))

-----------------------------------------------------------------------------
(* The setters drop the cached result where they change an input            *)

Kept == UNCHANGED <<validator, disk>>
DropCache == cache' = NoCache

\* SchemaValidator::init() compiles every schema or none.
InitValidator(works) ==
    /\ validator' = (IF works THEN "compiled" ELSE "failed")
    /\ UNCHANGED <<disk, dirSet, mode, user, overrides, builtins, loaded, cache>>
DiskChanges(d) ==
    /\ disk' = d /\ UNCHANGED <<validator, dirSet, mode, user, overrides, builtins, loaded, cache>>

SetBuiltinDir ==
    /\ ~dirSet /\ dirSet' = TRUE /\ builtins' = <<>> /\ loaded' = FALSE /\ DropCache
    /\ Kept /\ UNCHANGED <<mode, user, overrides>>
SetUserThemeOnly(t) ==   \* mutant: the cached result stays
    /\ user # t /\ user' = t /\ Kept /\ UNCHANGED <<dirSet, mode, overrides, builtins, loaded, cache>>
SetUserTheme(t) ==
    /\ user # t /\ user' = t /\ DropCache
    /\ Kept /\ UNCHANGED <<dirSet, mode, overrides, builtins, loaded>>
SetDefaultMode(m) ==
    /\ mode # m /\ mode' = m /\ DropCache
    /\ Kept /\ UNCHANGED <<dirSet, user, overrides, builtins, loaded>>

At(handle) == {i \in DOMAIN overrides : overrides[i].handle = handle}
\* The first one is added after a look at the last of none, which is undefined:
\* the program ends there and starts anew, or nothing of it is kept.
Dies ==
    /\ validator' = None /\ dirSet' = FALSE /\ mode' = "dark" /\ user' = None /\ overrides' = <<>>
    /\ builtins' = <<>> /\ loaded' = FALSE /\ DropCache /\ UNCHANGED disk
UpsertFirst(o) == overrides = <<>> /\ Dies
UpsertOverride(o) ==
    /\ overrides' = IF At(o.handle) = {} THEN Append(overrides, o)
                    ELSE [overrides EXCEPT ![CHOOSE i \in At(o.handle) : TRUE] = o]
    /\ DropCache /\ Kept /\ UNCHANGED <<dirSet, mode, user, builtins, loaded>>
RemoveOverride(handle) ==
    /\ At(handle) # {}
    /\ overrides' = RemoveAt(overrides, CHOOSE i \in At(handle) : TRUE)
    /\ DropCache /\ Kept /\ UNCHANGED <<dirSet, mode, user, builtins, loaded>>

-----------------------------------------------------------------------------

\* How many of the built-in themes load before one does not.
Loadable ==
    IF ~dirSet \/ validator # "compiled" THEN 0
    ELSE CHOOSE n \in 0 .. Len(Builtins) :
        /\ \A i \in 1 .. n : disk[Builtins[i]] # None
        /\ n < Len(Builtins) => disk[Builtins[n + 1]] = None

\* What was loaded before one failed stays, and is loaded again by the next try.
EnsureBuiltinsLoaded ==
    IF loaded THEN UNCHANGED <<builtins, loaded>>
    ELSE /\ builtins' = builtins \o [i \in 1 .. Loadable |-> disk[Builtins[i]]]
         /\ loaded' = (Loadable = Len(Builtins))
         /\ Len(builtins') <= MaxLoaded

\* build(), or rebuild(), which has no use for the cached result.
Build(again) ==
    /\ IF again THEN cache.theme # None ELSE cache.theme = None \/ cache.print # Inputs
    /\ EnsureBuiltinsLoaded
    /\ cache' = [theme |-> IF loaded' THEN Resolved(builtins', mode, user, overrides) ELSE Empty, print |-> Inputs]
    /\ Kept /\ UNCHANGED <<dirSet, mode, user, overrides>>

Next ==
    \/ \E works \in BOOLEAN : InitValidator(works)
    \/ \E d \in Disks : DiskChanges(d)
    \/ SetBuiltinDir
    \/ \E t \in UserThemes : SetUserTheme(t)
    \/ \E m \in Modes : SetDefaultMode(m)
    \/ \E o \in Overrides : UpsertOverride(o) \/ UpsertFirst(o) \/ RemoveOverride(o.handle)
    \/ \E again \in BOOLEAN : Build(again)

-----------------------------------------------------------------------------

\* The theme in the cache is the one that its inputs resolve to: every setter
\* drops it in time, so that the fingerprint never has to tell, and once the
\* built-in themes are loaded the empty theme is never handed out again.
CacheHolds ==
    /\ cache.theme # None => cache.print = Inputs
    /\ loaded /\ cache.theme # None => cache.theme = Resolved(builtins, mode, user, overrides)
\* Every field that a theme the active one extends has is in the result. Without
\* overrides the active theme, where the builder knows it or it extends nothing,
\* keeps the fields it sets, and one whose chain leads back to itself or to nobody
\* stands alone. Whether an override or the active theme wins is left open:
\* build() says "User overrides win last", and they lose (see README.md).
Inherits(all, dark, own, over) ==
    LET theme == Resolved(all, dark, own, over)
        active == Active(all, dark, own)
        shelf == Shelf(all, over)
        way == Walk(active, shelf)
        known == active.extends = None \/ active \in Named(active.id, shelf)
    IN  /\ over = <<>> /\ (known \/ ~ReachesBase(way)) =>
              \A p \in DOMAIN active.fields : theme.fields[p] = active.fields[p]
        /\ ReachesBase(way) => \A i \in 2 .. Len(way) : DOMAIN way[i].fields \cap InheritedFields \subseteq DOMAIN theme.fields
        /\ ~ReachesBase(way) /\ over = <<>> => theme = active
\* See CacheHolds and Inherits.
ThemeResolved == CacheHolds /\ (loaded => Inherits(builtins, mode, user, overrides))

-----------------------------------------------------------------------------
(* The inductive invariant                                                  *)

\* The themes that may be given, and what merging makes of them.
Given ==
    (UserThemes \cup {o.theme : o \in Overrides} \cup UNION {{d[Builtins[i]] : i \in DOMAIN Builtins} : d \in Disks})
        \ {None}
Fields == UNION {[names -> UNION {{t.fields[p] : p \in DOMAIN t.fields} : t \in Given}] :
                 names \in SUBSET UNION {DOMAIN t.fields : t \in Given}}
Theme == [id : {t.id : t \in Given}, extends : {t.extends : t \in Given}, fields : Fields]

TypeOK ==
    /\ disk \in Disks /\ user \in UserThemes \cup {None} /\ overrides \in Seq(Overrides)
    /\ builtins \in Seq(Theme) /\ dirSet \in BOOLEAN /\ loaded \in BOOLEAN
    /\ loaded => builtins # <<>>
ThemeInv == TypeOK /\ CacheHolds
===============================================================================
