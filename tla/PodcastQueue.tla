---------------------------- MODULE PodcastQueue ----------------------------
(* The podcast queue: subscriptions, and refreshes that copy one, leave the *)
(* lock for the request and put the copy back. src/desktop/src/net/podcast.cpp *)
(*                                                                          *)
(* An episode's identity_hash stands for its guid too. A served version is  *)
(* the sequence of its episodes, oldest first; its entity tag is itself. A  *)
(* subscription's `tagged` is history: the last answer to it bore a tag.    *)
EXTENDS Integers, Sequences, FiniteSetsExt, SequencesExt

CONSTANTS
    Feeds,      \* feed URLs
    Versions,   \* what a feed may serve: sequences of episodes
    Refreshers, \* threads that call refresh()
    KeepCount,  \* keep_count; nothing in the program sets it above 0
    States, Positions, \* what the host sets on an episode
    NoTag

VARIABLES
    subscriptions, \* from the subscribed URLs
    refreshing,    \* per thread: the copy refresh() works on, or Idle
    announced,     \* what on_episode_added has told the host: <<feed, episode>>
    given          \* the host's last word on an episode, while it is binding
vars == <<subscriptions, refreshing, announced, given>>

Idle == [at |-> "idle"]
Unplayed == [state |-> "Unplayed", resume |-> 0, auto |-> FALSE]
Empty == [feed |-> <<>>, episodes |-> <<>>, etag |-> NoTag, tagged |-> FALSE]

Init ==
    /\ subscriptions = <<>> /\ announced = {} /\ given = {}
    /\ refreshing = [r \in Refreshers |-> Idle]

Subscribed == DOMAIN subscriptions
InFlight(f) == \E r \in Refreshers : refreshing[r] # Idle /\ refreshing[r].of = f
Extend(fn, x, v) == [y \in DOMAIN fn \cup {x} |-> IF y = x THEN v ELSE fn[y]]

Subscribe(f) ==
    /\ f \notin Subscribed /\ subscriptions' = Extend(subscriptions, f, Empty)
    /\ UNCHANGED <<refreshing, announced, given>>
Unsubscribe(f) ==
    /\ f \in Subscribed
    /\ subscriptions' = [g \in Subscribed \ {f} |-> subscriptions[g]]
    /\ given' = {g \in given : g.of # f}
    /\ UNCHANGED <<refreshing, announced>>

\* The first episode with that guid is the one that is changed.
At(sub, e) == {i \in DOMAIN sub.episodes : sub.episodes[i].id = e}
Marked(sub, e, kept) ==
    [sub EXCEPT !.episodes = [sub.episodes EXCEPT ![Min(At(sub, e))] = [id |-> e, kept |-> kept]]]
Change(f, e, kept) ==
    /\ f \in Subscribed /\ At(subscriptions[f], e) # {}
    /\ subscriptions' = [subscriptions EXCEPT ![f] = Marked(subscriptions[f], e, kept)]
    /\ given' = {g \in given : g.of # f \/ g.id # e}
                  \cup IF InFlight(f) THEN {} ELSE {[of |-> f, id |-> e, kept |-> kept]}
    /\ UNCHANGED <<refreshing, announced>>
KeptOf(sub, e) == IF At(sub, e) = {} THEN Unplayed ELSE sub.episodes[Min(At(sub, e))].kept
Kept(f, e) == KeptOf(subscriptions[f], e)

SetState(f, e, s) == Change(f, e, [Kept(f, e) EXCEPT !.state = s])
SetResumePosition(f, e, p) == Change(f, e, [Kept(f, e) EXCEPT !.resume = p])
\* No worker exists yet: unless the download starts and finishes in
\* the call, and download_in_flight is false again when it returns.
RequestDownload(f, e) == Change(f, e, [Kept(f, e) EXCEPT !.auto = TRUE])

-----------------------------------------------------------------------------
(* refresh()                                                                *)

Begin(r, f) ==
    /\ refreshing[r] = Idle /\ f \in Subscribed
    /\ refreshing' = [refreshing EXCEPT ![r] = [at |-> "sent", of |-> f, copy |-> subscriptions[f]]]
    /\ UNCHANGED <<subscriptions, announced, given>>

\* No answer, a status that is not 2xx, a body that is no feed, or a 304.
NothingNew(r) ==
    /\ refreshing[r].at = "sent"
    /\ refreshing' = [refreshing EXCEPT ![r] = Idle]
    /\ UNCHANGED <<subscriptions, announced, given>>

IsNew(sub, e) == At(sub, e) = {}

\* The oldest played episodes beyond KeepCount count as unplayed again.
Retain(eps) ==
    LET played == {i \in DOMAIN eps : eps[i].kept.state = "Played"}
        Newer(i) == Cardinality({j \in played : j > i})
    IN  [i \in DOMAIN eps |->
            IF KeepCount > 0 /\ i \in played /\ Newer(i) >= KeepCount
            THEN [eps[i] EXCEPT !.kept.state = "Unplayed"] ELSE eps[i]]
KeptByPlace(sub, v) ==   \* mutant: the state follows the place in the list
    [i \in DOMAIN v |-> [id |-> v[i], kept |-> IF i \in DOMAIN sub.episodes THEN sub.episodes[i].kept
                                               ELSE Unplayed]]

DiffAndDispatch(sub, v) ==
    Retain([i \in DOMAIN v |-> [id |-> v[i], kept |-> KeptOf(sub, v[i])]])

\* A server that has tags answers another version than the tagged one. An
\* answer without a tag leaves the copy the tag it had.
Parsed(sub, v, tagged) ==
    [feed |-> v, etag |-> IF tagged THEN v ELSE sub.etag, tagged |-> tagged,
     episodes |-> DiffAndDispatch(sub, v)]
Answer(r, v, tagged) ==
    /\ refreshing[r].at = "sent" /\ (tagged => refreshing[r].copy.etag # v)
    /\ LET sub == refreshing[r].copy
       IN  /\ refreshing' = [refreshing EXCEPT ![r] =
                [at |-> "parsed", of |-> refreshing[r].of, copy |-> Parsed(sub, v, tagged)]]
           /\ announced' = announced \cup
                {<<refreshing[r].of, e>> : e \in {x \in ToSet(v) : IsNew(sub, x)}}
    /\ UNCHANGED <<subscriptions, given>>

\* The copy replaces whatever is there now, an unsubscribed feed included.
Store(r) ==
    /\ refreshing[r].at = "parsed"
    /\ LET f == refreshing[r].of
       IN  /\ subscriptions' = Extend(subscriptions, f, refreshing[r].copy)
           /\ given' = {g \in given : g.of # f \/ g.id \in ToSet(refreshing[r].copy.feed)}
    /\ refreshing' = [refreshing EXCEPT ![r] = Idle]
    /\ UNCHANGED <<announced>>

Episodes == UNION {ToSet(v) : v \in Versions}
Next ==
    \/ \E f \in Feeds :
        \/ Subscribe(f) \/ Unsubscribe(f)
        \/ \E r \in Refreshers : Begin(r, f)
        \/ \E e \in Episodes :
            \/ \E s \in States : SetState(f, e, s)
            \/ \E p \in Positions : SetResumePosition(f, e, p)
            \/ RequestDownload(f, e)
    \/ \E r \in Refreshers : NothingNew(r) \/ Store(r) \/ \E v \in Versions, tagged \in BOOLEAN : Answer(r, v, tagged)

-----------------------------------------------------------------------------

\* What the host said of an episode while no refresh of its feed was under
\* way holds as long as the feed lists the episode, through refreshes that
\* add, drop and move episodes ("Preserve state for episodes that were
\* already known", podcast.cpp). Nothing is said of a word that comes during
\* one, which the copy overwrites, or of a feed unsubscribed during one.
HostsWordStands ==
    \A g \in given : /\ g.of \in Subscribed /\ At(subscriptions[g.of], g.id) # {}
                     /\ Kept(g.of, g.id) = g.kept

\* Whichever of two refreshes came last, the tag sent with the next request is
\* that of the feed held, if the answer it came in bore one; nothing is said
\* after an answer without, which leaves the tag of a feed no longer held. And
\* the host has been told of every episode it can find there.
TagFits(f, sub) ==
    /\ sub.tagged => sub.etag = sub.feed
    /\ [i \in DOMAIN sub.episodes |-> sub.episodes[i].id] = sub.feed
    /\ \A e \in ToSet(sub.feed) : <<f, e>> \in announced
TagIsOfTheFeed == \A f \in Subscribed : TagFits(f, subscriptions[f])

PodcastsKept == HostsWordStands /\ TagIsOfTheFeed

-----------------------------------------------------------------------------
(* The inductive invariant                                                  *)

Marks == [state : States \cup {"Unplayed"}, resume : Positions \cup {0}, auto : BOOLEAN]
Episode == [id : Episodes, kept : Marks]
Subscription == [feed : Seq(Episodes), etag : Versions \cup {NoTag}, tagged : BOOLEAN,
                 episodes : Seq(Episode)]
TypeOK ==
    /\ Subscribed \subseteq Feeds /\ subscriptions \in [Subscribed -> Subscription]
    /\ refreshing \in [Refreshers -> {Idle} \cup [at : {"sent", "parsed"}, of : Feeds, copy : Subscription]]

\* What the host has said of an episode is in every copy of its feed that is
\* under way too, unless the answer it is made of has dropped the episode.
CopiesAgree ==
    \A r \in Refreshers : LET c == refreshing[r]
        IN c # Idle =>
            /\ TagFits(c.of, c.copy)
            /\ \A g \in given : g.of = c.of =>
                 /\ c.at = "sent" => At(c.copy, g.id) # {}
                 /\ At(c.copy, g.id) # {} => KeptOf(c.copy, g.id) = g.kept
QueueInv == TypeOK /\ PodcastsKept /\ CopiesAgree
=============================================================================
