------------------------------- MODULE Machines -------------------------------
(* The components that share nothing with one another, each as a machine of  *)
(* its own: a behaviour runs one machine. The variables have the names they  *)
(* have in the machines' modules; those of the same name are one variable,   *)
(* and the ones that a machine does not have are None.                       *)
EXTENDS Integers, Sequences, FiniteSets

CONSTANTS
    None,
    Feeds, Versions, Refreshers, States, Positions,                 \* Podcast
    MaxAttempts, Cooldown, MaxTime, MaxWrong,                       \* Codes
    Peers, Me,                                                      \* Session
    Blocks, Boosts, Volumes, Ceilings, Usual, Full, Curves, Fades,  \* Chain
    MaxSteps,                                                       \* Lifecycle
    Programs, MaxMessages,                                          \* Ipc
    Senders, Requests, MaxRedirects, Failures, MaxHeaders,          \* Http
    Builtins, Disks, UserThemes, Overrides, Modes, InheritedFields, MaxLoaded, \* Painted
    Lookups, Period, Ttl, MaxEntries,                               \* Brainz, with MaxTime and Threads
    Threads, Ends, Keys, MaxFrames,                                 \* Pipe
    Designs, Filters, Ramps, Scale,                                 \* Equalizer
    Media, MediaDisks, Stem, Offered, RuleTexts, LibraryClock, MaxLists, MaxId, \* Library
    Accepts(_), RuleOf(_), QueryOf(_), CanPrepare(_), Chooses(_, _, _), Describes(_, _), TermLess(_, _, _)

\* A version of a feed is the sequence of its episodes.
ASSUME PodcastAssumption == \A v \in Versions : v \in Seq({v[i] : i \in DOMAIN v})
\* PairingPolicy's max_attempts is 5.
ASSUME CodesAssumption == MaxAttempts \in Nat \ {0} /\ Cooldown \in Int
\* None is what is not there: no key, no thread, no end.
ASSUME PipeAssumption == None \notin Keys \cup Threads \cup Ends
\* The socket's path leads to an instance or nowhere.
ASSUME IpcAssumption == None \notin Programs
\* The ways in which a send may be refused or end are apart.
ASSUME HttpAssumption ==
    /\ "Ok" \notin Failures /\ "AbortedByCallback" \notin Failures
    /\ None \notin Failures \cup {"Ok", "AbortedByCallback", "UrlMalformat", "TooManyRedirects",
                                    "InvalidArgument", "TlsError"}
    /\ None \notin Requests /\ None \notin Senders
\* Durations in seconds: 1 s, and 24 h unless the host says otherwise.
ASSUME BrainzAssumption == Period \in Nat /\ Ttl \in Nat
\* A filter is a whole number, and a sample is counted in parts that every length
\* of a ramp divides.
ASSUME EqualizerAssumption ==
    /\ Designs \subseteq Seq(Int) /\ Filters \subseteq Int /\ Ramps \subseteq Nat
    /\ Scale \in Nat /\ \A n \in Ramps \ {0} : Scale = (Scale \div n) * n

VARIABLES
    machine,
    subscriptions, refreshing, announced, given,
    state, attempts, until, now, stored, spent, cancels, locked,
    peers, found, step, with, open, enabled, mutex, answered,
    configured, boost, ceiling, volume, gains, fade, call, block, asked,
    steps, started, at, up,
    running, pc, stopping, path, listens, shut, pending, taken, crossed,
    request, token, abortFlag, form, answer, code, result, torn,
    validator, disk, dirSet, mode, user, overrides, builtins, loaded, cache,
    tokens, nextToken,
    psk, inbox, peer, number,
    designed, bypassed, sections, jumped,
    isOpen, tracks, lists, items, job, fresh, asOf, removed

Podcast == INSTANCE PodcastQueue WITH KeepCount <- 0, NoTag <- None
Codes == INSTANCE Pairing
Session == INSTANCE SyncSession
Chain == INSTANCE Sound
Lifecycle == INSTANCE Startup
Ipc == INSTANCE Instances
Http == INSTANCE HttpClient
Painted == INSTANCE ThemeChain
Brainz == INSTANCE MusicBrainz WITH Requests <- Lookups
Pipe == INSTANCE FramePipe
Equalizer == INSTANCE Crossfade
Library == INSTANCE LibraryDatabase WITH Files <- Media, Disks <- MediaDisks, Now <- LibraryClock

\* A block has at least one channel, and as many samples in each; whole numbers stand
\* for the samples and for what they are multiplied by.
ASSUME ChainAssumption ==
    /\ \A b \in Blocks : b \in Seq(Seq(Int)) /\ b # <<>> /\ \A c \in DOMAIN b : Len(b[c]) = Len(b[1])
    /\ Boosts \subseteq Int /\ Volumes \cup Ceilings \cup Fades \cup {Usual, Full} \subseteq Nat
    /\ Curves \subseteq {"linear", "s"}
    /\ None \notin Chain!Calls /\ None \notin Chain!Handed
\* What is given as a theme is one, and there are built-in ones.
ASSUME ThemeAssumption ==
    /\ Painted!Given \subseteq Painted!Theme /\ None \notin Painted!Theme
    /\ Builtins # <<>> /\ Builtins \in Seq({Builtins[i] : i \in DOMAIN Builtins})
\* Disks are sequences of files. A rule is compiled with its order and its limit,
\* and without a literal its SQL is true of the rows its rule describes: what
\* RulesSelect checks of rules of every kind (MCDocuments.tla).
ASSUME LibraryAssumption ==
    /\ \A d \in MediaDisks : d \in Seq({d[i] : i \in DOMAIN d})
    /\ \A text \in Library!Saved :
          LET q == QueryOf(text)
          IN  /\ q.limit = RuleOf(text).limit /\ q.limit \in Nat /\ q.orderBy = RuleOf(text).orderBy
              /\ q.params \in Seq({q.params[i] : i \in DOMAIN q.params})
              /\ q.params = <<>> => \A row \in Library!AllRows :
                                     Chooses(q.where, <<>>, row) <=> Describes(RuleOf(text).match, row)

-----------------------------------------------------------------------------
(* What a machine does not have                                             *)

podcastVars == <<subscriptions, refreshing, announced, given>>
codesVars == <<attempts, until, stored, spent, cancels, locked>>
sessionVars == <<peers, found, step, with, open, enabled>>
chainVars == <<configured, boost, ceiling, volume, gains, fade, block, asked>>
lifecycleVars == <<steps, started, up>>
ipcVars == <<running, pc, stopping, path, listens, shut, pending, taken>>
httpVars == <<token, abortFlag, form, answer, code, torn>>
paintedVars == <<validator, disk, dirSet, mode, user, overrides, builtins, loaded>>
brainzVars == <<tokens, nextToken>>
pipeVars == <<psk, inbox, peer, number>>
equalizerVars == <<designed, bypassed, sections, jumped>>
libraryVars == <<isOpen, tracks, lists, items, job, fresh, asOf, removed>>
sharedVars == <<state, now, mutex, answered, call, at, crossed, request, result, cache>>
vars == <<machine, podcastVars, codesVars, sessionVars, chainVars, lifecycleVars, ipcVars, httpVars,
          paintedVars, brainzVars, pipeVars, equalizerVars, libraryVars, sharedVars>>

\* Whether a machine has the shared variables.
HasState(m) == m \in {"Codes", "Session", "Lifecycle"}
HasNow(m) == m \in {"Codes", "Brainz"}
HasMutex(m) == m \in {"Session", "Pipe"}
HasAnswered(m) == m \in {"Session", "Brainz"}
HasCall(m) == m \in {"Chain", "Lifecycle"}
HasAt(m) == m \in {"Lifecycle", "Http", "Brainz"}
HasCrossed(m) == m \in {"Ipc", "Http"}
HasRequest(m) == m \in {"Http", "Brainz"}
HasCache(m) == m \in {"Painted", "Brainz"}

Without(m) ==
    /\ IF m = "Podcast" THEN TRUE ELSE subscriptions = None /\
                                       refreshing = None /\ announced = None /\
                                       given = None
    /\ IF m = "Codes" THEN TRUE ELSE attempts = None /\ until = None /\
                                     stored = None /\ spent = None /\
                                     cancels = None /\ locked = None
    /\ IF m = "Session" THEN TRUE ELSE peers = None /\ found = None /\
                                       step = None /\ with = None /\
                                       open = None /\ enabled = None
    /\ IF m = "Chain" THEN TRUE ELSE configured = None /\ boost = None /\
                                     ceiling = None /\ volume = None /\
                                     gains = None /\ fade = None /\
                                     block = None /\ asked = None
    /\ IF m = "Lifecycle" THEN TRUE ELSE steps = None /\ started = None /\
                                         up = None
    /\ IF m = "Ipc" THEN TRUE ELSE running = None /\ pc = None /\
                                   stopping = None /\ path = None /\
                                   listens = None /\ shut = None /\
                                   pending = None /\ taken = None
    /\ IF m = "Http" THEN TRUE ELSE token = None /\ abortFlag = None /\
                                    form = None /\ answer = None /\
                                    code = None /\ torn = None
    /\ IF m = "Painted" THEN TRUE ELSE validator = None /\ disk = None /\
                                       dirSet = None /\ mode = None /\
                                       user = None /\ overrides = None /\
                                       builtins = None /\ loaded = None
    /\ IF m = "Brainz" THEN TRUE ELSE tokens = None /\ nextToken = None
    /\ IF m = "Pipe" THEN TRUE ELSE psk = None /\ inbox = None /\
                                    peer = None /\ number = None
    /\ IF m = "Equalizer" THEN TRUE ELSE designed = None /\ bypassed = None /\
                                         sections = None /\ jumped = None
    /\ IF m = "Library" THEN TRUE ELSE isOpen = None /\ tracks = None /\
                                       lists = None /\ items = None /\
                                       job = None /\ fresh = None /\
                                       asOf = None /\ removed = None
    /\ IF HasState(m) THEN TRUE ELSE state = None
    /\ IF HasNow(m) THEN TRUE ELSE now = None
    /\ IF HasMutex(m) THEN TRUE ELSE mutex = None
    /\ IF HasAnswered(m) THEN TRUE ELSE answered = None
    /\ IF HasCall(m) THEN TRUE ELSE call = None
    /\ IF HasAt(m) THEN TRUE ELSE at = None
    /\ IF HasCrossed(m) THEN TRUE ELSE crossed = None
    /\ IF HasRequest(m) THEN TRUE ELSE request = None /\ result = None
    /\ IF HasCache(m) THEN TRUE ELSE cache = None
Keeping(m) ==
    /\ UNCHANGED machine
    /\ IF m = "Podcast" THEN TRUE ELSE UNCHANGED podcastVars
    /\ IF m = "Codes" THEN TRUE ELSE UNCHANGED codesVars
    /\ IF m = "Session" THEN TRUE ELSE UNCHANGED sessionVars
    /\ IF m = "Chain" THEN TRUE ELSE UNCHANGED chainVars
    /\ IF m = "Lifecycle" THEN TRUE ELSE UNCHANGED lifecycleVars
    /\ IF m = "Ipc" THEN TRUE ELSE UNCHANGED ipcVars
    /\ IF m = "Http" THEN TRUE ELSE UNCHANGED httpVars
    /\ IF m = "Painted" THEN TRUE ELSE UNCHANGED paintedVars
    /\ IF m = "Brainz" THEN TRUE ELSE UNCHANGED brainzVars
    /\ IF m = "Pipe" THEN TRUE ELSE UNCHANGED pipeVars
    /\ IF m = "Equalizer" THEN TRUE ELSE UNCHANGED equalizerVars
    /\ IF m = "Library" THEN TRUE ELSE UNCHANGED libraryVars
    /\ IF HasState(m) THEN TRUE ELSE UNCHANGED state
    /\ IF HasNow(m) THEN TRUE ELSE UNCHANGED now
    /\ IF HasMutex(m) THEN TRUE ELSE UNCHANGED mutex
    /\ IF HasAnswered(m) THEN TRUE ELSE UNCHANGED answered
    /\ IF HasCall(m) THEN TRUE ELSE UNCHANGED call
    /\ IF HasAt(m) THEN TRUE ELSE UNCHANGED at
    /\ IF HasCrossed(m) THEN TRUE ELSE UNCHANGED crossed
    /\ IF HasRequest(m) THEN TRUE ELSE UNCHANGED <<request, result>>
    /\ IF HasCache(m) THEN TRUE ELSE UNCHANGED cache

-----------------------------------------------------------------------------

InitPodcast == machine = "Podcast" /\ Podcast!Init /\ Without("Podcast")
InitCodes == machine = "Codes" /\ Codes!Init /\ Without("Codes")
InitSession == machine = "Session" /\ Session!Init /\ Without("Session")
InitChain == machine = "Chain" /\ Chain!Init /\ Without("Chain")
InitLifecycle == machine = "Lifecycle" /\ Lifecycle!Init /\ Without("Lifecycle")
InitIpc == machine = "Ipc" /\ Ipc!Init /\ Without("Ipc")
InitHttp == machine = "Http" /\ Http!Init /\ Without("Http")
InitPainted == machine = "Painted" /\ Painted!Init /\ Without("Painted")
InitBrainz == machine = "Brainz" /\ Brainz!Init /\ Without("Brainz")
InitPipe == machine = "Pipe" /\ Pipe!Init /\ Without("Pipe")
InitEqualizer == machine = "Equalizer" /\ Equalizer!Init /\ Without("Equalizer")
InitLibrary == machine = "Library" /\ Library!Init /\ Without("Library")
Init ==
    \/ InitPodcast
    \/ InitCodes
    \/ InitSession
    \/ InitChain
    \/ InitLifecycle
    \/ InitIpc
    \/ InitHttp
    \/ InitPainted
    \/ InitBrainz
    \/ InitPipe
    \/ InitEqualizer
    \/ InitLibrary

PodcastStep == machine = "Podcast" /\ Podcast!Next /\ Keeping("Podcast")
CodesStep == machine = "Codes" /\ Codes!Next /\ Keeping("Codes")
SessionStep == machine = "Session" /\ Session!Next /\ Keeping("Session")
ChainStep == machine = "Chain" /\ Chain!Next /\ Keeping("Chain")
LifecycleStep == machine = "Lifecycle" /\ Lifecycle!Next /\ Keeping("Lifecycle")
IpcStep == machine = "Ipc" /\ Ipc!Next /\ Keeping("Ipc")
HttpStep == machine = "Http" /\ Http!Next /\ Keeping("Http")
PaintedStep == machine = "Painted" /\ Painted!Next /\ Keeping("Painted")
BrainzStep == machine = "Brainz" /\ Brainz!Next /\ Keeping("Brainz")
PipeStep == machine = "Pipe" /\ Pipe!Next /\ Keeping("Pipe")
EqualizerStep == machine = "Equalizer" /\ Equalizer!Next /\ Keeping("Equalizer")
LibraryStep == machine = "Library" /\ Library!Next /\ Keeping("Library")
Next ==
    \/ PodcastStep
    \/ CodesStep
    \/ SessionStep
    \/ ChainStep
    \/ LifecycleStep
    \/ IpcStep
    \/ HttpStep
    \/ PaintedStep
    \/ BrainzStep
    \/ PipeStep
    \/ EqualizerStep
    \/ LibraryStep
Spec == Init /\ [][Next]_vars

-----------------------------------------------------------------------------

\* The lockout of the pairing codes (Pairing.tla).
LockoutHolds == machine = "Codes" => Codes!LockoutHolds
\* The library's tables and its refreshed lists (LibraryDatabase.tla).
LibrarySound == machine = "Library" => Library!LibrarySound
\* Start, stop, the servers of the instances and the theme (Startup.tla, Instances.tla,
\* ThemeChain.tla).
ApplicationHolds ==
    /\ machine = "Lifecycle" => Lifecycle!StartUnwinds
    /\ machine = "Ipc" => Ipc!ServersAnswer
    /\ machine = "Painted" => Painted!ThemeResolved
\* What the podcast queue keeps, the HTTP client answers and MusicBrainz is asked
\* (PodcastQueue.tla, HttpClient.tla, MusicBrainz.tla).
ServicesKept ==
    /\ machine = "Podcast" => Podcast!PodcastsKept
    /\ machine = "Http" => Http!RequestsHold
    /\ machine = "Brainz" => Brainz!LookupsHold
\* How a sync session ends, and what its frames are sent under (SyncSession.tla,
\* FramePipe.tla).
SyncHolds ==
    /\ machine = "Session" => Session!SessionsEndClosed
    /\ machine = "Pipe" => Pipe!FramesKept
\* What the chain does to a block, and what a ramp of the equalizer does from sample
\* to sample (Sound.tla, Crossfade.tla).
SoundHolds ==
    /\ machine = "Chain" => Chain!SoundHolds
    /\ machine = "Equalizer" => Equalizer!RampsAreSmooth
==============================================================================
