# Arrow Player: a TLA+ model of the desktop core

These modules model `desktop/src`: the parts in which several threads, devices
or processes meet (the audio ring, the playback service, the merge of the
library between devices, the scrobbler, the radio client and others), and the
code that reads documents (rules, tags, title formats, playlists, themes). TLC
checks small instances; TLAPS proves the parts that matter most for every value
of the constants. `PROJECT.json` gives, for every definition, the lines it
stands for, and lists the hazards with the properties that watch them.

    tlc -config spsc_ring.cfg SpscRing     # one run
    tlapm SpscRingProofs.tla               # one module of proofs

## The system

| Component | State it keeps | Operations | Meets | What is hard |
|---|---|---|---|---|
| Audio rings (`audio/graph/spsc_ring.hpp`, `ring_buffer.hpp`) | samples, two atomic indices | push, pop | decoder thread, audio callback | stale loads, weak memory order, wrap-around |
| Playback service and graph (`audio/playback_service.cpp`, `audio/graph/playback_graph.cpp`) | `opened_`, `sink_started_`, `at_end_`, ring, planes | open, produce, consume, close; play_file, stop | decoder, sink, a second thread in stop() | plain flags shared by two threads, failure half way through open |
| Decoders, sinks (`audio/decode`, `audio/sink`) | position, device handles | open, read, close; start, write, stop | the graph | devices, poll threads |
| Gapless metadata (`audio/decode/gapless_info.cpp`) | none | parse tags into skips | decoder | tags anyone may have written |
| Gapless scheduler (`audio/graph/gapless_scheduler.*`) | current and next track | load, advance | nothing drives it yet | hand-over |
| DSP chain (`audio/dsp`) | filter state, ramps, fades, gains | configure, publish, process | UI thread and audio thread | a setting changed while the callback runs |
| Sync merge (`sync/transport.cpp`) | `SyncState`: maps keyed by entity | apply_changes, compact_tombstones | the host | late, repeated, reordered batches |
| In-process transport (`sync/transport.cpp`) | inbox, key, peer, one lock an end | connect, send, receive, close | the other end | two locks, closes in between |
| Sync engine, discovery (`sync/engine.cpp`, `discovery.cpp`) | session state, Lamport clock, peers | sync_with, cancel, tick_lamport, inject and drop peers | transport, host | cancel during a session, error returns |
| Pairing (`sync/pairing.cpp`) | attempts, lockout, keys | start, accept, cancel, tick | engine | counts over sequences of calls |
| Scrobbler (`net/scrobble.cpp`) | SQLite queue, secrets | submit, flush, set_credentials | player thread, timer thread, two services | one connection for two threads, crashes, lost answers |
| Radio client (`net/radio.cpp`) | station, state, token, `metaint_`, `attempt_` | open, close, pause, resume | worker, window, timer, HTTP | cancellation, state kept from one station to the next |
| Podcasts (`net/podcast.cpp`) | subscriptions | subscribe, refresh, mark | HTTP, host | copies written back after the request |
| HTTP client (`net/http_client.cpp`) | abort flag, form | send | every network client | one flag for all sends |
| MusicBrainz (`net/musicbrainz.cpp`) | tokens, cache | lookups, close | HTTP, several threads | rate limit, eviction |
| Parsers (`net/hls_playlist.cpp`, `icy_metadata.cpp`, `rss_feed.cpp`) | none | parse | the clients above | malformed input |
| Library (`library/library_database.cpp`, importer, filesystem scanner, sidecars) | SQLite tables | insert, save, refresh, import | UI | sequences of statements that fail in between |
| Smart playlists (`library/smart_playlist.cpp`) | none | parse, compile to SQL, serialise | library | order of bound parameters, NULLs |
| Library index (`library/database.cpp`, `scanner.cpp`, `change_log.cpp`) | none that can exist | | | never opens |
| Tag readers (`library/tag_reader.cpp`) | none | read tags, sort keys, cue sheets | importer | names that must and must not be grouped |
| Text, JSON, title formats (`core/`) | none | UTF-8, globs, distance, paths; parse, write; patterns | everything | bytes that are no text, limits of integers |
| Themes (`theme/`) | cache, built-in themes, overrides | setters, build | shell | stale cache, chains of themes |
| Skins (`skin/`) | none | install a package, read a layout | user | budgets of trees |
| Application shell (`app/`) | steps, sockets | start, shutdown; serve, send; arguments | subsystems, other instances | failure in the middle, stop against accept |
| Android application | its own | | | a separate program |

What makes each of them correct:

- **Rings**: no frame is overwritten, lost, repeated or torn; nothing is copied
  out of a slot that is being copied into; a call stays inside its buffer.
- **Playback**: the sink hears the track in order from its start; success means
  it heard all of it; everything is closed afterwards; once stop() has returned
  the sink lets no frame in; play_file returns.
- **Sound**: where the limiter's gain is not on its way up the first channel
  keeps to the ceiling; a fade is exact to the frame and ends; a ramp of the
  equalizer that is let run has no jump.
- **Merge**: devices that have merged the same changes agree; plays add up;
  what is deleted stays deleted until tombstones are compacted, and what is
  inserted later comes back; stamps are unique, and a local edit is later than
  what the user saw, as long as the calls that tick one clock do not overlap.
- **Transport, session, pairing**: frames come in order and only from an open
  end; no error return leaves a connection open or a state behind; the wrong
  codes for one displayed code are bounded, and a lockout that nobody cancels
  lasts.
- **Scrobbler**: a listen is somewhere until its service has it, or was lost in
  one of two known ways; it is taken once, leaves when it can, and does not
  leave after a log out.
- **Radio**: a cancelled connect is not heard, a closed client is idle, what
  open() returns tells the state, all the audio and only the audio is played,
  and a lost station comes back.
- **Podcasts, HTTP, MusicBrainz**: what the user said of an episode stands
  unless a refresh overlaps it; an answer has its own headers; a cached answer
  is of the request and fresh.
- **Library**: a list holds what its last filling gave, in the order of its rule
  and within its limit, less what was removed; rows refer to rows that are there.
- **Documents**: what is written reads back, what is malformed is refused, an
  algorithm agrees with its definition.
- **Shell**: a failed start takes down exactly what it brought up; a server
  that was told to stop does not sleep on; the theme shown is the one its
  inputs resolve to.

## The modules

`X`, `MCX` and `x.cfg` are a model, its small instance and a run of it; a model
whose constants are all numbers has them in the `.cfg` and needs no `MCX`. Nothing
here is composed that does not meet in the code: the ring is used by playback
through its abstract specification, the compiler of rules by the library.

| Module | Models | Composes |
|---|---|---|
| `BoundedFifo` | what a ring promises: two counts and the room between them | |
| `SpscRing` | `SpscPcmRing`, and `RingBuffer` with `PushAcquires = FALSE` | implements `BoundedFifo` |
| `PlaybackService` | `play_file` and `stop` over `PlaybackGraph` and `NullSink` | uses the ring as the queue `SpscRing` implements |
| `SyncMerge` | devices that record, exchange and merge changes | |
| `ScrobbleQueue` | the scrobbler, its queue, its services, crashes | |
| `RadioClient` | the radio client, its worker, controllers and timer | |
| `SpscRingProofs`, `PlaybackProofs`, `SyncMergeProofs`, `ScrobbleQueueProofs`, `RadioClientProofs` | the proofs about them | each extends its model; `PlaybackProofs` has an INSTANCE of `Gapless` and one of `Levels` too |
| `PodcastQueue`, `HttpClient`, `MusicBrainz` | the network clients with threads of their own | `Machines` |
| `SyncSession`, `FramePipe`, `Pairing` | a session with discovery; the transport in one process; pairing | `Machines` |
| `Sound`, `Crossfade` | the DSP chain between its threads; the ramps of the equalizer | `Machines` |
| `Startup`, `Instances`, `ThemeChain` | start and stop; the servers of several instances; the resolved theme | `Machines` |
| `LibraryDatabase` | the tables, smart lists and their refresh, scan and import; the rules are constants | `Machines`; `MCMachines` gives it the rules of `SmartPlaylist` |
| `Machines` | those twelve, one of them in each behaviour, and what is assumed of their constants | an INSTANCE of each |
| `SyncMachinesProofs`, `ServiceMachinesProofs`, `ApplicationMachinesProofs` | the proofs about all twelve | `Machines`; the last extends the second |
| `SmartPlaylist`, `Text`, `Json`, `Format`, `Gapless`, `Streams`, `Feed`, `Tags`, `Levels`, `CommandLine`, `Themes`, `Layout`, `Requests`, `Digests` | the code that reads and writes documents, as operators | `MCDocuments`; `Format` extends `Text` |

### SpscRing

A step is one access to an atomic or the copy of one frame. A load of the other
thread's index may return any value stored since the last one that thread got,
which is what C++ promises of one atomic and no more; `seenWrite` and `seenRead`
are those values. A relaxed and an acquire load return the same values here:
what the acquire adds is in `acquired`, the read index the producer has
synchronised with, and `NoSampleRace` is stated with it. A frame is known by its
position in the stream, so "in order" is a comparison of numbers.

push() and pop() ask for the room or the frames twice (`PushDoesNotFit` then
`PushClip`): the second answer may be larger than the caller's buffer. That is
the finding of `ring_over_source`. The single-threaded player does not reach it.

### PlaybackService

`pc` walks the player thread through `play_file`, `open`, `produce`, `consume`
and `close`; `closing` walks either thread through `close`. Steps are split
where a `stop()` can fall between two accesses to a flag. Every call of a
decoder or a sink that may return an error may do so. `play_file` produces and
consumes on one thread, so the ring is a queue. The sink's write is two steps:
`Write` finds it open and started, `Accept` takes the frames in, and a whole
`stop()` fits in between. So `StopAdmitsNothing` is not silence: it says that
after `stop()` has returned nothing more passes the check (`admitted` is what
had), and one batch may still be taken in.

`OverlapCalls = FALSE` says that the host waits for `stop()` before it plays the
next file. With `TRUE`, a slow `stop()` closes what the next play has opened and
leaves the rest open; nothing in the repository says whether hosts may do that.

### SyncMerge

The transport gives any subset of the changes ever recorded to any device at any
time: batches, delays, reordering and repetition are all that one action. Each
turn of the loop of `apply_changes` is a step. The maps are keyed by entity and
no rule relates two entities, so there is one; `rating` stands for the fields
merged by the same comparison of stamps, and a rating is known by its stamp.
`Tick` is what `tick_lamport` makes of the clock it has loaded. It is called by
nothing in the program yet; the model has the host use it as
`shared-spec/sync-protocol.md` 6.2 says ("`max(local, L) + 1` before recording
any local change"), and each call is two steps, the load and the store:
`StartEdit` and `TickEdit`, then `StampEdit` stamps the change with what
`lamport_clock()` reads by then; `Receive` and `TickMerge`, then the merge.
The device of a stamp is a hash of its name cut to 32 bits: `DeviceId`, which
need not tell devices apart. `OneCaller = TRUE` keeps the two calls of a device
apart. With `FALSE` TLC refutes `StampsAreUnique` (a stamp given twice) and
`LocalEditIsLatest` (a tick of a merge undone by one of an edit), and the other
four properties hold; nothing in the repository says which of the two a host is
to expect, so the run and the two theorems take `TRUE`.

`MixFields = FALSE` makes all changes of a behaviour be about one field
(membership counts as one). `apply_changes` switches on the field and each case
touches only its own maps, so a state with several fields is the product of
behaviours with one; the proofs hold for both values.

Compaction compares the logical clock of a tombstone with seconds since 1970, so
it takes every tombstone there is: `CutoffClock` is beyond every clock of the
run. `DeletedStaysDeleted` therefore holds of a device only until it compacts
(`compacted`): from then on an old insert brings a deleted track back.

### ScrobbleQueue

`queue` is the table as the connection sees it, `committed` what is on disk.
Both threads use one connection, so an INSERT of `submit()` while `drain()` has
a transaction open is part of it: the finding of `scrobble_crash`. A crash sets
`queue` to `committed` and forgets what `flush()` holds. `lost`, `dropped`,
`accepted`, `unanswered` and `lateSends` are history, so that the properties can
say where a listen went: `NoOtherLoss` names the two ways in which the code loses
one, a row of an unknown source and what `flush()` holds at a crash, and says
that there is no third. The garbage that `credentials()` may return (a view of
a temporary, `net/scrobble.cpp:534`) is a choice. SQLite never fails. One thread
calls `flush()`: a second one would send the same rows again at once.

### RadioClient

`pc` is the worker's place in `open()`; `call` is each controller's place in
`close()`, `pause()` or `resume()`. An answer is a sequence of units of audio
with blocks of metadata between them. `stale` marks a client that has kept
`metaint_` from an earlier station: there the demultiplexer eats audio, and
`WholeAudioHeard` makes that its exception. The host opens one station at a
time and does not close while `open()` assigns its first fields, which are
unsynchronised.

### The machines

Twelve components that share no state with one another are put together in
`Machines`: `machine` says which one a behaviour runs, and the variables that it
does not have are `None`. Each keeps the names of its own module; a name that
two of them have (`state`, `at`, `call`) is one variable. Every action of every
one of them is a step of the run.
Each module states the inductive invariant of its machine beside its properties;
those are what the proofs are about.

- `LibraryDatabase`: one SQL statement is a transaction and a step; a refresh or
  an import is a sequence of them that may fail or crash between any two. `asOf`
  keeps the rows each list was last filled from (none once it is emptied) and
  `removed` the items that have gone with their tracks since, so that a list is
  compared with its rule at every moment. The SQL text takes the list's id, the
  clock, the rule's values and the limit, and they are bound as id, values, clock
  and limit: a rule with literals chooses other tracks than it describes, and the
  model does the same. Of such a list the property says its numbering, order and
  limit only.
- `PodcastQueue`: a refresh copies a subscription, leaves the lock for the
  request and writes the copy back; `HostsWordStands` holds between refreshes,
  what the host says during one may be lost. An answer may bear no entity tag,
  and the copy then keeps the one it had (`tagged` remembers which).
- `SyncSession`: `sync_with` is a fixed conversation (`Script`), the peer answers
  anything or nothing, each error return is the step that closes. `cancel()`
  locks `mutex_` and calls `set_state()`, which locks it again: it waits for
  itself for ever, and the session behind it too (`Stuck`).
- `FramePipe`: `send()` keeps its own lock while it waits for the peer's, so it
  is two steps; two ends that send to each other at once never move again. That
  is why the run does not check for deadlock.
- `Pairing`: `spent` counts the ill-formed codes since a code was displayed,
  `cancels` the lockouts that were cancelled since, and `locked` is when the
  lockout began that nobody has cancelled. A new code begins the count anew, and
  `cancel()` always lets one be displayed.
- `Sound`: the user's calls against `process()`, which is two steps: up to the
  last load of `gain_buffer()`, and its stores. The stores of `set_fade()` become
  visible in any order, during a block too; the fade is exact only if it was
  asked for between two blocks (`apart`). Gains are multiples of a small unit,
  rounded down. `CeilingKept` is about the first channel and a gain that is not
  being released (`held`): elsewhere the code passes the ceiling.
  `Crossfade` keeps the sections of one cascade with their ramps,
  sample by sample.
- `Startup`: `up` counts what the steps have brought up in the world, apart from
  the program's own record of it.
- `Instances`: `run_ipc_server`, `stop_ipc_server` and `try_send` step by step
  over sockets, with crashes. Nothing in the program calls them yet, so their
  order is left open; a second server takes the first's socket away, which
  `crossed` remembers.
- `HttpClient`: two `send()`s over one client, flag by flag. What overlapping
  sends do to one another's cancellation and form is modelled, and the property
  says what survives of it. The form is looked for, freed and forgotten in three
  steps; once a send has freed the form of another, or one that is freed
  (`torn`), the behaviour of the program is undefined and nothing is promised.
- `ThemeChain`: every setter and `build()`, with the cache, its fingerprint and
  built-in themes that fail to load. The first override is read from the end of
  an empty vector (`UpsertFirst`): the program ends there, or keeps nothing.
- `MusicBrainz`: `acquire` and the cache under one clock, several threads. No
  property is about the rate.

### The documents

`MCDocuments` has one variable: a behaviour picks a kind and then one document
of it, out of a bounded set. The properties compare the code, translated
operator by operator, with a definition that says what the document means:

- `SmartPlaylist`: JSON to rule, rule to SQL with its "?" in the order of the
  text, SQLite's three values; against the rule read directly on a row.
- `Text`: decoding and encoding UTF-8, case, trimming, globs, edit distance,
  numbers that overflow a small integer, archive paths.
- `Json`: tokens, strict and lenient, with surrogate escapes; against a grammar.
  Numbers and pointers byte by byte: against RFC 8259, and against the pointer
  each node of a value is written as.
- `Format`: patterns with their recovery and the evaluator; against the tree they
  were written from. Quotients, sizes and ages: against the nearest value there
  is, and against the calendar.
- `Gapless`: frame headers, LAME tags with their checksum, iTunSMPB, OpusHead,
  granule positions, and the trimming they lead to.
- `Streams`, `Feed`: HLS playlists, URLs, ICY blocks, RSS with its lexer.
- `Requests`: what is sent to the two scrobbling services and to a peer of a
  sync, queries, headers and what a log shows of them, the records peers announce
  themselves with, the lists a station comes in. A word such as `"File7="` is one
  symbol of a text. What is written is compared with what its reader makes of it.
- `Digests`: SHA-256 and MD5 down to the compression of a block, which is free (a
  digest is known by the blocks it is of), HMAC, HKDF, and the key of a pairing.
- `Tags`: tags of six kinds of files, sort and album keys, cue sheets.
- `Levels`: equalizer settings, ReplayGain, loudness.
- `CommandLine`: arguments, exit codes, messages between instances.
- `Themes`, `Layout`: inheritance and tokens; the tree of a skin and its budget.

Where the code does something else than its documents, comments or tests say,
the property does not take the code's side. It leaves the case open, and the
list further down names it: the type of a whole number in a ReplayGain tag, who
wins of an override and a theme, a duration in a rule, a "*" in the subject of a
glob, a master playlist with variants, the second episode of a feed, a cue
sheet's tracks, the numbers in a sync message, the bindings of an inner node of
a layout.

## The runs

| Run | Question | Distinct states | Result |
|---|---|---|---|
| `spsc_ring` | is the ring correct under stale loads? | 128,840 | five properties hold |
| `ring_over_source` | does a call stay inside its caller's buffer? | | no |
| `playback_service` | can a stop or a failure at any step spoil a play? | 8,163 | five hold |
| `sync_merge` | do devices converge, whatever the transport does? | 4,659,085 | six hold |
| `sync_counters` | is the merge idempotent? | | no: plays count twice |
| `sync_tombstones` | does the membership rule hold out of order? | | no |
| `scrobble_queue` | can a listen vanish, be taken twice, or be stuck? | 79,646 | four hold |
| `scrobble_crash` | is a listen on disk when submit() returns? | | no |
| `radio_client` | what is heard, and what does open() leave behind? | 139,636 | four hold |
| `radio_close` | is a closed client idle? | | no |
| `documents` | does the code read what a document says? | 277,196 | ten hold |
| `machines` | do the twelve components keep what they promise? | 1,264,101 | six hold |

The five violations are disagreements between the code and a sentence of the
repository; `PROJECT.json` "findings" quotes each.

**Bounds, and why they are enough.**

- Ring: capacity 3 (not a power of two, so the modulus matters), requests up to
  4 (below, at and above the room), pushes begin up to index 5 (each slot is
  used twice).
- Playback: ring 2, chunk 3, track 3: the ring limits a chunk, the last chunk is
  short; 2 plays and 2 stops let each play meet what the other left.
- Sync: 2 devices, 3 changes, clocks to 4: two inserts and a tombstone, or two
  tombstones and an insert, from either device in every order, merged twice.
  Every tombstone is below the cutoff.
- Scrobbler: one listen for each service and one for neither, one crash, one
  lost answer. Services do not share state, and a second crash starts from a
  state the first already reaches.
- Radio: one station of each kind, 2 opens by the user and any number by the
  timer, 3 calls from 2 threads, 2 units (one block between them).
- Library: 2 files and 2 lists, ids to 2: a row can be replaced and a list
  refreshed while another holds the same rows. Rules: one with each operator
  family, one that sorts and limits, one that is refused by SQL.
- Podcasts: one feed, two versions of it, 2 threads: one refresh inside another.
  The host sets an episode played, has it downloaded, and sets its position back
  to the start; other positions only multiply the states.
- Pairing: 2 attempts, a cooldown of 2, 4 wrong codes: two lockouts, or one that
  is cancelled and what follows.
- Session and discovery: 2 peers and oneself. Transport: 2 threads, 2 frames
  each, 2 ends.
- Sound: blocks of one and two frames on two channels, two boosts, ceilings that
  do and do not limit, fades of 0 and 3 frames, longer than a block. Ramps of 0
  to 3 samples, 2 bands.
- The threads, refreshers and senders of the machines are interchangeable, so
  `MCSymmetry` permutes each.
- Start: 3 steps: one before, one that fails, one never reached. Instances: 2
  and 2 messages. HTTP: 2 senders, one redirect, one header each.
- Themes: 2 built-in ones, at most 4 loaded (a failed load pushes again).
- MusicBrainz: 2 threads, 3 requests, a cache of 1, a period and a life of 2,
  times to 4: eviction, expiry and waiting all occur.
- Documents: texts of up to four bytes out of those that decide a branch (one of
  each class of UTF-8 byte, each separator, each wildcard), trees of two or three
  levels with two children, integers of eight bits. Each limit of the code
  (depth, count, length, width of an integer) is a CONSTANT set so low that
  documents below, at and above it are in the set.

`CHECK_DEADLOCK FALSE` where the system may stop: when the plays and stops, the
changes, the clock or the messages are used up, a document has been read, or two
ends of the transport wait for each other.

**Fairness.** Only threads inside a call go on by themselves.

- Playback: weak fairness of the player and of the stopper; neither has to call.
- Scrobbler: weak fairness of `FlushStep`: "safe to call on a timer", and a
  request returns because it has a timeout. The network, the user and crashes
  are not fair; `EventuallySubmitted` assumes that from some time on the network
  works, the user is logged in and tokens are read back intact.
- Radio: weak fairness of the worker (a request has a timeout of 15 s), of each
  controller and of the timer, which belongs to the host (`radio.cpp:371`).
  `Reconnects` assumes that the network stays up from some time on.
- The machines and documents are checked for safety only.

## What is proved

`SpscRingProofs`, from the assumptions that the capacity is a positive number
and the bounds are numbers:

- `IndexInv` is inductive: each value a thread may still load leaves room (or
  frames) for what the call under way has decided to move. `writeIndex <=
  readIndex + Capacity` alone is not inductive, since a call acts on an old
  load; it has to hold of every value that may still be seen. `TypeOK`,
  `NeverOverfillsNorOverdraws` and, if `PushAcquires`, `NoSampleRace` follow.
- `ImplementsFifo`: each step is a put, a take or a stutter of `BoundedFifo`.
- `SlotsInv` adds what the slots hold. The lemma `DistinctSlots` says that
  positions less than the capacity apart have different slots.
  `QueuedFramesIntact` and `PopDeliversInOrder` follow.

`PlaybackProofs`, from the assumptions on the three sizes (none for the settings of the equalizer):

- `SoundInv` is inductive: what has been heard, what is in the planes, what is in
  the ring and what the decoder gives next are one run of frames, cut somewhere.
  `HeardInOrder` speaks only of the first part and says nothing of what the next
  write will add. It and `SuccessMeansHeard` follow for any `OverlapCalls`: a
  `stop()` that closes the wrong play cuts the run, it does not reorder it.
- `QuietInv`, assuming `OverlapCalls = FALSE`: what is not open is closed, sink
  and decoder both, except inside `open` and `close` where it says which.
  `ReturnLeavesAllClosed` follows.
- `AdmitInv`, under the same assumption: while a play is stopped no frame is let
  in, and what was let in before is heard or in the sink (`InSink`).
  `StopAdmitsNothing` follows.
- Four parts of `GaplessTrimmed`, which TLC checks on sampled tracks, hold of all
  of them (`SkipsKeepTime`, `GranulesFit`, `TrimsFit`, `FramesKeepBitrate`),
  assuming that the greatest skip and the slack are natural numbers and that
  what stands for "unknown" and "no number" is no number. The divisions that
  round are lemmas (`Rounded`, `Slots`). The tag of LAME, its checksum and its
  damage are not among them: they fold bytes.
- A part of `LevelsHold`: clamping the settings of the equalizer twice is clamping
  them once, in every mode (`SettingsClampOnce`), and for the graphic modes all
  of `SettingsAgree`, with any gains at any rate (`GraphicSettingsAgree`). The
  steps of the gains and the ranges are lemmas about one gain and one band
  (`GainOnce`, `BandOnce`). What `configure()` makes of parametric settings stays
  with TLC: it picks the bands that are on with a recursive operator of the
  library.

`SyncMergeProofs`, from the assumptions that devices, times and the cutoff are
natural numbers (any number of devices, any hashes):

- `StampInv`, assuming `OneCaller = TRUE`, is inductive: a stamp in the log is
  not above the clock of its device, what a call is about to store is above it,
  and what a device holds or has merged is not above its own clock once its
  ticks are through. `StampsAreUnique` (but for two devices of one hash) and
  `LocalEditIsLatest` follow. Without the assumption both are false.
- `ReplicaInv` ties a replica to the set of changes folded into it, and
  `FoldKeepsReplicaOk` shows that one more change keeps the tie wherever it
  comes in the order and however often it came before. `LatestWins`,
  `NoPlayIsLost`, `DeletedStaysDeleted` and `MembershipRuleInOrder` follow.

`ScrobbleQueueProofs`, without assumptions: any listens, services, crashes and
lost answers. `ScrobbleInv` adds to the properties where the rows that `flush()`
holds and those on disk are at each of its steps (`PlaceInv`), that no row is
twice in the table or in the batch or in both while it is sent (`RowsInv`), that
what a service has taken and confirmed is nowhere any more but for the item just
answered (`TakenInv`), and that a request leaves late at most once (`LateInv`).
`NoOtherLoss`, `NoDoubleScrobble` and `LogOutStopsSending` follow. A crash
is the case that needs the most: it puts `committed` in the place of `queue`.

`RadioClientProofs`, assuming only that `MaxUnits` is a natural number: any
stations, threads and answers. `RadioInv` says when the token is cancelled or
about to be (`CancelInv`), that nothing is heard before the answer has been
looked at (`SilentInv`), what the state is while nobody else calls (`StateInv`),
and that what was heard and what is left of an answer are its audio (`AudioInv`).
`CancelledConnectIsSilent`, `ResultTellsState` and `WholeAudioHeard` follow.

The twelve machines of `Machines` are proved in three modules. A behaviour keeps
its machine (`SyncSteps`, `ServiceSteps`, `ApplicationSteps`), so each theorem
about `Machines` is one inductive invariant for each of its machines, which the
machine's module defines.

`SyncMachinesProofs`:

- `GuessesAreBounded`, assuming that the limit is a positive number and the
  cooldown an integer. `LockoutInv` says how the code's own count relates to the
  codes spent (`CountsAgree`), and that the end of a lockout is its beginning
  and the cooldown (`LockDated`).
- `SyncEndsInOrder`. Of a session, for any peers and without assumptions:
  `SessionInv` says which state goes with which step of the script as long as no
  `cancel()` has come between, and that after one the connection is closed for
  good. Of the transport, assuming that `None` is none of the ends, threads and
  keys: `PipeInv` adds that an end in the middle of a `send()` has a key and a
  peer (`SendersReady`) and that no frame is numbered past what its thread has
  sent (`NumbersReached`).
- `LibraryFollowsItsRules`. For any disks, tracks, rules and clocks. Assumed
  (`LibraryAssumption`): a disk is a sequence of files, a query has the order and
  the limit of its rule, and a query that binds nothing is true of the rows its
  rule describes. The last is what `RulesSelect` checks of the compiler; the
  theorem says that the statements around it (the delete, the insert, a reopening
  after a crash between them, a change of the tracks) keep what it gives.
  `LibraryInv` adds to `LibrarySound` what is true in the middle of a refresh
  (`RefreshedSoFar`): the lists behind the one it has reached are of the library
  as it is, and that one has nothing between its delete and its insert. Other
  lemmas say what one insert writes, that a list keeps its rule as long as its
  items only go with their tracks, and that a ranking has every chosen track
  once, in the order.

`ServiceMachinesProofs`, `ServicesAreKept`:

- The HTTP client, for any senders, requests and limits, assuming that the ways a
  send can end are different values: `TransferInv` says what a code, a result and
  an answer are at each place of a send, `ClientInv` whose the one abort flag and
  the one form are as long as a send is alone.
- The podcast queue, for any feeds, versions and threads, assuming that a version
  is a sequence of episodes: `CopiesAgree` says that a copy a refresh holds still
  has what the host said of the episodes in it, for what the host said since has
  been taken out of `given`.
- The lookups, for any period, life and threads, assuming that the two durations
  are natural numbers: `CacheInv` ties an entry to the answer it came from.

What is exempt is in the property and in the theorem's comment: a word said
during a refresh, a tag after an answer without one, the cancels of sends that
overlap, all of a client that has freed a form it did not own, and the rate.

`ApplicationMachinesProofs`, `SoundIsSmooth` and `ApplicationIsSound`:

- The chain, for any blocks, boosts, ceilings and fades, assuming that a block
  has as many samples on each channel and that levels are numbers. `SoundInv`
  says which stores of a `set_fade()` are still to become visible
  (`StoresAgree`), and how what is left of a fade follows from the frames played
  since it was asked for (`FadeAgrees`, `FormAgrees`). `GainOfThePeak`,
  `GainsOf` and `FadeGainOf` are the arithmetic of the limiter and of the fade:
  nonlinear, with rounded division, so in steps of one inequality each.
- The equalizer, for any designs and lengths of ramps that divide a sample: a
  ramp that is let run has no jump (`StepOfARamp`, `SampleOf`, `RampOf`).
- The start, for any number of steps and without assumptions: `StartInv` says
  which steps are up while a start or a shutdown is at a given step.
- The servers, for any number of instances and messages, assuming that `None` is
  no instance: `ServersInv` says who listens where (`Listening`), that a server
  which nobody crossed is the one its path leads to (`Alone`), that a stop
  reaches a server that sleeps (`StopReaches`), and that messages are different
  (`IdsApart`).
- The theme, for any built-in and user themes, overrides and files, assuming that
  there is a built-in one: the cache holds what its inputs resolve to. What
  resolution means is stated apart (`ReachesBase`, `Walk`), and the proof follows
  a chain up and its fields down, however long it is.

The gains of the limiter, the walk up a chain of themes and the fold of its
fields are recursive functions on numbers. The induction theorems of the library
take an operator as a parameter and no prover here can instantiate them, so the
induction is over sets instead: `SmallestOf` (a set of numbers has a smallest
one, from the library's well-foundedness of `<`) gives `Induct` (a set that has
0, and with each number the next, is `Nat`), that gives `Iterates` (a function
that repeats a step exists, so CHOOSE finds it) and `Stays` (what each step keeps
holds of all its values). The lemmas on the limiter, on `Walk` and on `FoldUp`
rest on these three.

Every type invariant is the first conjunct of its inductive invariant.

Only model-checked:

- liveness (`PlayAlwaysReturns`, `EventuallySubmitted`, `Reconnects`): fairness
  and ENABLED are out of the prover's reach;
- the ten invariants of `MCDocuments` (but for the parts of `GaplessTrimmed` and
  `LevelsHold` above): their algorithms are recursive over
  sequences and trees, most of them as RECURSIVE operators, which the prover
  cannot use.

## Where the code and its words disagree

Beside the five findings, met while the code was read. The models do what the
code does; no run is about these lines.

- **Sync.** A connection with an empty pre-shared key is
  refused and `sync_with` gives no other (`engine.cpp:455`), so a session over
  the built-in transport never begins. A message with changes is no JSON: three
  values stand behind an empty text, and numbers are read only in quotes, which
  nobody writes, so no count is heard and a change arrives without its entity and
  field. A control character in a device's name does not read back, and
  a ";" in a TXT record ends its field. An end that is closed still takes frames,
  and the next session receives them. Two devices with one code
  are said to get the same key (`pairing.cpp:478-482`): each hashes its own name
  into it. SHA-256 writes the length of the text lowest byte first, so its
  digests are its own; without 128-bit integers `mod_mul` is wrong where a sum
  outgrows 64 bits, and `secret_key_from_w` has no caller.
- **Merging.** `resume_position` is to come from the device with the greatest
  `last_played_at` (REQ-SYN-009, `sync-protocol.md:406`); the code takes the
  latest stamp (`transport.cpp:115-119`), as for a rating. Of play counts
  `transport.cpp:74-76` says that "two increments on the same device collapse to
  one", and `sync-protocol.md:412` that a peer "MUST store per-origin-device
  counter state": the key of the device is computed and not used, and every
  increment is added, a repeated one too. Tombstones are to be kept 90 days
  (REQ-SYN-010, `transport_port.hpp:138-141`); the cutoff is in seconds and the
  stamps are logical clocks, so the first compaction drops all
  (`transport.cpp:187-194`). Stamps are said to order all changes
  (`transport_port.hpp:32`): two names may have one hash of 32 bits, and
  `tick_lamport` loads and stores without a lock (`engine.cpp:600-608`).
- **Pairing.** `pairing_port.hpp:10` and `:42` promise that exhausted attempts
  cost five minutes: `cancel()` and a new code begin again at once
  (`pairing.cpp:355`, `413-418`). Any six digits pair, for the code that is
  displayed is not compared (`404-409`). `code_ttl` is never looked at, and a
  failure to store a key is ignored.
- **Library.** `custom_tags` is never written. A refresh whose query fails to
  prepare leaves the list empty, and one with literals binds them in another
  order than the text has them (`library_database.cpp:368-390`).
  `library::Database` (`database.cpp`) refuses every file: it compares schema
  version 42 with 15.
- **Rules.** A duration with a unit becomes seconds (`smart_playlist.cpp:634-668`)
  and is compared with `duration_ms` (`:78`), where a test says "Duration is in
  ms" (`test_smart_playlist.cpp:524-534`). Two tests expect parameters without
  their "%" (`217-218`, `385-389`), and one a custom field in an order that the
  compiler refuses (`286-295`).
- **Sound.** `limiter.hpp:54` says that the output never exceeds the ceiling: it
  does while the gain is released, and on a further channel. `equalizer.hpp:135-148`
  and REQ-AUD-085 say that `publish_settings` fades from the earlier values: both
  filters are set at once. A finished fade-out jumps back to full volume.
  `replaygain.cpp:347-349` and `365` say that a whole number is Q7.8: it is read
  as decibels. The blocks of a loudness are to overlap by 75 % (`166-175`): they
  do not. A comment calls the mean of levels and that of energies equivalent.
- **Scrobbler.** "dropping a listen is worse than no scrobble"
  (`scrobble.cpp:448-450`, REQ-NET-042 in `eclipse-player.md:3292`), and each play
  goes to a service (`scrobble_port.hpp:41-44`): a row of an unknown source is
  deleted unsent, and a crash during `flush()` loses its batch. A play counts
  from 30 seconds heard, where `scrobble.cpp:51` asks for a track longer than
  that. The Last.fm signature is to be of the fields "in alphabetical order"
  (`scrobble.cpp:218`): with an id or a duration it is not. ListenBrainz is sent
  percent-encoded text in JSON.
- **Network.** The HTTP client is "NOT thread-safe" and called from every
  subsystem's worker: a cancelled send may report an HTTP error, and a form may
  be freed twice (`http_client.cpp:348-351`). `musicbrainz.cpp:9` and `:52` say
  one request a second: three leave within one period. A 200 answer
  without an ETag leaves the tag of the feed before it (`podcast.cpp:104-110`).
  `radio_port.hpp:73-75` says that after an error the state is Reconnecting or
  Failed: after a playlist that does not parse it stays Connecting.
  HTTPS may be redirected to HTTP, which REQ-NET-003 forbids, and what the log
  may show of the headers is computed and dropped. In a list of stations nothing
  behind a missing number is read.
- **Playlists and feeds.** REQ-NET-010 (`eclipse-player.md:3256`) wants master
  playlists: 18 characters are compared with a tag of 17, so one with variants is
  refused. REQ-NET-020 (`:3270`) wants feeds, and the lexer has
  a token for a closing tag (`rss_feed.cpp:63`), at which an item is kept (`727`,
  `520`): it never gives one, so a feed with such tags is refused, and of one
  without them a single episode is kept (`603`).
- **Formats and tags.** `test_format_parser.cpp:1121` expects "7 years ago" where
  `format_age` says 8: it counts the day itself, and no pattern reaches it, for
  the parser does not know `$age`. A malformed call in a short title format ends the
  program; `$abs` and `$round` with places print the scaled value, where their
  tests expect 3.14 and 7.2. The composer of an MP4 file is read
  from its comment (`tag_reader.cpp:843`), the album artist never; artists "The"
  and "A" share the empty sort key; a cue sheet keeps no track.
- **Text.** `glob_match("*", "*a")` is false: a "*" in the subject is compared as a
  letter before it is a wildcard (`text.cpp:695-700`), against `text.hpp:137`.
- **Themes and skins.** The first override is read from the end of an empty
  vector (`chain.cpp:322`). "User overrides win last" (`chain.cpp:516`;
  `chain.hpp:8-10` has the user's theme on top): they fill only what is unset.
  "Maximum 64
  bindings per component tree" (`layout.hpp:26`, `:363`): a binding counts once
  for each level above it. The names of padding, margin, spacing and radius are
  views of texts that are gone (`layout.cpp:310-324`, `layout.hpp:99`), and the
  other type styles of a document are lost (`theme/loader.cpp:286-292`). No skin package
  can be installed: `manifest.json` is not among the files a package may hold.
- **Shell.** `--sink null` is accepted where `test_command_line.cpp:57-66` expects
  a refusal. A stop before the server has set its flag is lost.

Several files need a line changed before they compile (`rss_feed.cpp`,
`musicbrainz.cpp`, `scanner.cpp`, `database.cpp`, `change_log.cpp`,
`smart_playlist.cpp`, `engine.cpp`, `svg_sanitize.cpp`, `pack.cpp` and some
headers), or are in no source list of the build. They are modelled as written.

## What is not modelled

- Samples, encodings, headers and wording, where no property is about them.
- `RingBuffer::reset`, `skip_read`, `skip_write`: without callers.
- The gapless scheduler: nothing writes its rings, so it only gives silence.
- The audio sinks: devices; `AlsaSink::open()` takes its own mutex twice and
  never returns. `PlaybackService` has the sink the program runs with.
- The library index, its scanner and its change log: no state of them can be
  reached, since the database never opens.
- Skin packages: none can be installed.
- The FFmpeg decoder: a wrapper the build leaves out unless it finds the library.
- What compressing a block does to a digest, and how a pairing code is drawn.
- libcurl, SQLite, TagLib, JSON schemas: external, modelled by what the code
  relies on.
- Of the DSP, the delay lines of filters and the irrational fade curves; of the
  radio, `last_track_`, which survives into the next station, and `attempt_`,
  which each `open()` resets, as far as they only reach the user interface.
- The windows and the Android program. "components" in `PROJECT.json` has the
  reason for each.
