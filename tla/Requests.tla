------------------------------- MODULE Requests -------------------------------
(* What the player says to a server or a peer, and what it reads of a       *)
(* station's file: plays, queries, headers, records, lists and messages.    *)
(* src/desktop/src/net/scrobble.cpp, net/http_client.cpp, net/radio.cpp,    *)
(* sync/discovery.cpp, sync/engine.cpp                                      *)
(*                                                                          *)
(* A text is a sequence of bytes, and here and there of words: a word, such *)
(* as "File7=", is a number above the bytes. A result that may be an error, *)
(* and a field that may be unset, is a set of at most one value.            *)
EXTENDS Integers, Sequences, FiniteSets, SequencesExt, FiniteSetsExt, TLC
LOCAL T == INSTANCE Text WITH MaxInt <- 127, MaxPath <- 5
CONSTANTS
    MaxEntries,   \* 100
    MaxMessage    \* 8 MiB

Quest == 63
Amp == 38
Semi == 59
Equals == 61
Percent == 37
Newline == 10
Return == 13
Hash == 35

-----------------------------------------------------------------------------
(* Plays                                                                    *)

\* Thirty seconds have to be played, not to be there.
MeetsThreshold(played, nominal) ==
    /\ played >= 30
    /\ played >= 240 \/ (nominal > 0 /\ played * 2 >= nominal)

Unreserved == 48..57 \cup 65..90 \cup 97..122 \cup {45, 46, 95, 126}
HexOf(n) == IF n < 10 THEN 48 + n ELSE 55 + n
Escaped(b) == IF b \in Unreserved THEN <<b>> ELSE <<Percent, HexOf(b \div 16), HexOf(b % 16)>>
PercentEncodeButPercent(s) ==   \* mutant: what is escaped is escaped
    FlattenSeq([i \in DOMAIN s |-> IF s[i] = Percent THEN <<Percent>> ELSE Escaped(s[i])])
PercentEncode(s) == FlattenSeq([i \in DOMAIN s |-> Escaped(s[i])])

Field(name, text) == [name |-> name, text |-> text]
Fields(name, texts) == SetToSeq({Field(name, t) : t \in texts})
\* A play is [artist, title, album, mbid, duration, timestamp], with numbers
\* written out; who plays it is [key, token, secret].
Posted(play, who) ==
    <<Field("method", play.method), Field("api_key", PercentEncode(who.key)), Field("sk", PercentEncode(who.token)),
      Field("timestamp[0]", play.timestamp), Field("artist[0]", PercentEncode(play.artist)),
      Field("track[0]", PercentEncode(play.title)), Field("album[0]", PercentEncode(play.album))>>
    \o Fields("mbid[0]", {PercentEncode(m) : m \in play.mbid}) \o Fields("duration[0]", play.duration)
Signed(play, who) ==
    <<Field("album[0]", play.album), Field("api_key", who.key), Field("artist[0]", play.artist),
      Field("method", play.method), Field("sk", who.token), Field("timestamp[0]", play.timestamp),
      Field("track[0]", play.title)>>
    \o Fields("mbid[0]", play.mbid) \o Fields("duration[0]", play.duration)
SubmitLastfm(play, who) == [fields |-> Posted(play, who), signature |-> <<"md5", Signed(play, who), who.secret>>]
\* ListenBrainz takes JSON, and is sent what a form would hold.
SubmitListenbrainz(play, who) ==
    [listened_at |-> play.timestamp, artist_name |-> PercentEncode(play.artist), track_name |-> PercentEncode(play.title),
     release_name |-> PercentEncode(play.album), recording_mbid |-> {PercentEncode(m) : m \in play.mbid},
     authorization |-> who.token]

-----------------------------------------------------------------------------
(* Headers, queries, records                                                *)

FindHeader(headers, name) ==
    LET at == {i \in DOMAIN headers : T!IEquals(headers[i].name, name)}
    IN  IF at = {} THEN {} ELSE {headers[Min(at)].value}
Secretive == {<<65>>, <<67>>, <<83>>, <<80>>}   \* Authorization, Cookie, Set-Cookie, Proxy-Authorization
Hides(h) == \E name \in Secretive : T!IEquals(h.name, name)
RedactForLog(headers) ==
    [i \in DOMAIN headers |-> IF Hides(headers[i]) THEN [headers[i] EXCEPT !.value = <<42>>] ELSE headers[i]]

WithQuery(base, query) ==
    IF query = <<>> THEN base
    ELSE Append(base, IF Contains(base, Quest) THEN Amp ELSE Quest) \o query

\* The names of a record: uuid, ver and fp.
Uuid == <<117>>
Ver == <<118>>
Fp == <<102>>
BuildTxt(uuid, ver, fp) ==
    Uuid \o <<Equals>> \o uuid \o <<Semi>> \o Ver \o <<Equals>> \o ver \o <<Semi>>
    \o (IF fp = <<>> THEN <<>> ELSE Fp \o <<Equals>> \o fp)
UpTo(s, b) == LET at == {i \in DOMAIN s : s[i] = b} IN SubSeq(s, 1, IF at = {} THEN Len(s) ELSE Min(at) - 1)
Behind(s, b) == SubSeq(s, Len(UpTo(s, b)) + 2, Len(s))
RECURSIVE PartsOf(_)
PartsOf(s) == IF s = <<>> THEN <<>> ELSE <<UpTo(s, Semi)>> \o PartsOf(Behind(s, Semi))
\* What has no "=" is passed over, and a name stands for its first value.
ParseTxt(s) ==
    LET parts == SelectSeq(PartsOf(s), LAMBDA p : Contains(p, Equals))
        first(name) == Min({i \in DOMAIN parts : UpTo(parts[i], Equals) = name})
    IN  [name \in {UpTo(parts[i], Equals) : i \in DOMAIN parts} |-> Behind(parts[first(name)], Equals)]

-----------------------------------------------------------------------------
(* The file of a station                                                    *)

FileKey(i) == 1000 + i
TitleKey(i) == 2000 + i
Playlist == 3000   \* [playlist], and as one would shout it
Extm3u == 3001     \* begins with a hash
Scheme == 3002     \* ://
Https == 3003

RECURSIVE Chomped(_)
Chomped(line) == IF line # <<>> /\ Last(line) = Return THEN Chomped(Front(line)) ELSE line
AtKey(text, key) == {i \in DOMAIN text : text[i] = key}
\* What is behind the first place of a key, up to the end of its line.
SaidOf(text, key) == Chomped(UpTo(SubSeq(text, Min(AtKey(text, key)) + 1, Len(text)), Newline))

IsHttps(url) == Contains(url, Scheme) /\ UpTo(url, Scheme) = <<Https>>
Station(url, name) == [url |-> url, name |-> name, https |-> IsHttps(url)]
\* The files are numbered from one: none behind a number that is left out.
Numbered(text) == CHOOSE n \in 0..MaxEntries :
    /\ \A i \in 1..n : AtKey(text, FileKey(i)) # {}
    /\ n < MaxEntries => AtKey(text, FileKey(n + 1)) = {}
OfPls(text) ==
    [i \in 1..Numbered(text) |->
        Station(SaidOf(text, FileKey(i)), IF AtKey(text, TitleKey(i)) = {} THEN <<>> ELSE SaidOf(text, TitleKey(i)))]
Comment(line) == line[1] \in {Hash, Extm3u}
OfM3u(text) ==
    LET cut == T!Split(text, Newline, FALSE)
        lines == SelectSeq([i \in DOMAIN cut |-> Chomped(cut[i])], LAMBDA l : l # <<>> /\ ~Comment(l))
    IN  [i \in DOMAIN lines |-> Station(lines[i], <<>>)]
LooksLikePls(text) == \E i \in DOMAIN text : text[i] \in {Playlist, FileKey(1)}
LooksLikeM3u(text) == text # <<>> /\ (text[1] = Hash \/ Contains(text, Extm3u))
ParseStationPlaylist(text) ==
    LET found == IF LooksLikePls(text) THEN OfPls(text) ELSE IF LooksLikeM3u(text) THEN OfM3u(text) ELSE <<>>
    IN  {s \in {found} : s # <<>>}

-----------------------------------------------------------------------------
(* The messages of a sync                                                   *)

Names == <<"type", "v", "deviceUuid", "deviceName", "protocolVersions", "appVersion", "platform", "entities", "lamport",
           "maxMessageBytes", "maxChangesPerMessage", "tombstoneHorizonDays", "perDevice", "limit", "changes", "entity",
           "entityUuid", "field", "op", "value", "more", "highWater", "applied", "skipped", "pending", "code", "message",
           "Hello", "Capabilities", "ChangesSince", "Changes", "Ack", "Error", "Goodbye", "track_state", "playlist",
           "playlist_member", "bookmark", "shortcut", "play_count", "skip_count", "rating", "is_loved", "last_played_at",
           "resume_position_ms", "playlist_membership", "playlist_rename", "smart_playlist_rule", "null", "true", "false">>
Word(name) == 4000 + CHOOSE i \in DOMAIN Names : Names[i] = name
Quote == 34
Backslash == 92
Colon == 58
\* What a backslash and a letter stand for, by the letter.
Short == (98 :> 8) @@ (102 :> 12) @@ (110 :> 10) @@ (114 :> 13) @@ (116 :> 9)
EscapedJson(c) ==
    CASE c \in {Quote, Backslash} -> <<Backslash, c>>
      [] c \in Range(Short) -> <<Backslash, CHOOSE l \in DOMAIN Short : Short[l] = c>>
      [] c \in 0..31 \ Range(Short) -> <<Backslash, 117, 48, 48, HexOf(c \div 16), HexOf(c % 16)>>
      [] OTHER -> <<c>>
Quoted(s) == <<Quote>> \o FlattenSeq([i \in DOMAIN s |-> EscapedJson(s[i])]) \o <<Quote>>
Say(name) == Quoted(<<Word(name)>>)
Digits[n \in Nat] == IF n < 10 THEN <<48 + n>> ELSE Digits[n \div 10] \o <<48 + (n % 10)>>
Number(n) == IF n < 0 THEN <<45>> \o Digits[-n] ELSE Digits[n]
Comma == 44
Between(parts) == FlattenSeq([i \in DOMAIN parts |-> IF i = 1 THEN parts[i] ELSE <<Comma>> \o parts[i]])
\* A member of an object, with its value as it is written.
Member(name, value) == Say(name) \o <<Colon>> \o value
Object(members) == <<123>> \o Between(members) \o <<125>>
List(values) == <<91>> \o Between(values) \o <<93>>
Message(type, members) == Object(<<Member("type", Say(type))>> \o members)
MarksOf(marks) == LET devices == SetToSeq(DOMAIN marks)
                  IN  Object([i \in DOMAIN devices |-> Quoted(devices[i]) \o <<Colon>> \o Number(marks[devices[i]])])
Kinds(entities) == List([i \in DOMAIN entities |-> Say(entities[i])])

BuildHello(uuid, name, version, platform) ==
    Message("Hello", <<Member("v", Number(1)), Member("deviceUuid", Quoted(uuid)), Member("deviceName", Quoted(name)),
                       Member("protocolVersions", List(<<Number(1)>>)), Member("appVersion", Quoted(version)),
                       Member("platform", Quoted(platform))>>)
BuildCapabilities(entities, lamport, bytes, changes, days) ==
    Message("Capabilities", <<Member("entities", Kinds(entities)), Member("lamport", Number(lamport)),
                              Member("maxMessageBytes", Number(bytes)), Member("maxChangesPerMessage", Number(changes)),
                              Member("tombstoneHorizonDays", Number(days))>>)
BuildChangesSince(marks, entities, limit) ==
    Message("ChangesSince", <<Member("perDevice", MarksOf(marks))>>
        \o (IF entities = <<>> THEN <<>> ELSE <<Member("entities", Kinds(entities))>>)
        \o (IF limit > 0 THEN <<Member("limit", Number(limit))>> ELSE <<>>))
EntityOf(field) == CASE field = "playlist_membership" -> "playlist_member" [] field \in {"playlist_rename", "smart_playlist_rule"} -> "playlist"
                     [] field = "bookmark" -> "bookmark" [] OTHER -> "track_state"
\* Three values are written behind an empty text that stands there already.
OfChange(c) ==
    Object(<<Member("entity", Quoted(<<>>) \o Say(EntityOf(c.field))), Member("entityUuid", Quoted(c.entity)),
             Member("field", Quoted(<<>>) \o Say(IF c.tombstone THEN "null" ELSE c.field)),
             Member("op", Number(IF c.tombstone THEN 1 ELSE 0))>>
           \o (IF c.value = <<>> THEN <<>> ELSE <<Member("value", Quoted(c.value))>>)
           \o <<Member("lamport", Number(c.lamport)), Member("deviceUuid", Quoted(<<>>) \o Quoted(Number(c.device)))>>)
BuildChanges(changes, more, marks) ==
    Message("Changes", <<Member("changes", List([i \in DOMAIN changes |-> OfChange(changes[i])])),
                         Member("more", <<Word(IF more THEN "true" ELSE "false")>>), Member("highWater", MarksOf(marks))>>)
BuildAck(applied, skipped, pending, marks) ==
    Message("Ack", <<Member("applied", Number(applied)), Member("skipped", Number(skipped)), Member("pending", Number(pending)),
                     Member("highWater", MarksOf(marks))>>)
BuildError(code, text) == Message("Error", <<Member("v", Number(1)), Member("code", Quoted(code)), Member("message", Quoted(text))>>)
BuildGoodbye == Message("Goodbye", <<Member("v", Number(1))>>)

\* The text is searched for the name in its quotes, wherever they stand.
Skip(s, blanks) == SubSeq(s, Min({i \in 1..Len(s) + 1 : i = Len(s) + 1 \/ s[i] \notin blanks}), Len(s))
RECURSIVE Unquoted(_)
Unquoted(s) ==
    IF s = <<>> \/ s[1] = Quote THEN <<>>
    ELSE IF s[1] = Backslash /\ Len(s) > 1
         THEN <<IF s[2] \in DOMAIN Short THEN Short[s[2]] ELSE s[2]>> \o Unquoted(SubSeq(s, 3, Len(s)))
         ELSE <<s[1]>> \o Unquoted(Tail(s))
GetString(text, name) ==
    LET key == Say(name)
        at == {i \in 1..Len(text) - 2 : text[i] = Quote /\ SubSeq(text, i, i + 2) = key}
        behind == Skip(SubSeq(text, Min(at) + 3, Len(text)), {32, 9, 10, 13})
        rest == Skip(IF behind # <<>> /\ behind[1] = Colon THEN Tail(behind) ELSE behind, {32, 9})
    IN  IF at = {} THEN {} ELSE IF rest = <<>> THEN {} ELSE IF rest[1] # Quote THEN {} ELSE {Unquoted(Tail(rest))}
\* A number is one in quotes.
GetInt(text, name) ==
    {FoldLeft(LAMBDA n, c : n * 10 + c - 48, 0, IF s[1] = 45 THEN Tail(s) ELSE s) * (IF s[1] = 45 THEN -1 ELSE 1) :
        s \in {t \in GetString(text, name) : t # <<>> /\ \A i \in DOMAIN t : t[i] \in 48..57 \/ (i = 1 /\ t[i] = 45)}}

WriteFrame(message) == [i \in 1..4 |-> (Len(message) \div 256^(4 - i)) % 256] \o message
ReadFrame(wire) ==
    LET len == FoldLeft(LAMBDA n, b : n * 256 + b, 0, SubSeq(wire, 1, 4))
    IN  IF Len(wire) < 4 THEN {} ELSE IF len \notin 2..MaxMessage \/ Len(wire) < 4 + len THEN {} ELSE {SubSeq(wire, 5, 4 + len)}

-----------------------------------------------------------------------------

\* A play counts from half of a track on, or from four minutes: more of it never
\* counts less, and of a track of a minute or more it is as REQ-NET-041 has it.
Required(played, nominal) == nominal > 30 /\ (played * 2 >= nominal \/ played >= 240)
ThresholdHolds(played, nominal) ==
    /\ nominal >= 60 => (MeetsThreshold(played, nominal) <=> Required(played, nominal))
    /\ MeetsThreshold(played, nominal) => MeetsThreshold(played + 1, nominal)
    /\ nominal <= 0 => (MeetsThreshold(played, nominal) <=> played >= 240)

\* The server reads an encoded text back, and no byte of it ends a field.
RECURSIVE Decoded(_)
FromHex(b) == IF b < 58 THEN b - 48 ELSE b - 55
Decoded(s) ==
    IF s = <<>> THEN <<>>
    ELSE IF s[1] = Percent THEN <<16 * FromHex(s[2]) + FromHex(s[3])>> \o Decoded(SubSeq(s, 4, Len(s)))
    ELSE <<s[1]>> \o Decoded(Tail(s))
EncodedReadsBack(s) ==
    /\ Decoded(PercentEncode(s)) = s
    /\ \A i \in DOMAIN PercentEncode(s) : PercentEncode(s)[i] \in Unreserved \cup {Percent}

\* Last.fm is sent what was signed, each field once; the order of the fields is
\* the one that the signature is made in at the other end only while the play
\* has neither an id nor a duration. ListenBrainz is told the names of a play
\* only if they need no escape.
Ordered == <<"album[0]", "api_key", "artist[0]", "duration[0]", "mbid[0]", "method", "sk", "timestamp[0]", "track[0]">>
InOrder(fields) == \A i, j \in DOMAIN fields : i < j =>
    \E k, l \in DOMAIN Ordered : k < l /\ Ordered[k] = fields[i].name /\ Ordered[l] = fields[j].name
PlaysHold(play, who) ==
    LET sent == SubmitLastfm(play, who)
        told == SubmitListenbrainz(play, who)
    IN  /\ {Field(f.name, Decoded(f.text)) : f \in Range(sent.fields)} = Range(sent.signature[2])
        /\ Len(sent.fields) = Len(sent.signature[2]) /\ Len(sent.fields) = Cardinality({f.name : f \in Range(sent.fields)})
        /\ InOrder(sent.signature[2]) <=> play.mbid = {} /\ play.duration = {}
        /\ told.artist_name = play.artist <=> Range(play.artist) \subseteq Unreserved

\* A log shows no secret, whatever the case of its header, and everything else;
\* a header is found by any case of its name.
HeadersHold(headers, name) ==
    LET shown == RedactForLog(headers)
    IN  /\ \A i \in DOMAIN headers : shown[i].name = headers[i].name /\ (shown[i].value = headers[i].value \/ Hides(headers[i]))
        /\ (\E s \in Secretive : T!IEquals(s, name)) => FindHeader(shown, name) \subseteq {<<42>>}
        /\ FindHeader(headers, name) = {} <=> \A i \in DOMAIN headers : ~T!IEquals(headers[i].name, name)

\* Queries are added behind what is there, under one question mark.
QueriesHold(base, first, second) ==
    LET url == WithQuery(WithQuery(base, first), second)
    IN  /\ ~Contains(base, Quest) => UpTo(url, Quest) = base
        /\ ~Contains(base, Quest) /\ first # <<>> /\ second # <<>> => Behind(url, Quest) = first \o <<Amp>> \o second

\* A peer's record says what it was made of; the peer is known by what it says
\* of itself before anything else, whatever stands in the rest.
RecordsHold(uuid, ver, fp) ==
    LET read == ParseTxt(BuildTxt(uuid, ver, fp))
    IN  /\ read[Uuid] = UpTo(uuid, Semi)
        /\ ~Contains(uuid \o ver \o fp, Semi) =>
             read = [n \in {Uuid, Ver} \cup (IF fp = <<>> THEN {} ELSE {Fp}) |-> IF n = Uuid THEN uuid ELSE IF n = Ver THEN ver ELSE fp]

\* A list that is read has stations, each at an address that stands in one line
\* of the text; none of them is a comment of a list without numbers. What is
\* called secure has the scheme that is.
StationsHold(text) ==
    \A stations \in ParseStationPlaylist(text) :
        /\ Len(stations) \in 1..MaxEntries
        /\ \A i \in DOMAIN stations :
             LET url == stations[i].url
             IN  /\ ~Contains(url, Newline) /\ (url = <<>> \/ Last(url) # Return)
                 /\ \E k \in 0..Len(text) : SubSeq(text, k + 1, k + Len(url)) = url
                 /\ stations[i].https => Len(url) > 1 /\ url[1] = Https
                 /\ ~LooksLikePls(text) => url # <<>> /\ ~Comment(url)
\* A list reads back as it was written, with either end of a line.
WrittenPls(stations, end) ==
    <<Playlist>> \o end \o FlattenSeq([i \in DOMAIN stations |->
        <<FileKey(i)>> \o stations[i].url \o end \o <<TitleKey(i)>> \o stations[i].name \o end])
WrittenM3u(stations, end) == <<Extm3u>> \o end \o FlattenSeq([i \in DOMAIN stations |-> stations[i].url \o end])
StationsReadBack(stations) ==
    \A end \in {<<Newline>>, <<Return, Newline>>} : stations # <<>> =>
        /\ ParseStationPlaylist(WrittenPls(stations, end)) = {[i \in DOMAIN stations |-> Station(stations[i].url, stations[i].name)]}
        /\ ParseStationPlaylist(WrittenM3u(stations, end)) = {[i \in DOMAIN stations |-> Station(stations[i].url, <<>>)]}

\* Every message says what it is, whatever names stand in it, and a greeting
\* gives the device's name back, unless no letter escapes a character of it.
\* Nothing is held of the numbers of a message: see README.md.
MessagesReadBack(uuid, name, marks) ==
    LET change == [field |-> "rating", entity |-> uuid, tombstone |-> name = <<>>, value |-> name, lamport |-> 1, device |-> 2]
        sent == [Hello |-> BuildHello(uuid, name, uuid, name), Capabilities |-> BuildCapabilities(<<"playlist", "bookmark">>, 1, 20, 3, 4),
                 ChangesSince |-> BuildChangesSince(marks, <<"bookmark">>, 1), Changes |-> BuildChanges(<<change>>, FALSE, marks),
                 Ack |-> BuildAck(1, 20, -3, marks), Error |-> BuildError(uuid, name), Goodbye |-> BuildGoodbye]
    IN  /\ \A t \in DOMAIN sent : GetString(sent[t], "type") = {<<Word(t)>>}
        /\ GetString(sent.Hello, "deviceUuid") = {uuid} <=> \A i \in DOMAIN uuid : uuid[i] \notin 0..31 \ Range(Short)
\* A frame gives its message and no more, or nothing as long as a byte is out.
FramesReadBack(message, more) ==
    LET wire == WriteFrame(message)
    IN  /\ ReadFrame(wire \o more) = {m \in {message} : Len(m) \in 2..MaxMessage}
        /\ \A k \in 0..Len(wire) - 1 : ReadFrame(SubSeq(wire, 1, k)) = {}
===============================================================================
