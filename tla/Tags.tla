--------------------------------- MODULE Tags ---------------------------------
(* What the library keeps of a file's tags and of a cue sheet:              *)
(* src/desktop/src/library/tag_reader.cpp                                   *)
(*                                                                          *)
(* Names are sequences of code points, with the malformed bytes already     *)
(* skipped. TagLib and the file system are external: a file is its kind,    *)
(* the common fields, the properties and the fields of its own format. A    *)
(* hash of some bytes is those bytes.                                       *)
EXTENDS Integers, Sequences, FiniteSetsExt, SequencesExt

CONSTANTS Articles,     \* kArticles
          None          \* a number that stod refuses, an absent item

Space == 32
Tab == 9
White == {Space, Tab}
Comma == 44
Slash == 47
Semicolon == 59
Paren == 40
Unit == 31              \* what stands between album and artist
Mark == 34              \* a double quote

Lower(c) == IF c \in 65..90 THEN c + 32 ELSE c
IsDiacritic(c) == c \in 768..879 \/ c \in 7616..7679

-----------------------------------------------------------------------------
(* Sort keys and album keys                                                 *)

Keep(result, word) == IF result = <<>> /\ word \in Articles THEN result
                      ELSE IF result = <<>> THEN word ELSE result \o <<Space>> \o word

SortKey(name) ==
    LET wide == SelectSeq(name, LAMBDA c : ~IsDiacritic(c))
        flush(st) == IF st.word = <<>> THEN st ELSE [st EXCEPT !.result = Keep(@, st.word), !.word = <<>>]
        step(st, raw) ==
            LET c == Lower(raw)
            IN  IF st.stopped THEN st
                ELSE IF c \in White \cup {Comma, Slash, Paren} THEN [flush(st) EXCEPT !.stopped = c \in {Slash, Paren}]
                ELSE [st EXCEPT !.word = Append(@, c)]
    IN  flush(FoldLeft(step, [result |-> <<>>, word |-> <<>>, stopped |-> FALSE], wide)).result

AlbumHash(album, artist) ==
    LET collapse(out, c) == IF c \notin White THEN Append(out, Lower(c))
                            ELSE IF out # <<>> /\ Last(out) = Space THEN out ELSE Append(out, Space)
        out == FoldLeft(collapse, <<>>, SortKey(album) \o <<Unit>> \o SortKey(artist))
    IN  SubSeq(out, 1, Max({i \in DOMAIN out : out[i] # Space}))

Trim(s) == LET kept == {i \in DOMAIN s : s[i] \notin White} IN IF kept = {} THEN <<>> ELSE SubSeq(s, Min(kept), Max(kept))
SplitMultiValue(joined) ==
    LET push(result, part) == IF Trim(part) = <<>> THEN result ELSE Append(result, Trim(part))
        step(st, c) == IF c \in {Slash, Semicolon, Comma} THEN [result |-> push(st.result, st.part), part |-> <<>>]
                       ELSE [st EXCEPT !.part = Append(@, c)]
        end == FoldLeft(step, [result |-> <<>>, part |-> <<>>], joined)
    IN  push(end.result, end.part)

-----------------------------------------------------------------------------
(* A file's tags                                                            *)

Get(map, key, none) == IF key \in DOMAIN map THEN map[key] ELSE none
\* The first of a list of fields of the file's own format.
Field(own, key) == Get(own, key, <<>>)

CodecOf == [mp3 |-> "MP3", mp2 |-> "MP3", flac |-> "FLAC", ogg |-> "Vorbis", opus |-> "Opus", m4a |-> "AAC", aac |-> "AAC",
            mp4 |-> "MP4", wav |-> "PCM", aiff |-> "PCM", aif |-> "PCM", wma |-> "WMA", alac |-> "ALAC"]
Lossless == {"FLAC", "ALAC", "WAV", "AIFF"}

NoTrack == [title |-> <<>>, artist |-> <<>>, album |-> <<>>, albumartist |-> <<>>, genre |-> <<>>, year |-> 0, number |-> <<>>,
            disc |-> <<>>, composer |-> <<>>, grouping |-> <<>>, key |-> <<>>, comment |-> <<>>, source |-> <<>>,
            isrc |-> <<>>, bpm |-> 0, gain |-> 0, artwork |-> None, lyrics |-> None, rate |-> 0, depth |-> 0,
            lossless |-> FALSE, codec |-> "", sort |-> <<>>, albumSort |-> <<>>, albumHash |-> <<>>]

FillFromTag(track, file) ==
    [track EXCEPT !.title = file.title, !.artist = file.artist, !.album = file.album, !.genre = file.genre,
                  !.year = file.year, !.number = file.number, !.rate = file.rate]
\* What a field that is there replaces; one that is not leaves it.
Over(old, own, key) == IF key \in DOMAIN own THEN own[key] ELSE old
Id3Extras(track, own) ==
    [track EXCEPT !.composer = Over(@, own, "TCOM"), !.grouping = Over(@, own, "TIT3"), !.key = Over(@, own, "TKEY"),
                  !.disc = Over(@, own, "TPOS"), !.comment = Over(@, own, "COMM"), !.source = Over(@, own, "WCOP"),
                  !.isrc = Over(@, own, "TSRC")]
XiphComment(track, own) ==
    LET comment == Over(track.comment, own, "COMMENT")
    IN  [track EXCEPT !.composer = Over(@, own, "COMPOSER"), !.grouping = Over(@, own, "GROUPING"), !.key = Over(@, own, "KEY"),
                      !.disc = Over(@, own, "DISCNUMBER"),
                      !.comment = IF comment = <<>> THEN Over(comment, own, "DESCRIPTION") ELSE comment]
\* The composer is read from the comment atom, the key from the tempo.
Mp4Tags(track, own) ==
    [track EXCEPT !.composer = Field(own, "cmt"), !.grouping = Field(own, "grp"), !.key = Field(own, "tmpo"),
                  !.disc = Field(own, "disk")]
Extras(track, file) ==
    CASE file.kind = "mpeg" -> Id3Extras(track, file.own)
      [] file.kind \in {"flac", "vorbis", "opus", "speex"} -> XiphComment(track, file.own)
      [] file.kind = "mp4" -> Mp4Tags(track, file.own)
      [] OTHER -> track

\* A property that is no number is 0; the tempo of a frame gives way to it.
NumberOf(props, key) == LET v == Get(props, key, None) IN IF v = None THEN 0 ELSE v
\* A picture, some lyrics and a sheet are filed under a hash of their bytes.
HashBytes(data) == [hash |-> data]
HashOf(props, keys) ==
    LET there == SelectSeq(keys, LAMBDA k : k \in DOMAIN props) IN IF there = <<>> THEN None ELSE HashBytes(props[there[1]])
ArtworkOf(props) == HashOf(props, <<"PICTURE", "COVERART">>)
LyricsOf(props) == HashOf(props, <<"LYRICS">>)
FromProperties(track, props) ==
    LET flat == [track EXCEPT !.gain = NumberOf(props, "REPLAYGAIN_TRACK_GAIN"), !.bpm = NumberOf(props, "BPM"),
                              !.artwork = ArtworkOf(props), !.lyrics = LyricsOf(props)]
    IN  IF track.codec \notin Lossless THEN flat
        ELSE [flat EXCEPT !.lossless = TRUE, !.depth = IF @ = 0 /\ track.rate > 0 THEN 16 ELSE @]

ReadTags(file) ==
    LET named == [NoTrack EXCEPT !.codec = Get(CodecOf, file.ext, "")]
        tagged == FromProperties(Extras(FillFromTag(named, file), file), file.props)
    IN  [tagged EXCEPT !.sort = SortKey(tagged.artist), !.albumSort = SortKey(tagged.album),
                       !.albumHash = AlbumHash(tagged.album, tagged.albumartist)]

KnownProperties == {"TITLE", "ARTIST", "ALBUM", "BPM", "PICTURE", "LYRICS", "REPLAYGAIN_TRACK_GAIN"}
ExtractCustomTags(props) == {<<k, props[k]>> : k \in DOMAIN props \ KnownProperties}
CustomTagsFor(file, id, now) ==
    IF file = None THEN {} ELSE {[track |-> id, key |-> t[1], value |-> t[2], at |-> now] : t \in ExtractCustomTags(file.props)}

-----------------------------------------------------------------------------
(* Cue sheets                                                               *)

\* Quotes come off with the split, and an empty quoted word is no token.
TokenizeCueLine(line) ==
    LET flush(st) == IF st.token = <<>> THEN st ELSE [st EXCEPT !.tokens = Append(@, st.token), !.token = <<>>]
        step(st, c) == IF c = Mark THEN [st EXCEPT !.quoted = ~@]
                       ELSE IF c \in White /\ ~st.quoted THEN flush(st)
                       ELSE [st EXCEPT !.token = Append(@, c)]
    IN  flush(FoldLeft(step, [tokens |-> <<>>, token |-> <<>>, quoted |-> FALSE], line)).tokens
Unquote(tokens) == FoldLeft(LAMBDA text, t : IF text = <<>> THEN t ELSE text \o <<Space>> \o t, <<>>, Tail(tokens))

\* A sheet is the sequence of its lines as [cmd, tokens]. No line sets
\* in_track, so no track is ever kept, and what TITLE, PERFORMER, INDEX, ISRC
\* and FLAGS would say of one is not kept either.
ParseCuesheet(lines) ==
    LET rest(l) == Unquote(<<l.cmd>> \o l.tokens)
        step(cue, l) ==
            IF l.tokens = <<>> THEN cue
            ELSE IF l.cmd = "PERFORMER" THEN [cue EXCEPT !.performer = rest(l)]
            ELSE IF l.cmd = "TITLE" THEN [cue EXCEPT !.title = rest(l)]
            ELSE IF l.cmd = "FILE" THEN [cue EXCEPT !.file = rest(l), !.flac = Len(l.tokens) >= 2 /\ l.tokens[2] = <<70>>]
            ELSE cue
    IN  FoldLeft(step, [performer |-> <<>>, title |-> <<>>, file |-> <<>>, flac |-> FALSE, tracks |-> <<>>], lines)

\* A track takes of the sheet that stands by it only which sheet it is, if it
\* can be read; None is a file that cannot.
ReadWithCuesheet(file, sheet) ==
    IF file = None THEN None
    ELSE [tags |-> ReadTags(file), cuesheet |-> IF sheet = None THEN None ELSE HashBytes(sheet)]

\* Minutes, seconds and seventy-fifths, as many as are there.
CueTimestamp(parts) == LET at(i) == IF i \in DOMAIN parts THEN parts[i] ELSE 0
                       IN  at(1) * 60 * 75 + at(2) * 75 + at(3)

-----------------------------------------------------------------------------
(* What the library relies on                                               *)

\* A sort key is one whatever the case, the accents and the articles in front
\* of it, and is its own; it ends at the first parenthesis or slash.
KeyIsCanonical(name, article) ==
    LET key == SortKey(name)
        upper == [i \in DOMAIN name |-> IF name[i] \in 97..122 THEN name[i] - 32 ELSE name[i]]
    IN  key # <<>> =>
        /\ SortKey(key) = key /\ SortKey(upper) = key
        /\ SortKey(article \o <<Space>> \o name) = key
        /\ \A i \in 0..Len(name) : SortKey(SubSeq(name, 1, i) \o <<769>> \o SubSeq(name, i + 1, Len(name))) = key
        /\ SortKey(name \o <<Space, Paren>> \o name) = key

\* Two pairs of names share an album key exactly when both their sort keys do;
\* two names that have none are not said to be one.
AlbumsApart(a, b, c, d) ==
    LET same == AlbumHash(a, b) = AlbumHash(c, d)
    IN  /\ same => SortKey(a) = SortKey(c) /\ SortKey(b) = SortKey(d)
        /\ SortKey(a) = SortKey(c) /\ SortKey(b) = SortKey(d) /\ <<>> \notin {SortKey(a), SortKey(b)} => same

\* Values joined by any of the separators come apart again, trimmed.
ValuesSplit(parts, sep) ==
    LET clean == SelectSeq([i \in DOMAIN parts |-> Trim(parts[i])], LAMBDA p : p # <<>>)
    IN  SplitMultiValue(FoldLeft(LAMBDA s, p : s \o <<sep>> \o p, <<>>, parts)) = clean

\* Whatever order the reader fills its fields in, each ends with what the
\* file says under the name its format gives it, or empty. Nothing is held of
\* an MP4 file's own fields, nor of the album's artist: see README.md.
TagsKept(file) ==
    LET t == ReadTags(file)
        own(key) == IF key \in DOMAIN file.own THEN file.own[key] ELSE <<>>
        xiph == file.kind \in {"flac", "vorbis"}
    IN  /\ file.kind = "mpeg" => t.composer = own("TCOM") /\ t.disc = own("TPOS") /\ t.comment = own("COMM")
        /\ xiph => t.composer = own("COMPOSER") /\ t.comment = IF own("COMMENT") = <<>> THEN own("DESCRIPTION") ELSE own("COMMENT")
        /\ t.bpm = IF "BPM" \in DOMAIN file.props /\ file.props["BPM"] # None THEN file.props["BPM"] ELSE 0
        /\ t.lossless <=> file.ext \in {"flac", "alac"}
        /\ {c[1] : c \in ExtractCustomTags(file.props)} \cap {"BPM", "PICTURE"} = {}
        /\ t.artwork = None <=> {"PICTURE", "COVERART"} \cap DOMAIN file.props = {}

\* Tracks read beside one sheet are filed with it and keep their own tags, and
\* what a file has of its own is recorded once for the track it was asked of.
SheetIsFiled(file, sheets, id) ==
    LET records == CustomTagsFor(file, id, 0)
    IN  /\ \A s, r \in sheets : LET a == ReadWithCuesheet(file, s)
                                    b == ReadWithCuesheet([file EXCEPT !.title = <<>>], r)
                                IN  /\ a.tags = ReadTags(file) /\ (a.cuesheet = b.cuesheet <=> s = r)
        /\ \A a, b \in records : a.track = id /\ (a.key = b.key => a = b)
        /\ {a.key : a \in records} \cup (DOMAIN file.props \cap KnownProperties) = DOMAIN file.props

\* What a sheet quotes is read whole, spaces and all; a quoted part that is
\* empty is lost.
QuotedReadBack(words) ==
    LET quoted(w) == <<Mark>> \o w \o <<Mark>>
        line == FoldLeft(LAMBDA s, w : s \o <<Space>> \o quoted(w), <<84>>, words)
    IN  TokenizeCueLine(line) = <<<<84>>>> \o SelectSeq(words, LAMBDA w : w # <<>>)

\* Before its first track, a sheet keeps the last title, performer and file it
\* names. Nothing is held of the lines of a track: see README.md.
HeadIsRead(lines) ==
    LET cue == ParseCuesheet(lines)
        named(cmd) == {i \in DOMAIN lines : lines[i].cmd = cmd /\ lines[i].tokens # <<>>}
        last(cmd) == IF named(cmd) = {} THEN <<>> ELSE Unquote(<<<<>>>> \o lines[Max(named(cmd))].tokens)
    IN  named("TRACK") = {} => cue.title = last("TITLE") /\ cue.performer = last("PERFORMER") /\ cue.file = last("FILE")
===============================================================================
