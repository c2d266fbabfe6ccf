-------------------------------- MODULE Streams --------------------------------
(* What an internet stream says of itself: HLS playlists and ICY blocks.    *)
(* src/desktop/src/net/hls_playlist.cpp and icy_metadata.cpp                *)
(*                                                                          *)
(* A playlist is the sequence of its lines, stripped, the empty ones left   *)
(* out; a line is its tag and what follows it, and a number that does not   *)
(* parse is NoNumber. URIs and ICY blocks are sequences of bytes.           *)
EXTENDS Integers, Sequences, FiniteSetsExt, SequencesExt

CONSTANTS NoNumber, NoTitle

Failed == [ok |-> FALSE]

-----------------------------------------------------------------------------
(* resolve_uri                                                              *)

Slash == 47
Colon == 58
At(s, sub) == {i \in 1..Len(s) - Len(sub) + 1 : SubSeq(s, i, i + Len(sub) - 1) = sub}
SchemeSep == <<Colon, Slash, Slash>>
From(s, i) == SubSeq(s, i, Len(s))

ResolveUri(base, ref) ==
    LET scheme == Min(At(base, SchemeSep)) + 3              \* host_start
        paths == {i \in scheme..Len(base) : base[i] = Slash}
        host == IF paths = {} THEN base ELSE SubSeq(base, 1, Min(paths) - 1)
    IN  IF ref = <<>> THEN base
        ELSE IF At(ref, SchemeSep) # {} THEN ref
        ELSE IF At(base, SchemeSep) = {} THEN ref
        ELSE IF IsPrefix(<<Slash, Slash>>, ref) THEN SubSeq(base, 1, scheme - 1) \o From(ref, 3)
        ELSE IF ref[1] = Slash THEN host \o ref
        ELSE IF paths = {} THEN host \o <<Slash>> \o ref
        ELSE SubSeq(base, 1, Max(paths)) \o ref

-----------------------------------------------------------------------------
(* The numbers of a line, byte by byte: a fraction is a whole number of its *)
(* last place, and a point alone is zero.                                   *)

Digits == 48..57
Point == 46
DoubleQuote == 34
Blanks == {32, 9, 13}
Strip(s) == LET kept == {i \in DOMAIN s : s[i] \notin Blanks} IN IF kept = {} THEN <<>> ELSE SubSeq(s, Min(kept), Max(kept))
StripQuoted(s) ==
    LET t == Strip(s)
    IN  IF Len(t) >= 2 /\ t[1] = DoubleQuote /\ Last(t) = DoubleQuote THEN SubSeq(t, 2, Len(t) - 1) ELSE t
ValueOf(digits) == FoldLeft(LAMBDA v, c : v * 10 + c - 48, 0, digits)
IntAttr(value) == IF value = <<>> \/ ~(Range(value) \subseteq Digits) THEN NoNumber ELSE ValueOf(value)
DoubleAttr(value) ==
    LET points == {i \in DOMAIN value : value[i] = Point}
    IN  IF value = <<>> \/ Cardinality(points) > 1 \/ ~(Range(value) \subseteq Digits \cup {Point}) THEN NoNumber
        ELSE [is |-> ValueOf(SelectSeq(value, LAMBDA c : c # Point)), places |-> IF points = {} THEN 0 ELSE Len(value) - Min(points)]

-----------------------------------------------------------------------------
(* HLS                                                                      *)

\* The characters of a tag that are compared, and those it has: a longer
\* comparison only holds of the tag alone on its line, a shorter one never.
Asked == [VERSION |-> 12, STREAMINF |-> 18, SEQUENCE |-> 21, TARGET |-> 19, EXTINF |-> 8, ENDLIST |-> 14, KEY |-> 11,
          BYTERANGE |-> 16]
Size == [VERSION |-> 14, STREAMINF |-> 17, SEQUENCE |-> 21, TARGET |-> 21, EXTINF |-> 8, ENDLIST |-> 14, KEY |-> 11,
         BYTERANGE |-> 17]
Recognised(line, tag) ==
    line.tag = tag /\ (Asked[tag] = Size[tag] \/ (Asked[tag] > Size[tag] /\ line.bare))

\* The last of an attribute counts; a malformed number refuses the line.
Numbers == {"BANDWIDTH", "AVERAGE-BANDWIDTH", "FRAME-RATE"}
ParseStreamInf(attrs) ==
    LET own(key) == {i \in DOMAIN attrs : attrs[i].key = key}
        attr(key) == IF own(key) = {} THEN 0 ELSE attrs[Max(own(key))].value
    IN  IF own("BANDWIDTH") = {} \/ \E i \in DOMAIN attrs : attrs[i].key \in Numbers /\ attrs[i].value = NoNumber
        THEN Failed
        ELSE [ok |-> TRUE, bandwidth |-> attr("BANDWIDTH"), average |-> attr("AVERAGE-BANDWIDTH"),
              rate |-> attr("FRAME-RATE")]

\* A text is [header, newline, lines]: a header with no newline after it is
\* the one playlist without an entry that is accepted.
ParseMaster(text, base) ==
    LET step(st, line) ==
            IF st.failed THEN st
            ELSE IF line.tag = "uri"
                 THEN IF st.pending = Failed THEN [st EXCEPT !.failed = TRUE]
                      ELSE [st EXCEPT !.pending = Failed,
                                      !.variants = Append(@, [inf |-> st.pending, uri |-> ResolveUri(base, line.uri)])]
            ELSE IF Recognised(line, "STREAMINF")
                 THEN LET inf == IF line.bare THEN Failed ELSE ParseStreamInf(line.attrs)
                      IN  [st EXCEPT !.pending = inf, !.failed = inf = Failed]
            ELSE st
        end == FoldLeft(step, [failed |-> FALSE, pending |-> Failed, variants |-> <<>>], text.lines)
    IN  IF ~text.header THEN Failed
        ELSE IF ~text.newline THEN [ok |-> TRUE, variants |-> <<>>]
        ELSE IF end.failed \/ end.variants = <<>> THEN Failed
        ELSE [ok |-> TRUE, variants |-> end.variants]

\* The duration of EXTINF is in tenths of a second, kept in whole seconds. A
\* duration and a title stay for the URIs after the one they were given for.
ParseMedia(text, base) ==
    LET number(st, line, field) == IF line.bare \/ line.value = NoNumber THEN st ELSE [st EXCEPT ![field] = line.value]
        segment(st, uri) == [uri |-> ResolveUri(base, uri), duration |-> st.duration, title |-> st.title,
                             sequence |-> st.sequence + Len(st.segments)]
        step(st, line) ==
            IF st.failed THEN st
            ELSE IF line.tag = "uri" THEN [st EXCEPT !.segments = Append(@, segment(st, line.uri))]
            ELSE IF Recognised(line, "SEQUENCE") THEN number(st, line, "sequence")
            ELSE IF Recognised(line, "TARGET") THEN number(st, line, "target")
            ELSE IF Recognised(line, "EXTINF")
                 THEN [st EXCEPT !.duration = IF line.value = NoNumber THEN 0 ELSE line.value \div 10, !.title = line.title]
            ELSE IF Recognised(line, "ENDLIST") THEN [st EXCEPT !.endlist = TRUE]
            ELSE IF Recognised(line, "KEY") \/ Recognised(line, "BYTERANGE") THEN [st EXCEPT !.failed = TRUE]
            ELSE st
        start == [failed |-> FALSE, sequence |-> 0, target |-> 0, endlist |-> FALSE, duration |-> 0, title |-> NoTitle,
                  segments |-> <<>>]
        end == FoldLeft(step, start, text.lines)
        list(st) == [ok |-> TRUE, segments |-> st.segments, endlist |-> st.endlist, target |-> st.target]
    IN  IF ~text.header THEN Failed
        ELSE IF ~text.newline THEN list(start)
        ELSE IF end.failed \/ end.segments = <<>> THEN Failed ELSE list(end)

\* The fastest variant under the cap, the first of equals; else the slowest.
\* None is 0.
PickVariant(variants, cap) ==
    LET better(best, i) == IF variants[i].bandwidth > cap THEN best
                           ELSE IF best = 0 THEN i
                           ELSE IF variants[i].bandwidth > variants[best].bandwidth THEN i ELSE best
        slower(least, i) == IF variants[i].bandwidth < variants[least].bandwidth THEN i ELSE least
        order == [i \in DOMAIN variants |-> i]
        best == FoldLeft(better, 0, order)
    IN  IF variants = <<>> THEN 0 ELSE IF best # 0 THEN best ELSE FoldLeft(slower, 1, order)

-----------------------------------------------------------------------------
(* ICY                                                                      *)

Quote == 39
Semicolon == 59
Equals == 61
Space == 32
Tab == 9
Dash == 45

Trim(s) == LET kept == {i \in DOMAIN s : s[i] \notin {Space, Tab}}
           IN  IF kept = {} THEN <<>> ELSE SubSeq(s, Min(kept), Max(kept))

\* Where the segment's '=' and its end are: two quotes in a row inside a value
\* are one that does not end it.
Scan(block) ==
    LET step(st, i) ==
            IF st.end # 0 \/ i < st.at THEN st
            ELSE IF st.quoted
                 THEN IF block[i] # Quote THEN st
                      ELSE IF i < Len(block) /\ block[i + 1] = Quote THEN [st EXCEPT !.at = i + 2]
                      ELSE [st EXCEPT !.quoted = FALSE]
            ELSE IF block[i] = Equals /\ st.eq = 0 THEN [st EXCEPT !.eq = i]
            ELSE IF block[i] = Quote THEN [st EXCEPT !.quoted = TRUE]
            ELSE IF block[i] = Semicolon THEN [st EXCEPT !.end = i]
            ELSE st
    IN  FoldLeft(step, [eq |-> 0, end |-> 0, quoted |-> FALSE, at |-> 1], [i \in DOMAIN block |-> i])

UnescapeNot(value) == value   \* mutant: the doubled quotes stay doubled
Unescape(value) ==
    LET step(st, i) == IF i < st.at THEN st
                       ELSE [text |-> Append(st.text, value[i]),
                             at |-> IF value[i] = Quote /\ i < Len(value) /\ value[i + 1] = Quote THEN i + 2 ELSE i + 1]
    IN  FoldLeft(step, [text |-> <<>>, at |-> 1], [i \in DOMAIN value |-> i]).text

RECURSIVE Segments(_, _)
Segments(block, out) ==
    LET s == Scan(block)
        end == IF s.end = 0 THEN Len(block) + 1 ELSE s.end
        key == Trim(SubSeq(block, 1, s.eq - 1))
        value == Unescape(SubSeq(block, s.eq + 2, end - 2))
    IN  IF block = <<>> THEN out
        ELSE IF s.eq = 0 \/ end <= s.eq + 2 \/ block[s.eq + 1] # Quote THEN Failed
        ELSE LET read == IF key \in DOMAIN out.values THEN [out EXCEPT !.values[key] = value] ELSE out
             IN  IF end > Len(block) THEN read ELSE Segments(From(block, end + 1), read)

\* The two keys a player reads; what the others say stays in the raw block.
ParseIcyBlock(block, title, url) == Segments(block, [ok |-> TRUE, values |-> [k \in {title, url} |-> <<>>]])

SplitIcyTitle(text) ==
    LET cut == At(text, <<Space, Dash, Space>>)
    IN  IF cut = {} THEN [artist |-> <<>>, title |-> text]
        ELSE [artist |-> Trim(SubSeq(text, 1, Min(cut) - 1)), title |-> Trim(From(text, Min(cut) + 3))]

-----------------------------------------------------------------------------
(* What a client relies on                                                  *)

\* A reference resolved against a playlist stays on the playlist's server
\* unless it names another, and a plain name lands beside the playlist.
ResolvesBeside(server, dir, file, name) ==
    LET base == server \o <<Slash>> \o dir \o file
    IN  /\ ResolveUri(base, name) = server \o <<Slash>> \o dir \o name
        /\ ResolveUri(base, <<Slash>> \o name) = server \o <<Slash>> \o name
        /\ ResolveUri(server, name) = server \o <<Slash>> \o name
        /\ ResolveUri(base, server \o <<Slash>> \o name) = server \o <<Slash>> \o name

\* A duration without a point is the whole number, and one with it reads the
\* same up to zeros at its end; a value in quotes is what stands between them,
\* with every blank it has there.
NumbersAgree(t) ==
    /\ Point \notin Range(t) =>
          DoubleAttr(t) = IF IntAttr(t) = NoNumber THEN NoNumber ELSE [is |-> IntAttr(t), places |-> 0]
    /\ DoubleAttr(t) # NoNumber => /\ Point \notin Range(t) => DoubleAttr(Append(t, Point)) = DoubleAttr(t)
                                   /\ Point \in Range(t) => /\ DoubleAttr(Append(t, 48)).is = 10 * DoubleAttr(t).is
                                                            /\ DoubleAttr(Append(t, Point)) = NoNumber
    /\ \A b \in Blanks : StripQuoted(<<b, DoubleQuote>> \o t \o <<DoubleQuote, b>>) = t /\ Strip(<<b>> \o Strip(t) \o <<b>>) = Strip(t)

\* A media playlist written with a duration and a title for every segment is
\* read as written, numbered from its media sequence, and one that names a
\* key anywhere is refused; a text with no URI is refused.
MediaReadsBack(sequence, wanted, base, name) ==
    LET line(w) == <<[tag |-> "EXTINF", bare |-> FALSE, value |-> w.tenths, title |-> w.title], [tag |-> "uri", uri |-> w.uri]>>
        lines == FoldLeft(LAMBDA a, w : a \o line(w), <<[tag |-> "SEQUENCE", bare |-> FALSE, value |-> sequence]>>, wanted)
        text(l) == [header |-> TRUE, newline |-> TRUE, lines |-> l]
        got == ParseMedia(text(Append(lines, [tag |-> "ENDLIST", bare |-> TRUE])), base)
        keyed(i) == SubSeq(lines, 1, i) \o <<[tag |-> "KEY", bare |-> FALSE]>> \o SubSeq(lines, i + 1, Len(lines))
    IN  /\ IF wanted = <<>> THEN got = Failed
           ELSE /\ got.ok /\ got.endlist
                /\ got.segments = [i \in DOMAIN wanted |->
                        [uri |-> ResolveUri(base, wanted[i].uri), title |-> wanted[i].title, sequence |-> sequence + i - 1,
                         duration |-> IF wanted[i].tenths = NoNumber THEN 0 ELSE wanted[i].tenths \div 10]]
        /\ \A i \in 0..Len(lines) : ParseMedia(text(keyed(i)), base) = Failed

\* A URI that no STREAMINF line of its own stands before is never taken for a
\* variant: the playlist is refused as a whole.
UndeclaredIsRefused(text, base) ==
    LET uris == {i \in DOMAIN text.lines : text.lines[i].tag = "uri"}
        declared(i) == i > 1 /\ \E j \in 1..i - 1 : text.lines[j].tag = "STREAMINF" /\ uris \cap j..i - 1 = {}
    IN  text.newline /\ (\E i \in uris : ~declared(i)) => ~ParseMaster(text, base).ok

\* The pick respects the cap whenever some variant does, and nothing better
\* was left.
PicksTheBest(bandwidths, cap) ==
    LET variants == [i \in DOMAIN bandwidths |-> [bandwidth |-> bandwidths[i]]]
        got == PickVariant(variants, cap)
        fit == {i \in DOMAIN bandwidths : bandwidths[i] <= cap}
        all == {bandwidths[i] : i \in DOMAIN bandwidths}
    IN  IF bandwidths = <<>> THEN got = 0
        ELSE IF fit = {} THEN bandwidths[got] = Min(all)
        ELSE /\ got \in fit
             /\ bandwidths[got] = Max({bandwidths[i] : i \in fit})
             /\ \A i \in fit : i < got => bandwidths[i] < bandwidths[got]

\* What a server writes, each quote of a value doubled, is what is read: the
\* last value given for a key, whatever stands around it.
Doubled(text) == FoldLeft(LAMBDA a, c : IF c = Quote THEN a \o <<c, c>> ELSE Append(a, c), <<>>, text)
IcyReadsBack(sent, title, url) ==
    LET field(f) == f.key \o <<Equals, Quote>> \o Doubled(f.value) \o <<Quote, Semicolon>>
        block == FoldLeft(LAMBDA a, f : a \o field(f), <<>>, sent)
        last(key) == LET own == {i \in DOMAIN sent : sent[i].key = key}
                     IN  IF own = {} THEN <<>> ELSE sent[Max(own)].value
    IN  /\ ParseIcyBlock(block, title, url) = [ok |-> TRUE, values |-> [k \in {title, url} |-> last(k)]]
        \* the padding a server adds to sixteen bytes is no segment
        /\ ParseIcyBlock(block \o <<0, 0>>, title, url) = Failed

\* An artist and a title that hold no separator come apart again.
TitleComesApart(artist, title) ==
    LET sep == <<Space, Dash, Space>>
        got == SplitIcyTitle(artist \o sep \o title)
    IN  Min(At(artist \o sep \o title, sep)) = Len(artist) + 1
        => got = [artist |-> Trim(artist), title |-> Trim(title)]
=============================================================================
