--------------------------------- MODULE Feed ---------------------------------
(* Podcast feeds: src/desktop/src/net/rss_feed.cpp                          *)
(*                                                                          *)
(* A feed is a sequence of bytes. The lexer has no rule for a closing tag,  *)
(* so none is ever a token, and the branches that wait for one never run;   *)
(* its depth is never counted. The names of the open elements are views     *)
(* into tokens that are gone, so the name a text is filed under is `seen`,  *)
(* any name at all. Dates are left out, and no two texts hash alike.        *)
EXTENDS Integers, Sequences, FiniteSetsExt, SequencesExt

CONSTANTS NameOf,       \* the name a lower-case word is, a function of its bytes
          MaxBytes, MaxTextRun, MaxAttrValue,
          None

Failed == [ok |-> FALSE]

Lt == 60
Gt == 62
Amp == 38
Semi == 59
Hash == 35
White == {32, 9, 13, 10}
Quotes == {34, 39}
CommentOpen == <<60, 33, 45, 45>>
CommentEnd == <<45, 45, 62>>
CDataOpen == <<60, 33, 91, 67, 68, 65, 84, 65, 91>>
CDataEnd == <<93, 93, 62>>
DoctypeOpen == <<60, 33, 68, 79, 67, 84, 89, 80, 69>>
PrologOpen == <<60, 63, 120, 109, 108>>
PrologEnd == <<63, 62>>

IsDigit(c) == c \in 48..57
IsNameChar(c) == c \in 97..122 \/ c \in 65..90 \/ IsDigit(c) \/ c \in {46, 45, 95, 58}
Lower(s) == [i \in DOMAIN s |-> IF s[i] \in 65..90 THEN s[i] + 32 ELSE s[i]]
Named(s) == LET l == Lower(s) IN IF l \in DOMAIN NameOf THEN NameOf[l] ELSE "other"

-----------------------------------------------------------------------------
(* The lexer                                                                *)

HasAt(text, sub, i) == i + Len(sub) - 1 <= Len(text) /\ SubSeq(text, i, i + Len(sub) - 1) = sub
\* Where sub next starts, or None.
Find(text, sub, from) == LET at == {i \in from..Len(text) : HasAt(text, sub, i)} IN IF at = {} THEN None ELSE Min(at)
\* The first byte from i on that is not of the set a test picks out.
After(text, i, run) == Min({j \in i..Len(text) : j \notin run} \cup {Len(text) + 1})
SkipName(text, i) == After(text, i, {j \in i..Len(text) : IsNameChar(text[j])})
SkipWhite(text, i) == After(text, i, {j \in i..Len(text) : text[j] \in White})
Token(kind, at) == [kind |-> kind, at |-> at]

ReadText(text, i) ==
    LET found == Find(text, <<Lt>>, i)
        stop == IF found = None THEN Len(text) + 1 ELSE found
    IN  IF stop - i > MaxTextRun THEN Failed ELSE [kind |-> "Text", at |-> stop, text |-> SubSeq(text, i, stop - 1)]

\* A section runs to its first end; only the text of a CDATA is bounded.
ReadSection(text, i, open, end, kind) ==
    LET found == Find(text, end, i + Len(open))
    IN  IF found = None \/ (kind = "CData" /\ found - (i + Len(open)) > MaxTextRun) THEN Failed
        ELSE Token(kind, found + Len(end))

\* A declaration ends at a '>' outside double quotes, but not at "]>".
ReadDoctype(text, i) ==
    LET quotes(j) == Cardinality({q \in i + 9..j - 1 : text[q] = 34})
        ends == {j \in i + 9..Len(text) : text[j] = Gt /\ text[j - 1] # 93 /\ quotes(j) % 2 = 0}
    IN  IF ends = {} THEN Failed ELSE Token("Doctype", Min(ends) + 1)

\* An attribute at i: a name up to end, '=' at eq, a value after quote.
Quoted(text, i, end, quote, closing) ==
    IF closing = None THEN Failed
    ELSE IF closing - quote - 1 > MaxAttrValue THEN Failed
    ELSE [at |-> closing + 1, attr |-> [name |-> Named(SubSeq(text, i, end - 1)), value |-> SubSeq(text, quote + 1, closing - 1)]]
Valued(text, i, end, quote) ==
    IF quote > Len(text) THEN Failed
    ELSE IF text[quote] \notin Quotes THEN Failed ELSE Quoted(text, i, end, quote, Find(text, <<text[quote]>>, quote + 1))
Equated(text, i, end, eq) ==
    IF end = i \/ eq > Len(text) THEN Failed
    ELSE IF text[eq] # 61 THEN Failed ELSE Valued(text, i, end, SkipWhite(text, eq + 1))
ReadAttr(text, i, end) == Equated(text, i, end, SkipWhite(text, end))
RECURSIVE ReadAttrs(_, _, _, _)
AndMore(text, name, attrs, got) == IF got = Failed THEN Failed ELSE ReadAttrs(text, got.at, name, Append(attrs, got.attr))
AttrsAt(text, i, name, attrs) ==
    IF i > Len(text) THEN Failed
    ELSE IF text[i] = Gt THEN [kind |-> "Open", at |-> i + 1, name |-> name, attrs |-> attrs]
    ELSE IF HasAt(text, <<47, Gt>>, i) THEN [kind |-> "SelfClose", at |-> i + 2, name |-> name, attrs |-> attrs]
    ELSE AndMore(text, name, attrs, ReadAttr(text, i, SkipName(text, i)))
ReadAttrs(text, from, name, attrs) == AttrsAt(text, SkipWhite(text, from), name, attrs)

ReadElement(text, i) ==
    LET end == SkipName(text, i + 1)
    IN  IF end = i + 1 THEN Failed ELSE ReadAttrs(text, end, Named(SubSeq(text, i + 1, end - 1)), <<>>)

NextToken(text, i) ==
    IF text[i] # Lt THEN ReadText(text, i)
    ELSE IF HasAt(text, CommentOpen, i) THEN ReadSection(text, i, CommentOpen, CommentEnd, "Comment")
    ELSE IF HasAt(text, CDataOpen, i) THEN ReadSection(text, i, CDataOpen, CDataEnd, "CData")
    ELSE IF HasAt(text, DoctypeOpen, i) THEN ReadDoctype(text, i)
    ELSE IF HasAt(text, PrologOpen, i) THEN ReadSection(text, i, PrologOpen, PrologEnd, "Prolog")
    ELSE ReadElement(text, i)

RECURSIVE Lex(_, _, _)
LexOn(text, t, tokens) == IF t = Failed THEN Failed ELSE Lex(text, t.at, Append(tokens, t))
Lex(text, i, tokens) == IF i > Len(text) THEN [ok |-> TRUE, tokens |-> tokens] ELSE LexOn(text, NextToken(text, i), tokens)

-----------------------------------------------------------------------------
(* Text and numbers                                                         *)

Utf8(c) == IF c < 128 THEN <<c>>
           ELSE IF c < 2048 THEN <<192 + c \div 64, 128 + (c % 64)>>
           ELSE IF c < 65536 THEN <<224 + c \div 4096, 128 + ((c \div 64) % 64), 128 + (c % 64)>>
           ELSE <<240 + c \div 262144, 128 + ((c \div 4096) % 64), 128 + ((c \div 64) % 64), 128 + (c % 64)>>
\* The digits up to the first byte that is none.
Digits(s) == SubSeq(s, 1, After(s, 1, {i \in DOMAIN s : IsDigit(s[i])}) - 1)
Number(s) == FoldLeft(LAMBDA n, c : n * 10 + (c - 48), 0, s)

\* &apos; and &quot; are compared by five of their six bytes, so never seen.
Entities == (<<38, 97, 109, 112, 59>> :> Amp) @@ (<<38, 108, 116, 59>> :> Lt) @@ (<<38, 103, 116, 59>> :> Gt)
DecodeOne(s, i) ==
    LET known == {e \in DOMAIN Entities : HasAt(s, e, i)}
        end == Find(s, <<Semi>>, i)
        digits == SubSeq(s, i + 2, end - 1)
        asIs == [text |-> <<s[i]>>, at |-> i + 1]
        reference == [text |-> Utf8(Number(digits)), at |-> end + 1]
    IN  IF s[i] # Amp THEN asIs
        ELSE IF known # {} THEN LET e == CHOOSE e \in known : TRUE IN [text |-> <<Entities[e]>>, at |-> i + Len(e)]
        ELSE IF ~HasAt(s, <<Amp, Hash>>, i) \/ i + 2 > Len(s) \/ end = None THEN asIs
        ELSE IF digits = <<>> \/ Digits(digits) # digits THEN asIs
        ELSE IF Number(digits) \notin 1..1114111 THEN asIs
        ELSE reference
RECURSIVE DecodeFrom(_, _)
DecodeFrom(s, i) == IF i > Len(s) THEN <<>> ELSE LET one == DecodeOne(s, i) IN one.text \o DecodeFrom(s, one.at)
DecodeEntities(s) == DecodeFrom(s, 1)

StripTags(s) == LET step(st, c) == IF c = Lt THEN [st EXCEPT !.tag = TRUE]
                                   ELSE IF c = Gt THEN [st EXCEPT !.tag = FALSE]
                                   ELSE IF st.tag THEN st ELSE [st EXCEPT !.out = Append(@, c)]
                IN  FoldLeft(step, [tag |-> FALSE, out |-> <<>>], s).out

\* Each ':' multiplies by sixty what the next digits then multiply by ten.
Duration(s) == LET own == SubSeq(s, 1, After(s, 1, {i \in DOMAIN s : IsDigit(s[i]) \/ s[i] = 58}) - 1)
               IN  FoldLeft(LAMBDA n, c : IF c = 58 THEN n * 60 ELSE n * 10 + (c - 48), 0, own)

-----------------------------------------------------------------------------
(* The feed                                                                 *)

ItemField == [title |-> "title", description |-> "description", guid |-> "guid", link |-> "link", pubDate |-> "date",
              published |-> "date"]
FeedField == [title |-> "title", description |-> "description", subtitle |-> "description", summary |-> "description",
              link |-> "link", author |-> "author", itunes_author |-> "author", language |-> "language",
              copyright |-> "copyright", lastBuildDate |-> "built"]
NoEpisode == [title |-> <<>>, description |-> <<>>, guid |-> <<>>, link |-> <<>>, date |-> <<>>, duration |-> 0,
              enclosure |-> None, season |-> None, episode |-> None]
NoFeed == [title |-> <<>>, description |-> <<>>, link |-> <<>>, author |-> <<>>, language |-> <<>>, copyright |-> <<>>,
           built |-> <<>>, artwork |-> <<>>]

FindAttr(attrs, name) == LET own == {i \in DOMAIN attrs : attrs[i].name = name}
                         IN  IF own = {} THEN None ELSE attrs[Min(own)].value
IntAttr(attrs, name) == LET v == FindAttr(attrs, name)
                        IN  IF v = None THEN None ELSE IF Digits(v) # v THEN None ELSE Number(v)
FirstKept(rec, field, value) == IF rec[field] = <<>> THEN [rec EXCEPT ![field] = value] ELSE rec

SetField(st, name, value) ==
    IF ~st.inItem THEN IF name \in DOMAIN FeedField THEN [st EXCEPT !.feed = FirstKept(@, FeedField[name], value)] ELSE st
    ELSE IF name = "duration" THEN [st EXCEPT !.current.duration = Duration(value)]
    ELSE IF name \in DOMAIN ItemField THEN [st EXCEPT !.current = FirstKept(@, ItemField[name], value)]
    ELSE st

Artwork(st, t) == LET href == FindAttr(t.attrs, "href")
                  IN  IF t.name # "artwork" \/ href = None THEN st ELSE [st EXCEPT !.feed = FirstKept(@, "artwork", href)]
\* An opened enclosure replaces, a closed one only fills; a length that is not
\* a number is 0 in the first and the digits before that in the second.
Enclose(st, t) ==
    LET url == FindAttr(t.attrs, "url")
        length == FindAttr(t.attrs, "length")
        size == IF length = None THEN 0
                ELSE IF t.kind = "Open" /\ Digits(length) # length THEN 0 ELSE Number(Digits(length))
        taken == IF t.kind = "Open" THEN url \notin {None, <<>>} ELSE url # None /\ st.current.enclosure = None
    IN  IF taken THEN [st EXCEPT !.current.enclosure = [url |-> url, size |-> size]] ELSE st
Numbered(st, t, field) ==
    LET given == {IntAttr(t.attrs, k) : k \in {"value", "number"}} \ {None}
        v == IntAttr(t.attrs, "value")
    IN  IF given = {} THEN st ELSE [st EXCEPT !.current[field] = IF v # None THEN v ELSE IntAttr(t.attrs, "number")]
InItem(st, t) == IF t.name = "enclosure" THEN Enclose(st, t)
                 ELSE IF t.name \in {"season", "episode"} THEN Numbered(st, t, t.name)
                 ELSE IF t.name = "guid" /\ t.kind = "SelfClose"
                      THEN LET v == FindAttr(t.attrs, "value")
                               id == IF v # None THEN v ELSE FindAttr(t.attrs, "id")
                           IN  IF id = None THEN st ELSE [st EXCEPT !.current = FirstKept(@, "guid", id)]
                 ELSE st

AnyItem(st, t) == IF t.name \in {"item", "entry"} THEN [st EXCEPT !.inItem = TRUE] ELSE st   \* mutant: the last item is not left behind
StartItem(st, t) == IF t.name \in {"item", "entry"} THEN [st EXCEPT !.inItem = TRUE, !.current = NoEpisode] ELSE st
Inside(st, t) == IF st.inItem THEN InItem(st, t) ELSE IF st.inImage THEN st ELSE Artwork(st, t)
Opened(st, t) ==
    Inside([StartItem(st, t) EXCEPT !.root = @ \/ t.name \in {"rss", "rdf", "channel", "feed"},
                                    !.inImage = @ \/ t.name = "image", !.open = TRUE], t)

\* What a token changes. A text is filed under the name seen, if any is open.
Say(st, seen, said) == IF st.inImage /\ seen = "url" THEN [st EXCEPT !.feed = FirstKept(@, "artwork", said)]
                       ELSE SetField(st, seen, said)
Take(st, t, seen) ==
    IF t.kind = "Open" THEN Opened(st, t)
    ELSE IF t.kind = "SelfClose" THEN IF st.inItem THEN InItem(st, t) ELSE Artwork(st, t)
    ELSE IF t.kind = "Text" /\ st.open THEN Say(st, seen, StripTags(DecodeEntities(t.text)))
    ELSE st

\* An item is kept, at the end, when something tells it from others.
Kept(e) == e.guid # <<>> \/ e.enclosure # None
\* The text that is hashed to tell episodes apart.
Identity(guid, url) == guid \o <<124>> \o url
Episode(e) == [episode |-> e, identity |-> Identity(e.guid, IF e.enclosure = None THEN <<>> ELSE e.enclosure.url)]
Finished(end) ==
    IF ~end.root THEN Failed
    ELSE [ok |-> TRUE, feed |-> end.feed, episodes |-> IF end.inItem /\ Kept(end.current) THEN <<Episode(end.current)>> ELSE <<>>]
Start == [inItem |-> FALSE, inImage |-> FALSE, open |-> FALSE, root |-> FALSE, current |-> NoEpisode, feed |-> NoFeed]
Understood(lexed, seen) ==
    IF ~lexed.ok THEN Failed ELSE Finished(FoldLeft(LAMBDA st, t : Take(st, t, seen), Start, lexed.tokens))
ParseFeed(text, seen) == IF Len(text) > MaxBytes THEN Failed ELSE Understood(Lex(text, 1, <<>>), seen)

-----------------------------------------------------------------------------
(* What a reader of the feed gets                                           *)

\* How a server writes an element, a comment and the rest.
Attribute(a) == <<32>> \o a.word \o <<61, 34>> \o a.value \o <<34>>
WriteOne(x) ==
    CASE x.kind \in {"Open", "SelfClose"} ->
            <<Lt>> \o x.word \o FoldLeft(LAMBDA s, a : s \o Attribute(a), <<>>, x.attrs)
                   \o (IF x.kind = "Open" THEN <<Gt>> ELSE <<47, Gt>>)
      [] x.kind = "Close" -> <<Lt, 47>> \o x.word \o <<Gt>>
      [] x.kind = "Comment" -> CommentOpen \o x.text \o CommentEnd
      [] x.kind = "CData" -> CDataOpen \o x.text \o CDataEnd
      [] x.kind = "Prolog" -> PrologOpen \o x.text \o PrologEnd
      [] x.kind = "Doctype" -> DoctypeOpen \o <<32, 34, Gt, 34, Gt>>
      [] OTHER -> x.text
Written(feed) == FoldLeft(LAMBDA s, x : s \o WriteOne(x), <<>>, feed)

\* What is read of a feed stands in it. Each episode has the first guid and
\* the last opened or else the first closed enclosure written between the name
\* of one item and the next, whatever was written in the item before; without
\* an item there is no episode, and without a channel there is no feed.
EpisodesAreWritten(feed, seen) ==
    LET is(i, kind, name) == feed[i].kind = kind /\ Named(feed[i].word) = name
        got == ParseFeed(Written(feed), seen)
        tags == {i \in DOMAIN feed : feed[i].kind \in {"Open", "SelfClose"}}
        items == {i \in tags : is(i, "Open", "item")}
        own(i, kind, name) == {j \in tags : j > i /\ items \cap i + 1..j = {} /\ is(j, kind, name)}
        value(j) == feed[j].attrs[1].value
        guids(i) == {j \in own(i, "SelfClose", "guid") : value(j) # <<>>}
        guid(i) == IF guids(i) = {} THEN <<>> ELSE value(Min(guids(i)))
        opened(i) == {j \in own(i, "Open", "enclosure") : value(j) # <<>>}
        closed(i) == own(i, "SelfClose", "enclosure")
        url(i) == IF opened(i) # {} THEN value(Max(opened(i)))
                  ELSE IF closed(i) # {} THEN value(Min(closed(i))) ELSE <<>>
    IN  /\ (~\E i \in tags : is(i, "Open", "channel")) => got = Failed
        /\ got.ok => \A n \in DOMAIN got.episodes : \E i \in items : got.episodes[n].identity = Identity(guid(i), url(i))
\* No text of the feed, wherever it is filed, becomes anything but what it says.
TextIsKept(feed, seen) ==
    LET got == ParseFeed(Written(feed), seen)
        texts == {feed[i].text : i \in {j \in DOMAIN feed : feed[j].kind = "Text"}}
        values == UNION {{feed[i].attrs[j].value : j \in DOMAIN feed[i].attrs} : i \in {k \in DOMAIN feed : feed[k].kind = "SelfClose"}}
    IN  got.ok => \A n \in DOMAIN got.episodes : LET e == got.episodes[n].episode
                                                IN  e.guid \in texts \cup values \cup {<<>>} /\ e.title \in texts \cup {<<>>}
\* A feed cut off inside its last tag or section is refused.
CutIsSeen(feed) ==
    feed # <<>> /\ Last(feed).kind # "Text" => ParseFeed(Front(Written(feed)), "other") = Failed

\* Two episodes share an identity only if they share both words or one of
\* these has a bar in it.
IdentitiesApart(guid, url, guid2, url2) ==
    124 \notin Range(guid \o url) => (Identity(guid, url) = Identity(guid2, url2) <=> <<guid, url>> = <<guid2, url2>>)

\* A writer who escapes '&', '<' and '>' and spells every other character out
\* by its number is understood; what is no known entity stays as written.
Escaped(points) ==
    LET named(c) == CHOOSE e \in DOMAIN Entities : Entities[e] = c
        digits(n) == LET d == [k \in 1..7 |-> 48 + ((n \div 10 ^ (7 - k)) % 10)] IN SubSeq(d, Min({k \in 1..7 : d[k] # 48}), 7)
        spelt(c) == IF c \in {Amp, Lt, Gt} THEN named(c) ELSE <<Amp, Hash>> \o digits(c) \o <<Semi>>
    IN  FoldLeft(LAMBDA s, c : s \o spelt(c), <<>>, points)
EntitiesReadBack(points, raw) ==
    /\ DecodeEntities(Escaped(points)) = FoldLeft(LAMBDA s, c : s \o Utf8(c), <<>>, points)
    /\ (\A i \in DOMAIN raw, e \in DOMAIN Entities \cup {<<Amp, Hash>>} : ~HasAt(raw, e, i)) => DecodeEntities(raw) = raw
===============================================================================
