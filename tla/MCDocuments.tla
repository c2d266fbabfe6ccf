----------------------------- MODULE MCDocuments -----------------------------
EXTENDS Integers, Sequences, FiniteSets, TLC
LOCAL INSTANCE SequencesExt
CONSTANT None
SP == INSTANCE SmartPlaylist WITH MaxValues <- 2, MaxRules <- 2, MaxTerms <- 1, MaxLimit <- 3
T == INSTANCE Text WITH MaxInt <- 127, MaxPath <- 5
JS == INSTANCE Json WITH MaxDepth <- 2, MaxElements <- 5, Comments <- FALSE, TrailingCommas <- FALSE, Keys <- <<"a", "b">>
JL == INSTANCE Json WITH MaxDepth <- 3, MaxElements <- 9, Comments <- TRUE, TrailingCommas <- TRUE, Keys <- <<"a", "b">>
Idents == (<<98>> :> "bpm") @@ (<<107>> :> "key") @@ (<<108>> :> "length") @@ (<<117, 112>> :> "upper") @@ (<<116>> :> "tab") @@ (<<121>> :> "year")
F == INSTANCE Format WITH MaxInt <- 127, MaxPath <- 5, MaxNesting <- 3, ArgCap <- 8, NameOf <- Idents,
        DecimalComma <- FALSE, Now <- [day |-> 20000, second |-> 0], MonthNames <- [k \in 1..12 |-> <<64 + k, 97, 110, 101>>]
FDe == INSTANCE Format WITH MaxInt <- 127, MaxPath <- 5, MaxNesting <- 3, ArgCap <- 8, NameOf <- Idents, DecimalComma <- TRUE,
        Now <- [day |-> 0, second |-> 0], MonthNames <- [k \in 1..12 |-> <<64 + k>>]
G == INSTANCE Gapless WITH Max32 <- 4095, Unknown <- None, NoHex <- None, Slack <- 4
N == INSTANCE Streams WITH NoNumber <- None, NoTitle <- None
FeedNames == (<<99>> :> "channel") @@ (<<105>> :> "item") @@ (<<101>> :> "enclosure") @@ (<<103>> :> "guid") @@ (<<117>> :> "url") @@ (<<118>> :> "value")
RSS == INSTANCE Feed WITH NameOf <- FeedNames, MaxBytes <- 400, MaxTextRun <- 8, MaxAttrValue <- 2
TG == INSTANCE Tags WITH Articles <- {<<97>>, <<116, 104>>}
LV == INSTANCE Levels
RQ == INSTANCE Requests WITH MaxEntries <- 3, MaxMessage <- 4
DG == INSTANCE Digests WITH Block <- 4, DigestBytes <- 2, LengthBytes <- 1, WDigits <- 2, Width <- 256, GroupN <- 251, GroupG <- 5
CL == INSTANCE CommandLine
TH == INSTANCE Themes
LY == INSTANCE Layout WITH MaxNodes <- 6, MaxDepth <- 3, MaxBindings <- 3

VARIABLE item
vars == <<item>>

S(x) == SP!Str(x)
Operand == {S(<<"a">>), S(<<"A", "b">>), SP!Num(1)}
Texts == {S(<<"a">>), S(<<"B">>), S(<<"%">>), S(<<>>)}
Comp(f, op, more) == SP!Obj(SP!Merge([field |-> S(f), operator |-> S(op)], more))
Comparisons ==
    {Comp(f, op, [value |-> v]) : f \in {"artist", "custom:mood"},
        op \in {"eq", "ne", "contains", "notContains", "startsWith", "endsWith"}, v \in Texts}
    \cup {Comp("duration", op, [value |-> v]) : op \in {"gt", "lte"}, 
            v \in {S(<<"3","m","2","s">>), S(<<"1","0","s">>), S(<<"-","a">>), SP!Num(10)}}
    \cup {Comp("missing", op, <<>>) : op \in SP!Nullary}
    \cup {Comp("rating", "between", [from |-> SP!Num(1), to |-> SP!Num(2)])}
    \cup {Comp("rating", "in", [values |-> SP!Arr(<<SP!Num(1), SP!Num(3)>>)])}
    \cup {Comp("artist", "eq", [value |-> S(<<"A">>), not |-> SP!Bool(TRUE)])}
    \cup {Comp("artist", "eq", [value |-> S(<<"A">>), caseSensitive |-> SP!Bool(TRUE)])}
    \cup {Comp("rating", "eq", [value |-> SP!Num(1)])}
    \* refused
    \cup {Comp("custom:9", "eq", [value |-> S(<<"A">>)]), Comp("rating", "contains", [value |-> S(<<"A">>)]),
          Comp("rating", "in", [values |-> SP!Arr(<<>>)]), Comp("missing", "isNull", [value |-> S(<<>>)])}
Some == {Comp("artist", "contains", [value |-> S(<<"%">>)]), Comp("custom:mood", "ne", [value |-> S(<<"a">>)]),
         Comp("missing", "isNull", <<>>), Comp("rating", "between", [from |-> SP!Num(1), to |-> SP!Num(2)])}
Grp(op, kids, not) == SP!Obj(SP!Merge([op |-> S(op), rules |-> SP!Arr(kids)], SP!Only(not, "not", SP!Bool(TRUE))))
Pairs == {Grp(op, <<a, b>>, not) : op \in {"and", "or"}, a \in Some, b \in Comparisons, not \in BOOLEAN}
Nested == {Grp("or", <<Grp("and", <<a, b>>, TRUE), c>>, FALSE) : a \in Some, b \in Some, c \in Some}
Rules == {SP!Obj(SP!Merge([schemaVersion |-> SP!Num(1), match |-> m], more)) :
            m \in Comparisons \cup Pairs \cup Nested,
            more \in {<<>>, [limit |-> SP!Num(3), orderBy |-> SP!Arr(<<SP!Obj([field |-> S("title")])>>)]}}
Row(ar, d, ra, mi, tags) == [title |-> S(<<"a">>), artist |-> ar, duration_ms |-> SP!Num(d), rating |-> ra,
                     missing_since |-> mi, tags |-> tags]
Rows == {Row(ar, d, ra, mi, tags) :
          ar \in {S(<<"a">>), S(<<"A","%">>), S(<<>>)}, d \in {10, 182, 200}, ra \in {SP!NULL, SP!Num(1), SP!Num(3)},
          mi \in {SP!NULL, SP!Num(1)}, tags \in {{}, {<<<<"m">>, <<"a">>>>}}}

SeqsTo(n, A) == UNION {[1..k -> A] : k \in 0..n}
Texts8 == SeqsTo(4, {65, 32, 128, 160, 194, 237, 240})
Points == 0..400 \cup {913, 1040, 1072, 2047, 2048, 55295, 55296, 57343, 57344, 65533, 65535, 65536, 1114111, 1114112}
Globs == SeqsTo(4, {97, 66, T!Star, T!One, T!Open, T!Close, T!Dash}) \cup {<<T!Open, 33, 97, T!Close, T!Star>>}
Subjects == SeqsTo(3, {97, 98, T!Dash}) \cup SeqsTo(2, {97, T!Star})
Words == SeqsTo(3, {97, 98, 99}) \cup SeqsTo(4, {97, 98}) \cup SeqsTo(2, {65, 97})
Paths == SeqsTo(4, {97, T!Dot, T!Slash, T!Backslash, 58, 1}) \cup SeqsTo(6, {97, T!Dot, T!Slash})
Names == {T!EncodeAll(p) : p \in SeqsTo(4, {65, 97, 110, 233, 32, 39})}
Articles == {<<97>>, <<97, 110>>, <<110, 39>>}
Fields == SeqsTo(5, {97, 32, 47, 59})
Separators == {<<47>>, <<32, 47, 32>>, <<59>>}

Tokens == {"{", "}", "[", "]", ",", ":", "ws", "open", "//", "a", "1"}
Leaves == {JS!Scalar("a"), JS!Scalar("1")}
Shallow == Leaves \cup {JS!Arr(s) : s \in SeqsTo(2, Leaves)}
              \cup UNION {{JS!Obj(f) : f \in [ks -> Leaves]} : ks \in SUBSET {"a", "b"}}
Values == {JS!Arr(s) : s \in SeqsTo(2, Shallow)} \cup {JS!Obj(f) : f \in [{"a", "b"} -> Shallow]}
Written == {JS!Dump(v, indent) : v \in Values, indent \in BOOLEAN}
Without(s, i) == SubSeq(s, 1, i - 1) \o SubSeq(s, i + 1, Len(s))
With(s, i, t) == SubSeq(s, 1, i) \o <<t>> \o SubSeq(s, i + 1, Len(s))
\* A value whose keys need escapes, of lists in objects and objects in lists.
Pointed == {JS!Obj((<<97>> :> a) @@ (<<47>> :> b) @@ (<<126, 49>> :> JS!Scalar("1")) @@ (<<>> :> JS!Arr(<<a, JS!Obj(<<48>> :> b)>>))) :
                a, b \in {JS!Scalar("a"), JS!Arr(<<JS!Scalar("a"), JS!Arr(<<JS!Scalar("1")>>)>>), JS!Arr(<<>>)}}
Chars == SeqsTo(3, {[raw |-> 65], [raw |-> 10], [esc |-> "n"], [u |-> 65], [u |-> 55296], [u |-> 56320], [u |-> 57343]})

Plain == {F!Lit(<<120>>), F!Lit(<<44>>), F!Field("bpm", "none", 0), F!Field("key", "none", 0)}
Dressed == Plain \cup {F!Field("bpm", "upper", 0), F!Field("key", "zeropad", 12)}
Blocks(A) == {F!Block(b) : b \in SeqsTo(2, A)}
Calls(A) == {F!Call("tab", <<>>)} \cup {F!Call("upper", <<b>>) : b \in SeqsTo(2, A) \ {<<>>}}
Patterns == SeqsTo(2, Dressed \cup Blocks(Plain) \cup Calls(Plain))
              \cup {<<F!Block(b)>> : b \in SeqsTo(2, Plain \cup {F!Block(c) : c \in SeqsTo(2, Plain)})}
Tracks == {<<>>, [bpm |-> F!Val(<<65>>)], [bpm |-> F!Val(<<32>>)], [bpm |-> F!Val(<<>>), key |-> F!Absent]}
Said == {T!EncodeAll(p) : p \in SeqsTo(3, {65, 66, 233, 769})}
Parts == {T!EncodeAll(p) : p \in SeqsTo(2, {65, 66, 233})}
Pieces == {<<91>>, <<93>>, <<40>>, <<41>>, <<33>>, <<44>>, <<37>>, <<37, 98, 37>>, <<37, 107, 58, 117, 37>>, <<36, 117, 112, 40>>, <<36, 116, 40, 41>>}
Ints == {-128, -127, -64, -12, -11, -2, -1, 0, 1, 2, 5, 11, 12, 49, 50, 64, 126, 127}
Dates == {<<50, 48, 48, 57, 45, m, n, 45, 51, 49>> \o rest : m \in {48, 49}, n \in {48, 50, 51, 65}, rest \in {<<>>, <<84>>}}
Days == {<<49, 57, 57, 57, 45, 49, 50, 45, 51, 49>>, <<50, 48, 50, 52, 45, 48, 50, 45, 50, 57>>, <<50, 48, 50, 51, 45, 48, 51, 45, 48, 49>>}
Instants == {d \o t : d \in Days, t \in {<<>>, <<84, 50, 51, 58, 48, 48, 58, 48, 48>>}}
Sizes == 0..2 \cup {100 * k + r : k \in 9..30, r \in {-51, 0, 49}} \cup UNION {{n - 1, n, n + 1} : n \in {99949, 999949, 10^6, 1249999, 1250001, 10^9, 2 * 10^9}}
Headers == [sync : BOOLEAN, version : 0..3, layer : 0..3, protected : BOOLEAN, bitrate : {0, 1, 9, 14, 15}, rate : 0..3,
            padded : BOOLEAN, mode : {0, 3}]
Layer3 == {h \in Headers : h.sync /\ h.version # 1 /\ h.layer = 1 /\ h.bitrate = 9 /\ h.rate = 0 /\ ~h.padded}
Tags == [h : Layer3, flags : {0, 1, 4, 15}, count : {1, 3, 200}, delay : {0, 576, 4095}, padding : {0, 530, 4095}]
Values3 == {0, 1, 100, 4095, 4096, None}
Smpb == {[size |-> 100, fields |-> <<0>> \o f] : f \in SeqsTo(3, Values3)}
          \cup {[size |-> n, fields |-> [k \in 1..m |-> 0]] : n \in {512, 513}, m \in {3, 16, 17}}

\* "s", "u": the bytes of a name; the base is a scheme, "://" and a host.
Server == <<115>> \o <<58, 47, 47>> \o <<104>>
Segs == [tenths : {None, 0, 9, 10, 25}, title : {None, <<84>>, <<>>}, uri : {<<97>>, <<47, 98>>, <<47, 47, 99>>}]
MasterLines == {[tag |-> "uri", uri |-> <<97>>], [tag |-> "STREAMINF", bare |-> TRUE, attrs |-> <<>>],
                [tag |-> "STREAMINF", bare |-> FALSE, attrs |-> <<[key |-> "BANDWIDTH", value |-> 3]>>],
                [tag |-> "VERSION", bare |-> FALSE, value |-> 3], [tag |-> "MEDIA", bare |-> FALSE]}
IcyFields == [key : {<<84>>, <<85>>, <<120>>}, value : SeqsTo(2, {97, N!Quote, N!Semicolon, N!Equals})]
Tagged(kind, word, attrs) == [kind |-> kind, word |-> word, attrs |-> attrs]
UrlIs(u) == <<[word |-> <<117>>, value |-> u]>>
Lexemes == {Tagged("Open", <<67>>, <<>>), Tagged("Open", <<105>>, <<>>), Tagged("Close", <<105>>, <<>>)}
             \cup {Tagged(kind, <<101>>, UrlIs(u)) : kind \in {"Open", "SelfClose"}, u \in {<<>>, <<97>>, <<98, 62>>}}
             \cup {Tagged("SelfClose", <<103>>, <<[word |-> <<86>>, value |-> v]>>) : v \in {<<>>, <<97>>, <<98>>}}
             \cup {[kind |-> k, text |-> <<60, 47, 62>>] : k \in {"Comment", "CData", "Prolog"}} \cup {[kind |-> "Doctype"]}
Openings == {<<>>, <<Tagged("Open", <<99>>, <<>>), Tagged("Open", <<73>>, <<>>)>>}
Escapes == SeqsTo(3, {38, 97, 112, 59, 60}) \cup {<<38, 97, 112, 111, 115, 59>>, <<38, 113, 117, 111, 116, 59>>, <<97, 38>>}
Titles == SeqsTo(4, {97, 66, 98, TG!Space, TG!Comma, TG!Slash})
Plainly == SeqsTo(2, {97, 66, TG!Space}) \cup {<<98, TG!Space, 98>>, <<116, 104, TG!Space, 98>>}
Own == {<<>>} \cup [{"TCOM", "COMM", "TPOS"} -> {<<>>, <<97>>}] \cup [{"COMPOSER", "COMMENT", "DESCRIPTION"} -> {<<>>, <<98>>}]
          \cup [{"cmt", "tmpo"} -> {<<99>>}]
Props == {<<>>, [BPM |-> None], [BPM |-> 120, MOOD |-> <<97>>], [PICTURE |-> <<1>>, COVERART |-> <<2>>], [REPLAYGAIN_TRACK_GAIN |-> 3]}
TagFiles == {[kind |-> k[1], ext |-> k[2], title |-> <<97>>, artist |-> <<98>>, album |-> <<66>>, genre |-> <<>>, year |-> 0, number |-> <<>>,
              rate |-> 44100, own |-> o, props |-> p] :
                k \in {<<"mpeg", "mp3">>, <<"flac", "flac">>, <<"vorbis", "ogg">>, <<"mp4", "m4a">>, <<"mp4", "alac">>, <<"wav", "wav">>}, o \in Own, p \in Props}
CueLines == {[cmd |-> c, tokens |-> t] : c \in {"TITLE", "PERFORMER", "FILE", "TRACK", "INDEX"}, t \in {<<>>, <<<<97>>>>, <<<<98>>, <<70>>>>}}
EqBands == {[type |-> t, freq |-> f, gain |-> g, q |-> 1, enabled |-> e] : t \in {"peaking", "notch"}, f \in {10, 2000, 43000}, g \in {0, 3000}, e \in BOOLEAN}
Graphics == {<<>>, <<0>>, <<4, -5>>, <<1300, 6, -1205>>, [i \in 1..11 |-> IF i = 11 THEN 30 ELSE 0], [i \in 1..10 |-> IF i = 10 THEN 20 ELSE 0]}
EqSettings == [enabled : BOOLEAN, mode : {"graphic10", "graphic18"}, preamp : {-1300, 0, 40}, graphic : Graphics, parametric : {<<>>}]
    \cup [enabled : BOOLEAN, mode : {"parametric"}, preamp : {0, 1201}, graphic : {<<4>>}, parametric : SeqsTo(2, EqBands)]
Gains == [mode : {"off", "smart"}, preamp : {-6, 0, 12}, fallback : {0, -6}, track : {None, 0, -12, 6}, album : {None, 0, 6}, peak : 0..9, useAlbum : BOOLEAN]
GainNumbers == [kind : {"number"}, whole : BOOLEAN, db : {-650, 0, 300}]
ArgGroups == {<<o>> : o \in {"--help", "-v", "--quit", "x"}} \cup {<<"--sink", s>> : s \in {"auto", "alsa", "x"}}
    \cup {<<o, v>> : o \in {"--play", "--enqueue", "--playlist"}, v \in {"f", "--quit", ""}}
Worlds == [play : {"Ok", "DeviceInUse"}, start : {"Ok", "PermissionDenied", "Internal"}, smoke : BOOLEAN, ui : {0, 69}]
Obj(f) == [obj |-> f]
RECURSIVE Put(_, _, _)
Put(doc, path, v) ==
    IF path = <<>> THEN v
    ELSE Obj((Head(path) :> Put(IF Head(path) \in DOMAIN doc.obj THEN doc.obj[Head(path)] ELSE Obj(<<>>), Tail(path), v)) @@ doc.obj)
\* The document of some paths and their values.
RECURSIVE DocOf(_)
DocOf(pairs) ==
    Obj([k \in {p[1][1] : p \in pairs} |->
          IF \E p \in pairs : p[1] = <<k>> THEN (CHOOSE p \in pairs : p[1] = <<k>>)[2]
          ELSE DocOf({<<Tail(p[1]), p[2]>> : p \in {q \in pairs : q[1][1] = k}})])
\* A value of a kind, of two there are, and one of none.
Right(kind, n) ==
    CASE kind = "string" -> [str |-> IF n = 1 THEN "dark" ELSE "light"]
      [] kind = "number" -> [real |-> n]
      [] kind = "bool" -> [bool |-> n = 1]
      [] kind = "strings" -> [arr |-> <<[str |-> "a"]>>]
      [] kind \in {"ints", "cubic"} -> [arr |-> [i \in 1..4 |-> [num |-> n]]]
      [] OTHER -> [num |-> n]
ThemeFields(most) == UNION {{<<Append(g.at, f), (g.must @@ g.may)[f]>> : f \in DOMAIN g.must \cup (IF most THEN DOMAIN g.may ELSE {})} : g \in TH!Groups}
ThemeDoc(most, n) == DocOf({<<f[1], Right(f[2], n)>> : f \in ThemeFields(most)})
Raised(e) == Obj([offsetY |-> [num |-> 1], blur |-> [real |-> 2], color |-> [str |-> "x"]] @@ e)
ThemeDocs ==
    LET base == ThemeDoc(FALSE, 1)
    IN  {Put(base, f[1], v) : f \in ThemeFields(TRUE), v \in {[nil |-> 0], [str |-> "x"], [arr |-> <<>>]}}
        \cup {Put(base, f[1], Right(f[2], 1)) : f \in ThemeFields(TRUE)}
        \cup {Put(base, <<"typography", "scale", "size">>, v) : v \in {[real |-> 1], [str |-> "x"]}}
        \cup {Put(base, <<"elevation">>, [arr |-> e]) : e \in {<<>>, <<Raised(<<>>)>>, [i \in 1..7 |-> Raised(<<>>)], <<Raised([spread |-> [str |-> "x"]])>>}}
Bases == {ThemeDoc(FALSE, 2), ThemeDoc(TRUE, 2), Put(ThemeDoc(FALSE, 2), <<"color", "text", "link">>, [str |-> "x"])}
TokensOf(g, v, but) == DocOf({<<Append(g[1], f), v>> : f \in DOMAIN g[2] \ {but}})
OneGroup == UNION {{TokensOf(g, v, but) : v \in {[num |-> 1], [real |-> 2], [str |-> "x"]}, but \in DOMAIN g[2] \cup {"none"}} : g \in TH!TokenGroups}
Level(n) == Obj([offsetY |-> [num |-> n], blur |-> [num |-> n], alpha |-> [real |-> n]])
TokenDocs ==
    OneGroup \cup {Obj([elevation |-> [arr |-> e]]) : e \in SeqsTo(2, {Level(1), Level(2), [num |-> 1], Obj(<<>>)}) \cup {[i \in 1..6 |-> Level(i)]}}
        \cup {Put(Obj(<<>>), <<"motion", "easing", c>>, v) : c \in TH!CurveNames, v \in {Obj(<<>>), Obj([cubicBezier |-> Right("cubic", 1)]), [num |-> 1]}}
FirstTokens == {Obj(<<>>), DocOf({<<p, [num |-> 3]>> : p \in {q \in DOMAIN TH!DefaultTokens : q[1] # "elevation" /\ q[2] # "easing"}}),
                Obj([elevation |-> [arr |-> [i \in 1..5 |-> Level(3)]]])}
\* Nodes that bind or do not, of a type somebody knows or not.
Typed(t, more) == Obj((IF t = "none" THEN <<>> ELSE "type" :> [str |-> t]) @@ more)
BindsOrNot == {<<>>, [bind |-> [str |-> "a"]]}
Bears(children) == [children |-> [arr |-> children]]
LayoutLeaves == {Typed(t, more) : t \in {"Text", "Row"}, more \in BindsOrNot}
LayoutInner ==
    {Typed(t, Bears(c) @@ more) : t \in {"Text", "Column", "none", "Strange"}, more \in BindsOrNot, c \in SeqsTo(2, LayoutLeaves)}
LayoutFields ==
    {Typed("Row", f :> v) : f \in DOMAIN LY!Kinds,
        v \in {[str |-> "center"], [str |-> "fill"], [num |-> 3], [real |-> 2], [bool |-> TRUE], [nil |-> 0],
               Obj([width |-> [num |-> 1], height |-> [str |-> "auto"]])}}
    \cup {Typed("Row", [border |-> v]) : v \in {[num |-> 1], Obj([color |-> [num |-> 1]]), Obj([width |-> [real |-> 1]]),
                                              Obj([color |-> [str |-> "a"], width |-> [str |-> "a"]])}}
    \cup {Typed("Row", [width |-> [share |-> 50], buttons |-> [arr |-> <<[str |-> "stop"], [num |-> 1], [str |-> "go"]>>]])}
Rooted(deep, children) ==
    Obj([root |-> IF deep THEN Typed("Grid", Bears(<<Typed("Panel", Bears(children))>>)) ELSE Typed("Panel", Bears(children))])
\* A text of which the digest is taken, and the codes and devices of a pairing.
Bits == {<<0>>, <<128>>}
MacKeys == SeqsTo(3, Bits) \cup {<<b, z, z, z>> \o more : b \in Bits, z \in {<<0>>}, more \in SeqsTo(1, Bits)}
Digits2 == {<<48>>, <<49>>}
Plays == [method : {<<116>>}, timestamp : {<<49>>}, artist : SeqsTo(2, {97, 38, 37, 195}), title : SeqsTo(1, {98, 61}), album : {<<>>, <<255>>},
          mbid : {{}, {<<99>>}}, duration : {{}, {<<50>>}}]
Who == [key |-> <<107, 38>>, token |-> <<116>>, secret |-> <<115>>]
HttpHeaders == SeqsTo(3, [name : {<<65>>, <<97>>, <<115>>, <<120>>, <<88>>}, value : {<<49>>, <<50>>}])
StationText == SeqsTo(4, {97, RQ!Newline, RQ!Return, RQ!Hash, RQ!Extm3u, RQ!FileKey(1), RQ!FileKey(2), RQ!TitleKey(1), RQ!Scheme, RQ!Https})
HelloBytes == {34, 92, 10, 1, RQ!Word("type"), RQ!Word("deviceUuid"), RQ!Word("applied")}
Marks == {<<97>> :> 5, <<RQ!Word("applied")>> :> 5}
StationLists == SeqsTo(2, [url : {<<97>>, <<RQ!Https, RQ!Scheme, 98>>, <<97, RQ!Https, RQ!Scheme>>}, name : {<<>>, <<98, RQ!Hash>>}])

Kinds == {"Hello", "Wire", "Digest", "Mac", "Derived", "Paired", "Power", "Threshold", "Encoded", "Play", "Headers", "Query", "Record", "Station", "Stations", "Attribute", "Identity", "Month", "Age", "Size", "Pointer", "Numeral", "LayoutFields", "Layouts", "TokenDocs", "Themes", "Message", "Line", "Loudness", "GainTag", "Gain", "Eq", "Quoted", "Cue", "File", "Values", "Album", "SortKey", "Entity", "Said", "Feed", "Track", "Icy", "Pick", "Master", "Media", "Uri", "Frame", "Tag", "Smpb", "Skip", "Granule", "Pattern", "Source", "Title", "Sum", "Time", "Date", "Tokens", "Slip", "String", "Text", "Point", "Glob", "Word", "Path", "Name", "Field", "Number", "Rule"}
Start(k) == [of |-> "nothing yet", doc |-> k]
Init == \E k \in Kinds : item = Start(k)
Awaits(k) == item.of = "nothing yet" /\ item.doc = k
CheckFrame == Awaits("Frame") /\ \E h \in Headers : item' = [of |-> "frame", doc |-> h]
CheckTag == Awaits("Tag") /\ \E t \in Tags : item' = [of |-> "tag", doc |-> t]
CheckSmpb == Awaits("Smpb") /\ \E v \in Smpb : item' = [of |-> "smpb", doc |-> v]
CheckSkip == Awaits("Skip") /\ \E p \in {0, 312, 3840}, r \in {0, 8000, 44100, 48000, 96000} : item' = [of |-> "skip", doc |-> <<p, r>>]
CheckGranule == Awaits("Granule") /\ \E f, i \in {-4097, -4095, -1, 0, 1, 4095, 9000} : item' = [of |-> "granule", doc |-> <<f, i>>]
CheckPattern == Awaits("Pattern") /\ \E p \in Patterns : item' = [of |-> "pattern", doc |-> p]
CheckSource == Awaits("Source") /\ \E p \in SeqsTo(3, Pieces) : item' = [of |-> "source", doc |-> FoldLeft(LAMBDA a, b : a \o b, <<>>, p)]
CheckTitle == Awaits("Title") /\ \E s \in Said : item' = [of |-> "title", doc |-> s]
CheckSum == Awaits("Sum") /\ \E a, b \in Ints : item' = [of |-> "sum", doc |-> <<a, b>>]
CheckTime == Awaits("Time") /\ \E n \in 0..200 \cup 3590..3670 \cup {7199, 7200, 86399, 360000} : item' = [of |-> "time", doc |-> n]
CheckDate == Awaits("Date") /\ \E d \in Dates : item' = [of |-> "date", doc |-> d]
CheckTokens == Awaits("Tokens") /\ \E s \in SeqsTo(4, Tokens) : item' = [of |-> "json", doc |-> s]
CheckSlip == Awaits("Slip") /\ \E s \in Written : \E i \in DOMAIN s :
                item' \in {[of |-> "json", doc |-> d] : d \in {s, Without(s, i), With(s, i, ","), With(s, i, "open"),
                                                               [s EXCEPT ![i] = IF @ = "b" THEN "a" ELSE @]}}
CheckString == Awaits("String") /\ \E s \in Chars : item' = [of |-> "string", doc |-> s]
CheckText == Awaits("Text") /\ \E b \in Texts8 : item' = [of |-> "text", doc |-> b]
CheckPoint == Awaits("Point") /\ \E c \in Points : item' = [of |-> "point", doc |-> c]
CheckGlob == Awaits("Glob") /\ \E p \in Globs : item' = [of |-> "glob", doc |-> p]
CheckWord == Awaits("Word") /\ \E w \in Words : item' = [of |-> "word", doc |-> w]
CheckPath == Awaits("Path") /\ \E p \in Paths : item' = [of |-> "path", doc |-> p]
CheckName == Awaits("Name") /\ \E n \in Names : item' = [of |-> "name", doc |-> n]
CheckField == Awaits("Field") /\ \E f \in Fields : item' = [of |-> "field", doc |-> f]
CheckNumber == Awaits("Number") /\ \E s \in {<<>>, <<43>>, <<45>>}, d \in SeqsTo(3, {48, 49, 50, 55, 56, 57, 58}) :
                  item' = [of |-> "number", doc |-> <<s, d>>]
CheckRule == Awaits("Rule") /\ \E r \in Rules : item' = [of |-> "rule", doc |-> r]
CheckUri == Awaits("Uri") /\ \E dir \in {<<>>, <<100, 47>>, <<100, 47, 101, 47>>}, file \in {<<>>, <<102>>}, n \in {<<110>>, <<110, 47, 109>>, <<46, 46, 47, 110>>} :
               item' = [of |-> "uri", doc |-> <<dir, file, n>>]
CheckMedia == Awaits("Media") /\ \E n \in {0, 7}, w \in SeqsTo(2, Segs) : item' = [of |-> "media", doc |-> <<n, w>>]
CheckMaster == Awaits("Master") /\ \E l \in SeqsTo(4, MasterLines), newline \in BOOLEAN :
               item' = [of |-> "master", doc |-> [header |-> TRUE, newline |-> newline, lines |-> IF newline THEN l ELSE <<>>]]
CheckPick == Awaits("Pick") /\ \E b \in SeqsTo(4, 1..4) : item' = [of |-> "pick", doc |-> b]
CheckIcy == Awaits("Icy") /\ \E f \in SeqsTo(2, IcyFields) : item' = [of |-> "icy", doc |-> f]
CheckTrack == Awaits("Track") /\ \E a \in SeqsTo(3, {97, N!Space, N!Dash}), b \in SeqsTo(3, {98, N!Tab, N!Space, N!Dash}) : item' = [of |-> "track", doc |-> <<a, b>>]
CheckFeed == Awaits("Feed") /\ \E p \in Openings, l \in SeqsTo(3, Lexemes) : item' = [of |-> "feed", doc |-> p \o l]
CheckSaid == Awaits("Said") /\ \E p \in Openings, t \in {<<>>, <<97>>, <<97, 98, 99, 100, 101, 102, 103, 104>>}, l \in SeqsTo(1, Lexemes), w \in {"guid", "title", "other"} :
               item' = [of |-> "said", doc |-> <<p \o <<[kind |-> "Text", text |-> t]>> \o l, w>>]
CheckEntity == Awaits("Entity") /\ \E p \in SeqsTo(2, {9, 38, 60, 62, 97, 127, 128, 2048, 65535, 65536, 1114111}), r \in Escapes : item' = [of |-> "entity", doc |-> <<p, r>>]
CheckSortKey == Awaits("SortKey") /\ \E n \in Titles, a \in {<<97>>, <<116, 104>>, <<84, 72>>} : item' = [of |-> "sort key", doc |-> <<n, a>>]
CheckAlbum == Awaits("Album") /\ \E a, b, c \in Plainly : item' = [of |-> "album", doc |-> <<a, b, c>>]
CheckValues == Awaits("Values") /\ \E p \in SeqsTo(2, SeqsTo(2, {97, TG!Space, TG!Tab})), s \in {TG!Slash, TG!Semicolon, TG!Comma} : item' = [of |-> "values", doc |-> <<p, s>>]
CheckFile == Awaits("File") /\ \E f \in TagFiles : item' = [of |-> "file", doc |-> f]
CheckCue == Awaits("Cue") /\ \E l \in SeqsTo(3, CueLines) : item' = [of |-> "cue", doc |-> l]
CheckQuoted == Awaits("Quoted") /\ \E w \in SeqsTo(3, SeqsTo(2, {97, TG!Space})) : item' = [of |-> "quoted", doc |-> w]
CheckEq == Awaits("Eq") /\ \E s \in EqSettings, r \in {44100, 8000} : item' = [of |-> "eq", doc |-> <<s, r>>]
CheckGain == Awaits("Gain") /\ \E s \in Gains : item' = [of |-> "gain", doc |-> s]
CheckGainTag == Awaits("GainTag") /\ \E n \in GainNumbers, b, a \in SeqsTo(2, {LV!Space}), u \in SeqsTo(3, {LV!UnitLetter}) : item' = [of |-> "gain tag", doc |-> <<n, b, a, u>>]
CheckLoudness == Awaits("Loudness") /\ \E c \in {1, 2, 4} : \E f \in SeqsTo(5, {[k \in 1..c |-> IF k = c THEN e ELSE 2^10] : e \in {0, 2, 2^6, 2^10, 2^20}}) : item' = [of |-> "loudness", doc |-> <<f, c>>]
CheckLine == Awaits("Line") /\ \E g \in SeqsTo(3, ArgGroups) : \E w \in Worlds : (Len(g) = 3 => w.smoke /\ w.ui = 0 /\ w.start = "Ok") /\ item' = [of |-> "line", doc |-> <<g, w>>]
CheckMessage == Awaits("Message") /\ \E t \in 0..5, p \in SeqsTo(3, {0, 7, 255}) : item' = [of |-> "message", doc |-> [tag |-> t, payload |-> p]]
CheckThemes == Awaits("Themes") /\ \E a \in ThemeDocs, b, c \in Bases : item' = [of |-> "themes", doc |-> <<a, b, c>>]
CheckTokenDocs == Awaits("TokenDocs") /\ \E a \in FirstTokens, b \in TokenDocs : item' = [of |-> "tokens", doc |-> <<a, b>>]
CheckLayouts == Awaits("Layouts") /\ \E deep \in BOOLEAN, a \in LayoutInner, b \in LayoutLeaves \cup {[num |-> 1], Typed("Row", [bind |-> [num |-> 1]])} : item' = [of |-> "layout", doc |-> <<Rooted(deep, <<a, b>>)>>]
CheckLayoutFields == Awaits("LayoutFields") /\ \E a \in LayoutFields : item' = [of |-> "layout", doc |-> <<Rooted(FALSE, <<a>>)>>]
CheckNumeral == Awaits("Numeral") /\ \E s \in SeqsTo(5, {48, 49, 43, 45, 46, 101}) : item' = [of |-> "numeral", doc |-> s]
CheckPointer == Awaits("Pointer") /\ \E v \in Pointed, p \in SeqsTo(4, {47, 97, 126, 48, 49}) : item' = [of |-> "pointer", doc |-> <<v, p>>]
CheckMonth == Awaits("Month") /\ \E y \in {1600, 1900, 1999, 2000, 2023, 2024}, m \in 1..12 : item' = [of |-> "month", doc |-> <<y, m>>]
CheckAge == Awaits("Age") /\ \E s \in Instants, k \in 0..4 : item' = [of |-> "age", doc |-> <<s, k>>]
CheckSize == Awaits("Size") /\ \E n \in Sizes : item' = [of |-> "size", doc |-> n]
CheckAttribute == Awaits("Attribute") /\ \E t \in SeqsTo(4, {48, 51, 46, 45, 32, 34}) : item' = [of |-> "attribute", doc |-> t]
CheckIdentity == Awaits("Identity") /\ \E a, b, c, d \in SeqsTo(2, {97, 124}) : item' = [of |-> "identity", doc |-> <<a, b, c, d>>]
CheckDigest == Awaits("Digest") /\ \E t \in SeqsTo(6, Bits) : item' = [of |-> "digest", doc |-> t]
CheckMac == Awaits("Mac") /\ \E k \in MacKeys, m \in SeqsTo(1, Bits) : item' = [of |-> "mac", doc |-> <<k, m>>]
CheckDerived == Awaits("Derived") /\ \E t \in SeqsTo(1, Bits), n \in 0..5 : item' = [of |-> "derived", doc |-> <<t, n>>]
CheckPaired == Awaits("Paired") /\ \E c \in [1..2 -> Digits2], u \in SeqsTo(2, Digits2) : item' = [of |-> "paired", doc |-> <<c, u>>]
CheckPower == Awaits("Power") /\ \E v \in 0..600 : item' = [of |-> "power", doc |-> v]
CheckThreshold == Awaits("Threshold") /\ \E p \in {0, 29, 30, 31, 60, 100, 119, 120, 239, 240, 241}, n \in {-1, 0, 29, 30, 31, 58, 59, 60, 61, 200, 240, 241, 478, 479, 480, 481, 600} :
                    item' = [of |-> "threshold", doc |-> <<p, n>>]
CheckEncoded == Awaits("Encoded") /\ \E t \in SeqsTo(3, {0, 37, 38, 48, 61, 65, 126, 127, 255}) : item' = [of |-> "encoded", doc |-> t]
CheckPlay == Awaits("Play") /\ \E p \in Plays : item' = [of |-> "play", doc |-> p]
CheckHeaders == Awaits("Headers") /\ \E h \in HttpHeaders, n \in {<<65>>, <<97>>, <<83>>, <<88>>} : item' = [of |-> "headers", doc |-> <<h, n>>]
CheckQuery == Awaits("Query") /\ \E b \in SeqsTo(2, {104, RQ!Quest, RQ!Amp}), q, r \in SeqsTo(2, {97, RQ!Quest, RQ!Amp}) : item' = [of |-> "query", doc |-> <<b, q, r>>]
CheckRecord == Awaits("Record") /\ \E u, v \in SeqsTo(3, {97, 117, RQ!Semi, RQ!Equals}), f \in SeqsTo(1, {98, RQ!Semi}) : item' = [of |-> "record", doc |-> <<u, v, f>>]
CheckStation == Awaits("Station") /\ \E t \in StationText : item' = [of |-> "station", doc |-> t]
CheckStations == Awaits("Stations") /\ \E l \in StationLists : item' = [of |-> "stations", doc |-> l]
CheckHello == Awaits("Hello") /\ \E u \in SeqsTo(2, HelloBytes), n \in SeqsTo(1, {RQ!Word("applied")}), marks \in Marks : item' = [of |-> "hello", doc |-> <<u, n, marks>>]
CheckWire == Awaits("Wire") /\ \E d \in SeqsTo(5, {97, 0}), more \in SeqsTo(1, {97}) : item' = [of |-> "wire", doc |-> <<d, more>>]
Next == CheckHello \/ CheckWire \/ CheckDigest \/ CheckMac \/ CheckDerived \/ CheckPaired \/ CheckPower \/ CheckThreshold \/ CheckEncoded \/ CheckPlay \/ CheckHeaders \/ CheckQuery \/ CheckRecord \/ CheckStation \/ CheckStations
           \/ CheckAttribute \/ CheckIdentity \/ CheckMonth \/ CheckAge \/ CheckSize \/ CheckNumeral \/ CheckPointer \/ CheckLayoutFields \/ CheckLayouts \/ CheckTokenDocs \/ CheckThemes \/ CheckMessage \/ CheckLine \/ CheckLoudness \/ CheckGainTag \/ CheckGain \/ CheckEq \/ CheckQuoted \/ CheckCue \/ CheckFile \/ CheckValues \/ CheckAlbum \/ CheckSortKey \/ CheckEntity \/ CheckSaid \/ CheckFeed \/ CheckTrack \/ CheckIcy \/ CheckPick \/ CheckMaster \/ CheckMedia \/ CheckUri \/ CheckRule \/ CheckText \/ CheckPoint \/ CheckGlob \/ CheckWord \/ CheckPath \/ CheckName \/ CheckField
           \/ CheckNumber \/ CheckTokens \/ CheckSlip \/ CheckString
           \/ CheckPattern \/ CheckSource \/ CheckTitle \/ CheckSum \/ CheckTime \/ CheckDate
           \/ CheckFrame \/ CheckTag \/ CheckSmpb \/ CheckSkip \/ CheckGranule
Spec == Init /\ [][Next]_vars
Is(k) == item.of = k
\* A compiled rule selects what the rule says of a row, and a saved one reads
\* back as itself: see SmartPlaylist.
RulesSelect ==
    Is("rule") => SP!SelectsWhatTheRuleSays(item.doc, Rows) /\ SP!SavedRuleReadsBack(item.doc)
\* Text comes out of the helpers whole: see Text, one line a helper.
TextKept ==
    /\ Is("text") => T!Utf8Kept(item.doc)
    /\ Is("point") => T!CodePointKept(item.doc)
    /\ Is("glob") => \A t \in Subjects, cs \in BOOLEAN : T!GlobAgrees(item.doc, t, cs)
    /\ Is("word") => \A w \in Words, bound \in 0..2 : T!DistanceAgrees(item.doc, w, bound) /\ T!ContainsAgrees(item.doc, w)
    /\ Is("path") => T!PathIsSafe(item.doc)
    /\ Is("name") => T!KeysTogether(item.doc, Articles)
    /\ Is("field") => T!ValuesComeApart(item.doc, Separators)
    /\ Is("number") => T!NumberIsExact(item.doc[1], item.doc[2])
    /\ Is("point") => T!HexIsExact(item.doc)
\* JSON is read whole, strictly or leniently, and read back as written.
JsonReadsBack ==
    /\ Is("json") => JS!ReadsWhatIsThere(item.doc) /\ JL!ReadsWhatIsThere(item.doc)
    /\ Is("string") => JS!EscapesGiveText(item.doc)
    /\ Is("numeral") => JS!NumeralsAsInTheGrammar(item.doc)
    /\ Is("pointer") => JS!PointersLead(item.doc[1], item.doc[2])
\* The frames a track says to skip are the ones its encoder meant, or no
\* claim is made of them: see Gapless, one line a format.
GaplessTrimmed ==
    /\ Is("frame") => G!FrameKeepsBitrate(item.doc)
    /\ Is("tag") => LET t == item.doc IN /\ G!TagReadsBack(t.h, t.flags, t.count, t.delay, t.padding)
                                        /\ G!DamageIsSeen(t.h, t.flags, t.count, t.delay, t.padding)
    /\ Is("smpb") => \A hint \in {None, 0, 100, 4000} : G!TrimFits(item.doc, hint)
    /\ Is("skip") => G!PreSkipKeepsTime(item.doc[1], item.doc[2])
    /\ Is("granule") => G!GranuleFits(item.doc[1], item.doc[2])
\* What the equalizer runs, the gain of a track and its loudness: see Levels.
LevelsHold ==
    /\ Is("eq") => LV!SettingsAgree(item.doc[1], item.doc[2]) /\ LV!PresetsAreValid
    /\ Is("gain") => LV!GainHolds(item.doc)
    /\ Is("gain tag") => LV!TagIsItsNumber(item.doc[1], item.doc[2], item.doc[3], item.doc[4])
    /\ Is("loudness") => LV!LoudnessHolds(item.doc[1], 2, item.doc[2])
\* What the program makes of its arguments: see CommandLine.
CommandsRead ==
    /\ Is("line") => CL!CommandsMeanTheSame(item.doc[1], item.doc[2])
    /\ Is("message") => CL!MessagesComeWhole(item.doc)
\* How one theme takes what another sets, the tokens of a document and the
\* layout of a skin: see Themes and Layout.
AppearanceHolds ==
    /\ Is("themes") => TH!InheritanceHolds(item.doc, TRUE)
    /\ Is("tokens") => TH!TokensHold(item.doc)
    /\ Is("layout") => LY!LayoutHolds(item.doc[1])
==============================================================================
