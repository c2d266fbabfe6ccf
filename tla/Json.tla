---------------------------------- MODULE Json ----------------------------------
(* The JSON of rules, themes, skins and settings: the parser, the writer    *)
(* and pointers. src/desktop/src/core/json/json.cpp                         *)
(*                                                                          *)
(* A source is a sequence of tokens: punctuation, "ws" for a space or a     *)
(* line end, "//" for a comment with its line end, "/*" for one with its    *)
(* end, "open" for one without; a string or another scalar is itself.       *)
(* Strings are modelled apart, character by character, in code points.      *)
EXTENDS Integers, Sequences, FiniteSetsExt, SequencesExt

CONSTANTS MaxDepth, MaxElements,       \* limits of the caller, 64 deep by default
          Comments, TrailingCommas,    \* what the caller allows
          Keys                         \* the strings in the order of std::map

Scalar(x) == [scalar |-> x]
Arr(s) == [arr |-> s]
Obj(f) == [obj |-> f]

-----------------------------------------------------------------------------
(* Parsing. A result is the value, where its tokens end and how many values *)
(* were counted on the way, or Fail.                                        *)

Fail == [fail |-> TRUE]
Tok(src, i) == IF i <= Len(src) THEN src[i] ELSE "eof"

\* A comment that is never closed runs to the end.
RECURSIVE SkipTrivia(_, _)
SkipTrivia(src, i) ==
    CASE Tok(src, i) = "ws" -> SkipTrivia(src, i + 1)
      [] Comments /\ Tok(src, i) \in {"//", "/*"} -> SkipTrivia(src, i + 1)
      [] Comments /\ Tok(src, i) = "open" -> Len(src) + 1
      [] OTHER -> i

Punctuation == {"{", "}", "[", "]", ",", ":", "ws", "//", "/*", "open", "eof"}
IsString(t) == t \in Range(Keys)

\* After a member: another one, the end, or an error. "," before the closer
\* ends it only where trailing commas are allowed.
AfterMember(src, i, closer) ==
    LET at == SkipTrivia(src, i)
        next == SkipTrivia(src, at + 1)
    IN  CASE Tok(src, at) = "," -> IF Tok(src, next) # closer THEN [more |-> at + 1]
                                   ELSE IF TrailingCommas THEN [done |-> next + 1] ELSE Fail
          [] Tok(src, at) = closer -> [done |-> at + 1]
          [] OTHER -> Fail

DuplicateIgnored(key, obj) == FALSE   \* mutant: the last member wins
Duplicate(key, obj) == key \in DOMAIN obj
Insert(obj, key, v) == [k \in DOMAIN obj \cup {key} |-> IF k = key THEN v ELSE obj[k]]

RECURSIVE ParseValue(_, _, _, _), Members(_, _, _, _, _), Items(_, _, _, _, _)
ParseValue(src, i, depth, count) ==
    LET at == SkipTrivia(src, i)
        first == SkipTrivia(src, at + 1)
        t == Tok(src, at)
    IN  CASE depth > MaxDepth \/ count + 1 > MaxElements -> Fail
          [] t = "{" -> IF Tok(src, first) = "}" THEN [v |-> Obj(<<>>), at |-> first + 1, count |-> count + 1]
                        ELSE Members(src, at + 1, depth, count + 1, <<>>)
          [] t = "[" -> IF Tok(src, first) = "]" THEN [v |-> Arr(<<>>), at |-> first + 1, count |-> count + 1]
                        ELSE Items(src, at + 1, depth, count + 1, <<>>)
          [] t \in Punctuation \ {"{", "["} -> Fail
          [] OTHER -> [v |-> Scalar(t), at |-> at + 1, count |-> count + 1]
Members(src, i, depth, count, obj) ==
    LET at == SkipTrivia(src, i)
        colon == SkipTrivia(src, at + 1)
    IN  IF ~IsString(Tok(src, at)) \/ Tok(src, colon) # ":" THEN Fail
        ELSE LET r == ParseValue(src, colon + 1, depth + 1, count)
             IN  IF r = Fail THEN Fail
                 ELSE IF Duplicate(src[at], obj) THEN Fail
                 ELSE LET more == Insert(obj, src[at], r.v)
                          after == AfterMember(src, r.at, "}")
                      IN  CASE after = Fail -> Fail
                            [] "done" \in DOMAIN after -> [v |-> Obj(more), at |-> after.done, count |-> r.count]
                            [] OTHER -> Members(src, after.more, depth, r.count, more)
Items(src, i, depth, count, arr) ==
    LET r == ParseValue(src, i, depth + 1, count)
    IN  IF r = Fail THEN Fail
        ELSE LET more == Append(arr, r.v)
                 after == AfterMember(src, r.at, "]")
             IN  CASE after = Fail -> Fail
                   [] "done" \in DOMAIN after -> [v |-> Arr(more), at |-> after.done, count |-> r.count]
                   [] OTHER -> Items(src, after.more, depth, r.count, more)

Parse(src) ==
    LET r == ParseValue(src, SkipTrivia(src, 1), 0, 0)
    IN  IF r = Fail THEN Fail
        ELSE IF SkipTrivia(src, r.at) # Len(src) + 1 THEN Fail ELSE [v |-> r.v]

-----------------------------------------------------------------------------
(* Writing. With an indent each member starts a line; an object's members   *)
(* come in the order of its map, here that of Keys.                                       *)

Line(indent) == IF indent THEN <<"ws">> ELSE <<>>
Between(parts) == FlattenSeq([k \in DOMAIN parts |-> (IF k > 1 THEN <<",">> ELSE <<>>) \o parts[k]])
RECURSIVE Dump(_, _)
Dump(v, indent) ==
    CASE "scalar" \in DOMAIN v -> <<v.scalar>>
      [] "arr" \in DOMAIN v ->
            IF v.arr = <<>> THEN <<"[", "]">>
            ELSE <<"[">> \o Between([k \in DOMAIN v.arr |-> Line(indent) \o Dump(v.arr[k], indent)])
                    \o Line(indent) \o <<"]">>
      [] OTHER ->
            LET present == SelectSeq(Keys, LAMBDA k : k \in DOMAIN v.obj)
            IN  IF present = <<>> THEN <<"{", "}">>
                ELSE <<"{">> \o Between([k \in DOMAIN present |-> Line(indent)
                        \o <<present[k], ":">> \o Line(indent) \o Dump(v.obj[present[k]], indent)])
                    \o Line(indent) \o <<"}">>

-----------------------------------------------------------------------------
(* Strings, as code points between the quotes.                              *)

Quote == 34
Back == 92
Named == [q |-> 34, b |-> 92, bs |-> 8, f |-> 12, n |-> 10, r |-> 13, t |-> 9]
\* A code point as the writer gives it: an escape by name, \u00xx, or itself.
Escaped(cp) ==
    CASE \E e \in DOMAIN Named : Named[e] = cp -> <<[esc |-> CHOOSE e \in DOMAIN Named : Named[e] = cp]>>
      [] cp < 32 /\ ~\E e \in DOMAIN Named : Named[e] = cp -> <<[u |-> cp]>>
      [] OTHER -> <<[raw |-> cp]>>
Escape(s) == FlattenSeq([k \in DOMAIN s |-> Escaped(s[k])])

High(c) == c \in 55296..56319
Low(c) == c \in 56320..57343
Replacement == 65533
\* A raw control character is an error. Reading the rest back: a pair
\* of surrogates is one code point, an unpaired
\* one the replacement, and a high one swallows the escape after it.
Readable(s) == ~\E k \in DOMAIN s : "raw" \in DOMAIN s[k] /\ s[k].raw < 32
RECURSIVE Unescape(_)
Unescape(s) ==
    IF s = <<>> THEN <<>>
    ELSE LET h == Head(s)
             pair == Len(s) > 1 /\ "u" \in DOMAIN s[2]
         IN  CASE "raw" \in DOMAIN h -> <<h.raw>> \o Unescape(Tail(s))
               [] "esc" \in DOMAIN h -> <<Named[h.esc]>> \o Unescape(Tail(s))
               [] "u" \in DOMAIN h /\ High(h.u) /\ pair ->
                    <<IF Low(s[2].u) THEN 65536 + (h.u - 55296) * 1024 + (s[2].u - 56320) ELSE Replacement>>
                        \o Unescape(SubSeq(s, 3, Len(s)))
               [] "u" \in DOMAIN h /\ (Low(h.u) \/ (High(h.u) /\ ~pair)) -> <<Replacement>> \o Unescape(Tail(s))
               [] OTHER -> <<h.u>> \o Unescape(Tail(s))

-----------------------------------------------------------------------------
(* Numbers and pointers, byte by byte.                                      *)

Txt == INSTANCE Text WITH MaxInt <- 127, MaxPath <- 5
Byte(s, i) == IF i <= Len(s) THEN s[i] ELSE -1
Digit(s, i) == Byte(s, i) \in 48..57
\* The first place at or after i without a digit.
AfterDigits(s, i) == Min({j \in i..Len(s) + 1 : ~Digit(s, j)})
Sign == {43, 45}
\* Where the number that starts a text ends, or Fail: a minus, no zero before
\* another digit, digits on both sides of a point and after an exponent.
NumberEnd(s) ==
    LET first == IF Byte(s, 1) = 45 THEN 2 ELSE 1
        whole == IF Byte(s, first) = 48 THEN first + 1 ELSE AfterDigits(s, first)
        point == Byte(s, whole) = 46
        frac == IF point THEN AfterDigits(s, whole + 1) ELSE whole
        power == Byte(s, frac) \in {69, 101}
        from == IF Byte(s, frac + 1) \in Sign THEN frac + 2 ELSE frac + 1
    IN  IF \/ ~Digit(s, first)
           \/ Byte(s, first) = 48 /\ Digit(s, whole)
           \/ point /\ ~Digit(s, whole + 1)
           \/ power /\ ~Digit(s, from)
        THEN Fail
        ELSE [end |-> IF power THEN AfterDigits(s, from) ELSE frac]

Slash == 47
Tilde == 126
RECURSIVE Token(_)
Token(s) ==
    IF s = <<>> THEN <<>>
    ELSE IF s[1] = Tilde /\ Byte(s, 2) \in {48, 49}
         THEN <<IF s[2] = 48 THEN Tilde ELSE Slash>> \o Token(SubSeq(s, 3, Len(s)))
         ELSE <<s[1]>> \o Token(Tail(s))
Child(v, token) ==
    LET i == Txt!ParseInt(token)
    IN  IF "obj" \in DOMAIN v THEN IF token \in DOMAIN v.obj THEN [v |-> v.obj[token]] ELSE Fail
        ELSE IF "arr" \in DOMAIN v /\ i # Txt!NotANumber THEN IF i.is \in 0..Len(v.arr) - 1 THEN [v |-> v.arr[i.is + 1]] ELSE Fail
        ELSE Fail
RECURSIVE Walk(_, _)
Walk(v, rest) ==
    LET here == Min({i \in DOMAIN rest : rest[i] = Slash} \cup {Len(rest) + 1})
        child == Child(v, Token(SubSeq(rest, 1, here - 1)))
    IN  IF child = Fail \/ here > Len(rest) THEN child ELSE Walk(child.v, SubSeq(rest, here + 1, Len(rest)))
Pointer(v, ptr) == IF ptr = <<>> THEN [v |-> v] ELSE IF ptr[1] # Slash THEN Fail ELSE Walk(v, Tail(ptr))

-----------------------------------------------------------------------------
(* What it promises.                                                        *)

\* The tokens of a document without what may stand anywhere. A comment that
\* is not allowed stays and is an error.
Bare(src) == LET end == IF Comments /\ "open" \in Range(src) THEN Min({i \in DOMAIN src : src[i] = "open"}) - 1 ELSE Len(src)
             IN  SelectSeq(SubSeq(src, 1, end), LAMBDA t : t # "ws" /\ ~(Comments /\ t \in {"//", "/*"}))

\* The grammar, by where a value may be cut: [ v , v ] and { k : v , k : v }.
RECURSIVE IsValue(_, _), Cuts(_, _, _)
Cuts(s, depth, keyed) ==   \* members separated by ",", with a last "," where allowed
    \/ TrailingCommas /\ s # <<>> /\ Last(s) = "," /\ Front(s) # <<>> /\ Last(Front(s)) # ","
          /\ Cuts(Front(s), depth, keyed)
    \/ LET Member(m) == IF keyed THEN Len(m) > 2 /\ IsString(m[1]) /\ m[2] = ":" /\ IsValue(SubSeq(m, 3, Len(m)), depth)
                        ELSE IsValue(m, depth)
       IN  \/ Member(s)
           \/ \E i \in DOMAIN s : s[i] = "," /\ Member(SubSeq(s, 1, i - 1)) /\ Cuts(SubSeq(s, i + 1, Len(s)), depth, keyed)
                                  /\ (i < Len(s))
IsValue(s, depth) ==
    /\ s # <<>> /\ depth <= MaxDepth
    /\ IF Len(s) = 1 THEN s[1] \notin Punctuation
       ELSE LET body == SubSeq(s, 2, Len(s) - 1)
            IN  \/ s[1] = "[" /\ Last(s) = "]" /\ (body = <<>> \/ Cuts(body, depth + 1, FALSE))
                \/ s[1] = "{" /\ Last(s) = "}" /\ (body = <<>> \/ Cuts(body, depth + 1, TRUE))

RECURSIVE Size(_)
Size(v) == CASE "scalar" \in DOMAIN v -> 1
             [] "arr" \in DOMAIN v -> 1 + FoldLeft(LAMBDA a, x : a + Size(x), 0, v.arr)
             [] OTHER -> 1 + MapThenSumSet(LAMBDA k : Size(v.obj[k]), DOMAIN v.obj)
Scalars(src) == Cardinality({i \in DOMAIN src : src[i] \notin Punctuation})

\* The parser accepts only what the grammar does, wherever spaces and
\* comments stand, and loses none of it: every string and scalar of the
\* source is in the value, a repeated member is refused and not overwritten.
\* What it accepted, written out with or without lines, is read back as the
\* same value.
ReadsWhatIsThere(src) ==
    LET r == Parse(src)
        bare == Bare(src)
    IN  /\ r # Fail => IsValue(bare, 0)
        /\ IsValue(bare, 0) /\ r = Fail =>
              \/ Scalars(bare) + Cardinality({i \in DOMAIN bare : bare[i] \in {"{", "["}}) > MaxElements
              \/ \E i, j \in DOMAIN bare : i # j /\ bare[i] = bare[j] /\ IsString(bare[i])
        /\ r # Fail => /\ \A indent \in BOOLEAN : Parse(Dump(r.v, indent)) = r
                       /\ Size(r.v) + Cardinality({i \in DOMAIN bare : bare[i] = ":"}) =
                            Scalars(bare) + Cardinality({i \in DOMAIN bare : bare[i] \in {"{", "["}})

\* Any text written as a string is read back, and whatever escapes came in,
\* what comes out can be written again.
StringReadsBack(s) == Readable(Escape(s)) /\ Unescape(Escape(s)) = s
EscapesGiveText(s) ==
    /\ Range(Unescape(s)) \cap (55296..57343) = {}
    /\ StringReadsBack(Unescape(s))
\* RFC 8259: a number is an optional minus, a zero or a number that does not
\* start with one, and perhaps a point with digits and an exponent. A text is
\* read as a number to its end exactly if it is one.
IsNumeral(s) ==
    LET Digits(t) == t # <<>> /\ \A i \in DOMAIN t : Digit(t, i)
        Part(i, j) == SubSeq(s, i, j - 1)
    IN  \E first \in {1, 2}, whole, frac \in 1..Len(s) + 1 :
            /\ first <= whole /\ whole <= frac
            /\ Part(1, first) \in {<<>>, <<45>>}
            /\ Digits(Part(first, whole)) /\ (Part(first, whole)[1] = 48 => whole = first + 1)
            /\ whole = frac \/ (s[whole] = 46 /\ Digits(Part(whole + 1, frac)))
            /\ frac = Len(s) + 1 \/ (/\ s[frac] \in {69, 101}
                                      /\ \E from \in {frac + 1, frac + 2} :
                                           (from = frac + 2 => Byte(s, frac + 1) \in Sign) /\ Digits(SubSeq(s, from, Len(s))))
NumeralsAsInTheGrammar(s) == NumberEnd(s) = [end |-> Len(s) + 1] <=> IsNumeral(s)

\* Every node of a value with the pointer its place is written as.
Written(key) == FlattenSeq([k \in DOMAIN key |-> CASE key[k] = Tilde -> <<Tilde, 48>> [] key[k] = Slash -> <<Tilde, 49>> [] OTHER -> <<key[k]>>])
RECURSIVE Nodes(_)
Nodes(v) ==
    LET Under(step, w) == {<<<<Slash>> \o step \o n[1], n[2]>> : n \in Nodes(w)}
    IN  {<<<<>>, v>>} \cup CASE "obj" \in DOMAIN v -> UNION {Under(Written(k), v.obj[k]) : k \in DOMAIN v.obj}
                            [] "arr" \in DOMAIN v -> UNION {Under(<<47 + i>>, v.arr[i]) : i \in DOMAIN v.arr}
                            [] OTHER -> {}
\* A pointer made of a value's own keys leads back to the node it was made from
\* (fuzz_json.cpp:18), and no other pointer leads anywhere, unless it has a
\* tilde that escapes nothing or an index with zeros, a sign or spaces.
PointersLead(v, ptr) ==
    /\ \A n \in Nodes(v) : Pointer(v, n[1]) = [v |-> n[2]]
    /\ Pointer(v, ptr) # Fail =>
          \/ \E n \in Nodes(v) : n = <<ptr, Pointer(v, ptr).v>>
          \/ \E i \in DOMAIN ptr : ptr[i] = Tilde /\ Byte(ptr, i + 1) \notin {48, 49}
          \/ \E i \in DOMAIN ptr : ptr[i] = Slash /\ Byte(ptr, i + 1) \in Sign \cup {48} /\ Byte(ptr, i + 2) \notin {-1, Slash}
          \/ 32 \in Range(ptr)
=============================================================================
