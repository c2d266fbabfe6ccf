---------------------------------- MODULE Text ----------------------------------
(* The text helpers every other part leans on: UTF-8, case and diacritics,  *)
(* trimming and sort keys, splitting, strict numbers, globs, the bounded    *)
(* edit distance and the normal form of a path of an archive.               *)
(* src/desktop/src/core/text.cpp                                            *)
(*                                                                          *)
(* A text is a sequence of bytes, a text that was decoded one of code       *)
(* points.                                                                  *)
EXTENDS Integers, Sequences, FiniteSetsExt, SequencesExt

CONSTANTS
    MaxInt,      \* greatest integer (2^63 - 1 in the code)
    MaxPath      \* longest path (200)

-----------------------------------------------------------------------------
(* UTF-8                                                                    *)

Replacement == 65533
Cont(b) == b \in 128..191
Need(c0) == IF c0 < 224 THEN 1 ELSE IF c0 < 240 THEN 2 ELSE 3
Lead(c0) == CASE Need(c0) = 1 -> c0 % 32 [] Need(c0) = 2 -> c0 % 16 [] OTHER -> c0 % 8
Least(need) == CASE need = 1 -> 128 [] need = 2 -> 2048 [] OTHER -> 65536
Surrogate(cp) == cp \in 55296..57343

\* The code point at i, and the bytes it takes: a malformed lead is one byte.
DecodeAt(s, i) ==
    LET c0 == s[i]
        need == Need(c0)
        cp == FoldLeft(LAMBDA a, b : a * 64 + (b % 64), Lead(c0), SubSeq(s, i + 1, i + need))
    IN  CASE c0 < 128 -> [cp |-> c0, size |-> 1]
          [] c0 \in 194..244 /\ i + need <= Len(s)
                /\ (\A k \in i + 1..i + need : Cont(s[k]))
                /\ ~Surrogate(cp) /\ cp <= 1114111 /\ cp >= Least(need)
             -> [cp |-> cp, size |-> need + 1]
          [] OTHER -> [cp |-> Replacement, size |-> 1]

RECURSIVE DecodeFrom(_, _)
DecodeFrom(s, i) == IF i > Len(s) THEN <<>>
                    ELSE LET d == DecodeAt(s, i) IN <<d>> \o DecodeFrom(s, i + d.size)
PointsOf(ds) == [k \in DOMAIN ds |-> ds[k].cp]
Points(s) == PointsOf(DecodeFrom(s, 1))
AllReal(ds) == \A k \in DOMAIN ds : ds[k].cp = Replacement => ds[k].size = 3
IsValid(s) == AllReal(DecodeFrom(s, 1))

Encode(cp) ==
    CASE cp < 128 -> <<cp>>
      [] cp \in 128..2047 -> <<192 + cp \div 64, 128 + (cp % 64)>>
      [] Surrogate(cp) \/ cp > 1114111 -> <<239, 191, 189>>
      [] cp \in 2048..65535 -> <<224 + cp \div 4096, 128 + ((cp \div 64) % 64), 128 + (cp % 64)>>
      [] OTHER -> <<240 + cp \div 262144, 128 + ((cp \div 4096) % 64), 128 + ((cp \div 64) % 64), 128 + (cp % 64)>>
EncodeAll(cps) == FlattenSeq([k \in DOMAIN cps |-> Encode(cps[k])])

Sanitize(s) == EncodeAll(Points(s))
SizeOf(ds) == FoldLeft(LAMBDA a, d : a + d.size, 0, ds)
FirstOf(ds, n) == SubSeq(ds, 1, IF n < Len(ds) THEN n ELSE Len(ds))
OffsetOf(s, n) == SizeOf(FirstOf(DecodeFrom(s, 1), n))
Substr(s, start, count) == SubSeq(s, OffsetOf(s, start) + 1, OffsetOf(s, start + count))

-----------------------------------------------------------------------------
(* Case, diacritics, spaces                                                 *)

ToLower(c) ==
    CASE c \in 65..90 -> c + 32
      [] c \in 192..222 \ {215} -> c + 32
      [] c \in {304, 305} -> c
      [] c = 376 -> 255
      [] c \in 313..328 \cup 377..382 -> IF c % 2 = 1 THEN c + 1 ELSE c
      [] c \in (256..383) \ ({304, 305, 376} \cup 313..328 \cup 377..382) -> IF c % 2 = 0 THEN c + 1 ELSE c
      [] c \in 913..937 \cup 1040..1071 -> c + 32
      [] c \in 1024..1039 -> c + 80
      [] OTHER -> c
ToUpper(c) ==
    CASE c \in 97..122 -> c - 32
      [] c \in 224..254 \ {247} -> c - 32
      [] c = 255 -> 376
      [] c \in 314..329 \cup 378..382 -> IF c % 2 = 0 THEN c - 1 ELSE c
      [] c \in (256..383) \ (314..329 \cup 378..382) -> IF c % 2 = 1 THEN c - 1 ELSE c
      [] c \in 945..969 \cup 1072..1103 -> c - 32
      [] c \in 1104..1119 -> c - 80
      [] OTHER -> c

\* The first code point of each run of letters with one base, and the base.
Bases == {<<192, 65>>, <<199, 67>>, <<200, 69>>, <<204, 73>>, <<208, 68>>, <<209, 78>>, <<210, 79>>,
          <<217, 85>>, <<221, 89>>, <<222, 84>>, <<256, 65>>, <<262, 67>>, <<270, 68>>, <<274, 69>>,
          <<284, 71>>, <<292, 72>>, <<296, 73>>, <<308, 74>>, <<310, 75>>, <<313, 76>>, <<323, 78>>,
          <<332, 79>>, <<340, 82>>, <<346, 83>>, <<354, 84>>, <<360, 85>>, <<372, 87>>, <<374, 89>>,
          <<377, 90>>, <<383, 83>>}
BaseOf(c) == (CHOOSE b \in Bases : b[1] <= c /\ \A o \in Bases : o[1] <= c => o[1] <= b[1])[2]
SmallExtended(c) == c \in {312, 329, 383}
                    \/ c % 2 = (IF c \in 313..328 \cup 377..382 THEN 0 ELSE 1)
StripDiacritic(c) ==
    CASE c \in 192..222 \ {215} -> BaseOf(c)
      [] c \in 223..255 \ {247} -> CASE c = 223 -> 115 [] c = 255 -> 121 [] OTHER -> BaseOf(c - 32) + 32
      [] c \in 256..383 -> BaseOf(c) + (IF SmallExtended(c) THEN 32 ELSE 0)
      [] OTHER -> c

LowerPoints(cps) == [k \in DOMAIN cps |-> ToLower(cps[k])]
UpperPoints(cps) == [k \in DOMAIN cps |-> ToUpper(cps[k])]
Lowered(s) == EncodeAll(LowerPoints(Points(s)))
Uppered(s) == EncodeAll(UpperPoints(Points(s)))

Space == {32, 9, 10, 13, 11, 12, 160, 8232, 8233, 12288} \cup 8192..8202
IsSpace(c) == c \in Space
TitlePoints(cps) ==
    LET Boundary == Space \cup {40, 91, 123, 34, 39, 45, 47, 46}
    IN  [k \in DOMAIN cps |-> IF k = 1 \/ cps[k - 1] \in Boundary THEN ToUpper(cps[k]) ELSE ToLower(cps[k])]
ToTitle(s) == EncodeAll(TitlePoints(Points(s)))

RECURSIVE TrimLeft(_)
TrimLeft(s) == IF s # <<>> /\ IsSpace(DecodeAt(s, 1).cp)
               THEN TrimLeft(SubSeq(s, DecodeAt(s, 1).size + 1, Len(s))) ELSE s
\* Back over continuation bytes to what may be the lead of the last code point.
LastStart(s) == CHOOSE i \in 1..Len(s) : /\ i = 1 \/ ~Cont(s[i])
                                        /\ \A k \in i + 1..Len(s) : Cont(s[k])
RECURSIVE TrimRight(_)
TrimRight(s) == IF s # <<>> /\ IsSpace(DecodeAt(s, LastStart(s)).cp)
                THEN TrimRight(SubSeq(s, 1, LastStart(s) - 1)) ELSE s
Trim(s) == TrimRight(TrimLeft(s))

\* A run of spaces is one space, and none at either end.
CollapsePoints(cps) ==
    LET Word(k) == ~IsSpace(cps[k])
        Cell(k) == IF ~Word(k) THEN <<>>
                   ELSE (IF k > 1 /\ ~Word(k - 1) /\ \E j \in 1..k - 1 : Word(j) THEN <<32>> ELSE <<>>)
                            \o Encode(cps[k])
    IN  FlattenSeq([k \in DOMAIN cps |-> Cell(k)])
CollapseWhitespace(s) == CollapsePoints(Points(s))

AsciiLower(b) == IF b \in 65..90 THEN b + 32 ELSE b
IEquals(a, b) == Len(a) = Len(b) /\ \A i \in DOMAIN a : AsciiLower(a[i]) = AsciiLower(b[i])
IStartsWith(s, p) == Len(s) >= Len(p) /\ IEquals(SubSeq(s, 1, Len(p)), p)
IEndsWith(s, p) == Len(s) >= Len(p) /\ IEquals(SubSeq(s, Len(s) - Len(p) + 1, Len(s)), p)
IContains(s, p) == \E i \in 0..Len(s) - Len(p) : IEquals(SubSeq(s, i + 1, i + Len(p)), p)

-----------------------------------------------------------------------------
(* Sort keys and lists of values                                            *)

FoldedPoints(cps) == [k \in DOMAIN cps |-> StripDiacritic(ToLower(cps[k]))]
Folded(s) == EncodeAll(FoldedPoints(Points(s)))

\* What an article takes off the key: itself and its separator, or nothing.
Takes(key, art) ==
    CASE art = <<>> \/ ~IStartsWith(key, art) -> 0
      [] Last(art) = 39 -> Len(art)
      [] Len(key) > Len(art) /\ key[Len(art) + 1] \in {32, 39} -> Len(art) + 1
      [] OTHER -> 0
WithoutArticle(key, articles) == SubSeq(key, 1 + Max({0} \cup {Takes(key, a) : a \in articles}), Len(key))
SortKey(display, articles) == Trim(WithoutArticle(CollapseWhitespace(Folded(display)), articles))

\* The longest separator that starts at i, as a length; 0 when none does.
SeparatorAt(s, i, seps) ==
    Max({0} \cup {Len(p) : p \in {q \in seps : i + Len(q) - 1 <= Len(s)
                                     /\ IEquals(SubSeq(s, i, i + Len(q) - 1), q)}})
RECURSIVE Pieces(_, _, _)
Pieces(s, i, seps) ==
    LET n == IF i > Len(s) THEN 0 ELSE SeparatorAt(s, i, seps)
        rest == Pieces(s, i + (IF n > 0 THEN n ELSE 1), seps)
    IN  IF i > Len(s) THEN <<<<>>>>
        ELSE IF n > 0 THEN <<<<>>>> \o rest
        ELSE <<<<s[i]>> \o rest[1]>> \o Tail(rest)
SplitMulti(s, seps) ==
    LET parts == Pieces(s, 1, seps)
    IN  SelectSeq([k \in DOMAIN parts |-> Trim(parts[k])], LAMBDA v : v # <<>>)
\* At every delimiter, as it stands; pieces are not trimmed.
Cuts(s, delim) == {0, Len(s) + 1} \cup {i \in DOMAIN s : s[i] = delim}
PiecesAt(s, cuts) ==
    LET at == SetToSortSeq(cuts, <)
    IN  [k \in 1..Len(at) - 1 |-> SubSeq(s, at[k] + 1, at[k + 1] - 1)]
Split(s, delim, keepEmpty) == SelectSeq(PiecesAt(s, Cuts(s, delim)), LAMBDA v : keepEmpty \/ v # <<>>)
JoinWith(parts, glue) ==
    FlattenSeq([k \in DOMAIN parts |-> (IF k > 1 THEN glue ELSE <<>>) \o parts[k]])

RECURSIVE ReplaceFrom(_, _, _)
ReplaceFrom(s, find, repl) ==
    LET at == {i \in 1..Len(s) - Len(find) + 1 : SubSeq(s, i, i + Len(find) - 1) = find}
    IN  IF at = {} THEN s
        ELSE SubSeq(s, 1, Min(at) - 1) \o repl
                \o ReplaceFrom(SubSeq(s, Min(at) + Len(find), Len(s)), find, repl)
ReplaceEach(s, find, repl) == IF find = <<>> THEN s ELSE ReplaceFrom(s, find, repl)

-----------------------------------------------------------------------------
(* Numbers                                                                  *)

NotANumber == [no |-> TRUE]
IsDigit(b) == b \in 48..57
ReadInt(t) ==
    LET signed == t # <<>> /\ t[1] \in {43, 45}
        digits == IF signed THEN Tail(t) ELSE t
        limit == IF signed /\ t[1] = 45 THEN MaxInt + 1 ELSE MaxInt
        acc == FoldLeft(LAMBDA a, b : IF a = -1 \/ ~IsDigit(b) THEN -1
                                      ELSE IF a > (limit - (b - 48)) \div 10 THEN -1
                                      ELSE a * 10 + b - 48, 0, digits)
    IN  IF digits = <<>> \/ acc = -1 THEN NotANumber
        ELSE [is |-> IF signed /\ t[1] = 45 THEN -acc ELSE acc]
ParseInt(s) == ReadInt(Trim(s))

\* A decimal as [is, places], for is / 10^places. What strtod() also reads, an
\* exponent, a hexadecimal, "inf", is left out.
Dot == 46
WholePart(t) == IF t # <<>> /\ t[1] \in {43, 45} THEN Tail(t) ELSE t
DigitsOf(t) == SelectSeq(t, IsDigit)
ValueOfDigits(t) == FoldLeft(LAMBDA a, b : a * 10 + b - 48, 0, t)
ReadDecimal(t, body) ==
    LET points == {i \in DOMAIN body : body[i] = Dot}
        digits == DigitsOf(body)
    IN  IF Len(t) > 64 \/ digits = <<>> \/ Cardinality(points) > 1 \/ Len(body) # Len(digits) + Cardinality(points) THEN NotANumber
        ELSE [is |-> (IF t[1] = 45 THEN -1 ELSE 1) * ValueOfDigits(digits),
              places |-> IF points = {} THEN 0 ELSE Len(body) - Max(points)]
DecimalOf(t) == ReadDecimal(t, WholePart(t))
ParseDouble(s) == DecimalOf(Trim(s))

HexDigit(b) == CASE b \in 48..57 -> b - 48 [] b \in 97..102 -> b - 87 [] b \in 65..70 -> b - 55 [] OTHER -> 16
ReadHex(t) ==
    IF Len(t) \notin 1..16 \/ \E i \in DOMAIN t : HexDigit(t[i]) = 16 THEN NotANumber
    ELSE [is |-> FoldLeft(LAMBDA a, b : a * 16 + HexDigit(b), 0, t)]
ParseHex(s) == ReadHex(Trim(s))

-----------------------------------------------------------------------------
(* Globs: greedy, back to the last star only. Bytes stand for themselves.   *)

Star == 42
One == 63
Open == 91
Close == 93
Dash == 45
Norm(b, cs) == IF cs THEN b ELSE AsciiLower(b)

\* The class that opens at p: where it closes (past the end when it does
\* not), whether it is negated, and its members. The first one may be "]".
ClassAt(p, at) ==
    LET negate == at + 1 <= Len(p) /\ p[at + 1] \in {33, 94}
        first == at + (IF negate THEN 2 ELSE 1)
        RECURSIVE Items(_)
        Items(i) == IF i > Len(p) \/ (p[i] = Close /\ i # first) THEN [close |-> i, in |-> {}]
                    ELSE IF i + 2 <= Len(p) /\ p[i + 1] = Dash /\ p[i + 2] # Close
                    THEN [Items(i + 3) EXCEPT !.in = @ \cup {<<p[i], p[i + 2]>>}]
                    ELSE [Items(i + 1) EXCEPT !.in = @ \cup {<<p[i], p[i]>>}]
    IN  [close |-> Items(first).close, negate |-> negate, in |-> Items(first).in]
InClass(b, class, cs) ==
    (\E r \in class.in : Norm(b, cs) \in Norm(r[1], cs)..Norm(r[2], cs)) # class.negate

RetryAfterStar(star, s) == IF star = <<>> THEN <<>> ELSE <<star[1] + 1, star[2] + 1>>
RECURSIVE GlobFrom(_, _, _, _, _, _)
GlobFrom(p, t, i, j, star, cs) ==
    LET class == ClassAt(p, i)
        retry == RetryAfterStar(star, t)
        Backtrack == IF retry = <<>> THEN FALSE
                     ELSE GlobFrom(p, t, retry[1], retry[2], <<star[1], retry[2]>>, cs)
    IN  CASE j > Len(t) -> \A k \in i..Len(p) : p[k] = Star
          [] j <= Len(t) /\ i > Len(p) -> Backtrack
          [] OTHER ->
             CASE p[i] = Open -> IF class.close <= Len(p) /\ InClass(t[j], class, cs)
                                 THEN GlobFrom(p, t, class.close + 1, j + 1, star, cs) ELSE Backtrack
               [] p[i] # Open /\ (p[i] = One \/ Norm(p[i], cs) = Norm(t[j], cs))
                                 -> GlobFrom(p, t, i + 1, j + 1, star, cs)
               [] p[i] = Star /\ Norm(t[j], cs) # Star -> GlobFrom(p, t, i + 1, j, <<i, j>>, cs)
               [] OTHER -> Backtrack
GlobMatch(p, t, cs) == GlobFrom(p, t, 1, 1, <<>>, cs)

-----------------------------------------------------------------------------
(* The distance of two words, in rows, given up when a row is past the bound. *)

RowNoSwap(a, b, i, prev, prev2) ==   \* mutant: a swap costs two
    LET cell[j \in 0..Len(b)] ==
            IF j = 0 THEN i ELSE Min({prev[j] + 1, cell[j - 1] + 1,
                                      prev[j - 1] + (IF a[i] = b[j] THEN 0 ELSE 1)})
    IN  cell
Row(a, b, i, prev, prev2) ==
    LET cell[j \in 0..Len(b)] ==
            IF j = 0 THEN i
            ELSE LET plain == Min({prev[j] + 1, cell[j - 1] + 1,
                                   prev[j - 1] + (IF a[i] = b[j] THEN 0 ELSE 1)})
                 IN  IF i > 1 /\ j > 1 /\ a[i] = b[j - 1] /\ a[i - 1] = b[j]
                     THEN Min({plain, prev2[j - 2] + 1}) ELSE plain
    IN  cell
RECURSIVE DistanceFrom(_, _, _, _, _, _)
DistanceFrom(a, b, i, prev, prev2, bound) ==
    IF i > Len(a) THEN Min({prev[Len(b)], bound + 1})
    ELSE LET cur == Row(a, b, i, prev, prev2)
         IN  IF Min({cur[j] : j \in 0..Len(b)}) > bound THEN bound + 1
             ELSE DistanceFrom(a, b, i + 1, cur, prev, bound)
EditDistance(a, b, bound) ==
    LET first == [j \in 0..Len(b) |-> j]
    IN  CASE Len(a) > Len(b) + bound \/ Len(b) > Len(a) + bound -> bound + 1
          [] Len(a) = 0 -> Len(b)
          [] Len(b) = 0 -> Len(a)
          [] OTHER -> DistanceFrom(a, b, 1, first, [j \in 0..Len(b) |-> 0], bound)

-----------------------------------------------------------------------------
(* Paths inside an archive                                                  *)

Slash == 47
Backslash == 92
Control(b) == b < 32 \/ b = 127
Segments(p) ==
    LET cuts == {0, Len(p) + 1} \cup {i \in DOMAIN p : p[i] \in {Slash, Backslash}}
        ends == SetToSortSeq(cuts, <)
    IN  [k \in 1..Len(ends) - 1 |-> SubSeq(p, ends[k] + 1, ends[k + 1] - 1)]
Rooted(p) == p[1] \in {Slash, Backslash} \/ (Len(p) >= 2 /\ p[2] = 58)
HasControl(p) == \E i \in DOMAIN p : Control(p[i])
IsUnsafe(p) == \/ p = <<>> \/ Len(p) > MaxPath
               \/ Rooted(p) \/ HasControl(p)
               \/ <<Dot, Dot>> \in Range(Segments(p))
Refused == <<>>
Resolved(p) ==   \* the stack of segments; [no] once ".." leaves the root
    FoldLeft(LAMBDA a, seg :
                CASE a = NotANumber \/ seg \in {<<>>, <<Dot>>} -> a
                  [] OTHER -> IF seg # <<Dot, Dot>> THEN [is |-> Append(a.is, seg)]
                              ELSE IF a.is = <<>> THEN NotANumber ELSE [is |-> Front(a.is)],
             [is |-> <<>>], Segments(p))
NormalizePath(p) ==
    IF p = <<>> \/ Rooted(p) \/ HasControl(p) \/ Resolved(p) = NotANumber THEN Refused
    ELSE LET out == JoinWith(Resolved(p).is, <<Slash>>)
         IN  IF IsUnsafe(out) THEN Refused ELSE out

-----------------------------------------------------------------------------
(* What the helpers promise, stated without their loops.                    *)

\* Whatever bytes come in, sanitising gives valid UTF-8 and leaves valid
\* text alone; cutting by code points never splits one.
Utf8Kept(s) ==
    /\ IsValid(Sanitize(s)) /\ (IsValid(s) => Sanitize(s) = s)
    /\ IsValid(s) => \A a, n \in 0..2 : IsValid(Substr(s, a, n))
    /\ Sanitize(Sanitize(s)) = Sanitize(s)
    /\ IsValid(s) => /\ Trim(Trim(s)) = Trim(s) /\ Trim(CollapseWhitespace(s)) = CollapseWhitespace(s)

\* Every code point survives being written and read, and what is no code
\* point is written as the replacement. Folding for a key undoes the case of
\* a letter of Latin-1.
CodePointKept(cp) ==
    /\ Points(Encode(cp)) = <<IF Surrogate(cp) \/ cp > 1114111 THEN Replacement ELSE cp>>
    /\ cp \in 192..222 => StripDiacritic(ToLower(cp)) = ToLower(StripDiacritic(cp))
    /\ cp \in 0..255 => ToLower(ToUpper(cp)) = ToLower(cp)

\* The matching a glob describes: each "*" is any text at all.
RECURSIVE Describes(_, _, _)
Describes(p, t, cs) ==
    CASE p = <<>> -> t = <<>>
      [] p # <<>> /\ p[1] = Star -> \E k \in 0..Len(t) : Describes(Tail(p), SubSeq(t, k + 1, Len(t)), cs)
      [] OTHER ->
           /\ t # <<>>
           /\ IF p[1] = Open
              THEN LET c == ClassAt(p, 1)
                   IN  c.close <= Len(p) /\ InClass(t[1], c, cs)
                          /\ Describes(SubSeq(p, c.close + 1, Len(p)), Tail(t), cs)
              ELSE (p[1] = One \/ Norm(p[1], cs) = Norm(t[1], cs)) /\ Describes(Tail(p), Tail(t), cs)
\* The greedy matcher, which only ever goes back to the last star, accepts
\* nothing the glob does not describe, and all that it does describe except
\* some of the texts with a star in them: a star of the pattern that meets one
\* of the text is taken for that one character (text.cpp:695).
GlobAgrees(p, t, cs) ==
    /\ GlobMatch(p, t, cs) => Describes(p, t, cs)
    /\ (\A i \in DOMAIN t : t[i] # Star) /\ Describes(p, t, cs) => GlobMatch(p, t, cs)

\* The least number of edits (a swap of neighbours is one), as a recursion.
RECURSIVE Edits(_, _)
Edits(a, b) ==
    IF a = <<>> \/ b = <<>> THEN Len(a) + Len(b)
    ELSE Min({Edits(Front(a), b) + 1, Edits(a, Front(b)) + 1,
              Edits(Front(a), Front(b)) + (IF Last(a) = Last(b) THEN 0 ELSE 1)}
             \cup (IF Len(a) > 1 /\ Len(b) > 1 /\ Last(a) = b[Len(b) - 1] /\ Last(b) = a[Len(a) - 1]
                   THEN {Edits(SubSeq(a, 1, Len(a) - 2), SubSeq(b, 1, Len(b) - 2)) + 1} ELSE {}))
\* Giving up early never gives up on a word within the bound.
DistanceAgrees(a, b, bound) == EditDistance(a, b, bound) = Min({Edits(a, b), bound + 1})

\* A path that is accepted is safe, names no parent, is its own normal form
\* and is made of the segments it had.
PathIsSafe(p) ==
    LET out == NormalizePath(p)
    IN  out # Refused => /\ ~IsUnsafe(out) /\ NormalizePath(out) = out
                         /\ {<<>>, <<Dot>>, <<Dot, Dot>>} \cap Range(Segments(out)) = {}
                         /\ Range(Segments(out)) \subseteq Range(Segments(p))

ValueOf(digits) == MapThenSumSet(LAMBDA i : (digits[i] - 48) * 10^(Len(digits) - i), DOMAIN digits)
\* A number is read exactly or refused: nothing wraps at either end.
NumberIsExact(sign, digits) ==
    LET v == (IF sign = <<45>> THEN -1 ELSE 1) * ValueOf(digits)
    IN  ParseInt(<<32>> \o sign \o digits \o <<32>>) =
            IF digits # <<>> /\ (\A i \in DOMAIN digits : IsDigit(digits[i])) /\ v \in -MaxInt - 1..MaxInt THEN [is |-> v] ELSE NotANumber

\* A hexadecimal is the number whose digits it has, and the case of a letter
\* makes no difference.
RECURSIVE Hexed(_, _)
Hexed(n, ten) == (IF n < 16 THEN <<>> ELSE Hexed(n \div 16, ten)) \o <<IF n % 16 < 10 THEN 48 + (n % 16) ELSE ten + (n % 16) - 10>>
HexIsExact(n) == \A ten \in {97, 65} : ParseHex(Hexed(n, ten)) = [is |-> n]

\* What a text holds, begins or ends with is what the glob with a star there says.
ContainsAgrees(s, p) ==
    /\ IContains(s, p) <=> GlobMatch(<<Star>> \o p \o <<Star>>, s, FALSE)
    /\ IStartsWith(s, p) <=> GlobMatch(p \o <<Star>>, s, FALSE)
    /\ IEndsWith(s, p) <=> GlobMatch(<<Star>> \o p, s, FALSE)

\* Two spellings of one name sort together: case, accents and extra spaces
\* make no difference to the key. The values of a tag come apart at each
\* separator and no value is empty.
KeysTogether(s, articles) ==
    LET cps == Points(s)
        spaced == EncodeAll(<<32>> \o FlattenSeq([k \in DOMAIN cps |-> IF IsSpace(cps[k]) THEN <<32, 9>>
                                                                       ELSE <<cps[k]>>]))
    IN  /\ SortKey(spaced, articles) = SortKey(s, articles)
        /\ SortKey(Folded(s), articles) = SortKey(s, articles)
ValuesComeApart(s, seps) ==
    LET parts == SplitMulti(s, seps)
    IN  /\ \A k \in DOMAIN parts : parts[k] = Trim(parts[k]) /\ parts[k] # <<>>
        /\ \A k \in DOMAIN parts : SplitMulti(parts[k], seps) = <<parts[k]>>
        /\ ReplaceEach(JoinWith(parts, <<59>>), <<59>>, <<>>) = FlattenSeq(parts)
        /\ \A delim \in {59, 47} : /\ JoinWith(Split(s, delim, TRUE), <<delim>>) = s
                                    /\ FlattenSeq(Split(s, delim, FALSE)) = SelectSeq(s, LAMBDA b : b # delim)
=============================================================================
