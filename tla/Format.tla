--------------------------------- MODULE Format ---------------------------------
(* Title formats: the pattern language of columns and title bars, parsed    *)
(* once and evaluated for each track. Texts are bytes, as in Text.          *)
(* src/desktop/src/core/format/                                             *)
EXTENDS Text

CONSTANTS
    NameOf,      \* the identifiers known here, from their bytes to a name
    MaxNesting,  \* blocks in blocks (64)
    ArgCap,      \* greatest repetition or width (256)
    MonthNames,  \* the twelve of them
    DecimalComma, \* whether the locale is a German one
    Now          \* the day since 1970 and its second

-----------------------------------------------------------------------------
(* Nodes of a pattern                                                       *)

Lit(t) == [k |-> "lit", text |-> t]
Field(name, spec, width) == [k |-> "field", name |-> name, spec |-> spec, width |-> width]
Call(name, args) == [k |-> "call", name |-> name, args |-> args]
Block(body) == [k |-> "block", body |-> body]

IdentStart(b) == b \in 65..90 \cup 97..122 \cup {95}
IdentCont(b) == IdentStart(b) \/ IsDigit(b)
Named(ident) == IF ident \in DOMAIN NameOf THEN NameOf[ident] ELSE "unknown"

\* The names the table of the parser lets through: it asks for a name under
\* its length, and several are listed under another one ("len" under 5).
KnownFunction(f) ==
    f \in {"if", "if2", "if3", "add", "min", "max", "sub", "mul", "div", "mod", "abs", "num", "tab",
           "sub2", "left", "date", "year", "char", "crlf", "time", "upper", "lower", "title",
           "round", "stars", "fixed", "right", "meta_sep"}
ValidArity(f, n) ==
    CASE f \in {"crlf", "tab"} -> n = 0
      [] f \in {"char", "upper", "lower", "title", "trim", "len", "caps", "abs", "year", "age", "time", "timems", "sub2"} -> n = 1
      [] f \in {"round", "date", "abbr", "meta_sep", "stars"} -> n \in 1..2
      [] f \in {"cut", "right", "left", "div", "mod", "repeat", "fixed", "num", "strchr", "strstr", "replace", "insert", "if2"} -> n = 2
      [] f \in {"if", "pad", "padright", "sub"} -> n \in 2..3
      [] f \in {"add", "mul", "if3"} -> n >= 2
      [] f \in {"min", "max"} -> n >= 1
      [] f = "progress" -> n \in 3..5
      [] OTHER -> n = 4

-----------------------------------------------------------------------------
(* The parser. A result is the nodes, where it stopped, whether something   *)
(* was reported, and whether the program died on the way.                   *)

Got(nodes, at, problem) == [nodes |-> nodes, at |-> at, problem |-> problem, dies |-> FALSE]
IdentEnd(src, i) == Max({i} \cup {j \in i..Len(src) + 1 : \A k \in i..j - 1 : IdentCont(src[k])})
At(src, i) == IF i <= Len(src) THEN src[i] ELSE -1

\* What is malformed is to be kept as text. Its start was saved as the sigil
\* and not as its place, so the text starts at byte 36 ("$") or 37 ("%") of
\* the source, and runs to the end when the call is before that; a source
\* that is shorter throws where nothing may.
Malformed(src, sigil, at) ==
    [nodes |-> <<Lit(SubSeq(src, sigil + 1, IF at - 1 < sigil THEN Len(src) ELSE at - 1))>>, at |-> at, problem |-> TRUE, dies |-> sigil > Len(src)]

QuotedRun(src, i) ==
    LET ends == {j \in i + 1..Len(src) : src[j] = 39}
    IN  IF ends = {} THEN Got(<<Lit(SubSeq(src, i + 1, Len(src)))>>, Len(src) + 1, TRUE)
        ELSE Got(<<Lit(SubSeq(src, i + 1, Min(ends) - 1))>>, Min(ends) + 1, FALSE)

Width(digits) == FoldLeft(LAMBDA w, b : IF w * 10 + b - 48 > 99 THEN 99 ELSE w * 10 + b - 48, 0, digits)
FieldRef(src, i) ==
    LET start == i + 1
        stop == IdentEnd(src, start)
        letter == At(src, stop + 1) \in {117, 108, 116}
        digits == SubSeq(src, stop + 1, Max({stop} \cup {j \in stop + 1..Len(src) : \A k \in stop + 1..j : IsDigit(src[k])}))
        end == CASE At(src, stop) # 58 -> stop
                 [] At(src, stop) = 58 /\ letter -> stop + 2
                 [] OTHER -> stop + 1 + Len(digits)
        spec == CASE At(src, stop) # 58 -> "none"
                  [] At(src, stop) = 58 /\ letter -> (CASE src[stop + 1] = 117 -> "upper" [] src[stop + 1] = 108 -> "lower" [] OTHER -> "title")
                  [] OTHER -> IF Width(digits) > 0 THEN "zeropad" ELSE "none"
    IN  CASE ~IdentStart(At(src, start)) ->
               IF At(src, start) = 37 THEN Got(<<Lit(<<37, 37>>)>>, i + 2, TRUE) ELSE Got(<<Lit(<<37>>)>>, i + 1, TRUE)
          [] IdentStart(At(src, start)) /\ At(src, end) # 37 -> Malformed(src, 37, end)
          [] OTHER -> Got(<<Field(Named(SubSeq(src, start, stop - 1)), spec, IF spec = "zeropad" THEN Width(digits) ELSE 0)>>,
                          end + 1, FALSE)

\* A pattern up to the closer of what is open around it: any ")" or "]" ends
\* it inside a call or a block, none does at the top. A "," is text, so a
\* call has one argument or none.
RECURSIVE ParsePattern(_, _, _), ParseNode(_, _, _)
ParsePattern(src, i, open) ==
    IF i > Len(src) \/ (open > 0 /\ src[i] \in {41, 93}) THEN Got(<<>>, i, FALSE)
    ELSE LET node == ParseNode(src, i, open)
             rest == ParsePattern(src, node.at, open)
         IN  IF node.dies THEN node
             ELSE [rest EXCEPT !.nodes = node.nodes \o @, !.problem = @ \/ node.problem]
ParseNode(src, i, open) ==
    CASE src[i] = 39 -> QuotedRun(src, i)
      [] src[i] = 37 -> FieldRef(src, i)
      [] src[i] = 36 ->
           LET stop == IdentEnd(src, i + 1)
               name == Named(SubSeq(src, i + 1, stop - 1))
               arg == IF At(src, stop + 1) \in {41, -1} THEN Got(<<>>, stop + 1, FALSE) ELSE ParsePattern(src, stop + 1, 1)
               args == IF At(src, stop + 1) \in {41, -1} THEN <<>> ELSE <<arg.nodes>>
           IN  CASE ~IdentStart(At(src, i + 1)) -> Got(<<Lit(<<36>>)>>, i + 1, TRUE)
                 [] IdentStart(At(src, i + 1)) /\ At(src, stop) # 40 -> Malformed(src, 36, stop)
                 [] OTHER -> IF arg.dies THEN arg
                             ELSE IF At(src, arg.at) # 41 THEN Malformed(src, 36, arg.at)
                             ELSE IF ~KnownFunction(name) \/ ~ValidArity(name, Len(args)) THEN Malformed(src, 36, arg.at + 1)
                             ELSE Got(<<Call(name, args)>>, arg.at + 1, arg.problem)
      [] src[i] = 91 ->
           LET body == ParsePattern(src, i + 1, open + 1)
           IN  CASE open + 1 > MaxNesting -> Got(<<Lit(<<91>>)>>, i + 1, TRUE)
                 [] OTHER -> IF body.dies THEN body
                             ELSE IF At(src, body.at) # 93 THEN Got(<<Lit(<<91>>), Block(body.nodes)>>, body.at, TRUE)
                             ELSE Got(<<Block(body.nodes)>>, body.at + 1, body.problem)
      [] OTHER -> Got(<<Lit(<<src[i]>>)>>, i + 1, FALSE)
Parse(src) == ParsePattern(src, 1, 0)

-----------------------------------------------------------------------------
(* Functions, on the texts of their arguments.                              *)

Absent == [absent |-> TRUE]
Undefined == [undefined |-> TRUE]    \* the program's behaviour is not defined, or it throws where nothing may
Val(t) == [text |-> t]
Spaces(n) == [k \in 1..n |-> 32]
Copies(b, n) == [k \in 1..n |-> b]

Extends(cp) == cp \in 768..879 \cup {8205, 65039}
\* What a reader counts as one character, as bytes.
ClustersOf(s, ds) ==
    LET Bytes(k) == LET from == FoldLeft(LAMBDA a, d : a + d.size, 0, SubSeq(ds, 1, k - 1))
                    IN  SubSeq(s, from + 1, from + ds[k].size)
    IN  FoldLeft(LAMBDA a, k : IF a # <<>> /\ Extends(ds[k].cp) THEN Append(Front(a), Last(a) \o Bytes(k))
                               ELSE Append(a, Bytes(k)),
                 <<>>, [k \in DOMAIN ds |-> k])
Clusters(s) == ClustersOf(s, DecodeFrom(s, 1))
Count(s) == Len(Clusters(s))
PartOf(cs, start, n) == FlattenSeq(SubSeq(cs, start + 1, Min({Len(cs), start + n})))

RECURSIVE Digits(_)
Digits(n) == IF n < 10 THEN <<48 + n>> ELSE Digits(n \div 10) \o <<48 + (n % 10)>>
Decimal(n) == IF n < 0 THEN <<45>> \o Digits(-n) ELSE Digits(n)
Padded(n, w) == Copies(48, w - Len(Digits(n))) \o Digits(n)
MinInt == -MaxInt - 1
Fits(n) == n \in MinInt..MaxInt
Quot(a, b) == (IF (a < 0) = (b < 0) THEN 1 ELSE -1) * ((IF a < 0 THEN -a ELSE a) \div (IF b < 0 THEN -b ELSE b))
Number(n) == IF Fits(n) THEN Val(Decimal(n)) ELSE Absent

MulOverflows(a, b) ==
    /\ a # 0 /\ b # 0
    /\ CASE a > 0 /\ b > 0 -> a > Quot(MaxInt, b)
         [] a < 0 /\ b < 0 -> a < Quot(MaxInt, b) /\ -a > Quot(MaxInt, -b)
         [] a > 0 /\ b < 0 -> b < Quot(MinInt, a)
         [] OTHER -> a < Quot(MinInt, b)
Times(a, b) == IF MinInt \in {a, b} /\ a < 0 /\ b < 0 THEN Undefined
               ELSE IF MulOverflows(a, b) THEN Absent ELSE Val(Decimal(a * b))

\* A decimal to so many places, half away from zero. With a place it prints the
\* scaled number: $round(1.25, 1), were there two arguments, is 13, and $abs(-3)
\* is 3000000. A zero with a sign keeps it there.
HalfUp(n, unit) == (2 * n + unit) \div (2 * unit)
Scaled(d, dp) == HalfUp((IF d.is < 0 THEN -d.is ELSE d.is) * 10^dp, 10^d.places)
RoundedToTen(d, dp) == Val((IF d.is < 0 THEN <<45>> ELSE <<>>) \o Digits(Scaled(d, dp)))
FormatRound(d, dp) ==
    LET places == Max({0, Min({dp, 12})})
    IN  IF places = 0 /\ Scaled(d, 0) = 0 THEN Val(<<48>>) ELSE RoundedToTen(d, places)
Abs(d) == [d EXCEPT !.is = IF @ < 0 THEN -@ ELSE @]
Clock(s) == IF s < 0 THEN <<>>
            ELSE (IF s >= 3600 THEN Digits(s \div 3600) \o <<58>> \o Padded((s % 3600) \div 60, 2) ELSE Digits((s % 3600) \div 60))
                 \o <<58>> \o Padded(s % 60, 2)

\* A quotient to six places, the half to the even one, without the zeros at
\* its end. Zero by a negative number is written with its sign.
HalfEven(n, unit) == (n \div unit) + (IF 2 * (n % unit) > unit \/ (2 * (n % unit) = unit /\ (n \div unit) % 2 = 1) THEN 1 ELSE 0)
FormatDiv(a, b) ==
    LET millionths == HalfEven(Abs(a).is * 10^(6 + b.places), Abs(b).is * 10^a.places)
        places == Padded(millionths % 10^6, 6)
        kept == SubSeq(places, 1, Max({0} \cup {i \in 1..6 : places[i] # 48}))
    IN  Val(IF b.is = 0 THEN <<>>
            ELSE (IF (a.is < 0) # (b.is < 0) THEN <<45>> ELSE <<>>)
                    \o Digits(millionths \div 10^6) \o (IF kept = <<>> THEN <<>> ELSE <<Dot>> \o kept))
\* A size in units of a thousand, to a tenth, at a tie to the even one: a tie
\* that no double holds, such as 1050 bytes, may go the other way.
InTenths(n, tenth, unit) ==
    Digits(HalfEven(n, tenth) \div 10) \o <<IF DecimalComma THEN 44 ELSE Dot, 48 + (HalfEven(n, tenth) % 10), 32>> \o unit
NaturalSize(n) ==
    CASE n < 1000 -> Decimal(n) \o <<32, 66>>
      [] n \in 1000..999999 -> InTenths(n, 100, <<IF DecimalComma THEN 107 ELSE 75, 66>>)
      [] n \in 10^6..10^9 - 1 -> InTenths(n, 10^5, <<77, 66>>)
      [] n >= 10^9 -> InTenths(n, 10^8, <<71, 66>>)

TimeMs(ms) == IF ms < 0 THEN <<>> ELSE Clock(ms \div 1000)

IsoDate(s) == Len(s) >= 10 /\ (\A i \in {1, 2, 3, 4, 6, 7, 9, 10} : IsDigit(s[i])) /\ s[5] = Dash /\ s[8] = Dash
Year(s) == IF IsoDate(s) THEN SubSeq(s, 1, 4) ELSE <<>>
DatePart(s, a, b) == FoldLeft(LAMBDA n, c : n * 10 + c - 48, 0, SubSeq(s, a, b))
\* Days since 1970, in years that begin in March, and the second of the day.
DaysFromCivil(year, m, d) ==
    LET y == IF m <= 2 THEN year - 1 ELSE year
        yearOfEra == y % 400
        dayOfYear == ((153 * (m + (IF m > 2 THEN -3 ELSE 9)) + 2) \div 5) + d - 1
    IN  (y \div 400) * 146097 + yearOfEra * 365 + (yearOfEra \div 4) - (yearOfEra \div 100) + dayOfYear - 719468
SecondOf(s) ==
    IF Len(s) >= 19 /\ s[11] = 84 /\ s[14] = 58 /\ s[17] = 58 /\ (\A i \in {12, 13, 15, 16, 18, 19} : IsDigit(s[i]))
    THEN 3600 * DatePart(s, 12, 13) + 60 * DatePart(s, 15, 16) + DatePart(s, 18, 19) ELSE 0
Instant(s) == [day |-> DaysFromCivil(DatePart(s, 1, 4), DatePart(s, 6, 7), DatePart(s, 9, 10)), second |-> SecondOf(s)]
\* How long before now: whole days under 365 of them, otherwise the days of
\* the years that have this date and are not to come, the date itself the first.
Elapsed(then, now) == now.day - then.day - (IF now.second < then.second THEN 1 ELSE 0)
Anniversaries(s, now) ==
    Cardinality({y \in DatePart(s, 1, 4)..(now.day \div 365) + 1971 : DaysFromCivil(y, DatePart(s, 6, 7), DatePart(s, 9, 10)) <= now.day})
AgoAs(n, unit) == Decimal(n) \o <<32>> \o unit \o (IF n = 1 THEN <<>> ELSE <<115>>) \o <<32, 97, 103, 111>>
FormatAge(s, now) ==
    IF ~IsoDate(s) \/ Instant(s) = [day |-> -1, second |-> 86399] \/ Elapsed(Instant(s), now) < 0 THEN <<>>
    ELSE IF Elapsed(Instant(s), now) < 365 THEN AgoAs(Elapsed(Instant(s), now), <<100, 97, 121>>)
    ELSE AgoAs(Anniversaries(s, now), <<121, 101, 97, 114>>)
\* A run of one letter of the pattern. A month that is no month has no name.
DateRun(s, b, n) ==
    LET month == DatePart(s, 6, 7)
        day == DatePart(s, 9, 10)
    IN  CASE b = 121 -> IF n >= 4 THEN Padded(DatePart(s, 1, 4), 4) ELSE Padded(DatePart(s, 1, 4) % 100, 2)
          [] b = 77 -> (CASE n >= 4 -> MonthNames[month] [] n = 3 -> SubSeq(MonthNames[month], 1, 3)
                          [] n = 2 -> Padded(month, 2) [] OTHER -> Digits(month))
          [] b = 100 -> IF n >= 2 THEN Padded(day, 2) ELSE Digits(day)
          [] OTHER -> Copies(b, n)
RECURSIVE DateRuns(_, _)
DateRuns(s, p) ==
    IF p = <<>> THEN <<>>
    ELSE LET n == Max({j \in DOMAIN p : \A k \in 1..j : p[k] = p[1]})
         IN  DateRun(s, p[1], n) \o DateRuns(s, SubSeq(p, n + 1, Len(p)))

NamesMonth(p) == p = <<>> \/ \E i \in 1..Len(p) - 2 : SubSeq(p, i, i + 2) = <<77, 77, 77>>
Medium == <<77, 77, 77, 32, 100, 44, 32, 121, 121, 121, 121>>   \* "MMM d, yyyy"
FormatDate(s, p) ==
    CASE ~IsoDate(s) -> Val(<<>>)
      [] IsoDate(s) /\ NamesMonth(p) /\ DatePart(s, 6, 7) \notin 1..12 -> Undefined
      [] OTHER -> Val(DateRuns(s, IF p = <<>> THEN Medium ELSE p))

InitialsOf(cs) ==
    LET First(k) == DecodeAt(cs[k], 1).cp
        Blank(k) == First(k) \in {32, 9, 10, 13}
    IN  FlattenSeq([k \in DOMAIN cs |-> IF ~Blank(k) /\ (k = 1 \/ Blank(k - 1)) THEN Encode(ToUpper(First(k))) ELSE <<>>])
\* Where sub ends first, by characters of s, less what sub counts.
FindIn(cs, sub) ==
    LET Upto(i) == FlattenSeq(SubSeq(cs, 1, i))
        ends == {i \in DOMAIN cs : Len(Upto(i)) >= Len(sub) /\ SubSeq(Upto(i), Len(Upto(i)) - Len(sub) + 1, Len(Upto(i))) = sub}
    IN  IF sub = <<>> THEN Val(<<48>>) ELSE IF ends = {} THEN Absent ELSE Val(Decimal(Min(ends) - Count(sub)))
FindCharIn(cs, c) ==
    LET at == {i \in DOMAIN cs : DecodeAt(cs[i], 1).cp = DecodeAt(c, 1).cp}
    IN  IF c = <<>> \/ at = {} THEN Absent ELSE Val(Digits(Min(at) - 1))
\* A star is three bytes; what is repeated is its first byte only.
Stars(n, max) == Copies(226, n) \o <<152, 133>> \o Copies(226, max - n) \o <<152, 134>>
Rounded(rating, max) == (2 * rating * max + 100) \div 200
Between0(n, top) == Max({0, Min({n, top})})

\* The arguments as numbers, N.
Extremum(N, best) == IF NotANumber \in Range(N) THEN Absent ELSE Val(Decimal(best))
IsInt(N, i) == i \in DOMAIN N /\ N[i] # NotANumber
IntArg(N, i) == N[i].is
NumberAt(N, i) == IF IsInt(N, i) THEN IntArg(N, i) ELSE 0
Arg(A, i) == IF i \in DOMAIN A THEN A[i] ELSE <<>>
Opt(A, i, default) == IF i \in DOMAIN A THEN A[i] ELSE default
FoldNumbers(f, start, N) ==
    LET Op(a, b) == IF f = "add" THEN Number(a + b) ELSE Times(a, b)
    IN  FoldLeft(LAMBDA acc, v : IF acc \in {Absent, Undefined} THEN acc
                                 ELSE IF v = NotANumber THEN Absent ELSE Op(ParseInt(acc.text).is, v.is),
                 Val(Decimal(start)), N)

Filler(A) == Opt(A, 3, <<32>>)
\* How many fillers a text of bytes needs to be n wide.
Missing(s, n) == n - Len(s)
\* Which of its arguments a conditional is.
Condition(f, A, N, s, n, cs) ==
    CASE f = "if" -> IF s # <<>> THEN Val(Arg(A, 2)) ELSE IF Len(A) >= 3 THEN Val(A[3]) ELSE Absent
      [] f = "if2" -> Val(IF s # <<>> THEN s ELSE Arg(A, 2))
      [] f = "if3" -> IF \E i \in DOMAIN A : A[i] # <<>> THEN Val(A[Min({i \in DOMAIN A : A[i] # <<>>})]) ELSE Absent
      [] f \in {"ifequal", "ifgreater", "ifless"} ->
            IF Len(A) # 4 \/ ~IsInt(N, 1) \/ ~IsInt(N, 2) THEN Absent
            ELSE Val(A[IF CASE f = "ifequal" -> IntArg(N, 1) = n [] f = "ifgreater" -> IntArg(N, 1) > n [] OTHER -> IntArg(N, 1) < n
                       THEN 3 ELSE 4])
      [] f = "iflonger" -> IF Len(A) # 4 \/ ~IsInt(N, 2) THEN Absent ELSE Val(A[IF Len(cs) > n THEN 3 ELSE 4])

\* Case and width.
OfText(f, A, N, s, n, cs) ==
    CASE f \in {"upper", "lower"} -> Val(IF f = "upper" THEN Uppered(s) ELSE Lowered(s))
      [] f = "title" -> Val(ToTitle(s))
      [] f = "trim" -> Val(Trim(s))
      [] f = "caps" -> Val(s)
      [] f = "len" -> Val(Digits(Len(cs)))
      [] f = "sub" -> IF ~IsInt(N, 2) \/ n < 0 \/ (Len(A) >= 3 /\ ~IsInt(N, 3)) THEN Absent
                      ELSE Val(PartOf(cs, n, IF Len(A) >= 3 /\ IntArg(N, 3) >= 0 THEN IntArg(N, 3) ELSE Len(cs)))
      [] f \in {"left", "cut"} -> IF ~IsInt(N, 2) THEN Absent ELSE Val(PartOf(cs, 0, Max({0, n})))
      [] f = "right" -> IF ~IsInt(N, 2) THEN Absent
                        ELSE Val(IF n <= 0 THEN <<>> ELSE IF n >= Len(cs) THEN s ELSE PartOf(cs, Len(cs) - n, n))
      [] f \in {"pad", "padright"} ->
            IF ~IsInt(N, 2) THEN Absent
            ELSE IF n < 0 /\ Filler(A) # <<>> THEN Undefined
            ELSE IF Missing(s, n) <= 0 \/ Filler(A) = <<>> THEN Val(s)
            ELSE LET fill == Copies(Filler(A)[1], Missing(s, n)) IN Val(IF f = "pad" THEN fill \o s ELSE s \o fill)
      [] f = "fixed" -> IF Len(A) # 2 \/ ~IsInt(N, 2) THEN Absent
                        ELSE IF n <= 0 THEN Val(<<>>)
                        ELSE IF n <= Len(cs) THEN Val(PartOf(cs, 0, n))
                        ELSE IF Missing(s, n) < 0 THEN Undefined ELSE Val(s \o Spaces(Missing(s, n)))
      [] f = "abbr" -> IF Len(A) >= 2 /\ ~IsInt(N, 2) THEN Absent
                       ELSE Val(IF n < 0 \/ (n > 0 /\ Len(cs) <= n) THEN s ELSE InitialsOf(cs))

\* What is found, put in, taken out or repeated.
OfParts(f, A, N, s, n, cs) ==
    CASE f = "replace" -> Val(ReplaceEach(s, Arg(A, 2), Arg(A, 3)))
      [] f = "strchr" -> FindCharIn(cs, Arg(A, 2))
      [] f = "strstr" -> FindIn(cs, Arg(A, 2))
      [] f = "insert" -> IF ~IsInt(N, 3) THEN Absent
                         ELSE LET at == Between0(IntArg(N, 3), Len(cs)) IN Val(PartOf(cs, 0, at) \o A[2] \o PartOf(cs, at, Len(cs)))
      [] f = "repeat" -> IF ~IsInt(N, 2) \/ n \notin 0..ArgCap THEN Absent ELSE Val(FlattenSeq([k \in 1..n |-> s]))

\* Whole numbers.
OfNumbers(f, A, N, n) ==
    CASE f = "add" -> FoldNumbers(f, 0, N)
      [] f = "mul" -> FoldNumbers(f, 1, N)
      [] f = "sub2" -> IF Len(A) # 2 \/ ~IsInt(N, 1) \/ ~IsInt(N, 2) THEN Absent ELSE Number(IntArg(N, 1) - n)
      [] f = "mod" -> IF Len(A) # 2 \/ ~IsInt(N, 1) \/ ~IsInt(N, 2) \/ n = 0 THEN Absent
                      ELSE IF IntArg(N, 1) = MinInt /\ n = -1 THEN Undefined
                      ELSE Number(IntArg(N, 1) - Quot(IntArg(N, 1), n) * n)
      [] f = "min" -> IF A = <<>> THEN Absent ELSE Extremum(N, Min({v.is : v \in Range(N)}))
      [] f = "max" -> IF A = <<>> THEN Absent ELSE Extremum(N, Max({v.is : v \in Range(N)}))
      [] f = "num" -> IF Len(A) # 2 \/ ~IsInt(N, 1) \/ ~IsInt(N, 2) THEN Absent
                      ELSE LET v == IntArg(N, 1) IN Val(IF v < 0 THEN <<45>> \o Padded(-v, n) ELSE Padded(v, n))

\* Of the numbers with a fraction, D is the first argument.
OfDecimals(f, A, N, D) ==
    CASE D = NotANumber \/ (Len(A) >= 2 /\ ~IsInt(N, 2)) -> Absent
      [] D # NotANumber /\ f = "abs" -> FormatRound(Abs(D), 6)
      [] OTHER -> FormatRound(D, NumberAt(N, 2))
OfQuotient(A) ==
    LET D == [i \in DOMAIN A |-> ParseDouble(A[i])]
    IN  IF Len(A) # 2 \/ NotANumber \in Range(D) THEN Absent ELSE FormatDiv(D[1], D[2])

\* Times and dates.
OfTime(f, A, N, s) ==
    CASE f = "time" -> IF IsInt(N, 1) THEN Val(Clock(IntArg(N, 1))) ELSE Absent
      [] f = "timems" -> IF IsInt(N, 1) THEN Val(TimeMs(IntArg(N, 1))) ELSE Absent
      [] f = "year" -> Val(Year(s))
      [] f = "date" -> FormatDate(s, Arg(A, 2))
      [] f = "age" -> Val(FormatAge(s, Now))

\* Bars, stars, characters.
Shown(f, A, N, n) ==
    CASE f = "crlf" -> Val(<<10>>)
      [] f = "tab" -> Val(<<9>>)
      [] f = "char" -> IF ~IsInt(N, 1) THEN Absent
                       ELSE IF IntArg(N, 1) <= 0 \/ IntArg(N, 1) > 1114111 \/ Surrogate(IntArg(N, 1)) THEN Absent ELSE Val(Encode(IntArg(N, 1)))
      [] f = "progress" ->
            IF ~(IsInt(N, 1) /\ IsInt(N, 2) /\ IsInt(N, 3)) THEN Absent
            ELSE LET w == IntArg(N, 3)
                     fill == Opt(Opt(A, 4, <<61>>), 1, 61)
                     empty == Opt(Opt(A, 5, <<45>>), 1, 45)
                 IN  IF n = 0 \/ w \notin 1..ArgCap THEN Absent
                     ELSE IF Quot(IntArg(N, 1) * w, n) < 0 THEN Undefined
                     ELSE LET full == Min({w, Quot(IntArg(N, 1) * w, n)}) IN Val(Copies(fill, full) \o Copies(empty, w - full))
      [] f = "stars" -> IF ~IsInt(N, 1) \/ (Len(A) >= 2 /\ (~IsInt(N, 2) \/ n <= 0)) THEN Absent
                        ELSE LET max == IF Len(A) >= 2 THEN n ELSE 5
                             IN  Val(Stars(Rounded(Between0(IntArg(N, 1), 100), max), max))

Applied(f, A, N, s, n, cs) ==
    CASE f \in {"if", "if2", "if3", "ifequal", "ifgreater", "ifless", "iflonger"} -> Condition(f, A, N, s, n, cs)
      [] f \in {"upper", "lower", "title", "trim", "caps", "len", "sub", "left", "cut", "right", "pad", "padright", "fixed", "abbr"} -> OfText(f, A, N, s, n, cs)
      [] f \in {"replace", "strchr", "strstr", "insert", "repeat"} -> OfParts(f, A, N, s, n, cs)
      [] f \in {"add", "mul", "sub2", "mod", "min", "max", "num"} -> OfNumbers(f, A, N, n)
      [] f \in {"round", "abs"} -> OfDecimals(f, A, N, ParseDouble(s))
      [] f = "div" -> OfQuotient(A)
      [] f \in {"time", "timems", "year", "date", "age"} -> OfTime(f, A, N, s)
      [] f \in {"crlf", "tab", "char", "progress", "stars"} -> Shown(f, A, N, n)
      [] OTHER -> Absent
NumbersOf(A) == [i \in DOMAIN A |-> ParseInt(A[i])]
Numbered(f, A, N) == Applied(f, A, N, Arg(A, 1), NumberAt(N, 2), Clusters(Arg(A, 1)))
Apply(f, A) == Numbered(f, A, NumbersOf(A))

-----------------------------------------------------------------------------
(* The evaluator. A track gives each name a text or Absent.                 *)

Raw(track, name) == IF name \in DOMAIN track THEN track[name] ELSE Absent
Present(track, name) == Raw(track, name) # Absent /\ Trim(Raw(track, name).text) # <<>>
NumberOf(track, name) == IF Raw(track, name) = Absent THEN NotANumber ELSE ParseInt(Raw(track, name).text)
ClockOf(n) == IF n = NotANumber THEN Absent ELSE Val(Clock(n.is))

RECURSIVE AnyPresentField(_, _)
AnyPresentField(body, track) ==
    \/ \A i \in DOMAIN body : body[i].k # "field"
    \/ \E i \in DOMAIN body :
          \/ body[i].k = "field" /\ Present(track, body[i].name)
          \/ body[i].k = "block" /\ AnyPresentField(body[i].body, track)
          \/ body[i].k = "call" /\ \E j \in DOMAIN body[i].args : AnyPresentField(body[i].args[j], track)
IsWrapper(body, track) ==
    \A i \in DOMAIN body : \/ body[i].k = "block"
                           \/ body[i].k = "field" /\ ~Present(track, body[i].name)

\* A time of the track, or what is left of it.
Timing(name, duration, position) ==
    CASE name = "length" -> ClockOf(duration)
      [] name = "position" -> ClockOf(position)
      [] OTHER -> IF NotANumber \in {duration, position} THEN Absent ELSE Val(Clock(duration.is - position.is))
\* The rating as stars, of a track that has a whole number for it.
RatingStars(rating) == IF rating = NotANumber THEN Absent ELSE Val(Stars(Between0(Rounded(rating.is, 5), 5), 5))
FileSize(size) == IF size = NotANumber THEN Absent ELSE Val(NaturalSize(size.is))
EvalField(n, track) ==
    LET raw == Raw(track, n.name)
        t == IF raw = Absent THEN <<>> ELSE raw.text
    IN  CASE n.name \in {"length", "position", "remaining"} -> Timing(n.name, NumberOf(track, "duration"), NumberOf(track, "position"))
          [] n.name = "filesize_natural" -> FileSize(NumberOf(track, "filesize"))
          [] n.name = "rating_stars" -> RatingStars(NumberOf(track, "rating"))
          [] n.name = "length_seconds" -> IF t = <<>> /\ Raw(track, "duration") \in {Absent, Val(<<>>)} THEN Absent ELSE Raw(track, "duration")
          [] raw = Absent \/ (t # <<>> /\ Trim(t) = <<>>) -> Absent
          [] OTHER -> CASE n.spec \in {"upper", "lower", "title"} -> OfText(n.spec, <<t>>, <<>>, t, 0, <<>>)
                        [] n.spec = "zeropad" /\ Dot \notin Range(t) -> Val(Copies(48, Missing(t, n.width)) \o t)
                        [] OTHER -> Val(t)

TextOf(v) == IF v \in {Absent, Undefined} THEN <<>> ELSE v.text
RECURSIVE EvalNode(_, _), RenderBlock(_, _, _), ArgText(_, _)
ArgText(arg, track) == FlattenSeq([i \in DOMAIN arg |-> TextOf(EvalNode(arg[i], track))])
EvalNode(n, track) ==
    CASE n.k = "lit" -> Val(n.text)
      [] n.k = "field" -> EvalField(n, track)
      [] n.k = "call" ->
            IF n.name # "meta_sep" THEN Apply(n.name, [i \in DOMAIN n.args |-> ArgText(n.args[i], track)])
            ELSE LET name == ArgText(n.args[1], track)   \* the name of a field, spelled out
                 IN  IF (\E i \in DOMAIN n.args[1] : n.args[1][i].k # "lit") \/ name \notin DOMAIN NameOf THEN Absent
                     ELSE Raw(track, NameOf[name])
      [] OTHER -> IF ~AnyPresentField(n.body, track) THEN Absent
                  ELSE Val(RenderBlock(n.body, IsWrapper(n.body, track), track))
RenderBlock(body, wrapper, track) ==
    FlattenSeq([i \in DOMAIN body |->
        IF ~wrapper THEN TextOf(EvalNode(body[i], track))
        ELSE CASE body[i].k = "lit" -> <<>>
               [] body[i].k = "field" -> IF Present(track, body[i].name) THEN Raw(track, body[i].name).text ELSE <<>>
               [] body[i].k = "call" -> TextOf(EvalNode(body[i], track))
               [] OTHER -> IF AnyPresentField(body[i].body, track) THEN RenderBlock(body[i].body, TRUE, track) ELSE <<>>])

\* The output stops before the first code point that does not fit.
BytesIn(ds, cap) ==
    LET Upto(k) == FoldLeft(LAMBDA a, d : a + d.size, 0, SubSeq(ds, 1, k))
    IN  Max({n \in {Upto(k) : k \in 0..Len(ds)} : n <= cap})
Capped(t, cap) == SubSeq(t, 1, BytesIn(DecodeFrom(t, 1), cap))
Evaluate(nodes, track, cap) == Capped(ArgText(nodes, track), cap)

-----------------------------------------------------------------------------
(* Properties, of inputs a run enumerates                                   *)

Spelled(name) == CHOOSE ident \in DOMAIN NameOf : NameOf[ident] = name
RECURSIVE Source(_)
Source(nodes) == FlattenSeq([i \in DOMAIN nodes |->
    LET n == nodes[i]
    IN  CASE n.k = "lit" -> n.text
          [] n.k = "field" -> <<37>> \o Spelled(n.name)
                \o (CASE n.spec = "none" -> <<>> [] n.spec = "upper" -> <<58, 117>> [] n.spec = "lower" -> <<58, 108>>
                      [] n.spec = "title" -> <<58, 116>> [] OTHER -> <<58>> \o Digits(n.width)) \o <<37>>
          [] n.k = "call" -> <<36>> \o Spelled(n.name) \o <<40>> \o FlattenSeq([j \in DOMAIN n.args |-> Source(n.args[j])]) \o <<41>>
          [] OTHER -> <<91>> \o Source(n.body) \o <<93>>])

\* A pattern that is written out is read back as it was, with nothing to
\* report: no sigil of one node takes part of the next.
ReadsBackAsWritten(p) == Parse(Source(p)) = Got(p, Len(Source(p)) + 1, FALSE)

\* And a text that was typed, and of which nothing is reported, is all there.
AllThere(src, r) == ~r.dies /\ ~r.problem => r.at = Len(src) + 1 /\ Source(r.nodes) = src
NothingTypedIsLost(src) == AllThere(src, Parse(src))

\* Tagging a track never takes text out of its title: with one more field
\* present, what was rendered is still there, in order, around the new text.
Within(a, b) == \E m \in [DOMAIN a -> DOMAIN b] : \A i \in DOMAIN a : /\ b[m[i]] = a[i]
                                                                   /\ \A j \in 1..i - 1 : m[j] < m[i]
Grows(texts) == Within(texts[1], texts[2])
TaggingOnlyAdds(p, track, name, value) ==
    LET tagged == [f \in DOMAIN track \cup {name} |-> IF f = name THEN value ELSE track[f]]
    IN  ~Present(track, name) => Grows([k \in 1..2 |-> ArgText(p, IF k = 1 THEN track ELSE tagged)])

\* A title that is cut is cut between code points, and is as long as the
\* cap allows.
WellCut(t, cap, out) ==
    IsValid(t) => /\ out = SubSeq(t, 1, Len(out)) /\ Len(out) <= cap
                  /\ \A k \in Len(out)..Min({cap, Len(t)}) : IsValid(SubSeq(t, 1, k)) <=> k = Len(out)
CutsBetweenCodePoints(t, cap) == WellCut(t, cap, Capped(t, cap))

\* Cutting a text up by characters loses nothing of it, and what strstr finds
\* is where it says, and nowhere before.
Question == {"left", "right", "sub", "insert", "strstr", "piece"}
Asked(q, s, t, n) ==
    CASE q = "insert" -> <<s, t, Decimal(n)>>
      [] q = "strstr" -> <<s, t>>
      [] q = "piece" -> <<s, Decimal(n), Decimal(Count(t))>>
      [] OTHER -> <<s, Decimal(n)>>
WholeOf(s, t, size, answer) ==
    \A n \in 0..size :
        LET left == answer["left", n].text
            rest == answer["sub", n].text
        IN  /\ left \o answer["right", size - n].text = s
            /\ left \o rest = s
            /\ answer["insert", n].text = left \o t \o rest
            /\ t # <<>> => (answer["strstr", n] = Val(Decimal(n)) <=>
                               answer["piece", n] = Val(t) /\ \A k \in 0..n - 1 : answer["piece", k] # Val(t))
PartsMakeTheWhole(s, t) ==
    WholeOf(s, t, Count(s), [q \in Question, n \in 0..Count(s) |-> Apply(IF q = "piece" THEN "sub" ELSE q, Asked(q, s, t, n))])

\* Arithmetic is exact or it is absent: nothing wraps. A quotient is the nearest
\* there is to six places, with no zero to drop, and a.b is rounded to the
\* nearest whole number, the half away from zero ($round with a second argument,
\* and $abs, print a scaled number and are held to nothing).
ExactIn(a, b, got) ==
    LET size == IF b < 0 THEN -b ELSE b
    IN  /\ got["add"] = Number(a + b) /\ got["sub2"] = Number(a - b)
        /\ got["mul"] \in {Number(a * b), Undefined} /\ (got["mul"] = Undefined => MinInt \in {a, b})
        /\ b = 0 => got["mod"] = Absent
        /\ b # 0 => \/ got["mod"] = Undefined /\ a = MinInt
                    \/ \E r \in 1 - size..size - 1 : /\ got["mod"] = Val(Decimal(r))
                                                     /\ (a - r) % size = 0 /\ r * a >= 0
QuotientIn(a, b, text, d) ==
    LET off == (d.is * 10^(6 - d.places)) * b - a * 10^6
    IN  IF b = 0 THEN text = <<>>
        ELSE 2 * Abs([is |-> off]).is <= Abs([is |-> b]).is /\ (d.places > 0 => Last(text) # 48)
Nearest(d, r) ==
    LET off == r * 10^d.places - d.is
        twice == 2 * (IF off < 0 THEN -off ELSE off)
    IN  twice < 10^d.places \/ (twice = 10^d.places /\ (off > 0) = (d.is > 0))
Pointed(a, b) == Decimal(a) \o <<Dot>> \o Digits(b)
Reckoned(a, b, rounding, got) ==
    /\ ExactIn(a, b, got)
    /\ QuotientIn(a, b, got["div"].text, ParseDouble(got["div"].text))
    /\ rounding => Nearest(ParseDouble(Pointed(a, b)), ParseInt(got["round"].text).is)
ExactOrAbsent(a, b, rounding) ==
    Reckoned(a, b, rounding, [f \in {"add", "sub2", "mul", "mod", "div", "round"} |->
                                 Apply(f, IF f = "round" THEN <<Pointed(a, b)>> ELSE <<Decimal(a), Decimal(b)>>)])

\* A time shown is the time given, and a bar is as wide as asked and never
\* shrinks as the position grows.
ShowsTheTime(n) ==
    LET t == Clock(n)
        colons == {i \in DOMAIN t : t[i] = 58}
        Value(i, j) == FoldLeft(LAMBDA v, d : v * 10 + d - 48, 0, SubSeq(t, i, j))
    IN  /\ Value(Max(colons) + 1, Len(t)) < 60
        /\ n = (IF Cardinality(colons) = 1 THEN 60 * Value(1, Min(colons) - 1)
                ELSE 3600 * Value(1, Min(colons) - 1) + 60 * Value(Min(colons) + 1, Max(colons) - 1)) + Value(Max(colons) + 1, Len(t))
BarsGrow(total, width, bar) ==
    LET Full(pos) == Cardinality({i \in DOMAIN bar[pos] : bar[pos][i] = 61})
    IN  /\ Full(0) = 0 /\ Full(total) = width
        /\ \A pos \in 0..total : Len(bar[pos]) = width
        /\ \A pos \in 1..total : Full(pos - 1) <= Full(pos)
BarGrows(total, width) ==
    BarsGrow(total, width, [pos \in 0..total |-> Apply("progress", <<Decimal(pos), Decimal(total), Decimal(width)>>).text])
\* A date written year first is the date of the tag.
DateReadsBack(s) ==
    IsoDate(s) => /\ FormatDate(s, <<121, 121, 121, 121, 45, 77, 77, 45, 100, 100>>) = Val(SubSeq(s, 1, 10))
                  /\ OfTime("year", <<s>>, <<>>, s).text = SubSeq(s, 1, 4)
                  /\ FormatDate(s, <<>>) # Undefined <=> DatePart(s, 6, 7) \in 1..12

\* The day before a date is numbered one less: over any run of days, each
\* month has its days and each year its months.
LeapYear(y) == y % 4 = 0 /\ (y % 100 # 0 \/ y % 400 = 0)
DaysIn(y, m) == CASE m = 2 -> IF LeapYear(y) THEN 29 ELSE 28 [] m \in {4, 6, 9, 11} -> 30 [] OTHER -> 31
DaysFollow(y, m) ==
    /\ DaysFromCivil(1970, 1, 1) = 0
    /\ \A d \in 1..DaysIn(y, m) - 1 : DaysFromCivil(y, m, d + 1) = DaysFromCivil(y, m, d) + 1
    /\ DaysFromCivil(IF m = 12 THEN y + 1 ELSE y, (m % 12) + 1, 1) = DaysFromCivil(y, m, DaysIn(y, m)) + 1
\* How long ago a date was never shrinks as time goes on, and is empty only of
\* what is to come.
Said(text) == IF text = <<>> THEN -1 ELSE (IF 101 \in Range(text) THEN 1000 ELSE 0)
                + FoldLeft(LAMBDA n, c : IF IsDigit(c) THEN n * 10 + c - 48 ELSE n, 0, text)
AgeGrows(s, days) ==
    LET then == Instant(s)
        Age(n) == Said(FormatAge(s, [day |-> then.day + n, second |-> 43200]))
    IN  /\ \A n \in days : Age(n) = -1 <=> n < 0 \/ (n = 0 /\ then.second > 43200)
        /\ \A n, k \in days : n <= k => Age(n) <= Age(k)
\* A size is shown to its nearest tenth, and a greater one never as less.
Shows(text) ==
    LET unit == text[Len(text) - 1]
    IN  [tenths |-> FoldLeft(LAMBDA v, c : IF IsDigit(c) THEN v * 10 + c - 48 ELSE v, 0, IF unit = 32 THEN Append(text, 48) ELSE text),
         tenth |-> CASE unit = 32 -> 1 [] unit \in {75, 107} -> 100 [] unit = 77 -> 10^5 [] unit = 71 -> 10^8]
Grown(n, m, next) ==
    /\ m.tenth > 1 => 2 * Abs([is |-> m.tenths * m.tenth - n]).is <= m.tenth
    /\ (next.tenth = m.tenth /\ m.tenths <= next.tenths) \/ (m.tenth < next.tenth /\ next.tenths >= 10)
Measured(n, shown) == Grown(n, shown[n], shown[n + 1])
SizesHold(n) == Measured(n, [k \in n..n + 1 |-> Shows(NaturalSize(k))])
=============================================================================
