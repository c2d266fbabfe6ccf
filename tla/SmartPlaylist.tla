---------------------------- MODULE SmartPlaylist ----------------------------
(* Smart-playlist rules: JSON to rule, rule to SQL with bound parameters,   *)
(* rule back to JSON, and what SQLite makes of the SQL.                     *)
(* src/desktop/src/library/smart_playlist.cpp                               *)
(*                                                                          *)
(* A text is a sequence of one-character strings. A JSON value is a record  *)
(* whose one field is str, num, bool, arr or obj; an "obj" holds a function   *)
(* from the keys that are present. The SQL is a tree whose "?" are the      *)
(* leaves' holes, filled from the parameter list in the order of the text.  *)
EXTENDS Integers, Sequences, FiniteSetsExt, SequencesExt

CONSTANTS
    MaxValues,   \* values of an "in" list (256 in the code)
    MaxRules,    \* rules of a group (64)
    MaxTerms,    \* terms of orderBy (8)
    MaxLimit     \* greatest limit (100000)

-----------------------------------------------------------------------------
(* The closed sets of names; the builtin fields left out behave as one of   *)
(* these.                                                                   *)

Column == [title |-> "title", artist |-> "artist", duration |-> "duration_ms",
           rating |-> "rating", missing |-> "missing_since"]
StringField == {"title", "artist"}
Custom == {"custom:mood", "custom:9"}
ValidCustomField(f) == f # "custom:9"
TagOf(f) == IF f = "custom:mood" THEN <<"m">> ELSE <<"9">>

Like == {"contains", "notContains", "startsWith", "endsWith"}
Nullary == {"isNull", "isNotNull"}
FieldOps == {"eq", "ne", "gt", "lt", "gte", "lte", "matches", "between", "in"}
                \cup Like \cup Nullary

-----------------------------------------------------------------------------
(* JSON to rule                                                             *)

Str(s) == [str |-> s]
Num(n) == [num |-> n]
Bool(b) == [bool |-> b]
Arr(s) == [arr |-> s]
Obj(f) == [obj |-> f]
Is(v, type) == type \in DOMAIN v

Has(v, k) == k \in DOMAIN v.obj
HasTyped(v, k, t) == Has(v, k) /\ Is(v.obj[k], t)
Flag(v, k, default) == IF HasTyped(v, k, "bool") THEN v.obj[k].bool ELSE default

\* A value that is no string, boolean or number leaves the default, "".
OperandFrom(v) == IF DOMAIN v \in {{"str"}, {"num"}, {"bool"}} THEN v ELSE Str(<<>>)

OperandKeys == {"value", "values", "from", "to"}
KeysOf(op) == CASE op \in Nullary -> {}
                [] op = "between" -> {"from", "to"}
                [] op = "in"      -> {"values"}
                [] OTHER          -> {"value"}

ParsesComparison(v) ==
    /\ Is(v, "obj")
    /\ HasTyped(v, "field", "str") /\ HasTyped(v, "operator", "str")
    /\ \/ v.obj["field"].str \in DOMAIN Column
       \/ v.obj["field"].str \in Custom /\ ValidCustomField(v.obj["field"].str)
    /\ v.obj["operator"].str \in FieldOps
    /\ OperandKeys \cap DOMAIN v.obj = KeysOf(v.obj["operator"].str)
    /\ v.obj["operator"].str = "in" =>
          Is(v.obj["values"], "arr") /\ Len(v.obj["values"].arr) \in 1..MaxValues

Operands(v) ==
    CASE v.obj["operator"].str \in Nullary -> <<>>
      [] v.obj["operator"].str = "between" -> <<OperandFrom(v.obj["from"]), OperandFrom(v.obj["to"])>>
      [] v.obj["operator"].str = "in"      -> [i \in DOMAIN v.obj["values"].arr |->
                                              OperandFrom(v.obj["values"].arr[i])]
      [] OTHER                         -> <<OperandFrom(v.obj["value"])>>

Comparison(v) ==
    [kind |-> "comparison", field |-> v.obj["field"].str, op |-> v.obj["operator"].str,
     not |-> Flag(v, "not", FALSE), caseSensitive |-> Flag(v, "caseSensitive", FALSE),
     operands |-> Operands(v)]

RECURSIVE ParsesGroup(_)
ParsesGroup(v) ==
    /\ Is(v, "obj")
    /\ HasTyped(v, "op", "str") /\ v.obj["op"].str \in {"and", "or"}
    /\ HasTyped(v, "rules", "arr")
    /\ Len(v.obj["rules"].arr) \in 1..MaxRules
    /\ \A i \in DOMAIN v.obj["rules"].arr :
          LET child == v.obj["rules"].arr[i]
          IN  IF Is(child, "obj") /\ Has(child, "rules")
              THEN ParsesGroup(child) ELSE ParsesComparison(child)

RECURSIVE Group(_)
Group(v) ==
    [kind |-> "group", op |-> v.obj["op"].str, not |-> Flag(v, "not", FALSE),
     children |-> [i \in DOMAIN v.obj["rules"].arr |->
        LET child == v.obj["rules"].arr[i]
        IN  IF Has(child, "rules") THEN Group(child) ELSE Comparison(child)]]

\* A lone comparison becomes a group of one.
ParsesExpression(v) ==
    Is(v, "obj") /\ IF Has(v, "rules") THEN ParsesGroup(v) ELSE ParsesComparison(v)
Expression(v) ==
    IF Has(v, "rules") THEN Group(v)
    ELSE [kind |-> "group", op |-> "and", not |-> FALSE, children |-> <<Comparison(v)>>]

ParsesOrder(v) ==
    /\ Is(v, "arr") /\ Len(v.arr) \in 1..MaxTerms
    /\ \A i \in DOMAIN v.arr :
          /\ Is(v.arr[i], "obj") /\ HasTyped(v.arr[i], "field", "str")
          /\ v.arr[i].obj["field"].str \in {"random"} \cup Custom \cup DOMAIN Column
          /\ ~HasTyped(v.arr[i], "direction", "str")
                \/ v.arr[i].obj["direction"].str \in {"asc", "desc"}
Order(v) == [i \in DOMAIN v.arr |->
    [field |-> v.arr[i].obj["field"].str,
     direction |-> IF HasTyped(v.arr[i], "direction", "str") THEN v.arr[i].obj["direction"].str
                   ELSE "asc"]]

ParsesRule(v) ==
    /\ Is(v, "obj")
    /\ HasTyped(v, "schemaVersion", "num") /\ v.obj["schemaVersion"].num = 1
    /\ Has(v, "match") /\ ParsesExpression(v.obj["match"])
    /\ Has(v, "orderBy") => ParsesOrder(v.obj["orderBy"])
    /\ Has(v, "limit") => Is(v.obj["limit"], "num") /\ v.obj["limit"].num \in 1..MaxLimit

NoLimit == 0
Rule(v) ==
    [autoRefresh |-> Flag(v, "autoRefresh", TRUE),
     match       |-> Expression(v.obj["match"]),
     orderBy     |-> IF Has(v, "orderBy") THEN Order(v.obj["orderBy"]) ELSE <<>>,
     limit       |-> IF Has(v, "limit") THEN v.obj["limit"].num ELSE NoLimit]

-----------------------------------------------------------------------------
(* Rule to SQL                                                              *)

Digit == [c \in {"0", "1", "2", "3"} |->
            CASE c = "0" -> 0 [] c = "1" -> 1 [] c = "2" -> 2 [] c = "3" -> 3]
UnitSeconds == [s |-> 1, m |-> 60, h |-> 3600]

\* The compound form "3m30s". A leading "-" is skipped; digits after the
\* last unit count for nothing; no unit at all leaves the text as it is.
UnsignedPart(s) == IF s # <<>> /\ s[1] = "-" THEN Tail(s) ELSE s
IsDuration(s) == \A i \in DOMAIN UnsignedPart(s) :
                    UnsignedPart(s)[i] \in DOMAIN Digit \cup DOMAIN UnitSeconds
HasUnit(s) == \E i \in DOMAIN s : s[i] \in DOMAIN UnitSeconds
Seconds(s) ==
    FoldLeft(LAMBDA a, c :
                IF c \in DOMAIN Digit
                THEN [a EXCEPT !.current = @ * 10 + Digit[c]]
                ELSE [total |-> a.total + a.current * UnitSeconds[c], current |-> 0],
             [total |-> 0, current |-> 0], UnsignedPart(s)).total

BindsOperand(o, c) == c.field = "duration" /\ Is(o, "str") => IsDuration(o.str)
NormaliseBind(o, c) ==
    IF c.field = "duration" /\ Is(o, "str") /\ HasUnit(o.str) THEN Num(Seconds(o.str)) ELSE o

EscapeLike(s) ==
    FlattenSeq([i \in DOMAIN s |-> IF s[i] \in {"%", "_", "\\"} THEN <<"\\", s[i]>> ELSE <<s[i]>>])
LikePattern(op, s) ==
    CASE op = "startsWith" -> EscapeLike(s) \o <<"%">>
      [] op = "endsWith"   -> <<"%">> \o EscapeLike(s)
      [] OTHER             -> <<"%">> \o EscapeLike(s) \o <<"%">>

Negated(c, tree) == IF c.not THEN [n |-> "not", kid |-> tree] ELSE tree

CompilesCustom(c) ==
    /\ c.op \in {"eq", "ne", "matches"} \cup Like
    /\ Is(c.operands[1], "str")
CompileCustomSwapped(c) ==   \* mutant: the value before its key
    LET value == c.operands[1].str
    IN  [where  |-> Negated(c, [n |-> "exists", op |-> c.op, holes |-> 2]),
         params |-> <<Str(IF c.op \in Like THEN LikePattern(c.op, value) ELSE value),
                      Str(TagOf(c.field))>>]
CompileCustom(c) ==
    LET value == c.operands[1].str
    IN  [where  |-> Negated(c, [n |-> "exists", op |-> c.op, holes |-> 2]),
         params |-> <<Str(TagOf(c.field)),
                      Str(IF c.op \in Like THEN LikePattern(c.op, value) ELSE value)>>]

CompilesComparison(c) ==
    IF c.field \in Custom THEN CompilesCustom(c)
    ELSE CASE c.op \in Like      -> c.field \in StringField /\ Is(c.operands[1], "str")
           [] c.op = "matches"   -> Is(c.operands[1], "str")
           [] OTHER              -> \A i \in DOMAIN c.operands : BindsOperand(c.operands[i], c)
CompileComparison(c) ==
    IF c.field \in Custom THEN CompileCustom(c)
    ELSE LET leaf == [n |-> "op", op |-> c.op, column |-> Column[c.field],
                      holes |-> Len(c.operands),
                      nocase |-> c.field \in StringField /\ ~c.caseSensitive]
         IN  [where  |-> Negated(c, leaf),
              params |-> [i \in DOMAIN c.operands |->
                 CASE c.op \in Like    -> Str(LikePattern(c.op, c.operands[i].str))
                   [] c.op = "matches" -> c.operands[i]
                   [] OTHER            -> NormaliseBind(c.operands[i], c)]]

RECURSIVE CompilesGroup(_)
CompilesGroup(g) ==
    \A i \in DOMAIN g.children :
        IF g.children[i].kind = "group" THEN CompilesGroup(g.children[i])
        ELSE CompilesComparison(g.children[i])

RECURSIVE CompileGroup(_)
CompileGroup(g) ==
    LET kids == [i \in DOMAIN g.children |->
                    IF g.children[i].kind = "group" THEN CompileGroup(g.children[i])
                    ELSE CompileComparison(g.children[i])]
    IN  [where  |-> Negated(g, [n |-> g.op, kids |-> [i \in DOMAIN kids |-> kids[i].where]]),
         params |-> FlattenSeq([i \in DOMAIN kids |-> kids[i].params])]

CompilesRule(r) ==
    /\ CompilesGroup(r.match)
    /\ \A i \in DOMAIN r.orderBy : r.orderBy[i].field \in {"random"} \cup DOMAIN Column
CompileRule(r) ==
    [where |-> CompileGroup(r.match).where, params |-> CompileGroup(r.match).params,
     orderBy |-> r.orderBy, limit |-> r.limit]

\* SQLite takes a statement that names no column but the table's.
Columns == {"title", "artist", "duration_ms"}   \* of the table as created
RECURSIVE ColumnsOf(_)
ColumnsOf(tree) == CASE tree.n = "op" -> {tree.column} [] tree.n = "exists" -> {}
                     [] tree.n = "not" -> ColumnsOf(tree.kid)
                     [] OTHER -> UNION {ColumnsOf(k) : k \in ToSet(tree.kids)}
Prepares(q) ==
    /\ ColumnsOf(q.where) \subseteq Columns
    /\ \A o \in ToSet(q.orderBy) : o.field = "random" \/ Column[o.field] \in Columns

-----------------------------------------------------------------------------
(* What SQLite makes of the fragment, for one row. A row has a value or     *)
(* NULL in each column, and a set of <<key, value>> custom tags.            *)

NULL == [null |-> 0]
Fold(c) == CASE c = "A" -> "a" [] c = "B" -> "b" [] OTHER -> c
FoldText(s) == [i \in DOMAIN s |-> Fold(s[i])]
Code == [c \in {"%", "-", "0", "1", "2", "3", "A", "B", "_", "a", "b", "h", "m", "s"} |->
            CHOOSE i \in 1..14 :
               c = <<"%", "-", "0", "1", "2", "3", "A", "B", "_", "a", "b", "h", "m", "s">>[i]]

TextLess(a, b) == \E k \in 0..Len(b) :
    /\ k <= Len(a) /\ SubSeq(a, 1, k) = SubSeq(b, 1, k)
    /\ k < Len(b) /\ (k = Len(a) \/ Code[a[k+1]] < Code[b[k+1]])

Truth(b) == IF b THEN "true" ELSE "false"
Not3(x) == CASE x = "true" -> "false" [] x = "false" -> "true" [] OTHER -> "null"
And3(S) == IF "false" \in S THEN "false" ELSE IF "null" \in S THEN "null" ELSE "true"
Or3(S) == Not3(And3({Not3(x) : x \in S}))

RECURSIVE LikeMatches(_, _)
LikeMatches(p, s) ==
    IF p = <<>> THEN s = <<>>
    ELSE CASE p[1] = "%"  -> \E i \in 1..Len(s) + 1 : LikeMatches(Tail(p), SubSeq(s, i, Len(s)))
           [] p[1] = "_"  -> s # <<>> /\ LikeMatches(Tail(p), Tail(s))
           [] p[1] = "\\" -> s # <<>> /\ Fold(s[1]) = Fold(p[2])
                                      /\ LikeMatches(SubSeq(p, 3, Len(p)), Tail(s))
           [] OTHER       -> s # <<>> /\ Fold(s[1]) = Fold(p[1]) /\ LikeMatches(Tail(p), Tail(s))

Same(x, y, nocase) == IF nocase THEN FoldText(x.str) = FoldText(y.str) ELSE x = y
Less(x, y, nocase) == IF Is(x, "str") THEN IF nocase THEN TextLess(FoldText(x.str), FoldText(y.str))
                                          ELSE TextLess(x.str, y.str)
                      ELSE x.num < y.num

\* "x op ps" with the collation on the last operand, as "COLLATE NOCASE" at
\* the end of the fragment puts it; LIKE never minds the case, GLOB and IN
\* always do. No text here holds a wildcard of GLOB, which makes it equality.
Holds(x, op, ps, nocase) ==
    CASE op = "eq"  -> Same(x, ps[1], nocase)
      [] op = "ne"  -> ~Same(x, ps[1], nocase)
      [] op = "lt"  -> Less(x, ps[1], nocase)
      [] op = "gte" -> ~Less(x, ps[1], nocase)
      [] op = "gt"  -> Less(ps[1], x, nocase)
      [] op = "lte" -> ~Less(ps[1], x, nocase)
      [] op = "between" -> ~Less(x, ps[1], FALSE) /\ ~Less(ps[2], x, nocase)
      [] op = "in"  -> \E i \in DOMAIN ps : Same(x, ps[i], FALSE)
      [] op = "matches" -> x = ps[1]
      [] op = "notContains" -> ~LikeMatches(ps[1].str, x.str)
      [] OTHER -> LikeMatches(ps[1].str, x.str)

RECURSIVE Holes(_)
Holes(tree) == CASE tree.n \in {"op", "exists"} -> tree.holes
                 [] tree.n = "not"              -> Holes(tree.kid)
                 [] OTHER -> FoldLeft(LAMBDA a, k : a + Holes(k), 0, tree.kids)

RECURSIVE Where(_, _, _)
Where(tree, ps, row) ==
    CASE tree.n = "op" ->
            LET x == row[tree.column]
            IN  CASE tree.op = "isNull"    -> Truth(x = NULL)
                  [] tree.op = "isNotNull" -> Truth(x # NULL)
                  [] x = NULL              -> "null"
                  [] OTHER                 -> Truth(Holds(x, tree.op, ps, tree.nocase))
      [] tree.n = "exists" ->
            LET tagged == \E tag \in row.tags :
                             /\ tag[1] = ps[1].str
                             /\ Holds(Str(tag[2]), IF tree.op = "ne" THEN "eq" ELSE tree.op,
                                      <<ps[2]>>, FALSE)
            IN  Truth(IF tree.op = "ne" THEN ~tagged ELSE tagged)
      [] tree.n = "not" -> Not3(Where(tree.kid, ps, row))
      [] OTHER ->
            LET From(i) == FoldLeft(LAMBDA a, k : a + Holes(k), 0, SubSeq(tree.kids, 1, i - 1))
                values == {Where(tree.kids[i],
                                 SubSeq(ps, From(i) + 1, From(i) + Holes(tree.kids[i])), row)
                             : i \in DOMAIN tree.kids}
            IN  IF tree.n = "and" THEN And3(values) ELSE Or3(values)

Selects(q, row) == Where(q.where, q.params, row) = "true"

-----------------------------------------------------------------------------
(* Rule to JSON                                                             *)

Merge(f, g) == [k \in DOMAIN f \cup DOMAIN g |-> IF k \in DOMAIN g THEN g[k] ELSE f[k]]
Only(cond, k, v) == IF cond THEN [x \in {k} |-> v] ELSE <<>>

DumpCaseForgotten(c) ==   \* mutant: only what a simple comparison has
    Obj([field |-> Str(c.field), operator |-> Str(c.op)])
DumpComparison(c) ==
    Obj(Merge(Merge([field |-> Str(c.field), operator |-> Str(c.op)],
                    Merge(Only(c.not, "not", Bool(TRUE)),
                          Only(c.caseSensitive, "caseSensitive", Bool(TRUE)))),
        CASE c.op \in Nullary -> <<>>
          [] c.op = "between" -> [from |-> c.operands[1], to |-> c.operands[2]]
          [] c.op = "in"      -> [values |-> Arr(c.operands)]
          [] OTHER            -> [value |-> c.operands[1]]))

RECURSIVE DumpGroup(_)
DumpGroup(g) ==
    Obj(Merge([op |-> Str(g.op),
               rules |-> Arr([i \in DOMAIN g.children |->
                              IF g.children[i].kind = "group" THEN DumpGroup(g.children[i])
                              ELSE DumpComparison(g.children[i])])],
              Only(g.not, "not", Bool(TRUE))))

ToJson(r) ==
    Obj(Merge([schemaVersion |-> Num(1), match |-> DumpGroup(r.match)],
        Merge(Only(~r.autoRefresh, "autoRefresh", Bool(FALSE)),
        Merge(Only(r.orderBy # <<>>, "orderBy",
                   Arr([i \in DOMAIN r.orderBy |->
                        Obj([field |-> Str(r.orderBy[i].field),
                             direction |-> Str(r.orderBy[i].direction)])])),
              Only(r.limit # NoLimit, "limit", Num(r.limit))))))

-----------------------------------------------------------------------------
(* What a rule says of a row, stated on the rule and never on the SQL.      *)

\* A duration with a unit says milliseconds of the column's, and the code
\* binds seconds: those rules select other rows than they describe.
NamesAUnit(c) == c.field = "duration" /\ \E o \in ToSet(c.operands) : Is(o, "str") /\ HasUnit(o.str)
RECURSIVE InWrongUnit(_)
InWrongUnit(g) ==
    \E c \in ToSet(g.children) : IF c.kind = "group" THEN InWrongUnit(c) ELSE NamesAUnit(c)

HasPart(s, v) == \E i \in 1..Len(s) + 1, j \in 0..Len(s) : FoldText(SubSeq(s, i, j)) = FoldText(v)
Says(x, c, ws, nocase) ==
    CASE c.op = "contains"    -> HasPart(x.str, ws[1].str)
      [] c.op = "notContains" -> ~HasPart(x.str, ws[1].str)
      [] c.op = "startsWith"  -> \E j \in 0..Len(x.str) : FoldText(SubSeq(x.str, 1, j)) = FoldText(ws[1].str)
      [] c.op = "endsWith"    -> \E i \in 1..Len(x.str)+1 : FoldText(SubSeq(x.str, i, Len(x.str))) = FoldText(ws[1].str)
      [] OTHER                -> Holds(x, c.op, ws, nocase)

RuleOfComparison(c, row) ==
    LET ws == c.operands
        raw ==
          IF c.field \in Custom
          THEN LET mine == {tag[2] : tag \in {g \in row.tags : g[1] = TagOf(c.field)}}
               IN  Truth(IF c.op = "ne" THEN \A s \in mine : s # ws[1].str
                         ELSE \E s \in mine : Says(Str(s), c, ws, FALSE))
          ELSE LET x == row[Column[c.field]]
               IN  CASE c.op = "isNull"    -> Truth(x = NULL)
                     [] c.op = "isNotNull" -> Truth(x # NULL)
                     [] x = NULL           -> "null"
                     [] OTHER -> Truth(Says(x, c, ws, c.field \in StringField /\ ~c.caseSensitive))
    IN  IF c.not THEN Not3(raw) ELSE raw

RECURSIVE RuleOfGroup(_, _)
RuleOfGroup(g, row) ==
    LET values == {IF g.children[i].kind = "group" THEN RuleOfGroup(g.children[i], row)
                   ELSE RuleOfComparison(g.children[i], row) : i \in DOMAIN g.children}
        raw == IF g.op = "and" THEN And3(values) ELSE Or3(values)
    IN  IF g.not THEN Not3(raw) ELSE raw

\* The rows a saved rule selects are the rows the rule describes: every "?"
\* of the SQL meets the parameter pushed for it, through nested groups,
\* negations, custom tags with their two parameters and lists, no wildcard
\* of the user's text is one of LIKE, and a missing value is neither true
\* nor, negated, true (smart_playlist.hpp: "one per `?`, in order").  Rules
\* with a duration in the wrong unit are left aside.
SelectsWhatTheRuleSays(v, rows) ==
    ParsesRule(v) /\ CompilesRule(Rule(v)) /\ ~InWrongUnit(Rule(v).match) =>
        \A row \in rows :
            Selects(CompileRule(Rule(v)), row) <=> RuleOfGroup(Rule(v).match, row) = "true"

\* A rule written back to JSON parses to the same rule: whatever the editor
\* saves again keeps its operands, negations, order and limit.
SavedRuleReadsBack(v) ==
    ParsesRule(v) => /\ ParsesRule(ToJson(Rule(v)))
                     /\ Rule(ToJson(Rule(v))) = Rule(v)
=============================================================================
