------------------------------ MODULE MCMachines ------------------------------
(* The machines of Machines.tla on small instances.                         *)
EXTENDS Machines, TLC
CONSTANTS e1, e2, p1, p2

-----------------------------------------------------------------------------
(* The library                                                              *)

SP == INSTANCE SmartPlaylist WITH MaxValues <- 2, MaxRules <- 2, MaxTerms <- 2, MaxLimit <- 9
S(x) == [str |-> x]
RuleDocument(field, op, extra, more) ==
    [obj |-> [k \in DOMAIN more \cup {"schemaVersion", "match"} |->
        CASE k = "schemaVersion" -> [num |-> 1]
          [] k = "match" -> [obj |-> [j \in DOMAIN extra \cup {"field", "operator"} |->
                               CASE j = "field" -> S(field) [] j = "operator" -> S(op) [] OTHER -> extra[j]]]
          [] OTHER -> more[k]]]
By(d) == [arr |-> <<[obj |-> [field |-> S("title"), direction |-> S(d)]]>>]
MCRuleTexts ==
    {RuleDocument("artist", "isNotNull", <<>>, [orderBy |-> By("desc"), limit |-> [num |-> 1]]),
     RuleDocument("artist", "isNull", [not |-> [bool |-> TRUE]], [orderBy |-> By("asc")]),
     RuleDocument("duration", "gt", [value |-> [num |-> 1]], <<>>),
     RuleDocument("rating", "eq", [value |-> [num |-> 1]], <<>>),
     RuleDocument("rating", "in", [values |-> [arr |-> <<>>]], <<>>)}
MCAccepts(text) == SP!ParsesRule(text) /\ SP!CompilesRule(SP!Rule(text))
MCRuleOf(text) == SP!Rule(text)
MCQueryOf(text) == SP!CompileRule(SP!Rule(text))
MCCanPrepare(q) == SP!Prepares(q)
MCChooses(where, params, row) == SP!Where(where, params, row) = "true"
MCDescribes(match, row) == SP!RuleOfGroup(match, row) = "true"
MCTermLess(term, x, y) == SP!Less(x[SP!Column[term.field]], y[SP!Column[term.field]], FALSE)

TagA == [title |-> <<"a">>, artist |-> <<"a">>, duration |-> 2]
SidecarA == <<[title |-> <<"b">>], [duration |-> 2], [title |-> <<"a">>], [artist |-> <<"a">>]>>
SidecarBad == <<[artist |-> <<"b">>], [duration |-> -1]>>
File(p, lines) == [path |-> p, lines |-> lines]
MCMedia == {p1, p2}
MCStem == p1 :> <<"a">> @@ p2 :> <<"b">>
MCOffered == {TagA}
MCMediaDisks == {<<File(p1, SidecarA), File(p2, <<>>)>>, <<File(p1, SidecarA), File(p2, SidecarBad)>>}

-----------------------------------------------------------------------------
(* The others                                                               *)

MCVersions == {<<e1>>, <<e2, e1>>}
MCBlocks == {<<<<8>>, <<-2>>>>, <<<<2, 8>>, <<-6, 0>>>>}
MCRequests == {[scheme |-> "http", insecure |-> i, form |-> i] : i \in BOOLEAN}
MCLookups == {[kind |-> k, id |-> "m"] : k \in {"recording", "release", "fingerprint"}}
MCDesigns == {<<>>, <<2, 0>>, <<-1, 2>>}

\* A theme that sets some fields to itself.
ThemeOf(id, extends, fields) == [id |-> id, extends |-> extends, fields |-> [f \in fields |-> id]]
MCBuiltins == <<"dark", "light">>
MCDisks ==
    {[dark |-> ThemeOf("dark", None, {"a", "c"}), light |-> t] : t \in {ThemeOf("light", "dark", {"a", "b"}), None}}
MCUserThemes ==
    {None, ThemeOf("mine", "light", {"a"}), ThemeOf("light", "dark", {"a"}), ThemeOf("mine", "mine", {})}
MCOverrides ==
    {[handle |-> "o", theme |-> t] : t \in {None, ThemeOf("more", "dark", {"b"})}}
    \cup {[handle |-> "p", theme |-> ThemeOf("dark", "more", {"a"})]}

-----------------------------------------------------------------------------

\* Who looks up, sends a frame or a request or refreshes a feed tells the
\* threads apart by nothing else.
MCSymmetry == Permutations(Threads) \cup Permutations(Refreshers) \cup Permutations(Senders)
===============================================================================
