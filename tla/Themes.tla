-------------------------------- MODULE Themes --------------------------------
(* What the loader reads of a theme.json, how one theme inherits from      *)
(* another, and what a tokens.json changes.                                 *)
(* src/desktop/src/theme/loader.cpp, chain.cpp, tokens.cpp                  *)
(*                                                                          *)
(* JSON is as in Json.tla. A theme is a function from the paths of the      *)
(* document to values: a field that is not set is not in its domain. What   *)
(* the JSON schema says of a document is the schema library's.              *)
EXTENDS Integers, Sequences, FiniteSets, TLC

Is(v, kind) ==
    CASE kind = "string" -> "str" \in DOMAIN v
      [] kind = "int" -> "num" \in DOMAIN v
      [] kind = "number" -> "num" \in DOMAIN v \/ "real" \in DOMAIN v
      [] kind = "bool" -> "bool" \in DOMAIN v
      [] kind = "strings" -> "arr" \in DOMAIN v /\ v.arr # <<>> /\ \A i \in DOMAIN v.arr : "str" \in DOMAIN v.arr[i]
      [] kind = "ints" -> "arr" \in DOMAIN v /\ Len(v.arr) >= 4 /\ \A i \in DOMAIN v.arr : "num" \in DOMAIN v.arr[i]
      [] kind = "cubic" -> /\ "arr" \in DOMAIN v /\ Len(v.arr) = 4
                           /\ \A i \in DOMAIN v.arr : DOMAIN v.arr[i] \cap {"num", "real"} # {}
      [] OTHER -> "arr" \in DOMAIN v

\* The member of a value by that name, as a set of at most one.
Member(v, key) == IF "obj" \in DOMAIN v /\ key \in DOMAIN v.obj THEN {v.obj[key]} ELSE {}
Node(doc, path) ==
    LET deeper(nodes, key) == UNION {Member(v, key) : v \in nodes}
    IN IF path = <<>> THEN {doc}
       ELSE IF Len(path) = 1 THEN Member(doc, path[1])
       ELSE IF Len(path) = 2 THEN deeper(Member(doc, path[1]), path[2])
       ELSE deeper(deeper(Member(doc, path[1]), path[2]), path[3])
Given(v) == "nil" \notin DOMAIN v

-----------------------------------------------------------------------------
(* The loader                                                               *)

All(names, kind) == [n \in names |-> kind]
Group(at, must, may) == [at |-> at, needed |-> TRUE, must |-> must, may |-> may]
Optional(at, may) == [at |-> at, needed |-> FALSE, must |-> <<>>, may |-> may]
StyleFields == All({"lineHeight", "letterSpacing"}, "number") @@ "weight" :> "int" @@ "transform" :> "string"
\* What TypeStyle needs and allows, at body and label.
Style(name) == Group(<<"typography", "scale", name>>, "size" :> "number", StyleFields)

Colours ==
    {Group(<<"color", "background">>, "base" :> "string", All({"sunken", "raised", "overlay", "scrim"}, "string")),
     Group(<<"color", "surface">>, "base" :> "string", All({"hover", "pressed", "selected", "disabled"}, "string")),
     Group(<<"color", "text">>, All({"primary", "secondary"}, "string"),
           All({"tertiary", "disabled", "inverse", "onAccent", "link"}, "string")),
     Group(<<"color", "accent">>, "base" :> "string", All({"hover", "pressed", "subtle", "muted"}, "string")),
     Group(<<"color", "border">>, "base" :> "string", All({"subtle", "strong", "focus"}, "string")),
     Optional(<<"color", "state">>, All({"success", "warning", "error", "info"}, "string")),
     Optional(<<"color", "playback">>, All({"progress", "progressTrack", "buffered", "waveform", "waveformPlayed",
                                            "peakMeter", "peakMeterClip"}, "string")),
     Optional(<<"color", "visualizer">>, "palette" :> "strings" @@ "background" :> "string")}
Identity ==
    Group(<<>>, All({"id", "name", "version", "mode"}, "string") @@ "schemaVersion" :> "int",
          All({"author", "license", "homepage", "description", "minAppVersion", "extends"}, "string"))
Typography ==
    {Group(<<"typography">>, <<>>, "baseSize" :> "number"),
     Group(<<"typography", "fontFamily">>, "sans" :> "strings", All({"mono", "display"}, "strings")),
     Group(<<"typography", "scale">>, <<>>, <<>>), Style("body"), Style("label")}
Rest ==
    {Optional(<<"shape", "radius">>, All({"none", "sm", "md", "lg", "xl", "full"}, "int")),
     Optional(<<"shape", "borderWidth">>, All({"hairline", "thin", "thick"}, "number")),
     Optional(<<"spacing">>, "unit" :> "int" @@ "density" :> "string" @@ "scale" :> "ints"),
     Optional(<<"motion", "duration">>, All({"instant", "fast", "normal", "slow"}, "int")),
     Optional(<<"motion", "easing">>, All({"standard", "decelerate", "accelerate", "emphasized"}, "cubic")),
     Optional(<<"opacity">>, All({"disabled", "hover", "pressed", "scrim", "ghost"}, "number")),
     Optional(<<"icons">>, All({"setId", "style"}, "string") @@ All({"strokeWidth", "sizeScale"}, "number")),
     Optional(<<"assets">>, All({"background", "backgroundFit", "logo"}, "string") @@ "backgroundOpacity" :> "number"),
     Optional(<<"a11y">>, "contrastTarget" :> "string" @@ "respectsReducedMotion" :> "bool" @@
                          All({"minTouchTarget", "focusRingWidth"}, "int"))}
Groups == {Identity} \cup Colours \cup Typography \cup Rest

\* A required group or field is missing or of another type, or an optional field
\* is of another type. A group that is no object has no fields.
Refuses(doc, g) ==
    \/ g.needed /\ Node(doc, g.at) = {}
    \/ \E v \in Node(doc, g.at) :
        \/ \E f \in DOMAIN g.must : ~\E w \in Member(v, f) : Is(w, g.must[f])
        \/ \E f \in DOMAIN g.may : \E w \in Member(v, f) : Given(w) /\ ~Is(w, g.may[f])
Reads(doc, g) ==
    UNION {{<<Append(g.at, f), w>> : w \in Member(v, f)} :
           f \in DOMAIN g.must \cup DOMAIN g.may, v \in Node(doc, g.at)}

\* The other styles of the scale are looked for in the scale itself: set together
\* if it has a "size".
ScaleFields == "size" :> "number" @@ StyleFields
OtherStyles == {"display", "headline", "title", "caption", "mono"}
ScaleStyle(doc) == UNION {Member(v, "size") : v \in Node(doc, <<"typography", "scale">>)}
SetsStyles(doc) == \E w \in ScaleStyle(doc) : Given(w)
RefusesStyles(doc) ==
    SetsStyles(doc) /\ \E v \in Node(doc, <<"typography", "scale">>) :
        \E f \in DOMAIN ScaleFields : \E w \in Member(v, f) : Given(w) /\ ~Is(w, ScaleFields[f])

Elevations(doc) == Member(doc, "elevation")
RefusesElevation(e) ==
    \/ ~Is(e, "array") \/ Len(e.arr) > 6
    \/ \E i \in DOMAIN e.arr :
        \/ \E f \in {"offsetY", "blur"} : ~\E w \in Member(e.arr[i], f) : Is(w, "number")
        \/ ~\E w \in Member(e.arr[i], "color") : Is(w, "string")
        \/ \E f \in {"offsetX", "spread"} : \E w \in Member(e.arr[i], f) : Given(w) /\ ~Is(w, "number")

RefusesMode(doc) == ~\E w \in Member(doc, "mode") : "str" \in DOMAIN w /\ w.str \in {"light", "dark"}

Settings(doc) ==
    {r \in UNION {Reads(doc, g) : g \in Groups} : Given(r[2])}
        \cup {<<<<"elevation">>, e>> : e \in Elevations(doc)}
        \cup (IF SetsStyles(doc) THEN {<<<<"typography", "scale", n>>, v>> : n \in OtherStyles,
                                       v \in Node(doc, <<"typography", "scale">>)} ELSE {})
Accepted(doc) ==
    ~(\E g \in Groups : Refuses(doc, g)) /\ ~RefusesStyles(doc) /\ ~RefusesMode(doc)
        /\ \A e \in Elevations(doc) : ~RefusesElevation(e)
AsFunction(pairs) == [p \in {s[1] : s \in pairs} |-> (CHOOSE s \in pairs : s[1] = p)[2]]
\* The theme of a document, as a set of at most one.
LoadTheme(doc, valid) == IF valid /\ Accepted(doc) THEN {AsFunction(Settings(doc))} ELSE {}

-----------------------------------------------------------------------------
(* Inheritance: the fields that merge() names                               *)

At(path, names) == {Append(path, n) : n \in names}
InheritedColours ==
    At(<<"color", "background">>, {"sunken", "raised", "overlay", "scrim"})
        \cup At(<<"color", "surface">>, {"hover", "pressed", "selected", "disabled"})
        \cup At(<<"color", "text">>, {"tertiary", "disabled", "inverse", "onAccent", "link"})
        \cup At(<<"color", "accent">>, {"hover", "pressed", "subtle", "muted"})
        \cup At(<<"color", "state">>, {"success", "warning", "error", "info"})
        \cup At(<<"color", "playback">>, {"progress", "progressTrack", "buffered", "waveform",
                                          "waveformPlayed", "peakMeter", "peakMeterClip"})
        \cup At(<<"color", "visualizer">>, {"palette", "background"})
BorderTokensWithoutFocus == At(<<"color", "border">>, {"subtle", "strong"})   \* mutant: a field is not named
BorderTokens == At(<<"color", "border">>, {"subtle", "strong", "focus"})
Inherited ==
    InheritedColours \cup BorderTokens
        \cup At(<<"typography", "scale">>, OtherStyles)
        \cup At(<<"typography", "fontFamily">>, {"sans", "mono", "display"}) \cup {<<"typography", "baseSize">>}
        \cup At(<<"shape", "radius">>, {"none", "sm", "md", "lg", "xl", "full"})
        \cup At(<<"shape", "borderWidth">>, {"hairline", "thin", "thick"})
        \cup At(<<"spacing">>, {"unit", "scale", "density"}) \cup {<<"elevation">>}
        \cup At(<<"motion", "duration">>, {"instant", "fast", "normal", "slow"})
        \cup At(<<"motion", "easing">>, {"standard", "decelerate", "accelerate", "emphasized"})
        \cup At(<<"opacity">>, {"disabled", "hover", "pressed", "scrim", "ghost"})
        \cup At(<<"icons">>, {"setId", "style", "strokeWidth", "sizeScale"})
        \cup At(<<"assets">>, {"background", "backgroundFit", "backgroundOpacity", "logo"})
        \cup At(<<"a11y">>, {"contrastTarget", "respectsReducedMotion", "minTouchTarget", "focusRingWidth"})
\* An optional group the child does not have is taken whole, which is the same.
Merge(child, base) == child @@ [p \in DOMAIN base \cap Inherited |-> base[p]]

-----------------------------------------------------------------------------
(* tokens.json                                                              *)

\* The tokens of an object that must have all of them. Levels past the fifth
\* and entries that are no object are left out, and a type scale need not have
\* every style.
Part(at, fields, v) == [at |-> at, fields |-> fields, obj |-> v]
Levels == <<"1", "2", "3", "4", "5">>
TokenGroups ==
    {<<<<"spacing">>, All({"xs", "sm", "md", "lg", "xl", "2xl", "3xl", "4xl"}, "int")>>,
     <<<<"radius">>, All({"sm", "md", "lg", "xl"}, "int")>>,
     <<<<"motion", "duration">>, All({"instant", "fast", "normal", "slow"}, "int")>>}
        \cup {<<<<"typography", "scale", s>>, All({"size", "lineHeight", "letterSpacing"}, "number") @@ "weight" :> "int">> :
              s \in OtherStyles \cup {"body", "label"}}
Parts(doc) ==
    UNION {{Part(g[1], g[2], v) : v \in Node(doc, g[1])} : g \in TokenGroups}
        \cup UNION {{Part(<<"elevation", Levels[i]>>, All({"offsetY", "blur"}, "int") @@ "alpha" :> "number", e.arr[i]) :
                     i \in DOMAIN Levels \cap DOMAIN e.arr} : e \in {x \in Node(doc, <<"elevation">>) : Is(x, "array")}}
CurveNames == {"standard", "decelerate", "accelerate", "emphasized"}
Curves(doc) ==
    UNION {{<<n, v>> : v \in {x \in Node(doc, <<"motion", "easing", n>>) : "obj" \in DOMAIN x}} : n \in CurveNames}

\* A number that is not whole is cut where a token is whole.
AsToken(v, kind) == IF kind = "int" /\ "real" \in DOMAIN v THEN [num |-> v.real] ELSE v
Wanted(doc) ==
    UNION {{[at |-> Append(p.at, f), kind |-> p.fields[f], found |-> {v \in Member(p.obj, f) : Is(v, "number")}] :
            f \in DOMAIN p.fields} : p \in {q \in Parts(doc) : "obj" \in DOMAIN q.obj}}
IsCurve(v) == \E c \in Member(v, "cubicBezier") : "arr" \in DOMAIN c /\ Len(c.arr) = 4
Changed(doc) ==
    {<<w.at, AsToken(CHOOSE v \in w.found : TRUE, w.kind)>> : w \in {x \in Wanted(doc) : x.found # {}}}
        \cup {<<<<"motion", "easing", c[1]>>, CHOOSE v \in Member(c[2], "cubicBezier") : TRUE>> :
              c \in {x \in Curves(doc) : IsCurve(x[2])}}

Complete(doc) ==
    /\ \A w \in Wanted(doc) : w.found # {}
    /\ \A c \in Curves(doc) : IsCurve(c[2])
    /\ \A t \in Node(doc, <<"typography">>) : "obj" \in DOMAIN t => \E v \in Member(t, "baseSize") : Is(v, "number")
\* load() leaves what it has set before an error. The basic size of the text is
\* asked for and not kept.
LoadTokens(tokens, doc) == [ok |-> Complete(doc), tokens |-> AsFunction(Changed(doc)) @@ tokens]

\* Every token of a TokenBundle, as it comes.
Unset == [nil |-> 0]
DefaultTokens ==
    [p \in UNION {At(g[1], DOMAIN g[2]) : g \in TokenGroups}
            \cup UNION {At(<<"elevation", Levels[i]>>, {"offsetY", "blur", "alpha"}) : i \in DOMAIN Levels}
            \cup At(<<"motion", "easing">>, CurveNames) |-> Unset]

-----------------------------------------------------------------------------

\* No field that a theme may leave out is lost between the document and the
\* theme, nor where a theme inherits it from another: the tables of the loader
\* and of the chain name the same fields. What a theme sets itself it keeps,
\* and a chain may be folded from either end. The names of a theme and the
\* details of its body and label style are its own. Of the styles that the
\* loader looks for in the scale itself nothing is held: see README.md.
OwnFields ==
    UNION {At(g.at, DOMAIN g.must) : g \in Groups} \cup At(<<>>, DOMAIN Identity.may)
        \cup UNION {At(Style(n).at, DOMAIN StyleFields) : n \in {"body", "label"}}
Survives(doc, theme, own) ==
    \A s \in UNION {Reads(doc, g) : g \in Groups} :
        Given(s[2]) => /\ s[1] \in DOMAIN theme /\ theme[s[1]] = s[2]
                      /\ s[1] \in own \cup Inherited
FoldsEitherWay(a, b, c, both) ==
    /\ \A p \in DOMAIN a : both[p] = a[p]
    /\ \A p \in DOMAIN b \ OwnFields : p \in DOMAIN both
    /\ Merge(both, c) = Merge(a, Merge(b, c))
Inherits(docs, loaded) ==
    (\A i \in 1..3 : loaded[i] # {}) =>
        LET theme(i) == CHOOSE t \in loaded[i] : TRUE
        IN  /\ Survives(docs[1], theme(1), OwnFields)
            /\ FoldsEitherWay(theme(1), theme(2), theme(3), Merge(theme(1), theme(2)))
InheritanceHolds(docs, valid) == Inherits(docs, [i \in 1..3 |-> LoadTheme(docs[i], valid)])

\* A document that names every token replaces every one of them, whatever was
\* there; another leaves those it does not name, and reports whatever it names
\* by half, also after it has changed the rest. To load it again changes no more.
TokensAgree(doc, first, alone, then) ==
    /\ then.ok = alone.ok
    /\ \A p \in DOMAIN DefaultTokens :
         then.tokens[p] = IF alone.tokens[p] = Unset THEN first.tokens[p] ELSE alone.tokens[p]
    /\ LoadTokens(then.tokens, doc) = then
    /\ Complete(doc) =>
         \A g \in TokenGroups : \A p, q \in At(g[1], DOMAIN g[2]) : (alone.tokens[p] = Unset) = (alone.tokens[q] = Unset)
TokensAfter(doc, first) == TokensAgree(doc, first, LoadTokens(DefaultTokens, doc), LoadTokens(first.tokens, doc))
TokensHold(docs) == TokensAfter(docs[2], LoadTokens(DefaultTokens, docs[1]))
===============================================================================
