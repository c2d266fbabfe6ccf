-------------------------------- MODULE Layout --------------------------------
(* What the interpreter makes of the layout of a skin, and the budget it    *)
(* holds the layout to.                                                     *)
(* src/desktop/src/skin/layout.cpp                                          *)
(*                                                                          *)
(* JSON is as in Json.tla; a number that is not whole is [real |-> its      *)
(* whole part]. A node is [type, fields, children, bindings]: a field that  *)
(* is not set is not in the domain of fields. What the JSON schema says of  *)
(* a document is the schema library's.                                      *)
EXTENDS Integers, Sequences, FiniteSets, SequencesExt

CONSTANTS MaxNodes, MaxDepth, MaxBindings   \* 500, 24, 64

Leaves ==
    {"Text", "Marquee", "Icon", "Image", "AlbumArt", "Divider", "Badge", "Button", "ToggleButton", "Slider",
     "VolumeControl", "TransportBar", "SearchField", "TabBar", "ListView", "Visualizer", "SeekBar", "PeakMeter",
     "WaveformView", "LyricsView", "Rating", "ProgressBar", "Spacer"}
Containers == {"Stack", "Row", "Column", "Grid", "Panel", "ScrollArea", "SplitPane"}

-----------------------------------------------------------------------------
(* The fields of a node                                                     *)

Words ==
    [align |-> {"start", "center", "end", "stretch", "baseline"},
     justify |-> {"start", "center", "end", "spaceBetween", "spaceAround"},
     orientation |-> {"horizontal", "vertical"},
     fit |-> {"cover", "contain", "fill", "none"},
     fallback |-> {"placeholder", "none", "blurredColor"},
     overflow |-> {"clip", "ellipsis", "wrap", "marquee"},
     textAlign |-> {"start", "center", "end"},
     scrollDirection |-> {"vertical", "horizontal", "both"}]
Kinds ==
    [f \in DOMAIN Words |-> "word"]
    @@ [f \in {"id", "background", "text", "efs", "bind", "style", "color", "tooltip", "accessibleName", "action",
               "source", "icon", "placeholder"} |-> "string"]
    @@ [f \in {"elevation", "maxLines", "columns", "rows", "barCount", "maxStars"} |-> "int"]
    @@ [f \in {"opacity", "iconSize", "split", "min", "max", "step", "speed"} |-> "number"]
    @@ [f \in {"clip", "showBuffered", "showLabels"} |-> "bool"]
    @@ [f \in {"width", "height"} |-> "dimension"]
    @@ [f \in {"sizing", "size"} |-> "size"]
    @@ [f \in {"padding", "margin", "spacing", "radius"} |-> "token"]
Buttons ==
    {"previous", "playPause", "play", "pause", "stop", "next", "shuffle", "repeat", "stopAfterCurrent", "loved", "rating"}

Has(v, key) == "obj" \in DOMAIN v /\ key \in DOMAIN v.obj
IsNumber(v) == DOMAIN v \cap {"num", "real"} # {}
Whole(v) == IF "real" \in DOMAIN v THEN [num |-> v.real] ELSE v
\* A share is [share |-> n]; whatever is no dimension is nothing wide.
Dimension(v) ==
    IF IsNumber(v) \/ "share" \in DOMAIN v THEN v
    ELSE IF "str" \in DOMAIN v /\ v.str \in {"fill", "auto"} THEN v ELSE [num |-> 0]
\* A group without a width or a height has the usual ones.
SizeOf(v) == [f \in {"width", "height"} |-> IF Has(v, f) THEN Dimension(v.obj[f]) ELSE [usual |-> f]]

\* The name of a radius or of a space is looked at after the string it was in
\* is gone: what is set may be anything.
Lost == [lost |-> 0]
\* What a value says to a field, as a set of at most one.
Understood(f, kind, v) ==
    CASE kind = "string" -> IF "str" \in DOMAIN v THEN {v} ELSE {}
      [] kind = "word" -> IF "str" \in DOMAIN v /\ v.str \in Words[f] THEN {v} ELSE {}
      [] kind = "int" -> IF "num" \in DOMAIN v THEN {v} ELSE {}
      [] kind = "number" -> IF IsNumber(v) THEN {v} ELSE {}
      [] kind = "bool" -> IF "bool" \in DOMAIN v THEN {v} ELSE {}
      [] kind = "dimension" -> {Dimension(v)}
      [] kind = "size" -> {SizeOf(v)}
      [] OTHER -> IF "str" \in DOMAIN v THEN {Lost} ELSE IF IsNumber(v) THEN {Whole(v)} ELSE {}

Read(doc, f) == IF Has(doc, f) THEN Understood(f, Kinds[f], doc.obj[f]) ELSE {}
Button(v) == IF v.str \in Buttons THEN v.str ELSE "playPause"
ButtonsOf(doc) ==
    IF ~Has(doc, "buttons") \/ "arr" \notin DOMAIN doc.obj["buttons"] THEN <<>>
    ELSE LET named == SelectSeq(doc.obj["buttons"].arr, LAMBDA b : "str" \in DOMAIN b)
         IN [i \in DOMAIN named |-> Button(named[i])]
BorderOf(doc) ==
    IF ~Has(doc, "border") \/ "obj" \notin DOMAIN doc.obj["border"] THEN {}
    ELSE {[f \in {x \in {"color", "width"} : Has(doc.obj["border"], x) /\ (x = "width" => IsNumber(doc.obj["border"].obj[x]))} |->
             doc.obj["border"].obj[f]]}
Fields(doc) ==
    [fields |-> [f \in {g \in DOMAIN Kinds : Read(doc, g) # {}} |-> CHOOSE v \in Read(doc, f) : TRUE],
     buttons |-> ButtonsOf(doc), border |-> BorderOf(doc)]

\* The one thing that is not read with care is the colour of a border.
Throws(doc) ==
    /\ Has(doc, "border") /\ Has(doc.obj["border"], "color")
    /\ "str" \notin DOMAIN doc.obj["border"].obj["color"]

-----------------------------------------------------------------------------
(* The tree                                                                 *)

\* What is no type anybody knows is a panel.
TypeOf(doc) ==
    IF Has(doc, "type") /\ "str" \in DOMAIN doc.obj["type"] /\ doc.obj["type"].str \in Leaves
    THEN doc.obj["type"].str
    ELSE IF Has(doc, "type") /\ "str" \in DOMAIN doc.obj["type"] /\ doc.obj["type"].str \in Containers
    THEN doc.obj["type"].str ELSE "Panel"
ChildrenOf(doc) ==
    IF TypeOf(doc) \in Containers /\ Has(doc, "children") /\ "arr" \in DOMAIN doc.obj["children"]
    THEN SelectSeq(doc.obj["children"].arr, LAMBDA c : "obj" \in DOMAIN c) ELSE <<>>

SumOf(numbers) == FoldLeft(LAMBDA sum, n : sum + n, 0, numbers)
Bound(doc) == IF Read(doc, "bind") # {} THEN 1 ELSE 0
RECURSIVE BuildNode(_)
BuildNode(doc) ==
    LET children == [i \in DOMAIN ChildrenOf(doc) |-> BuildNode(ChildrenOf(doc)[i])]
    IN [type |-> TypeOf(doc), is |-> Fields(doc), children |-> children,
        bindings |-> Bound(doc) + SumOf([i \in DOMAIN children |-> children[i].bindings])]
RECURSIVE TreeThrows(_)
TreeThrows(doc) == Throws(doc) \/ \E i \in DOMAIN ChildrenOf(doc) : TreeThrows(ChildrenOf(doc)[i])

RECURSIVE CountNodes(_)
CountNodes(node) == 1 + SumOf([i \in DOMAIN node.children |-> CountNodes(node.children[i])])
RECURSIVE Depth(_, _)
Depth(node, d) ==
    LET below == {Depth(node.children[i], d + 1) : i \in DOMAIN node.children} \cup {d}
    IN CHOOSE n \in below : \A k \in below : k <= n
MaxDepthOf(node) == Depth(node, 1)
\* What is bound in a node was counted for each node around it already.
RECURSIVE CountBindings(_)
CountBindings(node) == node.bindings + SumOf([i \in DOMAIN node.children |-> CountBindings(node.children[i])])

RootOf(doc) == IF Has(doc, "root") /\ "obj" \in DOMAIN doc.obj["root"] THEN doc.obj["root"] ELSE [obj |-> <<>>]
WithinNodesAndDepth(root) ==   \* mutant: the bindings are not held to a limit
    CountNodes(root) <= MaxNodes /\ MaxDepthOf(root) <= MaxDepth
WithinBudget(root) ==
    CountNodes(root) <= MaxNodes /\ MaxDepthOf(root) <= MaxDepth /\ CountBindings(root) <= MaxBindings
Accepted(doc, root) == IF TreeThrows(doc) \/ ~WithinBudget(root) THEN {} ELSE {root}
\* What a document says of itself; a field that is not set is not there.
HeadKinds == [schemaVersion |-> "int", surface |-> "string", description |-> "string", minSize |-> "size"]
HeadOf(doc) ==
    [f \in {g \in DOMAIN HeadKinds : /\ Has(doc, g) /\ Understood(g, HeadKinds[g], doc.obj[g]) # {}
                                     /\ g = "minSize" => "obj" \in DOMAIN doc.obj[g]} |->
        CHOOSE v \in Understood(f, HeadKinds[f], doc.obj[f]) : TRUE]
\* The layout of a document, as a set of at most one.
ParseLayout(doc, valid) ==
    IF valid THEN {[head |-> HeadOf(doc), root |-> r] : r \in Accepted(RootOf(doc), BuildNode(RootOf(doc)))} ELSE {}

-----------------------------------------------------------------------------

\* The nodes of a document, told by the way to each: an object among the
\* children of one that is no leaf.
RECURSIVE Ways(_)
Ways(doc) ==
    {<<>>} \cup UNION {{<<i>> \o way : way \in Ways(ChildrenOf(doc)[i])} : i \in DOMAIN ChildrenOf(doc)}
RECURSIVE NodeAt(_, _)
NodeAt(doc, way) == IF way = <<>> THEN doc ELSE NodeAt(ChildrenOf(doc)[way[1]], Tail(way))
RECURSIVE BuiltAt(_, _)
BuiltAt(node, way) == IF way = <<>> THEN node ELSE BuiltAt(node.children[way[1]], Tail(way))

\* A layout that is accepted has no more nodes, levels and bindings than it may:
\* each is counted over all that was built, and nothing is built of what a leaf
\* holds. What a node says stays with that node, where it is not Lost. Nothing
\* is held of how many bindings are refused: see README.md.
Bindings(root, ways) == {way \in ways : "bind" \in DOMAIN BuiltAt(root, way).is.fields}
SaysOfItself(node, own) ==
    /\ node.is.buttons = own.buttons /\ node.is.border = own.border /\ DOMAIN node.is.fields = DOMAIN own.fields
    /\ \A f \in DOMAIN own.fields : own.fields[f] # Lost => node.is.fields[f] = own.fields[f]
Counted(doc, root, ways, bound) ==
    /\ CountNodes(root) = Cardinality(ways) /\ \A way \in ways : Len(way) < MaxDepthOf(root)
    /\ \E way \in ways : MaxDepthOf(root) = Len(way) + 1
    /\ CountBindings(root) >= Cardinality(bound)
    /\ \A way \in ways : SaysOfItself(BuiltAt(root, way), Fields(NodeAt(doc, way)))
Within(ways, bound) ==
    /\ Cardinality(ways) <= MaxNodes /\ Cardinality(bound) <= MaxBindings
    /\ \A way \in ways : Len(way) < MaxDepth
Judged(doc, root, ways) ==
    /\ Counted(RootOf(doc), root, ways, Bindings(root, ways))
    /\ \A layout \in ParseLayout(doc, TRUE) : layout.root = root /\ Within(ways, Bindings(root, ways))
LayoutHolds(doc) ==
    Judged(doc, BuildNode(RootOf(doc)), Ways(RootOf(doc)))
===============================================================================
