---------------------------- MODULE Annotations ----------------------------
(***************************************************************************)
(* What the editor draws over one document: the edits of code actions, and  *)
(* inlay hints. Each is computed from the document's analysis alone. A      *)
(* sheet is a document as one of the two sees it.                           *)
(***************************************************************************)
EXTENDS Integers, Sequences, SequencesExt, FiniteSets, FiniteSetsExt

CONSTANTS
  Expansions, \* macro expansions: [lines, column], a line is [indent, blank]
  Sheets,     \* nodes with hints: sequences of [own, from, to, kind, args, formals, ...]
  HintConfig  \* the inlayHints of the configuration

VARIABLES view,       \* which of the two: "expansion" or "hints"
          sheet,      \* the document
          drawn       \* the last answer: [what, ...]

\* The language has arguments by position before those by name.
ArgumentList(as) ==
  /\ DOMAIN as = 1 .. Len(as)
  /\ \A k \in DOMAIN as : as[k].form = "ordered" => \A j \in 1 .. k - 1 : as[j].form \in {"ordered", "empty"}

\* An expansion has a line and a macro's arguments no names. The tree of a document
\* holds nodes of the files it includes and of macro bodies, too: such a node is not
\* own, and its offsets count in its own text.
ASSUME AnnAssumption ==
  /\ \A x \in Expansions : /\ x.lines \in Seq([indent : Nat, blank : BOOLEAN]) /\ x.lines # <<>>
                           /\ x.column \in Nat
  /\ \A s \in Sheets :
       /\ DOMAIN s = 1 .. Len(s)
       /\ \A i \in DOMAIN s :
            /\ s[i].own \in BOOLEAN /\ s[i].from \in Nat /\ s[i].to \in Nat
            /\ s[i].own => s[i].from < s[i].to
            /\ s[i].kind \in {"inst", "macro", "call", "class"}
            /\ ArgumentList(s[i].args)
            /\ s[i].kind = "macro" => /\ s[i].own
                                     /\ \A k \in DOMAIN s[i].args : s[i].args[k].form = "ordered"
            /\ s[i].kind = "inst" => /\ DOMAIN s[i].insts = 1 .. Len(s[i].insts)
                                    /\ \A j \in DOMAIN s[i].insts : ArgumentList(s[i].insts[j])

annVars == <<view, sheet, drawn>>
----------------------------------------------------------------------------
(* Code actions. *)

\* Blank lines count.
minIndentBlankToo(ls) == LET is == {ls[i].indent : i \in DOMAIN ls \ {1}} IN IF is = {} THEN 0 ELSE Min(is)

\* The smallest indent of the lines after the first that are not blank.
minIndent(ls) ==
  LET is == {ls[i].indent : i \in {j \in DOMAIN ls : j > 1 /\ ~ ls[j].blank}}
  IN IF is = {} THEN 0 ELSE Min(is)

reindent(ls, column) ==
  [i \in DOMAIN ls |->
     IF i = 1 THEN ls[1]
     ELSE [ls[i] EXCEPT !.indent = column + IF ls[i].blank THEN 0 ELSE @ - minIndent(ls)]]

\* addExpandMacroAction, on a macro usage that starts at the column.
ExpandMacro ==
  /\ view = "expansion"
  /\ drawn' = [what |-> "expanded", lines |-> reindent(sheet.lines, sheet.column)]
----------------------------------------------------------------------------
(* Inlay hints. A hint is [inst, arg, label]: the argument it stands at and   *)
(* what it says, the formals by their places; inst 0 is for arguments of the *)
(* node itself. The hints of a node are in no particular order.              *)

Hint(i, a, l) == [inst |-> i, arg |-> a, label |-> l]
OrderedBefore(as, k) == Cardinality({j \in 1 .. k - 1 : as[j].form = "ordered"})

\* Names of the ordered arguments among those at ks, the formals in turn.
OrderedHints(i, as, ks, formals) ==
  {Hint(i, k, <<OrderedBefore(as, k) + 1>>) :
     k \in {k \in ks : as[k].form = "ordered" /\ OrderedBefore(as, k) < formals}}

\* A named connection on the line of the one before ends the work on the whole
\* instantiation, and the types found for this instance are not shown.
NamedAt(conns, ports) == {k \in DOMAIN conns : conns[k].form = "named" /\ conns[k].formal <= ports}
Crowded(conns, ports) ==
  LET named == NamedAt(conns, ports)
  IN {k \in named : HintConfig.portTypes
                    /\ \E j \in named : /\ j < k /\ conns[j].line = conns[k].line
                                        /\ \A l \in named : l <= j \/ k <= l}

\* .* shows all ports.
PortHints(i, conns, ports) ==
  LET seen == {k \in DOMAIN conns : \A j \in Crowded(conns, ports) : k < j}
      all  == [p \in 1 .. ports |-> p]
  IN (IF HintConfig.ordered THEN OrderedHints(i, conns, seen, ports) ELSE {})
     \cup (IF HintConfig.wildcard THEN {Hint(i, k, all) : k \in {k \in seen : conns[k].form = "wild"}} ELSE {})
     \cup (IF HintConfig.portTypes /\ seen = DOMAIN conns
           THEN {Hint(i, k, <<conns[k].formal>>) : k \in NamedAt(conns, ports)} ELSE {})

handleInstantiation(n) ==
  LET seen == {i \in DOMAIN n.insts : \A j \in 1 .. i - 1 : Crowded(n.insts[j], n.ports) = {}}
  IN (IF HintConfig.ordered
      THEN OrderedHints(0, n.args, {k \in DOMAIN n.args : k <= n.formals}, n.formals) ELSE {})
     \cup UNION {PortHints(i, n.insts[i], n.ports) : i \in seen}

\* A macro's arguments are all ordered. Usages with few arguments have no hints.
handleMacroUsage(n) ==
  IF HintConfig.macroArgs <= 0 \/ Len(n.args) < HintConfig.macroArgs THEN {}
  ELSE {Hint(0, k, <<k>>) : k \in {k \in DOMAIN n.args : k <= n.formals}}

\* A call's formals may lack a name; the first argument by name ends the ordered ones.
NamedFormals(n) ==
  {k \in DOMAIN n.args : /\ k <= n.formals /\ k \notin n.unnamed
                         /\ \A j \in 1 .. k : n.args[j].form = "ordered"}

\* Mutant: the formals are counted by the hints given.
handleInvocationByHint(n) ==
  IF HintConfig.funcArgs <= 0 \/ Len(n.args) < HintConfig.funcArgs THEN {}
  ELSE {Hint(0, k, <<Cardinality({j \in NamedFormals(n) : j <= k})>>) : k \in NamedFormals(n)}

handleInvocation(n) ==
  IF HintConfig.funcArgs <= 0 \/ Len(n.args) < HintConfig.funcArgs THEN {}
  ELSE {Hint(0, k, <<k>>) : k \in NamedFormals(n)}

handleClassName(n) == IF HintConfig.ordered THEN OrderedHints(0, n.args, DOMAIN n.args, n.formals) ELSE {}

\* Of two nodes at one offset the first visited is kept, from whatever text: only a
\* macro usage is looked at for being in the document.
collectedHints(ns) == {i \in DOMAIN ns : \A j \in 1 .. i - 1 : ns[j].from # ns[i].from}

\* The range is taken without its last offset.
NodesInOpen(ns, start, end) ==
  LET kept   == collectedHints(ns)
      before == {i \in kept : ns[i].from < start}
      ended  == {i \in before : ns[i].to <= start}
  IN {i \in kept : ns[i].from >= start /\ ns[i].from < end}
       \cup {i \in before : \A j \in ended : ns[j].from < ns[i].from}

\* The nodes of a range of offsets: those that start in it, and the ones before them, up
\* to the first that has ended.
NodesIn(ns, start, end) ==
  LET kept   == collectedHints(ns)
      before == {i \in kept : ns[i].from < start}
      ended  == {i \in before : ns[i].to <= start}
  IN {i \in kept : ns[i].from >= start /\ ns[i].from <= end}
       \cup {i \in before : \A j \in ended : ns[j].from < ns[i].from}

\* getSymbolAtToken finds nothing for a token of another text.
handleNode(n) ==
  CASE ~ n.own -> {}
    [] n.own /\ n.kind = "inst"  -> handleInstantiation(n)
    [] n.own /\ n.kind = "macro" -> handleMacroUsage(n)
    [] n.own /\ n.kind = "call"  -> handleInvocation(n)
    [] n.own /\ n.kind = "class" -> handleClassName(n)

collectHints(start, end) ==
  /\ view = "hints"
  /\ drawn' = [what |-> "hints", start |-> start, end |-> end,
               hints |-> [i \in NodesIn(sheet, start, end) |-> handleNode(sheet[i])]]
----------------------------------------------------------------------------
AnnInit ==
  /\ \/ view = "expansion" /\ sheet \in Expansions
     \/ view = "hints" /\ sheet \in Sheets
  /\ drawn = [what |-> "none"]

AnnNext ==
  /\ UNCHANGED <<view, sheet>>
  /\ \/ ExpandMacro
     \/ /\ view = "hints"
        /\ LET last == Max({n.to : n \in {n \in Range(sheet) : n.own}})
           IN \E a \in 0 .. last : \E b \in a .. last : collectHints(a, b)

AnnSpec == AnnInit /\ [][AnnNext]_annVars
----------------------------------------------------------------------------
(* Properties. *)

Drew(what) == drawn.what = what

\* Expanding a macro keeps the shape of its text: lines after the first are moved by the
\* same distance, so that the leftmost one starts in the column of the usage.
ShapeOfExpansion ==
  Drew("expanded") =>
    LET old == sheet.lines  new == drawn.lines
        code == {i \in DOMAIN old : i > 1 /\ ~ old[i].blank}
    IN /\ Len(new) = Len(old) /\ new[1] = old[1]
       /\ \A i, j \in code : new[i].indent - new[j].indent = old[i].indent - old[j].indent
       /\ \A i \in code : new[i].indent >= sheet.column
       /\ code # {} => \E i \in code : new[i].indent = sheet.column

ArgumentsAt(n, inst) == IF inst = 0 THEN n.args ELSE n.insts[inst]

\* A hint at an argument names the formal the language binds it to: the one in the same
\* place, or the one it names itself. docs/start/config.md:188 promises "parameter/port
\* name hints on ordered (positional) instance connections" without exception; but
\* InlayHintCollector neither counts a connection left empty (the default of l.240) nor
\* leaves out a localparam of the header (l.61-71), and names another formal behind one
\* of those, and there only.
HintsNameFormals ==
  Drew("hints") =>
    \A i \in DOMAIN drawn.hints : \A h \in drawn.hints[i] :
      LET as == ArgumentsAt(sheet[i], h.inst)
      IN CASE as[h.arg].form = "ordered" ->
                \/ h.label = <<h.arg>>
                \/ \E j \in 1 .. h.arg - 1 : as[j].form = "empty"
                \/ h.inst = 0 /\ \E j \in 1 .. h.arg : j \in sheet[i].locals
           [] as[h.arg].form = "named"   -> h.label = <<as[h.arg].formal>>
           [] OTHER -> h.label = [p \in 1 .. sheet[i].ports |-> p]

\* The document's own nodes that the answer is about.
Got        == {i \in DOMAIN drawn.hints : sheet[i].own}
Reaches(i) == sheet[i].from <= drawn.end /\ sheet[i].to > drawn.start

\* A request gets the hints of every node of the document that starts in its range and
\* of none that ends before it or starts behind it, nothing is shown for nodes of other
\* texts, and every node that reaches into the range is served, unless another starts
\* inside it: for those the comment of InlayHintCollector.cpp:373, "include nodes that
\* begin before the range but extend into it", does not hold. The nodes of other texts
\* (SyntaxIndexer.cpp:55-60) have their offsets in the same map: one visited earlier at
\* the offset of a node of the document takes its place, and one with an offset inside a
\* node counts as starting inside it.
HintsOfRange ==
  Drew("hints") =>
    LET kept == {i \in DOMAIN sheet : sheet[i].own /\ \A j \in 1 .. i - 1 : sheet[j].from # sheet[i].from}
        inside(i) == \E j \in DOMAIN sheet : j # i /\ sheet[j].from > sheet[i].from /\ sheet[j].from < sheet[i].to
    IN /\ \A i \in kept : drawn.start <= sheet[i].from /\ sheet[i].from <= drawn.end => i \in Got
       /\ \A i \in Got : Reaches(i)
       /\ \A i \in DOMAIN drawn.hints \ Got : drawn.hints[i] = {}
       /\ \A i \in kept : Reaches(i) /\ ~ inside(i) => i \in Got
=============================================================================
