----------------------------- MODULE MCQueries -----------------------------
(* What a query finds: the tokens of a file, the references of a workspace, *)
(* the hierarchy of a design, its cones, definitions, and the diagnostics of *)
(* headers. The six share no state; lab says which one a behaviour is about, *)
(* and the variables of the others keep one value.                           *)
EXTENDS SyntaxIndexer, References, Hierarchy, Cones, Definitions, HeaderDiags

CONSTANT Labs  \* what a run is about

VARIABLE lab

T(f, r, k, s, b, o, n) ==
  [file |-> f, role |-> r, kind |-> k, scope |-> s, block |-> b, of |-> o, text |-> n]
Unit(f, k, n)         == T(f, "unit", k, 0, FALSE, 0, n)
Member(f, k, s, n)    == T(f, "member", k, s, FALSE, 0, n)
Use(f, s, b, n)       == T(f, "use", "", s, b, 0, n)
Conn(f, r, s, o, n)   == T(f, r, "", s, FALSE, o, n)

\* A module with a port, an instance connected by shorthand in a module that shadows
\* the name in a block, and one connected by name.
Ports == <<
  Unit("A", "Module", "m"), Member("A", "Port", 1, "x"), Use("A", 1, FALSE, "x"),
  Unit("B", "Module", "t"), Member("B", "Variable", 4, "x"),
  Conn("B", "type", 4, 7, "m"), Member("B", "Instance", 4, "u"), Conn("B", "shorthand", 4, 6, "x"),
  T("B", "local", "Variable", 4, TRUE, 0, "x"), Use("B", 4, TRUE, "x"), Use("B", 4, FALSE, "x"),
  Unit("C", "Module", "s"), Member("C", "Variable", 12, "x"),
  Conn("C", "type", 12, 16, "m"), Conn("C", "named", 12, 14, "x"), Member("C", "Instance", 12, "u"),
  Use("C", 12, FALSE, "x")>>

\* A package member used through a wildcard and with its package's name, next to
\* others that are spelled the same.
Package == <<
  Unit("A", "Package", "p"), Member("A", "Parameter", 1, "c"), Use("A", 1, FALSE, "c"),
  Unit("B", "Module", "t"), T("B", "importPkg", "", 4, FALSE, "star", "p"), Use("B", 4, FALSE, "c"),
  Unit("C", "Module", "s"), Conn("C", "pkg", 7, 0, "p"), Conn("C", "scoped", 7, 8, "c"),
  Member("C", "Parameter", 7, "c"), Use("C", 7, FALSE, "c"),
  Unit("D", "Package", "q"), Member("D", "Parameter", 12, "c"), Conn("D", "pkg", 12, 0, "p"),
  Conn("D", "scoped", 12, 14, "c")>>

MCPrograms == {Ports, Package}

----------------------------------------------------------------------------
V(s, n)      == [op |-> "val", sym |-> s, at |-> n]
Sel(b, i)    == [op |-> "select", base |-> b, index |-> i]
Ex(a)        == [op |-> "expr", exprs |-> a]
Assign(l, r) == [op |-> "assign", left |-> l, right |-> r]
If(c, s)     == [op |-> "if", exprs |-> c, stmts |-> s]
Blk(s)       == [op |-> "block", stmts |-> s]
In(p, e)     == [dir |-> "In", port |-> p, expr |-> e]
Out(p, e)    == [dir |-> "Out", port |-> p, expr |-> Assign(e, Ex(<<>>))]

\* Nested conditions, a concatenation, an instance with its inside, and an interface
\* through its modport; f says which signal stands where.
Wired(f) == [signals |-> {"a", "b", "c", "u.i", "u.o", "if.q", "nc"}, uses |-> <<
  Blk(<<If(<<V(f[1], 1)>>,
           <<Blk(<<If(<<V(f[2], 2)>>, <<Assign(V(f[3], 3), V(f[4], 4))>>),
                   Assign(V(f[5], 5), V(f[4], 6))>>),
             Assign(Ex(<<V(f[3], 7), V(f[5], 8)>>), Ex(<<V(f[1], 9), V(f[2], 10)>>))>>),
        Assign(V(f[6], 11), Ex(<<V("if.m.q", 12)>>))>>),
  [op |-> "inst", conns |-> <<In("u.i", Ex(<<V(f[3], 13)>>)), Out("u.o", V(f[6], 14))>>],
  Assign(V("u.o", 15), V("u.i", 16)),
  Assign(V("if.m.q", 17), V(f[1], 18))>>, inits |-> <<>>]

Switched == [signals |-> {"a", "b", "c", "x", "y", "u.i", "u.q"}, uses |-> <<
  Blk(<<[op |-> "case", sel |-> V("a", 1), items |-> <<
           [exprs |-> <<V("b", 2)>>, stmt |-> Assign(V("x", 3), Ex(<<>>))],
           [exprs |-> <<V("c", 4)>>, stmt |-> Assign(V("x", 5), V("b", 6))]>>,
         stmts |-> <<Assign(V("x", 7), Ex(<<>>))>>],
        Assign(V("y", 8), V("b", 9))>>),
  Assign(V("a", 10), V("y", 11)),
  [op |-> "inst", conns |-> <<[dir |-> "Out", port |-> "u.q", expr |-> None], In("u.i", V("x", 12))>>]>>,
  inits |-> <<>>]

\* A clocked process with an index on a left side, a loop and a call, an instance whose
\* first port is connected to e, and a declaration with an initializer.
Clocked(f, e) == [signals |-> {"a", "b", "c", "clk", "w", "u.i", "u.j", "u.o"}, uses |-> <<
  [op |-> "timed", exprs |-> <<V("clk", 1)>>, stmts |-> <<Blk(<<
     If(<<V(f[1], 2)>>, <<Assign(Sel(V(f[2], 3), V(f[3], 4)), V(f[4], 5))>>),
     [op |-> "loop", exprs |-> <<V(f[3], 6)>>, stmts |-> <<Assign(V(f[1], 7), V(f[4], 8))>>],
     [op |-> "call", exprs |-> <<V(f[2], 9)>>, stmts |-> <<>>]>>)>>],
  [op |-> "inst", conns |-> <<In("u.i", e), In("u.j", V(f[3], 10)),
                              Out("u.o", Sel(V(f[1], 11), V(f[4], 12)))>>],
  Assign(V("u.o", 13), V("u.i", 14))>>,
  inits |-> <<[left |-> V("w", 15), right |-> V(f[4], 16)]>>]

\* A register behind a clock that also gates an assignment.
Register == [signals |-> {"a", "b", "c", "clk"}, uses |-> <<
  [op |-> "timed", exprs |-> <<V("clk", 1)>>, stmts |-> <<Assign(V("a", 2), V("b", 3))>>],
  Assign(V("c", 4), Ex(<<V("a", 5), V("clk", 6)>>))>>, inits |-> <<>>]

Wirings    == [1 .. 4 -> {"a", "b", "c"}]
MCClocked  == {Clocked(f, V("b", 17)) : f \in Wirings}
MCOpen     == {Clocked(f, None) : f \in Wirings}
MCDesigns  == {Wired(f) : f \in [1 .. 6 -> {"a", "b", "c"}]} \cup {Switched, Register} \cup MCClocked \cup MCOpen
MCEdited   == {Wired([i \in 1 .. 6 |-> "a"]), Switched}
MCModport  == "if.m.q" :> "if.q"
----------------------------------------------------------------------------
Sym(k, n, d, u, ks)  == [kind |-> k, name |-> n, def |-> d, uninst |-> u, kids |-> ks]
Inst(n, d, ks)       == Sym("Instance", n, d, FALSE, ks)
Block(n, ks)         == Sym("Block", n, "", FALSE, ks)
Arr(k, n, l, dn, ks) == [kind |-> k, name |-> n, def |-> "", uninst |-> FALSE, left |-> l, down |-> dn, kids |-> ks]
Loop(n, vs, ks)      == [kind |-> "BlockArray", name |-> n, def |-> "", uninst |-> FALSE, values |-> vs, kids |-> ks]
Val  == Sym("Value", "v", "", FALSE, <<>>)
Leaf == Inst("l", "leaf", <<Val>>)

MCTrees == {Sym("Root", "", "", FALSE, <<
  Inst("t", "top", <<
    Val, Leaf, Block("g", <<Block("h", <<Leaf>>), Val>>),
    Sym("Block", "off", "", TRUE, <<Leaf>>), Block("e", <<>>),
    Loop("ga", <<0, 1, 2>>, <<Block("", <<Leaf>>), Block("", <<>>), Block("", <<Leaf>>)>>),
    Arr("InstanceArray", "ia", 3, TRUE, <<Inst("", "mid", <<Leaf>>), Inst("", "mid", <<Val>>)>>),
    Arr("InstanceArray", "ib", 1, FALSE, <<Inst("", "mid", <<>>), Inst("", "mid", <<Leaf>>)>>)>>),
  Inst("s", "mid", <<>>), Sym("Package", "p", "p", FALSE, <<Val>>)>>)}

\* Loops that start at 1, run down, or step by 2, next to one that counts from 0.
MCLoops == {Sym("Root", "", "", FALSE, <<
  Inst("t", "top", <<
    Loop("up", <<1, 2>>, <<Block("", <<Leaf>>), Block("", <<Inst("l", "mid", <<Leaf>>)>>)>>),
    Loop("dn", <<1, 0>>, <<Block("", <<Leaf>>), Block("", <<Val>>)>>),
    Loop("by", <<0, 2>>, <<Block("", <<Inst("m", "mid", <<Leaf>>)>>), Block("", <<Leaf>>)>>),
    Loop("ok", <<0, 1>>, <<Block("", <<Loop("in", <<0>>, <<Block("", <<Leaf>>)>>)>>), Block("", <<Leaf>>)>>)>>)>>)}
MCHierarchies == MCTrees \cup MCLoops

----------------------------------------------------------------------------
Decl(k, n)        == [kind |-> k, name |-> n]
Of(n)             == [name |-> n, package |-> FALSE]
From(n)           == [name |-> n, package |-> TRUE]
Src(u, r, i, m)   == [units |-> u, refs |-> r, incl |-> i, macros |-> m]

\* A module that imports a package, which imports another, and instantiates a unit that
\* two files declare, with a header that two files include. A rewrite moves a unit, turns
\* it into one of another kind, declares it locally, or moves a macro.
MCPaths == <<"a", "b", "c", "d", "h">>
MCWritten ==
  ("a" :> <<Src({Decl("module", "t")}, <<From("p"), Of("m")>>, {"h"}, {}),
            Src({Decl("module", "t"), Decl("module", "m")}, <<From("p"), Of("m")>>, {}, {}),
            Src({Decl("interface", "m")}, <<From("q"), Of("t")>>, {"h"}, {"M"})>>) @@
  ("b" :> <<Src({Decl("package", "p")}, <<From("q")>>, {}, {}),
            Src({Decl("package", "p")}, <<>>, {"h"}, {"M"})>>) @@
  ("c" :> <<Src({Decl("module", "m")}, <<>>, {}, {}),
            Src({Decl("interface", "m"), Decl("package", "q")}, <<From("p")>>, {}, {})>>) @@
  ("d" :> <<Src({Decl("package", "q"), Decl("module", "m")}, <<From("r"), Of("m")>>, {}, {})>>) @@
  ("h" :> <<Src({}, <<>>, {}, {"M"}), Src({}, <<>>, {}, {})>>)
----------------------------------------------------------------------------
Txt(b, i, n) == [broken |-> b, incl |-> i, rev |-> n]

\* A header and two documents that may include it, alone or in a build.
MCUri     == {"h", "a", "b"}
MCContent == [u \in MCUri |->
  IF u = "h" THEN {Txt(TRUE, {}, 1), Txt(TRUE, {}, 2), Txt(FALSE, {}, 3)}
  ELSE {Txt(FALSE, {"h"}, 1), Txt(TRUE, {"h"}, 2), Txt(TRUE, {}, 3)}]
MCBuilds  == {{}, {"a"}, {"a", "b"}}
----------------------------------------------------------------------------
Only(l) == lab = l /\ UNCHANGED lab

Init ==
  /\ lab \in Labs
  /\ IF lab = "tokens" THEN IndexInit ELSE file = <<>> /\ at = 0 /\ walk = Nothing
  /\ IF lab = "references" THEN RefInit
     ELSE /\ prog = <<>> /\ name = <<>> /\ saved = <<>> /\ meaning = <<>> /\ stale = FALSE
          /\ renames = 0 /\ asked = [token |-> 0, what |-> "none"] /\ answer = <<>>
  /\ IF lab = "hierarchy" THEN HierInit
     ELSE /\ tree = Sym("Root", "", "", FALSE, <<>>) /\ known = {} /\ opened = {} /\ failed = {}
  /\ IF lab = "cones" THEN ConeInit
     ELSE /\ design = None /\ references = None /\ traced = None /\ refreshes = 0
          /\ leaves = [how |-> "answer", leaves |-> {}]
  /\ IF lab = "definitions" THEN DefInit
     ELSE docs = <<>> /\ order = <<>> /\ indexed = <<>> /\ saves = 0 /\ reply = Nil
  /\ IF lab = "headers" THEN HeaderInit
     ELSE /\ latest = [u \in Uri |-> Txt(FALSE, {}, 0)] /\ listed = {} /\ held = {} /\ built = FALSE
          /\ client = EmptyDiags /\ shown = client.diags /\ updates = 0

Next ==
  \/ Only("tokens") /\ Visit /\ UNCHANGED <<refVars, hierVars, coneVars, defVars, headerVars>>
  \/ Only("references") /\ RefNext /\ UNCHANGED <<indexVars, hierVars, coneVars, defVars, headerVars>>
  \/ Only("hierarchy") /\ HierNext /\ UNCHANGED <<indexVars, refVars, coneVars, defVars, headerVars>>
  \/ Only("cones") /\ ConeNext /\ UNCHANGED <<indexVars, refVars, hierVars, defVars, headerVars>>
  \/ Only("definitions") /\ DefNext /\ UNCHANGED <<indexVars, refVars, hierVars, coneVars, headerVars>>
  \/ Only("headers") /\ HeaderNext /\ UNCHANGED <<indexVars, refVars, hierVars, coneVars, defVars>>

Spec == Init /\ [][Next]_<<lab, indexVars, refVars, hierVars, coneVars, defVars, headerVars>>
=============================================================================
