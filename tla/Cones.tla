------------------------------- MODULE Cones -------------------------------
(***************************************************************************)
(* Cone tracing: what drives a signal of the elaborated design and what it  *)
(* drives. A design is [signals, uses, inits]. A use is a continuous        *)
(* assignment, a process or an instance with its connections; an init is    *)
(* the initializer of a declaration, which is no use:                       *)
(*   [op |-> "val", sym, at]             a value at a place                 *)
(*   [op |-> "select", base, index]      an element of a value              *)
(*   [op |-> "expr", exprs]              any other expression               *)
(*   [op |-> "assign", left, right]                                         *)
(*   [op |-> "block", stmts]                                                *)
(*   [op |-> "if", exprs, stmts]         conditions, branches               *)
(*   [op |-> "case", sel, items, stmts]  items [exprs, stmt], default       *)
(*   [op |-> "timed", exprs, stmts]      an event control, what waits for it*)
(*   [op |-> "loop", exprs, stmts]       conditions, body                   *)
(*   [op |-> "call", exprs, stmts]       a subroutine's arguments, <<>>     *)
(*   [op |-> "inst", conns]              each [dir, port, expr]             *)
(* An expr of None is an open port. Symbols are hierarchical paths.         *)
(***************************************************************************)
EXTENDS Integers, Sequences, SequencesExt

CONSTANTS None,
          Designs,   \* the designs the files hold at first
          Edited,    \* the designs they may hold later
          Modport,   \* [modport member -> the member of the interface it stands for]
          MaxRefresh \* bound on changes of the design

VARIABLES design,     \* compilation: the elaborated design
          references, \* m_references: None, or [symbol -> uses]
          traced,     \* the last query: [path, what]
          leaves,     \* how it ended ("answer", "error" or "crash"), and its answer
          refreshes

coneVars == <<design, references, traced, leaves, refreshes>>

concreteSymbol(s) == IF s \in DOMAIN Modport THEN Modport[s] ELSE s
ValueLeaf(n) == [path |-> concreteSymbol(n.sym), at |-> n.at]
PortLeaf(c)  == [path |-> c.port, at |-> 0]

\* The children of a node in the order the visitor of slang takes them: the
\* expressions of a statement before its statements.
Children(n) ==
  CASE n.op = "val"    -> <<>>
    [] n.op = "select" -> <<n.base, n.index>>
    [] n.op = "expr"   -> n.exprs
    [] n.op = "assign" -> <<n.left, n.right>>
    [] n.op = "block"  -> n.stmts
    [] n.op \in {"if", "timed", "loop", "call"} -> n.exprs \o n.stmts
    [] n.op = "case"   -> <<n.sel>> \o FlattenSeq([i \in DOMAIN n.items |-> n.items[i].exprs])
                            \o [i \in DOMAIN n.items |-> n.items[i].stmt] \o n.stmts
    [] n.op = "inst"   -> LET wired == SelectSeq(n.conns, LAMBDA c : c.expr # None)
                          IN [i \in DOMAIN wired |-> wired[i].expr]

RECURSIVE Values(_)
Values(n) == IF n.op = "val" THEN {n} ELSE UNION {Values(k) : k \in ToSet(Children(n))}
ValuesOf(ns) == UNION {Values(k) : k \in ToSet(ns)}
----------------------------------------------------------------------------
(* ReferenceIndexer: the uses in which a symbol takes part. Initializers are none. *)

Mentions(use, s) ==
  \/ \E v \in Values(use) : concreteSymbol(v.sym) = s
  \/ use.op = "inst" /\ \E c \in ToSet(use.conns) : c.port = s

symbolToUses(d) ==
  LET uses(s) == {i \in DOMAIN d.uses : Mentions(d.uses[i], s)}
  IN [s \in {x \in d.signals : uses(x) # {}} |-> uses(s)]
----------------------------------------------------------------------------
(* DriversTracer. *)

DriversStart == [isLhs |-> FALSE, isDriven |-> FALSE, inCondition |-> FALSE,
                 port |-> None, drivers |-> {}, leaves |-> {}]

DriversValue(n, root, s) ==
  LET hit  == s.isLhs /\ concreteSymbol(n.sym) = root
      read == ~ hit /\ ~ s.isLhs /\ s.isDriven
  IN [s EXCEPT !.isDriven = @ \/ hit,
               !.leaves   = IF read THEN @ \cup {ValueLeaf(n)} ELSE @,
               !.drivers  = IF s.inCondition THEN @ \cup {ValueLeaf(n)} ELSE @]

RECURSIVE Drivers(_, _, _)
DriversAll(ns, root, s) == FoldLeft(LAMBDA t, n : Drivers(n, root, t), s, ns)

DriversAssign(n, root, s) ==
  LET l == [Drivers(n.left, root, [s EXCEPT !.isLhs = TRUE]) EXCEPT !.isLhs = FALSE]
      r == Drivers(n.right, root, l)
      all == r.leaves \cup r.drivers \cup (IF r.port = None THEN {} ELSE {r.port})
  IN [(IF l.isDriven THEN [r EXCEPT !.leaves = all] ELSE l) EXCEPT !.isDriven = FALSE]

Conditions(ns, root, s) ==
  [DriversAll(ns, root, [s EXCEPT !.inCondition = TRUE]) EXCEPT !.inCondition = FALSE]

\* The conditions of a statement hold for what is inside it only.
DriversIf(n, root, s) ==
  [DriversAll(n.stmts, root, Conditions(n.exprs, root, s)) EXCEPT !.drivers = s.drivers]

DriversCase(n, root, s) ==
  LET item(t, i) == Drivers(i.stmt, root, Conditions(i.exprs, root, t))
      items      == FoldLeft(item, Conditions(<<n.sel>>, root, s), n.items)
  IN [DriversAll(n.stmts, root, items) EXCEPT !.drivers = s.drivers]

\* The connection of an output is an assignment to the expression outside.
DriversInstance(n, root, s) ==
  LET conn(t, c) ==
        IF c.expr = None THEN t
        ELSE IF c.dir = "In" /\ c.port = root
        THEN [Drivers(c.expr, root, [t EXCEPT !.isDriven = TRUE]) EXCEPT !.isDriven = FALSE]
        ELSE IF c.dir = "Out"
        THEN [Drivers(c.expr, root, [t EXCEPT !.port = PortLeaf(c)]) EXCEPT !.port = None]
        ELSE t
  IN FoldLeft(conn, s, n.conns)

Drivers(n, root, s) ==
  CASE n.op = "val"    -> DriversValue(n, root, s)
    [] n.op = "assign" -> DriversAssign(n, root, s)
    [] n.op = "if"     -> DriversIf(n, root, s)
    [] n.op = "case"   -> DriversCase(n, root, s)
    [] n.op = "inst"   -> DriversInstance(n, root, s)
    [] OTHER           -> DriversAll(Children(n), root, s)
----------------------------------------------------------------------------
(* LoadsTracer. crashed: an open port was followed. *)

LoadsStart == [isLhs |-> FALSE, foundRoot |-> FALSE, leaves |-> {}, crashed |-> FALSE]

LoadsValue(n, root, s) ==
  IF s.isLhs THEN [s EXCEPT !.leaves = @ \cup {ValueLeaf(n)}]
  ELSE [s EXCEPT !.foundRoot = @ \/ concreteSymbol(n.sym) = root]

RECURSIVE Loads(_, _, _)
LoadsAll(ns, root, s) == FoldLeft(LAMBDA t, n : Loads(n, root, t), s, ns)

LoadsAssign(n, root, s) ==
  LET r == IF s.foundRoot THEN s ELSE Loads(n.right, root, s)
      l == IF r.foundRoot
           THEN [Loads(n.left, root, [r EXCEPT !.isLhs = TRUE]) EXCEPT !.isLhs = FALSE]
           ELSE r
  IN [l EXCEPT !.foundRoot = s.foundRoot]

LoadsIf(n, root, s) == [LoadsAll(Children(n), root, s) EXCEPT !.foundRoot = s.foundRoot]

\* An output of the root, then an input that reads it. There is no check for an open
\* port here.
LoadsInstance(n, root, s) ==
  LET conn(t, c) ==
        IF t.crashed THEN t
        ELSE IF c.dir = "Out" /\ c.port = root
        THEN IF c.expr = None THEN [t EXCEPT !.crashed = TRUE]
             ELSE [Loads(c.expr, root, [t EXCEPT !.foundRoot = TRUE]) EXCEPT !.foundRoot = t.foundRoot]
        ELSE IF c.dir = "In"
        THEN IF c.expr = None THEN [t EXCEPT !.crashed = TRUE]
             ELSE LET e == Loads(c.expr, root, t)
                  IN [e EXCEPT !.leaves = IF e.foundRoot THEN @ \cup {PortLeaf(c)} ELSE @,
                               !.foundRoot = FALSE]
        ELSE t
  IN FoldLeft(conn, s, n.conns)

\* A case, an event control, a loop and a call have no handler of their own: their
\* children are visited, and what they found is kept, for the uses that follow too.
Loads(n, root, s) ==
  CASE n.op = "val"    -> LoadsValue(n, root, s)
    [] n.op = "assign" -> LoadsAssign(n, root, s)
    [] n.op = "if"     -> LoadsIf(n, root, s)
    [] n.op = "inst"   -> LoadsInstance(n, root, s)
    [] OTHER           -> LoadsAll(Children(n), root, s)
----------------------------------------------------------------------------
\* The visit of the uses, in the order given, with one tracer.
getCone(what, root, uses) ==
  LET nodes == [i \in DOMAIN uses |-> design.uses[uses[i]]]
      l     == LoadsAll(nodes, root, LoadsStart)
  IN IF what = "drivers"
     THEN [how |-> "answer", leaves |-> DriversAll(nodes, root, DriversStart).leaves]
     ELSE [how |-> IF l.crashed THEN "crash" ELSE "answer", leaves |-> l.leaves]

ConeInit ==
  /\ design \in Designs /\ references = None /\ refreshes = 0
  /\ traced = None /\ leaves = [how |-> "answer", leaves |-> {}]

\* getCone: the index is built by the first query; a signal that no use mentions is an
\* error. The uses are a set of addresses: they come in any order. After a crash there
\* is no server.
TraceCone ==
  \E path \in design.signals \cup DOMAIN Modport, what \in {"drivers", "loads"} :
    LET index == IF references = None THEN symbolToUses(design) ELSE references
        root  == concreteSymbol(path)
    IN /\ leaves.how # "crash"
       /\ root \in design.signals
       /\ references' = index
       /\ traced' = [path |-> path, what |-> what]
       /\ \/ /\ root \in DOMAIN index
             /\ \E uses \in SetToSeqs(index[root] \cap DOMAIN design.uses) :
                  leaves' = getCone(what, root, uses)
          \/ /\ root \notin DOMAIN index
             /\ leaves' = [how |-> "error", leaves |-> {}]
       /\ UNCHANGED <<design, refreshes>>

\* Mutant: the index outlives the design it was made from.
refreshKeepsReferences ==
  /\ leaves.how # "crash" /\ refreshes < MaxRefresh /\ refreshes' = refreshes + 1
  /\ design' \in Edited /\ traced' = None
  /\ UNCHANGED <<references, leaves>>

\* refresh: a new analysis, without an index.
refresh ==
  /\ leaves.how # "crash" /\ refreshes < MaxRefresh /\ refreshes' = refreshes + 1
  /\ design' \in Edited /\ references' = None /\ traced' = None
  /\ UNCHANGED leaves

ConeNext == TraceCone \/ refresh
----------------------------------------------------------------------------
(* What flows where by the rules of the language, defined once for both     *)
(* directions and apart from the tracers. An assignment carries its right   *)
(* side and the conditions above it to what it assigns; an index on the left*)
(* is read and decides which element that is. An event control says when,   *)
(* not what: no value flows from it. Nor does one from the arguments of a   *)
(* call, whose subroutine is not looked into.                               *)
(* A flow is [from, to, as]: "followed" by the tracers, or "unseen" by at    *)
(* least one of them, or no flow but "misread" as one.                      *)

RECURSIVE Assigned(_)
Assigned(n) ==
  CASE n.op = "val"    -> {n}
    [] n.op = "select" -> Assigned(n.base)
    [] OTHER           -> UNION {Assigned(k) : k \in ToSet(Children(n))}

FlowsOf(from, to, as) ==
  {[from |-> f, to |-> t, as |-> as] : f \in {ValueLeaf(v) : v \in from}, t \in {ValueLeaf(v) : v \in to}}

\* conds are the conditions of if and case above a node, loops those of loops.
AssignFlow(n, conds, loops) ==
  LET target == Assigned(n.left)
      index  == Values(n.left) \ target
      from   == Values(n.right) \cup conds
  IN FlowsOf(from, target, "followed") \cup FlowsOf(loops \cup index, target, "unseen")
       \cup FlowsOf(from \cup loops, index, "misread")

ConnFlow(c) ==
  IF c.expr = None THEN {}
  ELSE IF c.dir = "In"
  THEN {[from |-> ValueLeaf(v), to |-> PortLeaf(c), as |-> "followed"] : v \in Values(c.expr)}
  ELSE LET target == Assigned(c.expr.left)
           index  == Values(c.expr.left) \ target
           out(to, as) == {[from |-> PortLeaf(c), to |-> ValueLeaf(v), as |-> as] : v \in to}
       IN FlowsOf(index, target, "unseen") \cup out(target, "followed") \cup out(index, "misread")

RECURSIVE Flow(_, _, _)
FlowAll(ns, conds, loops) == UNION {Flow(k, conds, loops) : k \in ToSet(ns)}

Flow(n, conds, loops) ==
  CASE n.op = "assign" -> AssignFlow(n, conds, loops)
    [] n.op \in {"block", "timed"} -> FlowAll(n.stmts, conds, loops)
    [] n.op = "if"     -> FlowAll(n.stmts, conds \cup ValuesOf(n.exprs), loops)
    [] n.op = "loop"   -> FlowAll(n.stmts, conds, loops \cup ValuesOf(n.exprs))
    [] n.op = "case"   ->
         LET upTo(k) == conds \cup Values(n.sel)
                          \cup UNION {ValuesOf(n.items[i].exprs) : i \in 1 .. k}
         IN UNION {Flow(n.items[k].stmt, upTo(k), loops) : k \in DOMAIN n.items}
              \cup FlowAll(n.stmts, upTo(Len(n.items)), loops)
    [] n.op = "inst"   -> UNION {ConnFlow(c) : c \in ToSet(n.conns)}
    [] OTHER           -> {}

Initial == UNION {FlowsOf(Values(i.right), Assigned(i.left), "unseen") : i \in ToSet(design.inits)}
Flows   == FlowAll(design.uses, {}, {}) \cup Initial

\* The answer to the last query, if flows of these kinds are what there is.
Expected(kinds) ==
  LET root == concreteSymbol(traced.path)
      f    == {g \in Flows : g.as \in kinds}
  IN IF traced.what = "drivers" THEN {g.from : g \in {h \in f : h.to.path = root}}
     ELSE {g.to : g \in {h \in f : h.from.path = root}}

\* Values read by a statement the tracer of loads has no handler for.
RECURSIVE Bare(_)
Bare(n) ==
  LET own == CASE n.op \in {"timed", "loop", "call"} -> ValuesOf(n.exprs)
               [] n.op = "case" -> Values(n.sel) \cup UNION {ValuesOf(i.exprs) : i \in ToSet(n.items)}
               [] OTHER -> {}
  IN own \cup UNION {Bare(k) : k \in ToSet(Children(n))}

Tracing(u) == Mentions(u, concreteSymbol(traced.path))

\* The query is one for loads and comes to an open port.
MeetsOpenPort ==
  /\ traced.what = "loads"
  /\ \E u \in {v \in ToSet(design.uses) : v.op = "inst" /\ Tracing(v)} : \E c \in ToSet(u.conns) :
       c.expr = None /\ (c.dir = "In" \/ c.port = concreteSymbol(traced.path))

ReadBare ==
  /\ traced.what = "loads"
  /\ \E u \in ToSet(design.uses) : \E v \in Bare(u) : concreteSymbol(v.sym) = concreteSymbol(traced.path)

\* A signal that a use of the current design mentions gets an answer: every value that
\* flows into it, conditions of the enclosing statements included, each where it stands;
\* or every value it flows to, the same relation read backwards, through ports and
\* modports alike, in whichever order the uses come. What the code leaves out is the
\* index on a left side, the condition of a loop (as a driver) and the initializer of a
\* declaration; what it adds is such an index as a target and, for the loads of a signal
\* that a case, an event control (@(posedge clk)), a loop or a call reads, anything: such
\* a read sets foundRoot, and nothing puts it back (ConeTracer.h:205). A query for loads
\* that comes to an open port ends the server (ConeTracer.h:243, 247). Else it is as
\* docs/features/hdl/neovim.md:50 says, "incoming calls yields drivers of a given signal
\* and outgoing calls yields loads or things the signal drives".
ConesMatchFlow ==
  traced # None =>
    /\ leaves.how = IF ~ \E u \in ToSet(design.uses) : Tracing(u) THEN "error"
                    ELSE IF MeetsOpenPort THEN "crash" ELSE "answer"
    /\ leaves.how = "answer" =>
         /\ Expected({"followed"}) \subseteq leaves.leaves
         /\ leaves.leaves \subseteq Expected({"followed", "unseen", "misread"}) \/ ReadBare
=============================================================================
