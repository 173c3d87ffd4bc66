----------------------------- MODULE Hierarchy -----------------------------
(***************************************************************************)
(* The two views of the elaborated design: the tree a client browses with   *)
(* getScope, one scope at a time, and the instances by module. A symbol is  *)
(* a record [kind, name, def, uninst, kids], an array of instances one with *)
(* its bounds, a generate loop one with the values its genvar takes; a path *)
(* is a sequence of names.                                                  *)
(***************************************************************************)
EXTENDS Integers, Sequences, SequencesExt, FiniteSets, TLC

CONSTANT Trees        \* top instances and packages of each design

VARIABLES tree,       \* the root of the design
          known,      \* instances the client has been shown, with their modules
          opened,     \* paths it has asked getScope for
          failed      \* paths of those that getScope could not find

hierVars == <<tree, known, opened, failed>>

Kids(sym) == ToSet(sym.kids)
----------------------------------------------------------------------------
(* HierarchicalView. *)

\* toInstance: a leaf of the answer, to be opened with its own path.
toInstance(sym, name) == [kind |-> "Instance", name |-> name, def |-> sym.def, items |-> {}]

\* Elements of an array are named by their index, from the left bound on. Elements
\* that are arrays again are left out, and with them the array.
handleInstanceArray(sym) ==
  LET step     == IF sym.down THEN -1 ELSE 1
      elements == SelectSeq(sym.kids, LAMBDA e : e.kind = "Instance")
      items    == {toInstance(elements[i], ToString(sym.left + step * (i - 1))) : i \in DOMAIN elements}
  IN IF items = {} THEN {}
     ELSE {[kind |-> "InstanceArray", name |-> sym.name, def |-> elements[1].def, items |-> items]}

RECURSIVE getScopeChildren(_)

\* Empty scopes are not shown.
Scope(sym, name) ==
  LET items == getScopeChildren(sym)
  IN IF items = {} THEN {} ELSE {[kind |-> "Scope", name |-> name, def |-> "", items |-> items]}

\* Mutant: a block is shown only if it holds instances.
handleBlockScopeFlat(sym) ==
  IF sym.uninst \/ \A k \in Kids(sym) : k.kind # "Instance" THEN {} ELSE Scope(sym, sym.name)

handleBlockScope(sym) == IF sym.uninst THEN {} ELSE Scope(sym, sym.name)

\* The blocks of a loop are named by constructIndex, which counts them from 0, whatever
\* the genvar's values are.
handleBlockScopeArray(sym) ==
  LET entries == UNION {Scope(sym.kids[i], ToString(i - 1)) : i \in DOMAIN sym.kids}
  IN IF entries = {} THEN {}
     ELSE {[kind |-> "ScopeArray", name |-> sym.name, def |-> "", items |-> entries]}

\* handleParameter, handleTypeParameter, handleValue
Var(sym) == [kind |-> "Var", name |-> sym.name, def |-> "", items |-> {}]

getScopeChildren(sym) ==
  UNION {CASE k.kind = "Instance"      -> {toInstance(k, k.name)}
           [] k.kind = "Value"         -> {Var(k)}
           [] k.kind = "Block"         -> handleBlockScope(k)
           [] k.kind = "BlockArray"    -> handleBlockScopeArray(k)
           [] k.kind = "InstanceArray" -> handleInstanceArray(k)
           [] OTHER                    -> {} : k \in Kids(sym)}
----------------------------------------------------------------------------
(* ServerCompilation. *)

\* slang: what a child is called in a path, and the symbols at a path.
NameOf(sym, i) ==
  CASE sym.kind = "InstanceArray" -> ToString(IF sym.down THEN sym.left - (i - 1) ELSE sym.left + (i - 1))
    [] sym.kind = "BlockArray"    -> ToString(sym.values[i])
    [] OTHER                      -> sym.kids[i].name

RECURSIVE lookupPath(_, _)
lookupPath(sym, path) ==
  IF path = <<>> THEN {sym}
  ELSE UNION {lookupPath(sym.kids[i], Tail(path)) : i \in {j \in DOMAIN sym.kids : NameOf(sym, j) = Head(path)}}

\* getScope: an instance or a package; the root shows the tops with their children.
getScope(path) ==
  LET found == lookupPath(tree, path)
  IN IF path = <<>>
     THEN [ok |-> TRUE,
           items |-> {IF k.kind = "Package" THEN [kind |-> "Package", name |-> k.name, def |-> k.name, items |-> {}]
                      ELSE [toInstance(k, k.name) EXCEPT !.items = getScopeChildren(k)] : k \in Kids(tree)}]
     ELSE [ok |-> \E s \in found : s.kind \in {"Instance", "Package"},
           items |-> UNION {IF s.kind \in {"Instance", "Package"} THEN getScopeChildren(s) ELSE {} : s \in found}]

\* InstanceIndexer: module and path of every instance that is not uninstantiated.
RECURSIVE moduleToInstances(_, _)
moduleToInstances(sym, path) ==
  LET of(i) == LET k == sym.kids[i]
                   p == Append(path, NameOf(sym, i))
               IN IF k.uninst THEN {}
                  ELSE (IF k.kind = "Instance" THEN {[def |-> k.def, path |-> p]} ELSE {})
                         \cup moduleToInstances(k, p)
  IN UNION {of(i) : i \in DOMAIN sym.kids}

\* getScopesByModule: the instances view, by module and path.
getScopesByModule == moduleToInstances(tree, <<>>)
----------------------------------------------------------------------------
\* The instances among what an answer of getScope shows.
RECURSIVE InstancesIn(_, _)
InstancesIn(items, path) ==
  UNION {(IF i.kind = "Instance" THEN {[def |-> i.def, path |-> Append(path, i.name)]} ELSE {})
           \cup InstancesIn(i.items, Append(path, i.name)) : i \in items}

HierInit ==
  /\ tree \in Trees
  /\ known = {} /\ opened = {} /\ failed = {}

Packages == {<<k.name>> : k \in {c \in Kids(tree) : c.kind = "Package"}}

\* The client opens a scope it has been shown.
Browse ==
  \E path \in ({<<>>} \cup Packages \cup {i.path : i \in known}) \ opened :
    LET r == getScope(path)
    IN /\ opened' = opened \cup {path}
       /\ failed' = IF r.ok THEN failed ELSE failed \cup {path}
       /\ known' = known \cup InstancesIn(r.items, path)
       /\ UNCHANGED tree

HierNext == Browse

\* The path goes into a generate loop whose genvar does not count 0, 1, 2, ...
IntoSkewedLoop(path) ==
  \E n \in 0 .. Len(path) - 1 : \E sym \in lookupPath(tree, SubSeq(path, 1, n)) :
    sym.kind = "BlockArray" /\ \E i \in DOMAIN sym.kids : sym.values[i] # i - 1

\* Whatever is opened in whichever order, the tree shows instances of the instances
\* view only, every path it shows is found again, and once all of it is open it has
\* shown every one of them: through generate blocks and loops, arrays of instances and
\* their bounds. Except in a loop whose genvar does not count from 0 by 1: its blocks
\* are shown under other indices than they have (HierarchicalView.h:139), and clicking one
\* does not "open the instance [...] in the other view" (docs/features/hdl/vscode.md:34).
ViewsAgree ==
  LET instances == getScopesByModule
  IN /\ \A path \in failed : IntoSkewedLoop(path)
     /\ \A i \in known : i \in instances \/ IntoSkewedLoop(i.path)
     /\ <<>> \in opened /\ {i.path : i \in known} \subseteq opened
          => \A i \in instances : i \in known \/ IntoSkewedLoop(i.path)
=============================================================================
