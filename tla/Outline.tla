------------------------------ MODULE Outline ------------------------------
(***************************************************************************)
(* The outline of a document: the tree of its declarations' names. A        *)
(* declaration is [parent, what, name, included] and known by its place in  *)
(* the document; the ones in it have it as their parent, 0 is the file.     *)
(***************************************************************************)
EXTENDS Integers, Sequences, SequencesExt, FiniteSets, FiniteSetsExt

CONSTANT Outlines     \* the documents: sequences of declarations

VARIABLES declared,   \* the document's declarations
          outline     \* the last answer, NotAsked before the first

outVars == <<declared, outline>>

NotAsked == [asked |-> FALSE]
Concat(ss) == FoldLeft(LAMBDA a, b : a \o b, <<>>, ss)
----------------------------------------------------------------------------
Within(d, i) == SelectSeq([j \in DOMAIN d |-> j], LAMBDA j : d[j].parent = i)

\* Headers are not told apart.
extract_rangeAnyFile(n) == n.name # "" \/ n.what = "block"

\* extract_range: nothing from an include, nothing without a name.
extract_range(n) == ~ n.included /\ (n.name # "" \/ n.what = "block")

\* The symbols of declaration i. Other syntax is looked through, a port of an ANSI header
\* is not looked into, and a function goes by the text of its name, wherever it is from.
RECURSIVE visit(_, _)
visit(d, i) ==
  LET n == d[i]
      inside == LET js == Within(d, i) IN Concat([k \in DOMAIN js |-> visit(d, js[k])])
      symbol(children) == <<[of |-> i, children |-> children]>>
  IN CASE n.what = "other" -> inside
       [] n.what = "function" -> IF n.name # "" THEN symbol(inside) ELSE <<>>
       [] n.what = "ansi" -> IF extract_range(n) THEN symbol(<<>>) ELSE <<>>
       [] OTHER -> IF extract_range(n) THEN symbol(inside) ELSE <<>>

\* The macros of the tree follow the declarations.
get_symbols(d) ==
  LET top(S) == SelectSeq(Within(d, 0), LAMBDA j : (d[j].what = "macro") = S)
  IN Concat([k \in DOMAIN top(FALSE) |-> visit(d, top(FALSE)[k])])
       \o Concat([k \in DOMAIN top(TRUE) |-> visit(d, top(TRUE)[k])])

OutlineInit == declared \in Outlines /\ outline = NotAsked

DocSymbols ==
  /\ outline' = [asked |-> TRUE, symbols |-> get_symbols(declared)]
  /\ UNCHANGED declared
----------------------------------------------------------------------------
RECURSIVE Ancestors(_, _)
Ancestors(d, i) == IF d[i].parent = 0 THEN {} ELSE {d[i].parent} \cup Ancestors(d, d[i].parent)

\* The places in the outline: each symbol with the one it is under, 0 at the top.
RECURSIVE Places(_, _)
Places(ss, p) == UNION {{<<p, ss[k].of>>} \cup Places(ss[k].children, ss[k].of) : k \in DOMAIN ss}

\* The outline has every named declaration of the file, under the innermost shown
\* declaration around it, unless one around it could not be shown; nothing else, and
\* nothing a header declares but its functions. SymbolTreeVisitor moves one pointer up
\* and down for this, and gives up a whole subtree when extract_range fails.
OutlineExact ==
  outline.asked =>
    LET d        == declared
        shows(i) == IF d[i].what = "function" THEN d[i].name # ""
                    ELSE d[i].what # "other" /\ ~ d[i].included /\ (d[i].name = "" => d[i].what = "block")
        around(i) == {a \in Ancestors(d, i) : d[a].what # "other"}
        in(i)     == \A a \in {i} \cup around(i) : shows(a)
    IN Places(outline.symbols, 0)
         = {<<IF around(i) = {} THEN 0 ELSE Max(around(i)), i>> : i \in {j \in DOMAIN d : in(j)}}
=============================================================================
