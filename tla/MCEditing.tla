----------------------------- MODULE MCEditing -----------------------------
(* What one open document goes through: its text, its address, the          *)
(* completions in it, its outline and what is drawn over it. These share no  *)
(* state: lab says which one a behaviour is about, and the variables of the *)
(* others keep one value.                                                   *)
EXTENDS TextSync, Uri, Completions, Annotations, Outline

CONSTANT Labs  \* what a run is about

VARIABLE lab

Tok(k, t, g) == [kind |-> k, text |-> t, gap |-> g]
Word(t) == Tok("Identifier", t, <<>>)
Paren   == Tok("(", <<"(">>, <<>>)
Sp      == <<" ">>
Note    == <<"c">>  \* a comment

MCCode == [c \in PathChars \cup {"/"} |->
             CASE c = " " -> 32 [] c = "%" -> 37 [] c = "/" -> 47 [] c = "0" -> 48 [] c = "2" -> 50
               [] c = "?" -> 63 [] c = "a" -> 97]

MCLines == {
  <<Word(<<"f">>)>>, <<Word(<<"f", "g">>), Paren>>, <<Word(<<"f">>), Tok("(", <<"(">>, Sp)>>,
  <<Word(<<"f">>), Tok("(", <<"(">>, Note)>>,
  <<Word(<<"p">>), Tok("::", <<":", ":">>, <<>>), Word(<<"f">>), Paren>>,
  <<Word(<<"o">>), Tok(".", <<".">>, <<>>), Word(<<"f">>)>>,
  <<Word(<<"i">>), Tok(".", <<".">>, <<>>)>>,
  <<Word(<<"u">>), Tok("Identifier", <<"x">>, Sp)>>,
  <<Word(<<"u">>), Tok("#", <<"#">>, <<>>)>>,
  <<Tok("MacroUsage", <<"tick", "m">>, <<>>), Paren>>, <<Tok("Tick", <<"tick">>, Sp)>>,
  <<Tok("SystemIdentifier", <<"$", "d">>, Sp), Paren>>, <<Tok("Dollar", <<"$">>, Sp)>> }

MCChains == {<<>>, <<"other", "expression", "body">>, <<"ports", "body">>, <<"other", "past", "body">>}

Macro(a, p)   == [name |-> <<"m">>, args |-> a, present |-> p]
Unit(n, k)    == [name |-> n, kind |-> k, params |-> <<<<"p">>>>, ports |-> <<<<"x">>, <<"y">>>>]
Decl(k, o, a) == [name |-> <<"f">>, kind |-> k, offset |-> o, path |-> "s.f", args |-> a]
Scope(ms, is) == [members |-> ms, imported |-> is]

MCWorlds == {
  [docMacros |-> {Macro(<<<<"a">>, <<"b">>>>, TRUE)}, idxMacros |-> {Macro(None, TRUE)},
   units |-> {Unit(<<"u">>, "Module"), Unit(<<"i">>, "Interface")},
   scopes |-> <<Scope(<<Decl("Subroutine", 1, <<<<"a">>>>), Decl("Subroutine", 2, <<>>),
                       [Decl("Subroutine", 4, <<<<"a">>>>) EXCEPT !.name = <<"f", "$">>]>>, <<>>)>>,
   signature |-> <<"default", "x", "default", "...">>],
  [docMacros |-> {}, idxMacros |-> {Macro(<<<<"a">>>>, TRUE)},
   units |-> {Unit(<<"u">>, "Package")},
   scopes |-> <<Scope(<<Decl("Port", 1, <<>>), Decl("Variable", 1, <<>>)>>,
                      <<Decl("TypeAlias", 3, <<>>)>>),
                Scope(<<Decl("Subroutine", 0, <<<<"a">>, <<"}">>>>)>>, <<>>)>>,
   signature |-> <<"x", "optional", "...">>],
  [docMacros |-> {}, idxMacros |-> {Macro(None, FALSE)},
   units |-> {Unit(<<"u">>, "Class"), Unit(<<"i">>, "Module")},
   scopes |-> <<Scope(<<Decl("Variable", 1, <<>>)>>, <<Decl("Subroutine", 2, <<<<"b">>>>)>>)>>,
   signature |-> <<"dformat", "default", "dformat">>]}

----------------------------------------------------------------------------
Names == [name : {"", "x"}, included : BOOLEAN] \ {[name |-> "", included |-> TRUE]}
Item3(w, p, n) == [parent |-> p, what |-> w, name |-> n.name, included |-> n.included]
Items(i) ==
  {Item3(w, p, n) : w \in {"module", "block", "function", "ansi"}, p \in 0 .. i - 1, n \in Names}
    \cup {Item3("macro", 0, n) : n \in Names}
    \cup {Item3("other", p, [name |-> "", included |-> FALSE]) : p \in 0 .. i - 1}
NoKids(d) == \A i \in DOMAIN d : d[i].parent = 0 \/ d[d[i].parent].what \notin {"ansi", "macro"}
MCOutlines ==
  {d \in UNION {{<<a>> : a \in Items(1)}, {<<a, b>> : a \in Items(1), b \in Items(2)},
                {<<a, b, c>> : a \in Items(1), b \in Items(2), c \in Items(3)}} : NoKids(d)}

MCExpansions ==
  [lines : UNION {[1 .. n -> [indent : 0 .. 2, blank : BOOLEAN]] : n \in 1 .. 3}, column : 0 .. 2]

Ordered        == [form |-> "ordered"]
Empty          == [form |-> "empty"]
Wild           == [form |-> "wild"]
ByName(f, l)   == [form |-> "named", formal |-> f, line |-> l]
Node(k, as, f) ==
  [own |-> TRUE, kind |-> k, args |-> as, formals |-> f, locals |-> {}, unnamed |-> {}, ports |-> 0, insts |-> <<>>]
Args == {<<>>, <<Ordered>>, <<Ordered, Ordered>>, <<Ordered, Ordered, ByName(3, 1)>>}
Conns == {<<Ordered, Ordered, Ordered>>, <<Ordered, Empty, Ordered>>, <<ByName(2, 1), ByName(1, 2), Wild>>,
          <<ByName(1, 1), ByName(3, 1), ByName(2, 1)>>, <<Wild>>}
Contents ==
  {[Node("call", as, 3) EXCEPT !.unnamed = u] : as \in Args, u \in {{}, {1}}}
    \cup {Node("macro", as, 2) : as \in Args \ {<<Ordered, Ordered, ByName(3, 1)>>}}
    \cup {Node("class", <<Ordered, Ordered>>, 1)}
    \cup {[Node("inst", <<Ordered, Ordered>>, 1) EXCEPT !.ports = 2, !.insts = <<c, d>>] : c \in Conns, d \in {<<Wild>>, <<Ordered, Ordered, Ordered>>}}
    \cup {[Node("inst", <<Ordered, Ordered>>, 3) EXCEPT !.locals = {2}], [Node("class", <<Ordered>>, 2) EXCEPT !.locals = {1}]}
Foreign == {[n EXCEPT !.own = FALSE] : n \in {Node("call", <<Ordered>>, 1), Node("class", <<Ordered>>, 1)}}
At2(n, a, b) == [from |-> a, to |-> b] @@ n
MCSheets ==
  {<<At2(m, 0, 2), At2(n, 3, 5)>> : m, n \in Contents}
    \cup {<<At2(m, 0, 5), At2(n, 1, 2), At2(n, 3, 4)>> : m, n \in Contents}
    \cup {<<At2(m, 1, 5), At2(n, 1, 2)>> : m, n \in Contents}
    \cup {<<At2(m, a, b), At2(n, 1, 3), At2(n, 4, 5)>> : m \in Foreign, n \in Contents, a \in 0 .. 4, b \in {2, 5}}
    \cup {<<At2(n, 1, 4), At2(m, a, b)>> : m \in Foreign, n \in Contents, a \in 0 .. 4, b \in {2, 5}}
MCHints == [portTypes |-> TRUE, ordered |-> TRUE, wildcard |-> TRUE, funcArgs |-> 1, macroArgs |-> 2]
----------------------------------------------------------------------------
Only(l) == lab = l /\ UNCHANGED lab

Init ==
  /\ lab \in Labs
  /\ IF lab = "text" THEN TextInit
     ELSE text = <<>> /\ pending = <<>> /\ buffer = <<>> /\ reloads = 0 /\ diverged = TRUE
  /\ IF lab = "uri" THEN UriInit
     ELSE path = <<>> /\ wire = <<>> /\ uri = <<>> /\ stored = <<>>
  /\ IF lab = "completion" THEN CompInit
     ELSE /\ line = <<>> /\ cursor = 0 /\ chain = <<>> /\ resolves = FALSE /\ world = None
          /\ version = 0 /\ item = None /\ resolved = FALSE /\ document = None
  /\ IF lab = "outline" THEN OutlineInit ELSE declared = <<>> /\ outline = NotAsked
  /\ IF lab = "annotations" THEN AnnInit ELSE view = "" /\ sheet = <<>> /\ drawn = [what |-> "none"]

Next ==
  \/ Only("text") /\ TextNext /\ UNCHANGED <<uriVars, compVars, annVars, outVars>>
  \/ Only("uri") /\ UriNext /\ UNCHANGED <<textVars, compVars, annVars, outVars>>
  \/ Only("completion") /\ CompNext /\ UNCHANGED <<textVars, uriVars, annVars, outVars>>
  \/ Only("annotations") /\ AnnNext /\ UNCHANGED <<textVars, uriVars, compVars, outVars>>
  \/ Only("outline") /\ DocSymbols /\ UNCHANGED <<textVars, uriVars, compVars, annVars>>

Spec == Init /\ [][Next]_<<lab, textVars, uriVars, compVars, annVars, outVars>>
=============================================================================
