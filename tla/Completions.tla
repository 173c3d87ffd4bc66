----------------------------- MODULE Completions -----------------------------
(***************************************************************************)
(* A completion from the request to the text it leaves in the document. The *)
(* editor asks at a cursor, the server lists items with the edit each would *)
(* make, the user dwells on one and the editor asks for the rest of it, and *)
(* the user accepts it, at any of these points. Meanwhile files change: an  *)
(* item names its declaration by place, kind, name and path only.           *)
(***************************************************************************)
EXTENDS Tokens, Snippet, FiniteSets

CONSTANTS
  None,
  Lines,     \* lines of source: sequences of [kind, text, gap], gap a text between tokens
  Chains,    \* classes of the syntax nodes around the cursor, innermost first
  Worlds,    \* what may be declared: [docMacros, idxMacros, units, scopes,
             \* signature]
  MaxEdits   \* bound on changes of the declarations

VARIABLES
  line,      \* the tokens of the line, with their ranges
  cursor,
  chain,
  resolves,  \* CompletionDispatch::resolveEdits, as the client asked for
  world,
  version,   \* identifies the buffers: every change makes new ones
  item,      \* the item the user is on
  resolved,  \* the editor has the answer to completionItem/resolve
  document   \* the characters of the line after the user accepted

Name == {n \in Seq(STRING) : n # <<>> /\ Head(n) # "$"}
Declarations == [name : Name, kind : STRING, offset : Nat, path : STRING, args : Seq(Seq(STRING))]
DeclaredIn(w) ==
  UNION {ToSet(w.scopes[i].members) \cup ToSet(w.scopes[i].imported) : i \in DOMAIN w.scopes}

\* Tokens have characters and names are simple identifiers. A declaration is known by its
\* place (offset 0 is none), kind and name.
ASSUME CompAssumption ==
  /\ \A l \in Lines :
       /\ l \in Seq([kind : STRING, text : Seq(STRING) \ {<<>>}, gap : Seq(STRING)])
       /\ \A i \in DOMAIN l : (l[i].text = <<"tick">>) = (l[i].kind = "Tick")
  /\ \A w \in Worlds :
       /\ \A m \in w.docMacros \cup w.idxMacros :
            m.name \in Name /\ (m.args # None => m.args \in Seq(Seq(STRING)))
       /\ \A u \in w.units :
            /\ u.name \in Name /\ u.params \in Seq(Seq(STRING)) /\ u.ports \in Seq(Seq(STRING))
            /\ u.kind \in {"Module", "Interface", "Package", "Class"}
       /\ w.scopes # <<>> /\ w.scopes \in Seq([members : Seq(Declarations), imported : Seq(Declarations)])
       /\ \A d, e \in DeclaredIn(w) :
            d.offset = e.offset /\ d.offset # 0 /\ d.kind = e.kind /\ d.name = e.name => d = e
       /\ w.signature \in Seq(STRING)
  /\ None \notin Declarations

compVars == <<line, cursor, chain, resolves, world, version, item, resolved, document>>
----------------------------------------------------------------------------
(* The line. *)

Place(l) ==
  LET end[i \in 0 .. Len(l)] == IF i = 0 THEN 0 ELSE end[i - 1] + Len(l[i].gap) + Len(l[i].text)
  IN [i \in DOMAIN l |-> [kind |-> l[i].kind, text |-> l[i].text, gap |-> l[i].gap,
                          start |-> end[i] - Len(l[i].text), end |-> end[i]]]

Spelling(ts) == FlattenSeq([i \in DOMAIN ts |-> ts[i].gap \o ts[i].text])

\* The word the cursor is in or at the end of.
wordTouching(ts, at) ==
  LET here == getWordTokenAt(ts, at)
      word == IF here = NoToken /\ at > 0 THEN getWordTokenAt(ts, at - 1) ELSE here
  IN IF word # NoToken /\ word.start <= at /\ at <= word.end THEN word ELSE NoToken

\* Where there is no word, a lone "$" or backtick right before the cursor.
targetToken(word, marker, at) ==
  IF word = NoToken /\ marker.end = at /\ (marker.kind = "Dollar" \/ marker.text = <<"tick">>)
  THEN marker ELSE word

\* The site that replaces the places from start to end.
CompletionSite(ts, at, target, start, end) ==
  [target |-> target, start |-> start, end |-> end,
   before |-> getTokenBefore(ts, start), after |-> getTokenAfter(ts, end),
   prefix |-> SubSeq(target.text, 1, at - start)]

\* Mutant: only the part of the word before the cursor is replaced.
siteOfUpToCursor(ts, at, target) ==
  IF target = NoToken THEN CompletionSite(ts, at, target, at, at)
  ELSE CompletionSite(ts, at, target, target.start, at)

siteOf(ts, at, target) ==
  IF target = NoToken THEN CompletionSite(ts, at, target, at, at)
  ELSE CompletionSite(ts, at, target, target.start, target.end)

getCompletionSite(ts, at) ==
  siteOf(ts, at, targetToken(wordTouching(ts, at), getTokenBefore(ts, at), at))

isSeparatedOnlyByWhitespace(t) == t.gap \in {<<>>, <<" ">>}

\* The kind of a query: by the marker it starts with or the separator before it.
CompletionQueryKind(site) ==
  LET first == IF site.target = NoToken THEN "none" ELSE Head(site.target.text)
  IN IF first = "$" THEN "SystemSubroutine"
     ELSE IF first = "tick" THEN "Macro"
     ELSE IF site.before.kind = "::" THEN "ScopedAccess"
     ELSE IF site.before.kind = "." THEN "MemberAccess"
     ELSE IF site.target = NoToken /\ site.before.kind = "#" THEN "InstantiationSuffix"
     ELSE "Lexical"

CompletionQuery(ts, site, kind) ==
  [kind |-> kind, start |-> site.start, end |-> site.end, prefix |-> site.prefix,
   receiver |-> IF site.before = NoToken THEN NoToken ELSE getTokenBefore(ts, site.before.start),
   call |-> /\ kind # "InstantiationSuffix"
            /\ site.after.kind = "(" /\ isSeparatedOnlyByWhitespace(site.after),
   inst |-> /\ kind = "Lexical"
            /\ site.after.kind \in {"Identifier", "#"} /\ isSeparatedOnlyByWhitespace(site.after)]

classify(ts, site) == CompletionQuery(ts, site, CompletionQueryKind(site))

\* CompletionQuery::fromLocation
fromLocation(ts, at) == classify(ts, getCompletionSite(ts, at))

\* CompletionContext::fromLocation: the first node outwards that says what is here.
contextKind(nodes) ==
  LET telling == {i \in DOMAIN nodes : nodes[i] \in {"expression", "procedural", "ports", "body", "past"}}
  IN IF telling = {} THEN "ModuleMember"
     ELSE CASE nodes[Min(telling)] \in {"expression", "past"} -> "Expression"
            [] nodes[Min(telling)] = "procedural"             -> "Procedural"
            [] nodes[Min(telling)] = "ports"                  -> "PortList"
            [] nodes[Min(telling)] = "body"                   -> "ModuleMember"
----------------------------------------------------------------------------
(* The items, as their providers make them. *)

NoText == <<>>  \* no insertText: no provider gives an empty one
NoData == [place |-> <<0, 0>>, kind |-> "none", path |-> "none", labelOnly |-> FALSE]

Item(label, kind) ==
  [label |-> label, kind |-> kind, insertText |-> NoText, plain |-> TRUE, newText |-> <<>>,
   data |-> NoData, documented |-> FALSE, of |-> None]

WithSnippet(it, s) == [it EXCEPT !.insertText = s.value, !.plain = FALSE]

\* The arguments of a call or the connections of an instance: before[i] comes before the
\* i-th name, after behind each.
appendEach(s, names, before, after) ==
  LET each[i \in 0 .. Len(names)] ==
        IF i = 0 THEN s
        ELSE appendText(appendPlaceholder(appendText(each[i - 1], before[i]), names[i]),
                        IF i < Len(names) THEN after \o <<",">> ELSE after)
  IN each[Len(names)]

inParens(s, names) ==
  appendText(appendEach(appendText(s, <<"(">>), names, [i \in DOMAIN names |-> <<>>], <<>>), <<")">>)

matchesPrefix(name, prefix) ==
  LET typed == IF prefix # <<>> /\ Head(prefix) = "tick" THEN Tail(prefix) ELSE prefix
  IN Len(typed) <= Len(name) /\ SubSeq(name, 1, Len(typed)) = typed

\* getCompletionText and resolve of MacroCompletions.cpp.
resolveMacro(it, args) ==
  LET name == appendText(snippet(<<>>), it.label)
      text == IF args = None THEN name ELSE inParens(name, args)
      done == [it EXCEPT !.documented = TRUE]
  IN IF it.insertText # NoText THEN done ELSE WithSnippet(done, text)

MacroItems(prefix) ==
  LET item0(m)  == Item(<<"tick">> \o m.name, "Constant")
      fromDoc   == {m \in world.docMacros : matchesPrefix(m.name, prefix)}
      fromIndex == {m \in world.idxMacros : matchesPrefix(m.name, prefix)
                                            /\ \A d \in fromDoc : d.name # m.name}
  IN {resolveMacro(item0(m), m.args) : m \in fromDoc} \cup {item0(m) : m \in fromIndex}

\* addCompletions of InstanceCompletions.cpp.
UnitItems(context) ==
  {IF u.kind = "Interface" /\ context # "ModuleMember"
   THEN [Item(u.name, "Module") EXCEPT !.insertText = u.name] ELSE Item(u.name, "Module")
     : u \in {v \in world.units : v.kind = "Module" => context = "ModuleMember"}}

resolveModuleInstance(it, u, excludeName) ==
  LET connect(s, names) ==
        appendText(appendEach(appendText(s, <<"(">>), names,
                              [i \in DOMAIN names |-> <<".">> \o names[i] \o <<"(">>], <<")">>), <<")">>)
      done   == [it EXCEPT !.documented = TRUE]
      name   == IF excludeName THEN snippet(<<>>) ELSE appendText(snippet(<<>>), u.name)
      params == IF u.params = <<>> THEN name
                ELSE connect(IF excludeName THEN name ELSE appendText(name, <<" ", "#">>), u.params)
      inst   == appendText(appendPlaceholder(appendText(params, <<" ">>), u.name), <<" ">>)
  IN IF it.insertText # NoText THEN done
     ELSE WithSnippet(done, appendText(connect(inst, u.ports), <<";">>))

\* resolve(tree): a package gets its name, a class is not among the tree's units.
resolveUnit(it, u, excludeName) ==
  CASE u.kind \in {"Module", "Interface"} -> resolveModuleInstance(it, u, excludeName)
    [] u.kind = "Package" -> [it EXCEPT !.documented = TRUE, !.insertText = u.name, !.plain = TRUE]
    [] u.kind = "Class"   -> it

SuffixItems(receiver) ==
  {resolveUnit(Item(u.name, "Module"), u, TRUE) : u \in {v \in world.units : v.name = receiver.text}}

getCompletionKind(d) ==
  CASE d.kind = "Subroutine" -> "Function" [] d.kind = "TypeAlias" -> "Struct"
    [] d.kind = "Port" -> "Interface"      [] d.kind = "Variable" -> "Variable"
    [] OTHER -> "Property"

setSubroutineCompletionEdit(it, d) == WithSnippet(it, inParens(snippet(d.name), d.args))

\* getCompletion of MemberCompletions.cpp. A declaration without a place (a built-in
\* method) cannot be found again and is completed at once.
getCompletion(d, labelOnly, defer) ==
  LET it   == [Item(d.name, getCompletionKind(d)) EXCEPT !.of = d,
                 !.data = [place |-> <<version, d.offset>>, kind |-> d.kind, path |-> d.path,
                           labelOnly |-> labelOnly]]
      call == IF d.kind = "Subroutine" /\ (~ defer \/ d.offset = 0)
              THEN setSubroutineCompletionEdit(it, d) ELSE it
  IN IF d.offset = 0 THEN [call EXCEPT !.data = NoData, !.documented = TRUE] ELSE call

\* The declarations a scope offers: its own, and those of its wildcard imports. The
\* value behind a port that was just listed is left out.
ScopeMembers(scope, types) ==
  LET listed(ds) ==
        LET upTo[i \in 0 .. Len(ds)] ==
              IF i = 0 THEN <<>>
              ELSE IF \/ types /\ ds[i].kind # "TypeAlias"
                      \/ /\ ds[i].kind = "Variable" /\ upTo[i - 1] # <<>>
                         /\ Last(upTo[i - 1]).name = ds[i].name
              THEN upTo[i - 1] ELSE Append(upTo[i - 1], ds[i])
        IN upTo[Len(ds)]
  IN ToSet(listed(scope.members)) \cup ToSet(listed(scope.imported))

KeywordItems ==
  {Item(<<"l">>, "Keyword"),
   WithSnippet(Item(<<"a">>, "Snippet"), appendTabstop(snippet(<<"a", " ">>), 0))}

\* addCompletions of MemberCompletions.cpp.
MemberItems(scopes, context, labelOnly) ==
  (IF context = "ModuleMember" THEN KeywordItems ELSE {})
  \cup {getCompletion(d, labelOnly, resolves) :
          d \in UNION {ScopeMembers(scopes[i], context \in {"ModuleMember", "PortList"})
                         : i \in DOMAIN scopes}}

\* Members behind a "." are listed without imports, of neighbours of one name the first;
\* of an interface the index knows, the modports.
Labelled(ms) == {ms[i] : i \in {j \in DOMAIN ms : j = 1 \/ ms[j - 1].name # ms[j].name}}
AccessItems(receiver, labelOnly) ==
  LET ifaces == {u \in world.units : u.kind = "Interface" /\ u.name = receiver.text}
  IN CASE receiver = NoToken -> {}
       [] receiver # NoToken /\ ifaces # {} ->
            {[Item(u.name, "Field") EXCEPT !.documented = TRUE] : u \in ifaces}
       [] OTHER -> {getCompletion(d, labelOnly, resolves) : d \in Labelled(Head(world.scopes).members)}

\* Mutant: the comma is left to the arguments that were looked at, not those shown.
buildSnippetFromArgsComma(s, signature) ==
  LET put(r, a) == [comma |-> TRUE,
                    s |-> IF a = "default" THEN r.s
                          ELSE appendPlaceholder(IF r.comma THEN appendText(r.s, <<",">>) ELSE r.s, <<a>>)]
      done == FoldLeft(put, [s |-> appendText(s, <<"(">>), comma |-> FALSE], signature)
  IN appendText(done.s, <<")">>)

withComma(r) == IF r.comma THEN appendText(r.s, <<",">>) ELSE r.s

\* An argument of the signature is a name, or one of: "optional" (in brackets), "default"
\* (has a value), "dformat" (a format with a value), "...". Those with a value are left
\* out but for a first format; "..." is the final stop.
appendArg(r, a) ==
  LET left   == a = "default" \/ (a \in {"...", "dformat"} /\ r.skipped)
      quoted == appendText(appendPlaceholder(appendText(withComma(r), <<"quote">>), <<"dformat">>), <<"quote">>)
      shown  == CASE a = "..."     -> appendTabstop(withComma(r), 0)
                  [] a = "dformat" -> quoted
                  [] OTHER         -> appendPlaceholder(withComma(r), <<a>>)
  IN IF a = "optional" THEN r
     ELSE IF left THEN [r EXCEPT !.skipped = @ \/ a # "..."]
     ELSE [r EXCEPT !.comma = TRUE, !.final = @ \/ a = "...", !.s = shown]

buildSnippetFromArgs(s, signature) ==
  LET upTo[i \in 0 .. Len(signature)] ==
        IF i = 0 THEN [s |-> appendText(s, <<"(">>), comma |-> FALSE, skipped |-> FALSE, final |-> FALSE]
        ELSE appendArg(upTo[i - 1], signature[i])
      done == upTo[Len(signature)]
      more == done.comma /\ "..." \in ToSet(signature) /\ ~ done.final
  IN appendText(IF more THEN appendTabstop(withComma(done), 0) ELSE done.s, <<")">>)

\* getSystemSubroutineCompletion: the leading dollar is put back escaped.
SystemItems ==
  LET s == buildSnippetFromArgs(appendText(snippet(<<>>), <<"d">>), world.signature)
  IN {[WithSnippet(Item(<<"$", "d">>, "Function"), [s EXCEPT !.value = <<"\\", "$">> \o @])
         EXCEPT !.documented = TRUE]}
----------------------------------------------------------------------------
(* The edit. *)

setCompletionEdit(it, q) ==
  LET shaped == (q.call /\ it.kind = "Constant") \/ (q.inst /\ it.kind = "Module")
      named  == IF shaped THEN [it EXCEPT !.insertText = it.label, !.plain = TRUE] ELSE it
      text   == IF named.insertText = NoText THEN named.label ELSE named.insertText
  IN [named EXCEPT !.newText = IF q.call /\ ~ named.plain THEN escape(named.label) ELSE text]

updateCompletionEditText(it) ==
  IF it.insertText = NoText THEN it ELSE [it EXCEPT !.newText = it.insertText]

\* getCompletions of the query, then the edits.
getCompletions(q, context) ==
  {setCompletionEdit(it, q) : it \in
     CASE q.kind = "SystemSubroutine"    -> SystemItems
       [] q.kind = "Macro"               -> MacroItems(q.prefix)
       [] q.kind = "InstantiationSuffix" -> SuffixItems(q.receiver)
       [] q.kind = "MemberAccess"        -> AccessItems(q.receiver, q.call)
       [] q.kind = "ScopedAccess"        -> IF q.receiver = NoToken THEN {}
                                            ELSE MemberItems(world.scopes, "Expression", q.call)
       [] q.kind = "Lexical"             -> UnitItems(context)
                                            \cup MemberItems(world.scopes, context, q.call)}

Declared == DeclaredIn(world)

\* Mutant: any declaration with the item's name will do.
FoundByName(it) == {d \in Declared : d.name = it.label}

\* CompletionSymbolFinder looks for the very declaration, lookupName for its path.
Found(it) ==
  LET same == {d \in Declared : /\ <<version, d.offset>> = it.data.place
                                /\ d.kind = it.data.kind /\ d.name = it.label /\ d.path = it.data.path}
  IN IF same # {} THEN same ELSE {d \in Declared : d.path = it.data.path}

\* resolve of MemberCompletions.cpp, for each declaration the lookup may find.
ResolvedMembers(it) ==
  LET bare       == [it EXCEPT !.data = NoData]
      filled(d)  == IF d.kind = "Subroutine" /\ resolves
                    THEN setSubroutineCompletionEdit(bare, d) ELSE bare
      edited(d)  == IF it.data.labelOnly THEN filled(d) ELSE updateCompletionEditText(filled(d))
  IN IF it.data = NoData THEN {it}
     ELSE IF Found(it) = {} THEN {bare}
     ELSE {[edited(d) EXCEPT !.documented = TRUE] : d \in Found(it)}

\* The index may still name a file that no longer holds the macro.
ResolvedMacros(it) ==
  LET ms == {m \in world.idxMacros : <<"tick">> \o m.name = it.label /\ m.present}
  IN IF ms = {} THEN {it} ELSE {updateCompletionEditText(resolveMacro(it, m.args)) : m \in ms}

ResolvedUnits(it) ==
  LET us == {u \in world.units : u.name = it.label}
  IN IF us = {} THEN {it} ELSE {updateCompletionEditText(resolveUnit(it, u, FALSE)) : u \in us}

getCompletionItemResolve(it) ==
  IF it.documented \/ Head(it.label) = "$" THEN {it}
  ELSE CASE it.kind = "Constant" -> ResolvedMacros(it)
         [] it.kind = "Module"   -> ResolvedUnits(it)
         [] OTHER                -> ResolvedMembers(it)
----------------------------------------------------------------------------
Query     == fromLocation(line, cursor)
Inserted  == IF item.plain THEN item.newText ELSE Expand(item.newText).text

CompInit ==
  /\ line \in {Place(l) : l \in Lines}
  /\ cursor \in 0 .. Len(Spelling(line))
  /\ chain \in Chains
  /\ resolves \in BOOLEAN
  /\ world \in Worlds
  /\ version = 1
  /\ item = None /\ resolved = FALSE /\ document = None

\* textDocument/completion, and the user moves to one of the items.
GetDocCompletion ==
  /\ item = None /\ document = None
  /\ item' \in getCompletions(Query, contextKind(chain))
  /\ resolved' = FALSE
  /\ UNCHANGED <<line, cursor, chain, resolves, world, version, document>>

\* Another file, or another part of this one, is changed and analysed again.
ChangeDeclarations ==
  /\ version <= MaxEdits /\ item # None /\ document = None
  /\ version' = version + 1
  /\ world' \in Worlds \ {world}
  /\ UNCHANGED <<line, cursor, chain, resolves, item, resolved, document>>

\* completionItem/resolve. A client that did not ask to resolve edits takes the
\* documentation of the answer and nothing else.
CompletionResolve ==
  /\ item # None /\ ~ resolved /\ document = None
  /\ resolved' = TRUE
  /\ \E r \in getCompletionItemResolve(item) :
       item' = IF resolves THEN r ELSE [item EXCEPT !.documented = r.documented, !.data = r.data]
  /\ UNCHANGED <<line, cursor, chain, resolves, world, version, document>>

\* The editor makes the edit of the item.
Accept ==
  /\ item # None /\ document = None
  /\ document' = SubSeq(Spelling(line), 1, Query.start) \o Inserted
                 \o SubSeq(Spelling(line), Query.end + 1, Len(Spelling(line)))
  /\ UNCHANGED <<line, cursor, chain, resolves, world, version, item, resolved>>

CompNext == GetDocCompletion \/ ChangeDeclarations \/ CompletionResolve \/ Accept

CompSpec == CompInit /\ [][CompNext]_compVars
----------------------------------------------------------------------------
\* A subroutine's name is put into the snippet as it is, so that a "$" in it is the
\* editor's: such names are left out below (README, findings).
RawName == item.of # None /\ item.of.kind = "Subroutine" /\ ~ Verbatim(item.label)

\* Where a call or an instance is there already, accepting a macro, a subroutine or a
\* unit puts its name there and leaves the rest to the source, whether or not the item
\* was resolved, for either kind of client, and whatever happened to the declaration
\* since it was listed (setCompletionEdit at the list, labelOnly at the resolve; only a
\* raw name is not kept by the latter). A
\* subroutine that is not yet called is inserted as a call with the arguments of its own
\* declaration: at once for a client that cannot resolve edits, after the resolve for
\* one that can, also when another declaration has the same path.
ShapeKept ==
  /\ item # None /\ \/ Query.call /\ item.kind \in {"Constant", "Function"}
                    \/ Query.inst /\ item.kind = "Module"
     => Inserted = item.label \/ (RawName /\ resolves /\ resolved)
  /\ item # None /\ item.of # None /\ version = 1 /\ (resolves => resolved) =>
       (item.of.kind = "Subroutine" /\ ~ Query.call =>
          Inserted = Expand(inParens(snippet(item.of.name), item.of.args).value).text)

\* Accepting replaces the whole word the cursor is in or at the end of, or the "$" or
\* backtick before it, and no other character of the line.
WholeWordReplaced ==
  document # None =>
    LET touching == {i \in DOMAIN line : line[i].start <= cursor /\ cursor <= line[i].end
                       /\ (isIdToken(line[i]) \/ (line[i].kind \in {"Dollar", "Tick"} /\ line[i].end = cursor))}
        without(i) == Spelling([line EXCEPT ![i].text = Inserted])
    IN IF touching = {}
       THEN document = SubSeq(Spelling(line), 1, cursor) \o Inserted
                       \o SubSeq(Spelling(line), cursor + 1, Len(Spelling(line)))
       ELSE \E i \in touching : document = without(i)

\* What is inserted starts with the label the user picked, however the item was resolved
\* and whatever was declared by then (not so after a "#", where the name is in the source).
\* A snippet is one the editor can step through: no stop number is used twice, and no
\* argument list starts, ends or goes on with a lone comma.
SnippetWellFormed ==
  /\ item # None /\ Query.kind # "InstantiationSuffix" /\ ~ RawName => IsPrefix(item.label, Inserted)
  /\ item # None /\ ~ item.plain =>
       /\ IsInjective(Expand(item.newText).stops)
       /\ \A i \in 2 .. Len(item.newText) - 1 :
            item.newText[i] = "," => item.newText[i - 1] # "(" /\ item.newText[i + 1] \notin {",", ")"}
=============================================================================
