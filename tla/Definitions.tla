---------------------------- MODULE Definitions ----------------------------
(***************************************************************************)
(* Going to a definition through the caches of the documents. A document    *)
(* keeps its syntax tree, the documents it depends on and its shallow       *)
(* analysis, which is the list of the trees it compiled; each is made when  *)
(* somebody asks for it, and is remade when a text it was made from is not  *)
(* the latest of the source manager. A text is what queries tell apart:     *)
(*   [units, refs, incl, macros]                                            *)
(* the top-level units it declares ([name, kind]), the names it refers to   *)
(* in order ([name, package]), its headers and the macros it defines.       *)
(* Explore mode: with a design loaded, a save refreshes the design instead. *)
(***************************************************************************)
EXTENDS Naturals, Sequences, SequencesExt, FiniteSets, FiniteSetsExt

CONSTANTS Paths,   \* the files, in the order the file system sorts them
          Written, \* Written[f]: the texts the user writes in file f, the first one first
          Macros,  \* the macros a document can use
          MaxEdits, \* bound on changes
          MaxSaves, \* bound on saves
          Nil      \* no tree, no analysis, no answer

VARIABLES docs,    \* docs[f]: [text, rev, tree, deps, analysis], where text and rev are
                   \* the latest data of the source manager and its revision, which
                   \* stands for the buffer
          order,   \* the files in the order of their entries in the index
          indexed, \* indexed[f]: [units, macros] when f was indexed
          saves,   \* saves so far
          reply    \* what the last request led to

Kinds == {"module", "interface", "package"}

\* Files include files, and a unit is of one of the kinds.
ASSUME DefAssumption ==
  /\ Paths \in Seq(Range(Paths))
  /\ \A f \in Range(Paths) :
       /\ Written[f] # <<>> /\ Written[f] \in Seq(Range(Written[f]))
       /\ \A t \in Range(Written[f]) :
            /\ t.incl \subseteq Range(Paths) /\ t.refs \in Seq(Range(t.refs))
            /\ t.units \subseteq [name : STRING, kind : Kinds]

defVars == <<docs, order, indexed, saves, reply>>

Sources == Range(Paths)
Named(us, n) == {u \in us : u.name = n}

\* A tree of file f with text t: the buffers it was made from, and where each macro is
\* defined, given of[g], the macros of file g. Of two definitions of a macro the last one
\* is active, and headers come first.
TreeOf(f, t, bufs, of) ==
  [file |-> f, bufs |-> bufs, units |-> t.units, refs |-> t.refs,
   macros |-> [n \in UNION Range(of) |-> IF n \in t.macros THEN f ELSE CHOOSE g \in DOMAIN of : n \in of[g]]]

\* External: slang's parser, on the latest data of the file and its headers.
fromBuffer(ds, f) ==
  LET fs == {f} \cup ds[f].text.incl
  IN TreeOf(f, ds[f].text, [g \in fs |-> ds[g].rev], [g \in fs |-> ds[g].text.macros])

\* Only the main buffer is looked at.
hasValidBuffersMain(ds, t) == t # Nil /\ t.bufs[t.file] = ds[t.file].rev

hasValidBuffers(ds, t) == t # Nil /\ \A g \in DOMAIN t.bufs : t.bufs[g] = ds[g].rev

getSyntaxTree(ds, f) == IF hasValidBuffers(ds, ds[f].tree) THEN ds[f].tree ELSE fromBuffer(ds, f)
----------------------------------------------------------------------------
(* The documents a tree depends on. *)

FilesForSymbol(n) == {f \in Sources : Named(indexed[f].units, n) # {}}
FilesForMacro(n)  == {f \in Sources : n \in indexed[f].macros}

\* The file of the first entry.
getFirstSymbolLoc(n) == order[Min({i \in DOMAIN order : order[i] \in FilesForSymbol(n)})]

\* Whether a tree is looked into as a dependency.
Enters(t) == \E u \in t.units : u.kind \in {"package", "interface"}

\* Only the names of the document itself are followed.
loadDependencyFlat(ds, s, n) ==
  LET file  == getFirstSymbolLoc(n)
      tried == [s EXCEPT !.known = @ \cup {n}]
  IN IF n \in s.known \/ FilesForSymbol(n) = {} \/ file \in Range(s.result) THEN tried
     ELSE [tried EXCEPT !.result = Append(@, file)]

\* s is [queue, known, result]; processedFiles are the files of result. Packages and
\* interfaces are looked into as well.
loadDependency(ds, s, n) ==
  LET file  == getFirstSymbolLoc(n)
      tried == [s EXCEPT !.known = @ \cup {n}]
      t     == getSyntaxTree(ds, file)
  IN IF n \in s.known \/ FilesForSymbol(n) = {} \/ file \in Range(s.result) THEN tried
     ELSE [tried EXCEPT !.result = Append(@, file), !.queue = IF Enters(t) THEN Append(@, t) ELSE @]

\* The first tree of the queue, whose names are tried in order.
ProcessTree(ds, s) ==
  LET t     == Head(s.queue)
      start == [s EXCEPT !.queue = Tail(@), !.known = @ \cup {u.name : u \in t.units}]
      tried[i \in 0 .. Len(t.refs)] ==
        IF i = 0 THEN start ELSE loadDependency(ds, tried[i - 1], t.refs[i].name)
  IN tried[Len(t.refs)]

\* Every pass takes a tree off the queue, and a file's tree gets there at most once.
getDependentDocs(ds, t) ==
  LET pass[k \in 0 .. Len(Paths) + 1] ==
        IF k = 0 THEN [queue |-> <<t>>, known |-> {}, result |-> <<>>]
        ELSE LET s == pass[k - 1] IN IF s.queue = <<>> THEN s ELSE ProcessTree(ds, s)
  IN pass[Len(Paths) + 1].result
----------------------------------------------------------------------------
(* The shallow analysis of a document. *)

analysisValid(ds, a) == a # Nil /\ \A i \in DOMAIN a : hasValidBuffers(ds, a[i])

\* The documents after getAnalysis of f, which has them parse the trees it needs. The
\* dependencies an earlier request found are kept unless this one refreshes them.
getAnalysis(ds, f, refresh) ==
  LET own   == getSyntaxTree(ds, f)
      deps  == IF ds[f].deps = <<>> \/ refresh THEN getDependentDocs(ds, own) ELSE ds[f].deps
      trees == <<own>> \o [i \in DOMAIN deps |-> getSyntaxTree(ds, deps[i])]
  IN IF analysisValid(ds, ds[f].analysis) /\ ~ refresh THEN ds
     ELSE [g \in Sources |->
             IF g = f THEN [ds[f] EXCEPT !.tree = own, !.deps = deps, !.analysis = trees]
             ELSE IF g \in Range(deps) THEN [ds[g] EXCEPT !.tree = getSyntaxTree(ds, g)]
             ELSE ds[g]]

\* A unit as a location: the file, the revision the analysis saw, and the unit's kind.
Location(t, u) == [file |-> t.file, rev |-> t.bufs[t.file], kind |-> u.kind]
Declared(a, n) == UNION {{Location(a[i], u) : u \in Named(a[i].units, n)} : i \in DOMAIN a}
MacroAt(t, n)  == [file |-> t.macros[n], rev |-> t.bufs[t.macros[n]], kind |-> "macro"]

\* getSymbolsAtToken on a reference to a unit: slang's lookup among the units of the
\* compilation, of which it takes one when several have the name (which one is open).
Lookups(a, r) ==
  LET cs == {l \in Declared(a, r.name) : (l.kind = "package") = r.package}
  IN IF cs = {} THEN {{}} ELSE {{l} : l \in cs}
----------------------------------------------------------------------------
(* Requests. *)

\* The index is left alone once something was resolved.
searchIndexUnresolved(f, locals) == locals = {}

\* A declaration in the queried document is authoritative.
searchIndex(f, locals) == \A l \in locals : l.file # f

\* The documents after the analyses of the files of paths, in sorted order.
SearchFiles(ds, paths) ==
  LET after[i \in 0 .. Len(Paths)] ==
        IF i = 0 THEN ds
        ELSE IF Paths[i] \in paths THEN getAnalysis(after[i - 1], Paths[i], FALSE) ELSE after[i - 1]
  IN after[Len(Paths)]

\* The symbols a document's analysis has in the document's own buffer, of the kind resolved.
Candidates(ds, g, n, locals) ==
  {l \in Declared(ds[g].analysis, n) : l.file = g /\ (locals = {} \/ \E m \in locals : m.kind = l.kind)}

\* The symbols of a name that refers to a unit, and the other definitions it may have.
GotoUnit(f, r) ==
  LET ds == getAnalysis(docs, f, FALSE)
  IN \E locals \in Lookups(ds[f].analysis, r) :
       LET paths == IF searchIndex(f, locals) THEN FilesForSymbol(r.name) ELSE {}
           all   == SearchFiles(ds, paths)
       IN /\ docs' = all
          /\ reply' = [what |-> "unit", doc |-> f, name |-> r.name,
                       at |-> locals \cup UNION {Candidates(all, g, r.name, locals) : g \in paths}]
          /\ UNCHANGED <<order, indexed, saves>>

\* getMacroDefinitionInfo: the definition active in the document, else those of the
\* documents the index knows.
getMacroDefinitionInfo(f, n) ==
  LET ds    == getAnalysis(docs, f, FALSE)
      paths == IF n \in DOMAIN ds[f].analysis[1].macros THEN {} ELSE FilesForMacro(n)
      all   == SearchFiles(ds, paths)
      trees == {all[g].analysis[1] : g \in IF paths = {} THEN {f} ELSE paths}
  IN /\ docs' = all
     /\ reply' = [what |-> "macro", doc |-> f, name |-> n,
                  at |-> {MacroAt(t, n) : t \in {t \in trees : n \in DOMAIN t.macros}}]
     /\ UNCHANGED <<order, indexed, saves>>

\* What getDocDefinition and getDocHover ask for.
getDefinitionInfoAt(f) ==
  \/ \E r \in Range(docs[f].text.refs) : GotoUnit(f, r)
  \/ \E n \in Macros : getMacroDefinitionInfo(f, n)

\* updateDoc: new dependencies, and issueDiagnosticsTo, which refreshes the analysis.
updateDoc(ds, f) == getAnalysis([ds EXCEPT ![f].tree = getSyntaxTree(ds, f)], f, TRUE)

\* current: the index knew the units of the latest texts, as ds has them.
Diagnosed(ds, f) ==
  [what |-> "diagnosed", doc |-> f, current |-> \A g \in Sources : indexed[g].units = ds[g].text.units]

\* The changes so far.
Changes == MapThenSumSet(LAMBDA g : docs[g].rev, Sources)

\* onDocDidChange, or a watched change of an open document: the buffer is replaced (or
\* reloaded), the tree and the analysis go, and the document is diagnosed.
ChangeText(f, t) ==
  LET ds == [docs EXCEPT ![f].text = t, ![f].rev = @ + 1, ![f].tree = Nil, ![f].analysis = Nil]
  IN /\ Changes < MaxEdits /\ t # docs[f].text
     /\ docs' = updateDoc(ds, f)
     /\ reply' = Diagnosed(ds, f)
     /\ UNCHANGED <<order, indexed, saves>>

\* onDocDidSave: the document is diagnosed, then indexed, with the macros of its headers.
\* Its entries move behind those of the other files.
SaveDoc(f) ==
  LET ds == updateDoc(docs, f)
      t  == ds[f].tree
  IN /\ saves < MaxSaves /\ saves' = saves + 1
     /\ docs' = ds
     /\ reply' = Diagnosed(docs, f)
     /\ indexed' = [indexed EXCEPT ![f] = [units |-> t.units, macros |-> DOMAIN t.macros]]
     /\ order' = Append(RemoveFirst(order, f), f)

DefInit ==
  /\ docs = [f \in Sources |-> [text |-> Written[f][1], rev |-> 0, tree |-> Nil, deps |-> <<>>, analysis |-> Nil]]
  /\ order = Paths
  /\ saves = 0
  /\ indexed = [f \in Sources |-> [units |-> Written[f][1].units, macros |-> Written[f][1].macros]]
  /\ reply = Nil

DefNext ==
  \E f \in Sources :
    \/ \E t \in Range(Written[f]) : ChangeText(f, t)
    \/ SaveDoc(f)
    \/ getDefinitionInfoAt(f)

DefSpec == DefInit /\ [][DefNext]_defVars
----------------------------------------------------------------------------
(* Properties. *)

Answered(what) == reply # Nil /\ reply.what = what

Declares(f, n, k) ==
  IF k = "macro" THEN n \in docs[f].text.macros ELSE [name |-> n, kind |-> k] \in docs[f].text.units

\* Where a goto leads is in the latest text of the file, and the name is declared there
\* with the kind shown: whatever was cached, and whatever the index still says.
LocationsCurrent ==
  (Answered("unit") \/ Answered("macro")) =>
    \A l \in reply.at : l.rev = docs[l.file].rev /\ Declares(l.file, reply.name, l.kind)

\* Unless the document asked from declares the name, a goto shows every indexed file that
\* declares it with a kind that is shown, and shows something if any indexed file does.
AllDefinitions ==
  (Answered("unit") \/ Answered("macro")) =>
    \/ \E l \in reply.at : l.file = reply.doc \/ (l.kind = "macro" /\ l.file \in docs[reply.doc].text.incl)
    \/ \A f \in Sources, k \in {"module", "interface", "package", "macro"} :
         /\ (k = "macro") = (reply.what = "macro")
         /\ Declares(f, reply.name, k)
         /\ IF k = "macro" THEN reply.name \in indexed[f].macros
            ELSE Named(indexed[f].units, reply.name) # {}
         => /\ reply.at # {}
            /\ (\E l \in reply.at : l.kind = k) => \E l \in reply.at : l.kind = k /\ l.file = f

\* A document that was just diagnosed has, in what was compiled, a unit for every name it
\* refers to and for every name its packages and interfaces refer to, if the index knew a
\* file that declares it: with an index that is current, no unit is reported missing. The
\* kind of the unit is not asked for: a name found as a module where a package is meant
\* counts.
DiagnosisComplete ==
  (Answered("diagnosed") /\ reply.current) =>
    LET a == docs[reply.doc].analysis
    IN \A i \in DOMAIN a :
         (i = 1 \/ \E u \in a[i].units : u.kind \in {"package", "interface"}) =>
           \A r \in Range(a[i].refs) :
             (\E f \in Sources : Named(docs[f].text.units, r.name) # {}) => Declared(a, r.name) # {}
=============================================================================
