----------------------------- MODULE References -----------------------------
(***************************************************************************)
(* References, highlights and rename over a workspace. A program is the     *)
(* sequence of its name tokens, file by file; a token is                    *)
(*   [file, role, kind, scope, block, of, text]                             *)
(* and a symbol is the index of the token that declares it. What a token    *)
(* denotes is worked out from the texts the tokens have now, so that a      *)
(* rename that misses a token changes what the program means.               *)
(***************************************************************************)
EXTENDS Integers, Sequences, SequencesExt, FiniteSets

CONSTANTS Programs,  \* the programs a run is about
          Fresh,     \* names no program uses, for renames
          MaxRenames \* bound on renames

VARIABLES prog,      \* the program
          name,      \* the text of each token, in the open documents
          saved,     \* the text of each token when its file was last saved
          meaning,   \* history: what each token denoted at first
          stale,     \* history: a rename used an index that was behind
          renames,   \* renames so far
          asked,     \* the last query: [token, what]
          answer     \* its locations, a sequence of tokens

refVars == <<prog, name, saved, meaning, stale, renames, asked, answer>>

Toks == DOMAIN prog
Files == {prog[i].file : i \in Toks}
Role(i) == prog[i].role
InOrder(S) == SelectSeq([i \in Toks |-> i], LAMBDA i : i \in S)
----------------------------------------------------------------------------
(* What a token denotes: the lookups of slang, called by ShallowAnalysis and *)
(* SymbolIndexer. *)

Units(n) == {i \in Toks : Role(i) = "unit" /\ name[i] = n}
MembersOf(U, n) == {i \in Toks : Role(i) = "member" /\ prog[i].scope \in U /\ name[i] = n}

\* The items of the imports of a unit that give it n: explicit ones, wildcards.
Explicit(u, n) == {i \in Toks : Role(i) = "importItem" /\ prog[i].scope = u /\ name[i] = n}
Wildcard(u) == {i \in Toks : Role(i) = "importPkg" /\ prog[i].of = "star" /\ prog[i].scope = u}

lookupName(u, block, n) ==
  LET locals   == {i \in Toks : Role(i) = "local" /\ prog[i].scope = u /\ name[i] = n}
      own      == MembersOf({u}, n)
      imported == UNION {MembersOf(Units(name[prog[i].of]), n) : i \in Explicit(u, n)}
      all      == UNION {MembersOf(Units(name[i]), n) : i \in Wildcard(u)}
  IN CASE block /\ locals # {} -> locals
       [] ~ (block /\ locals # {}) /\ own # {} -> own
       [] ~ (block /\ locals # {}) /\ own = {} /\ imported # {} -> imported
       [] ~ (block /\ locals # {}) /\ own = {} /\ imported = {} /\ all # {} -> all
       [] OTHER -> Units(n)

\* indexInstanceSyntax: the formal a connection names.
Formal(i) == MembersOf(Units(name[prog[i].of]), name[i])

\* getSymbolsAtToken: a declaration denotes itself, the shorthand .x both the value
\* outside and the formal, in this order, every other token one symbol.
getSymbolsAtToken(i) ==
  LET t == prog[i]
      one(S) == SetToSeq(S)
  IN CASE t.role \in {"unit", "member", "local"}  -> <<i>>
       [] t.role = "use"                          -> one(lookupName(t.scope, t.block, name[i]))
       [] t.role \in {"type", "pkg", "importPkg"} -> one(Units(name[i]))
       [] t.role \in {"named", "scoped", "importItem"} -> one(Formal(i))
       [] t.role = "shorthand" -> one(lookupName(t.scope, t.block, name[i])) \o one(Formal(i))

\* The one symbol a highlight or a hover is about.
getSymbolAtToken(i) == Last(getSymbolsAtToken(i))

Denotes(i, s) == s \in ToSet(getSymbolsAtToken(i))
----------------------------------------------------------------------------
(* Finding. *)

\* Tokens of a file with the name that denote the target.
addLocalReferences(f, target, n) ==
  InOrder({i \in Toks : prog[i].file = f /\ name[i] = n /\ Denotes(i, target)})

\* getFilesReferencingSymbol: units a file mentioned when it was saved.
getFilesReferencingSymbol(n) ==
  {f \in Files : \E i \in Toks : /\ prog[i].file = f /\ saved[i] = n
                                    /\ Role(i) \in {"type", "pkg", "importPkg"}}

\* processReferencingFiles: the file of the declaration has been searched before.
processReferencingFiles(target, unit, roles, n) ==
  InOrder({i \in Toks : /\ prog[i].file \in getFilesReferencingSymbol(unit) \ {prog[target].file}
                        /\ Role(i) \in roles /\ name[i] = n})

\* Mutant: a wildcard import is not looked for.
addMemberReferencesScoped(parent, target, n) ==
  LET files == getFilesReferencingSymbol(name[parent]) \ {prog[target].file}
      found(f) == IF prog[parent].kind = "Package"
                  THEN InOrder({i \in Toks : /\ prog[i].file = f /\ Role(i) = "scoped" /\ name[i] = n
                                             /\ name[prog[i].of] = name[parent]})
                  ELSE addLocalReferences(f, target, n)
  IN FlattenSeq([k \in 1 .. Cardinality(files) |-> found(SetToSeq(files)[k])])

\* addMemberReferences: in a file without a wildcard import of the package only
\* package::name is looked for, by its spelling.
addMemberReferences(parent, target, n) ==
  LET files       == getFilesReferencingSymbol(name[parent]) \ {prog[target].file}
      hasWildcard(f) == \E i \in Toks : /\ prog[i].file = f /\ Role(i) = "importPkg"
                                           /\ prog[i].of = "star" /\ name[i] = name[parent]
      found(f)    == IF prog[parent].kind = "Package" /\ ~ hasWildcard(f)
                     THEN InOrder({i \in Toks : /\ prog[i].file = f /\ Role(i) = "scoped" /\ name[i] = n
                                                /\ name[prog[i].of] = name[parent]})
                     ELSE addLocalReferences(f, target, n)
  IN FlattenSeq([k \in 1 .. Cardinality(files) |-> found(SetToSeq(files)[k])])

\* The references to one target, by what it is. For an instance, tokens that name a
\* module with the instance's own name are taken for references to it.
ReferencesTo(target, n, includeDeclaration) ==
  LET t     == prog[target]
      local == SelectSeq(addLocalReferences(t.file, target, n),
                         LAMBDA i : includeDeclaration \/ i # target)
      instanceOf == {i \in Toks : Role(i) = "type" /\ prog[i].of = target}
  IN local \o CASE t.role = "unit" /\ t.kind = "Package" ->
                     processReferencingFiles(target, n, {"pkg", "importPkg"}, n)
                [] t.role = "unit" /\ t.kind = "Module" ->
                     processReferencingFiles(target, name[target], {"type"}, n)
                [] t.role = "member" /\ t.kind = "Instance" ->
                     FlattenSeq([k \in 1 .. Cardinality(instanceOf) |->
                       processReferencingFiles(target, name[SetToSeq(instanceOf)[k]], {"type"}, n)])
                [] t.role = "member" /\ t.kind # "Instance" ->
                     addMemberReferences(t.scope, target, n)
                [] t.role = "local" -> <<>>

\* A reference that denotes two symbols makes both targets.
JoinedTargets(targets, found) ==
  FoldLeft(LAMBDA ts, i : FoldLeft(LAMBDA us, s : IF s \in ToSet(us) THEN us ELSE Append(us, s),
                                   ts, IF Len(getSymbolsAtToken(i)) < 2 THEN <<>> ELSE getSymbolsAtToken(i)),
           targets, found)

\* getDocReferences: the targets are worked off while more of them are found.
getDocReferences(i, includeDeclaration) ==
  LET n == name[i]
      next(r, k) ==
        IF k > Len(r.targets) THEN r
        ELSE LET found == ReferencesTo(r.targets[k], n, includeDeclaration)
             IN [targets |-> JoinedTargets(r.targets, found),
                 refs    |-> r.refs \o SelectSeq(found, LAMBDA j : j \notin ToSet(r.refs))]
  IN FoldLeft(next, [targets |-> getSymbolsAtToken(i), refs |-> <<>>], [k \in Toks |-> k]).refs

getDocDocumentHighlight(i) ==
  IF getSymbolsAtToken(i) = <<>> THEN <<>>
  ELSE addLocalReferences(prog[i].file, getSymbolAtToken(i), name[getSymbolAtToken(i)])
----------------------------------------------------------------------------
RefInit ==
  /\ prog \in Programs
  /\ name = [i \in DOMAIN prog |-> prog[i].text]
  /\ saved = name
  /\ meaning = [i \in DOMAIN prog |-> getSymbolsAtToken(i)]
  /\ stale = FALSE /\ renames = 0
  /\ asked = [token |-> 0, what |-> "none"] /\ answer = <<>>

\* A query changes nothing: what comes after it is left to the states before it.
FindReferences == \E i \in Toks, decl \in BOOLEAN :
  /\ asked.token = 0
  /\ asked' = [token |-> i, what |-> IF decl THEN "all" ELSE "uses"]
  /\ answer' = getDocReferences(i, decl)
  /\ UNCHANGED <<prog, name, saved, meaning, stale, renames>>

Highlight == \E i \in Toks :
  /\ asked.token = 0
  /\ asked' = [token |-> i, what |-> "highlight"]
  /\ answer' = getDocDocumentHighlight(i)
  /\ UNCHANGED <<prog, name, saved, meaning, stale, renames>>

\* Mutant: the declaration keeps its name.
RenameUsesOnly ==
  \E i \in Toks, n \in Fresh \ Range(name) :
    LET refs == ToSet(getDocReferences(i, FALSE))
    IN /\ asked.token = 0 /\ renames < MaxRenames
       /\ renames' = renames + 1
       /\ name' = [j \in Toks |-> IF j \in refs THEN n ELSE name[j]]
       /\ stale' = (stale \/ saved # name)
       /\ UNCHANGED <<prog, saved, meaning, asked, answer>>

\* getDocRename, and the editor makes the edits in the documents.
Rename == \E i \in Toks, n \in Fresh \ Range(name) :
  LET refs == ToSet(getDocReferences(i, TRUE))
  IN /\ asked.token = 0 /\ renames < MaxRenames
     /\ renames' = renames + 1
     /\ name' = [j \in Toks |-> IF j \in refs THEN n ELSE name[j]]
     /\ stale' = (stale \/ saved # name)
     /\ UNCHANGED <<prog, saved, meaning, asked, answer>>

\* A file is saved: the index takes its text.
Save == \E f \in Files :
  /\ asked.token = 0
  /\ saved' = [i \in Toks |-> IF prog[i].file = f THEN name[i] ELSE saved[i]]
  /\ UNCHANGED <<prog, name, meaning, stale, renames, asked, answer>>

RefNext == FindReferences \/ Highlight \/ Rename \/ Save
----------------------------------------------------------------------------
\* The tokens that must keep one text: those joined by the symbols they share.
Component(i) ==
  LET D       == [j \in Toks |-> ToSet(getSymbolsAtToken(j))]
      grow(T) == LET S == UNION {D[t] : t \in T} IN {j \in Toks : D[j] \cap S # {}}
  IN FoldLeft(LAMBDA T, k : grow(T), {i}, [k \in Toks |-> k])

\* With every file saved, the references of any token are exactly the tokens of its
\* component, each once, from whichever of them one starts; without declarations they
\* are the others; the highlights are those of the file that denote its symbol. The
\* documentation promises this of "nearly all symbols" (docs/features/features.md); one it
\* does not hold of, and the programs do not have, is a member used through an explicit
\* import (import p::c).
ReferencesComplete ==
  asked.token # 0 /\ saved = name =>
    LET c == Component(asked.token)
    IN /\ IsInjective(answer)
       /\ asked.what = "all"  => ToSet(answer) = c
       /\ asked.what = "uses" => ToSet(answer) = {j \in c : Role(j) \notin {"unit", "member", "local"}}
       /\ asked.what = "highlight" =>
            ToSet(answer) = {j \in c : /\ prog[j].file = prog[asked.token].file
                                       /\ Denotes(j, getSymbolAtToken(asked.token))}

\* Renames, one after the other, never change what any token denotes, also not by
\* reaching a name that is shadowed or merely spelled the same, as long as the index
\* had every file as it was when a rename began; what a rename misses otherwise is not
\* said here. Explicit imports are left out, as for ReferencesComplete.
RenameKeepsMeaning == ~ stale => \A i \in Toks : getSymbolsAtToken(i) = meaning[i]
=============================================================================
