--------------------------- MODULE IndexerProofs ---------------------------
(***************************************************************************)
(* Theorems about the Indexer for every workspace, every extraction and    *)
(* every order of saves, watcher events and config reloads.                *)
(***************************************************************************)
EXTENDS Indexer, SequenceTheorems, TLAPS

\* Products of counts.
LEMMA Times ==
  ASSUME NEW x \in Nat, NEW y \in Nat
  PROVE  /\ x * y \in Nat
         /\ x > 0 /\ y > 0 => x * y > 0
         /\ x = 0 => x * y = 0
         /\ x = 1 => x * y = y
OBVIOUS

\* What is extracted from a text is a record of counts and names.
LEMMA ExtractionType ==
  /\ NoEntries \in IndexedPath
  /\ \A t \in Text : extractFromTree(t) \in IndexedPath
  /\ \A t \in Text \cup {None} : indexPaths(t) \in IndexedPath
<1>1. NoEntries \in IndexedPath
  BY DEF NoEntries, IndexedPath
<1>2. ASSUME NEW t \in Text PROVE extractFromTree(t) \in IndexedPath
  BY IndexAssumption DEF extractFromTree, IndexedPath
<1>3. ASSUME NEW t \in Text \cup {None} PROVE indexPaths(t) \in IndexedPath
  BY <1>1, IndexAssumption DEF indexPaths, IndexedPath, NoEntries
<1> QED BY <1>1, <1>2, <1>3

\* The part of TypeOK that an index operation changes.
IndexType ==
  /\ symbolToFiles \in [Symbol -> [Uri -> Nat]]
  /\ macroToFiles \in [Macro -> [Uri -> Nat]]
  /\ symbolReferences \in [Name -> [Uri -> Nat]]
  /\ indexedFiles \in [Uri -> IndexedPath \cup {None}]

-----------------------------------------------------------------------------
(* Replacing entries.                                                       *)

\* Replacing entries keeps the types.
LEMMA ReplaceType ==
  ASSUME IndexType, NEW removed, NEW times \in [Uri -> Nat],
         NEW entry \in [Uri -> IndexedPath], Replace(removed, times, entry)
  PROVE  IndexType'
<1>1. \A u \in Uri : /\ times[u] \in Nat /\ \A s \in Symbol : entry[u].symbols[s] \in Nat
  BY DEF IndexedPath
<1>2. \A yes : Count(yes) \in Nat
  BY DEF Count
<1>3. symbolToFiles' \in [Symbol -> [Uri -> Nat]]
  <2>1. ASSUME NEW s \in Symbol, NEW u \in Uri
        PROVE  (IF u \in removed /\ indexedFiles[u] # None /\ indexedFiles[u].symbols[s] > 0
                  THEN 0 ELSE symbolToFiles[s][u]) + times[u] * entry[u].symbols[s] \in Nat
    <3>1. times[u] * entry[u].symbols[s] \in Nat
      BY <1>1, Times
    <3>2. symbolToFiles[s][u] \in Nat
      BY DEF IndexType
    <3> QED BY <3>1, <3>2
  <2> QED BY <2>1 DEF Replace
<1>4. macroToFiles' \in [Macro -> [Uri -> Nat]]
  <2>1. ASSUME NEW m \in Macro, NEW u \in Uri
        PROVE  (IF u \in removed /\ indexedFiles[u] # None /\ m \in indexedFiles[u].macros
                  THEN 0 ELSE macroToFiles[m][u]) + times[u] * Count(m \in entry[u].macros) \in Nat
    <3>1. times[u] * Count(m \in entry[u].macros) \in Nat
      BY <1>1, <1>2, Times
    <3>2. macroToFiles[m][u] \in Nat
      BY DEF IndexType
    <3> QED BY <3>1, <3>2
  <2> QED BY <2>1 DEF Replace
<1>5. symbolReferences' \in [Name -> [Uri -> Nat]]
  <2>1. ASSUME NEW n \in Name, NEW u \in Uri
        PROVE  (IF u \in removed /\ indexedFiles[u] # None /\ n \in indexedFiles[u].referencedSymbols
                  THEN 0 ELSE symbolReferences[n][u])
               + times[u] * Count(n \in entry[u].referencedSymbols) \in Nat
    <3>1. times[u] * Count(n \in entry[u].referencedSymbols) \in Nat
      BY <1>1, <1>2, Times
    <3>2. symbolReferences[n][u] \in Nat
      BY DEF IndexType
    <3> QED BY <3>1, <3>2
  <2> QED BY <2>1 DEF Replace
<1>6. indexedFiles' \in [Uri -> IndexedPath \cup {None}]
  BY DEF Replace, IndexType
<1> QED BY <1>3, <1>4, <1>5, <1>6 DEF IndexType

\* After a replacement, a file's record is the new entry, none, or the old one.
LEMMA ReplaceRecorded ==
  ASSUME NEW removed, NEW times \in [Uri -> Nat], NEW entry \in [Uri -> IndexedPath],
         Replace(removed, times, entry), NEW u \in Uri
  PROVE  /\ times[u] > 0 => Recorded(u)' \in {entry[u], NoEntries}
         /\ times[u] = 0 /\ u \in removed => Recorded(u)' = NoEntries
         /\ times[u] = 0 /\ u \notin removed => Recorded(u)' = Recorded(u)
BY DEF Replace, Recorded

\* Replacing entries keeps the index complete, whatever is removed and however
\* often a file is entered.
LEMMA ReplaceComplete ==
  ASSUME IndexType, IndexComplete, NEW removed, NEW times \in [Uri -> Nat],
         NEW entry \in [Uri -> IndexedPath], Replace(removed, times, entry)
  PROVE  IndexComplete'
<1> SUFFICES ASSUME NEW u \in Uri
             PROVE  /\ \A s \in Symbol : Recorded(u)'.symbols[s] > 0 => symbolToFiles'[s][u] > 0
                    /\ \A m \in Macro : m \in Recorded(u)'.macros => macroToFiles'[m][u] > 0
                    /\ \A n \in Name : n \in Recorded(u)'.referencedSymbols
                                         => symbolReferences'[n][u] > 0
  BY DEF IndexComplete, Recorded
<1>n. /\ \A s \in Symbol : NoEntries.symbols[s] = 0
      /\ NoEntries.macros = {} /\ NoEntries.referencedSymbols = {}
  BY DEF NoEntries
<1>t. /\ times[u] \in Nat /\ \A s \in Symbol : entry[u].symbols[s] \in Nat /\ symbolToFiles[s][u] \in Nat
      /\ \A m \in Macro : macroToFiles[m][u] \in Nat
      /\ \A n \in Name : symbolReferences[n][u] \in Nat
  BY DEF IndexedPath, IndexType
<1>1. CASE times[u] > 0
  <2>1. Recorded(u)' \in {entry[u], NoEntries}
    BY <1>1, ReplaceRecorded
  <2>2. ASSUME NEW s \in Symbol, Recorded(u)'.symbols[s] > 0 PROVE symbolToFiles'[s][u] > 0
    <3>1. entry[u].symbols[s] > 0
      BY <1>n, <2>1, <2>2
    <3>2. times[u] * entry[u].symbols[s] > 0 /\ times[u] * entry[u].symbols[s] \in Nat
      BY <1>1, <1>t, <3>1, Times
    <3> QED BY <1>t, <3>2 DEF Replace
  <2>3. ASSUME NEW m \in Macro, m \in Recorded(u)'.macros PROVE macroToFiles'[m][u] > 0
    <3>1. times[u] * Count(m \in entry[u].macros) = times[u]
      BY <1>n, <1>t, <2>1, <2>3 DEF Count
    <3> QED BY <1>1, <1>t, <3>1 DEF Replace
  <2>4. ASSUME NEW n \in Name, n \in Recorded(u)'.referencedSymbols PROVE symbolReferences'[n][u] > 0
    <3>1. times[u] * Count(n \in entry[u].referencedSymbols) = times[u]
      BY <1>n, <1>t, <2>1, <2>4 DEF Count
    <3> QED BY <1>1, <1>t, <3>1 DEF Replace
  <2> QED BY <2>2, <2>3, <2>4
<1>2. CASE times[u] = 0 /\ u \in removed
  <2>1. Recorded(u)' = NoEntries
    BY <1>2, ReplaceRecorded
  <2> QED BY <1>n, <2>1
<1>3. CASE times[u] = 0 /\ u \notin removed
  <2>1. Recorded(u)' = Recorded(u)
    BY <1>3, ReplaceRecorded
  <2>2. /\ \A s \in Symbol : times[u] * entry[u].symbols[s] = 0
        /\ \A m \in Macro : times[u] * Count(m \in entry[u].macros) = 0
        /\ \A n \in Name : times[u] * Count(n \in entry[u].referencedSymbols) = 0
    BY <1>3, <1>t, Times DEF Count
  <2>3. /\ \A s \in Symbol : symbolToFiles'[s][u] = symbolToFiles[s][u]
        /\ \A m \in Macro : macroToFiles'[m][u] = macroToFiles[m][u]
        /\ \A n \in Name : symbolReferences'[n][u] = symbolReferences[n][u]
    BY <1>3, <1>t, <2>2 DEF Replace
  <2> QED BY <2>1, <2>3 DEF IndexComplete
<1> QED BY <1>t, <1>1, <1>2, <1>3

\* Replacing entries keeps the index exact if every file is entered at most once,
\* and only after its old entries were removed.
LEMMA ReplaceExact ==
  ASSUME IndexType, IndexExact, NEW removed, NEW times \in [Uri -> Nat],
         NEW entry \in [Uri -> IndexedPath], Replace(removed, times, entry),
         \A u \in Uri : times[u] = 0 \/ (times[u] = 1 /\ u \in removed)
  PROVE  IndexExact'
<1> SUFFICES ASSUME NEW u \in Uri
             PROVE  /\ \A s \in Symbol : symbolToFiles'[s][u] = Recorded(u)'.symbols[s]
                    /\ \A m \in Macro : macroToFiles'[m][u] = Count(m \in Recorded(u)'.macros)
                    /\ \A n \in Name : symbolReferences'[n][u]
                                         = Count(n \in Recorded(u)'.referencedSymbols)
  BY DEF IndexExact, Recorded
<1>n. /\ \A s \in Symbol : NoEntries.symbols[s] = 0
      /\ NoEntries.macros = {} /\ NoEntries.referencedSymbols = {}
  BY DEF NoEntries
<1>t. /\ times[u] \in Nat /\ \A s \in Symbol : entry[u].symbols[s] \in Nat /\ symbolToFiles[s][u] \in Nat
      /\ \A m \in Macro : macroToFiles[m][u] \in Nat
      /\ \A n \in Name : symbolReferences[n][u] \in Nat
  BY DEF IndexedPath, IndexType
<1>c. \A yes : Count(yes) \in Nat
  BY DEF Count
<1>e. /\ \A s \in Symbol : symbolToFiles[s][u] = Recorded(u).symbols[s]
      /\ \A m \in Macro : macroToFiles[m][u] = Count(m \in Recorded(u).macros)
      /\ \A n \in Name : symbolReferences[n][u] = Count(n \in Recorded(u).referencedSymbols)
  BY DEF IndexExact
\* Removal leaves no entry of a removed file.
<1>r. ASSUME u \in removed
      PROVE  /\ \A s \in Symbol : symbolToFiles'[s][u] = times[u] * entry[u].symbols[s]
             /\ \A m \in Macro : macroToFiles'[m][u] = times[u] * Count(m \in entry[u].macros)
             /\ \A n \in Name : symbolReferences'[n][u]
                                  = times[u] * Count(n \in entry[u].referencedSymbols)
  <2>1. ASSUME NEW s \in Symbol PROVE symbolToFiles'[s][u] = times[u] * entry[u].symbols[s]
    <3>1. (IF indexedFiles[u] # None /\ indexedFiles[u].symbols[s] > 0
             THEN 0 ELSE symbolToFiles[s][u]) = 0
      BY <1>e, <1>n, <1>t DEF Recorded
    <3>2. times[u] * entry[u].symbols[s] \in Nat
      BY <1>t, Times
    <3> QED BY <1>r, <3>1, <3>2 DEF Replace
  <2>2. ASSUME NEW m \in Macro PROVE macroToFiles'[m][u] = times[u] * Count(m \in entry[u].macros)
    <3>1. (IF indexedFiles[u] # None /\ m \in indexedFiles[u].macros
             THEN 0 ELSE macroToFiles[m][u]) = 0
      BY <1>e, <1>n DEF Recorded, Count
    <3>2. times[u] * Count(m \in entry[u].macros) \in Nat
      BY <1>t, <1>c, Times
    <3> QED BY <1>r, <3>1, <3>2 DEF Replace
  <2>3. ASSUME NEW n \in Name
        PROVE  symbolReferences'[n][u] = times[u] * Count(n \in entry[u].referencedSymbols)
    <3>1. (IF indexedFiles[u] # None /\ n \in indexedFiles[u].referencedSymbols
             THEN 0 ELSE symbolReferences[n][u]) = 0
      BY <1>e, <1>n DEF Recorded, Count
    <3>2. times[u] * Count(n \in entry[u].referencedSymbols) \in Nat
      BY <1>t, <1>c, Times
    <3> QED BY <1>r, <3>1, <3>2 DEF Replace
  <2> QED BY <2>1, <2>2, <2>3
<1>1. CASE times[u] = 1 /\ u \in removed
  <2>1. Recorded(u)' = entry[u]
    <3>1. entry[u] # None
      BY IndexAssumption
    <3> QED BY <1>1, <3>1 DEF Replace, Recorded
  <2> QED BY <1>1, <1>r, <1>t, <1>c, <2>1, Times
<1>2. CASE times[u] = 0 /\ u \in removed
  <2>1. Recorded(u)' = NoEntries
    BY <1>2, ReplaceRecorded
  <2>2. /\ \A m \in Macro : Count(m \in NoEntries.macros) = 0
        /\ \A n \in Name : Count(n \in NoEntries.referencedSymbols) = 0
    BY <1>n DEF Count
  <2> QED BY <1>2, <1>r, <1>t, <1>c, <1>n, <2>1, <2>2, Times
<1>3. CASE times[u] = 0 /\ u \notin removed
  <2>1. Recorded(u)' = Recorded(u)
    BY <1>3, ReplaceRecorded
  <2>2. /\ \A s \in Symbol : times[u] * entry[u].symbols[s] = 0
        /\ \A m \in Macro : times[u] * Count(m \in entry[u].macros) = 0
        /\ \A n \in Name : times[u] * Count(n \in entry[u].referencedSymbols) = 0
    BY <1>3, <1>t, <1>c, Times
  <2>3. /\ \A s \in Symbol : symbolToFiles'[s][u] = symbolToFiles[s][u]
        /\ \A m \in Macro : macroToFiles'[m][u] = macroToFiles[m][u]
        /\ \A n \in Name : symbolReferences'[n][u] = symbolReferences[n][u]
    BY <1>3, <1>t, <2>2 DEF Replace
  <2> QED BY <1>e, <2>1, <2>3
<1> QED BY <1>1, <1>2, <1>3

-----------------------------------------------------------------------------
(* The index is complete.                                                   *)

\* The invariant: types and completeness.
CompleteInv == TypeOK /\ IndexComplete

\* What the writers and the watcher do leaves the index alone.
LEMMA WritersKeep ==
  ASSUME TypeOK,
         \/ \E u \in Uri, t \in Text : EditorSave(u, t) \/ ToolWrite(u, t)
         \/ \E u \in Uri : ToolDelete(u) \/ WatcherIgnores(u)
  PROVE  /\ UNCHANGED index /\ reindexes' = reindexes
         /\ disk' \in [Uri -> Text \cup {None}] /\ inbox' \in Seq([uri : Uri, text : Text])
         /\ watch' \in [Uri -> Kind \cup {None}] /\ missed' \subseteq Uri /\ ops' \in Nat
<1>t. /\ disk \in [Uri -> Text \cup {None}] /\ inbox \in Seq([uri : Uri, text : Text])
      /\ watch \in [Uri -> Kind \cup {None}] /\ missed \subseteq Uri /\ ops \in Nat
  BY DEF TypeOK
<1>s. ASSUME NEW u \in Uri, NEW kind \in Kind, Seen(u, kind)
      PROVE  watch' \in [Uri -> Kind \cup {None}]
  <2>1. Coalesce(watch[u], kind) \in Kind \cup {None}
    BY DEF Coalesce, Kind
  <2> QED BY <1>s, <1>t, <2>1 DEF Seen
<1>w. ASSUME NEW u \in Uri, NEW t \in Text, Written(u, t)
      PROVE  disk' \in [Uri -> Text \cup {None}] /\ watch' \in [Uri -> Kind \cup {None}]
  BY <1>w, <1>s, <1>t DEF Written, Kind
<1>p. ASSUME Spend PROVE ops' \in Nat
  BY <1>p, <1>t DEF Spend
<1>1. ASSUME NEW u \in Uri, NEW t \in Text, EditorSave(u, t)
      PROVE  /\ UNCHANGED index /\ reindexes' = reindexes
             /\ disk' \in [Uri -> Text \cup {None}] /\ inbox' \in Seq([uri : Uri, text : Text])
             /\ watch' \in [Uri -> Kind \cup {None}] /\ missed' \subseteq Uri /\ ops' \in Nat
  <2>1. inbox' \in Seq([uri : Uri, text : Text])
    BY <1>1, <1>t DEF EditorSave
  <2> QED BY <1>1, <1>t, <1>w, <1>p, <2>1 DEF EditorSave
<1>2. ASSUME NEW u \in Uri, NEW t \in Text, ToolWrite(u, t)
      PROVE  /\ UNCHANGED index /\ reindexes' = reindexes
             /\ disk' \in [Uri -> Text \cup {None}] /\ inbox' \in Seq([uri : Uri, text : Text])
             /\ watch' \in [Uri -> Kind \cup {None}] /\ missed' \subseteq Uri /\ ops' \in Nat
  BY <1>2, <1>t, <1>w, <1>p DEF ToolWrite
<1>3. ASSUME NEW u \in Uri, ToolDelete(u)
      PROVE  /\ UNCHANGED index /\ reindexes' = reindexes
             /\ disk' \in [Uri -> Text \cup {None}] /\ inbox' \in Seq([uri : Uri, text : Text])
             /\ watch' \in [Uri -> Kind \cup {None}] /\ missed' \subseteq Uri /\ ops' \in Nat
  BY <1>3, <1>t, <1>s, <1>p DEF ToolDelete, Kind
<1>4. ASSUME NEW u \in Uri, WatcherIgnores(u)
      PROVE  /\ UNCHANGED index /\ reindexes' = reindexes
             /\ disk' \in [Uri -> Text \cup {None}] /\ inbox' \in Seq([uri : Uri, text : Text])
             /\ watch' \in [Uri -> Kind \cup {None}] /\ missed' \subseteq Uri /\ ops' \in Nat
  BY <1>4, <1>t DEF WatcherIgnores
<1> QED BY <1>1, <1>2, <1>3, <1>4

\* What is parsed from disk is a record.
LEMMA OnDiskType ==
  ASSUME TypeOK
  PROVE  OnDisk \in [Uri -> IndexedPath]
BY ExtractionType DEF OnDisk, TypeOK

\* Each operation of the Indexer is one replacement, with these arguments.
LEMMA OperationIsReplace ==
  ASSUME TypeOK,
         \/ updateDocument
         \/ \E S \in SUBSET Uri : onWorkspaceDidChangeWatchedFiles(S)
         \/ startIndexing
  PROVE  \E removed, times, entry :
           /\ times \in [Uri -> Nat] /\ entry \in [Uri -> IndexedPath]
           /\ Replace(removed, times, entry)
           /\ \/ reindexes < MaxReindex
              \/ reindexes' = reindexes
                 /\ \A u \in Uri : \/ times[u] = 0 \/ (times[u] = 1 /\ u \in removed)
                                   \/ (watch[u] = "Created" /\ "Created" \in WatchKind)
<1>t. /\ disk \in [Uri -> Text \cup {None}] /\ inbox \in Seq([uri : Uri, text : Text])
  BY DEF TypeOK
<1>1. CASE updateDocument
  <2> DEFINE u == Head(inbox).uri
             times == [v \in Uri |-> Count(v = u)]
             entry == [v \in Uri |-> extractFromTree(Head(inbox).text)]
  <2>1. Replace({u}, times, entry) /\ inbox # <<>> /\ reindexes' = reindexes
    BY <1>1 DEF updateDocument
  <2>2. Head(inbox) \in [uri : Uri, text : Text]
    BY <1>t, <2>1, HeadTailProperties
  <2>3. entry \in [Uri -> IndexedPath]
    BY <2>2, ExtractionType
  <2>4. times \in [Uri -> Nat] /\ \A v \in Uri : times[v] = 0 \/ (times[v] = 1 /\ v \in {u})
    BY DEF Count
  <2> HIDE DEF times, entry
  <2> QED BY <2>1, <2>3, <2>4
<1>2. ASSUME NEW S \in SUBSET Uri, onWorkspaceDidChangeWatchedFiles(S)
      PROVE  \E removed, times, entry :
               /\ times \in [Uri -> Nat] /\ entry \in [Uri -> IndexedPath]
               /\ Replace(removed, times, entry)
               /\ reindexes' = reindexes
               /\ \A u \in Uri : \/ times[u] = 0 \/ (times[u] = 1 /\ u \in removed)
                                 \/ (watch[u] = "Created" /\ "Created" \in WatchKind)
  <2> DEFINE Is(u, kinds) == u \in S /\ watch[u] \in kinds
             removed == {u \in S : Is(u, {"Changed", "Deleted"})}
             times == [u \in Uri |->
                         Count(Is(u, {"Created"}) \/ (Is(u, {"Changed"}) /\ disk[u] # None))]
  <2>1. /\ Replace(removed, times, OnDisk) /\ reindexes' = reindexes
        /\ \A u \in S : watch[u] \in WatchKind
    BY <1>2 DEF onWorkspaceDidChangeWatchedFiles
  <2>2. /\ times \in [Uri -> Nat]
        /\ \A u \in Uri : \/ times[u] = 0 \/ (times[u] = 1 /\ u \in removed)
                          \/ (watch[u] = "Created" /\ "Created" \in WatchKind)
    BY <2>1 DEF Count
  <2> HIDE DEF times, removed
  <2> QED BY <2>1, <2>2, OnDiskType
<1>3. CASE startIndexing
  <2> DEFINE times == [u \in Uri |-> IF disk[u] = None THEN 0 ELSE Collected[u]]
  <2>1. Replace({}, times, OnDisk) /\ reindexes < MaxReindex
    BY <1>3 DEF startIndexing
  <2>2. times \in [Uri -> Nat]
    BY IndexAssumption
  <2> HIDE DEF times
  <2> QED BY <2>1, <2>2, OnDiskType
<1> QED BY <1>1, <1>2, <1>3

\* Each operation keeps the types of the variables other than the index.
LEMMA OperationFiles ==
  ASSUME TypeOK,
         \/ updateDocument
         \/ \E S \in SUBSET Uri : onWorkspaceDidChangeWatchedFiles(S)
         \/ startIndexing
  PROVE  /\ disk' \in [Uri -> Text \cup {None}] /\ inbox' \in Seq([uri : Uri, text : Text])
         /\ watch' \in [Uri -> Kind \cup {None}] /\ missed' \subseteq Uri
         /\ reindexes' \in Nat /\ ops' \in Nat
<1>t. /\ disk \in [Uri -> Text \cup {None}] /\ inbox \in Seq([uri : Uri, text : Text])
      /\ watch \in [Uri -> Kind \cup {None}] /\ missed \subseteq Uri /\ ops \in Nat /\ reindexes \in Nat
  BY DEF TypeOK
<1>1. CASE updateDocument
  BY <1>1, <1>t DEF updateDocument
<1>2. ASSUME NEW S \in SUBSET Uri, onWorkspaceDidChangeWatchedFiles(S)
      PROVE  /\ UNCHANGED <<disk, inbox, reindexes, ops>>
             /\ watch' \in [Uri -> Kind \cup {None}] /\ missed' \subseteq Uri
  BY <1>2, <1>t DEF onWorkspaceDidChangeWatchedFiles
<1>3. CASE startIndexing
  BY <1>3, <1>t DEF startIndexing
<1> QED BY <1>1, <1>2, <1>3, <1>t

\* TypeOK is IndexType and the types of the other variables.
LEMMA TypeParts ==
  TypeOK <=> /\ IndexType
             /\ disk \in [Uri -> Text \cup {None}] /\ inbox \in Seq([uri : Uri, text : Text])
             /\ watch \in [Uri -> Kind \cup {None}] /\ missed \subseteq Uri
             /\ reindexes \in Nat /\ ops \in Nat
BY DEF TypeOK, IndexType

\* The first indexing fills the lists as often as the crawl lists a file.
LEMMA InitFacts ==
  ASSUME Init
  PROVE  /\ TypeOK /\ reindexes = 0
         /\ IndexComplete
         /\ (\A u \in Uri : Collected[u] \in {0, 1}) => IndexExact
<1> DEFINE times == [u \in Uri |-> IF disk[u] = None THEN 0 ELSE Collected[u]]
           entry == [u \in Uri |-> indexPaths(disk[u])]
<1>1. /\ disk \in [Uri -> Text \cup {None}] /\ inbox = <<>> /\ watch = [u \in Uri |-> None]
      /\ missed = {} /\ reindexes = 0 /\ ops = 0
      /\ symbolToFiles = [s \in Symbol |-> [u \in Uri |-> times[u] * entry[u].symbols[s]]]
      /\ macroToFiles = [m \in Macro |-> [u \in Uri |-> times[u] * Count(m \in entry[u].macros)]]
      /\ symbolReferences = [n \in Name |-> [u \in Uri |->
                                times[u] * Count(n \in entry[u].referencedSymbols)]]
      /\ indexedFiles = [u \in Uri |-> IF times[u] > 0 THEN entry[u] ELSE None]
  BY DEF Init
<1>2. times \in [Uri -> Nat] /\ entry \in [Uri -> IndexedPath]
  BY <1>1, ExtractionType, IndexAssumption
<1>3. (\A u \in Uri : Collected[u] \in {0, 1}) => \A u \in Uri : times[u] \in {0, 1}
  OBVIOUS
<1> HIDE DEF times, entry
<1>c. \A yes : Count(yes) \in Nat
  BY DEF Count
<1>n. /\ \A s \in Symbol : NoEntries.symbols[s] = 0
      /\ NoEntries.macros = {} /\ NoEntries.referencedSymbols = {}
  BY DEF NoEntries
<1>4. IndexType
  <2>1. \A s \in Symbol, u \in Uri : times[u] * entry[u].symbols[s] \in Nat
    BY <1>2, Times DEF IndexedPath
  <2>2. \A m \in Macro, u \in Uri : times[u] * Count(m \in entry[u].macros) \in Nat
    BY <1>2, <1>c, Times
  <2>3. \A n \in Name, u \in Uri : times[u] * Count(n \in entry[u].referencedSymbols) \in Nat
    BY <1>2, <1>c, Times
  <2> QED BY <1>1, <1>2, <2>1, <2>2, <2>3 DEF IndexType
<1>5. TypeOK
  BY <1>1, <1>4, TypeParts
<1>6. ASSUME NEW u \in Uri
      PROVE  /\ times[u] \in Nat /\ \A s \in Symbol : entry[u].symbols[s] \in Nat
             /\ times[u] > 0 => Recorded(u) = entry[u]
             /\ times[u] = 0 => Recorded(u) = NoEntries
  BY <1>1, <1>2, IndexAssumption DEF Recorded, IndexedPath
<1>7. IndexComplete
  <2> SUFFICES ASSUME NEW u \in Uri
               PROVE  /\ \A s \in Symbol : Recorded(u).symbols[s] > 0 => symbolToFiles[s][u] > 0
                      /\ \A m \in Macro : m \in Recorded(u).macros => macroToFiles[m][u] > 0
                      /\ \A n \in Name : n \in Recorded(u).referencedSymbols
                                           => symbolReferences[n][u] > 0
    BY DEF IndexComplete
  <2>1. CASE times[u] = 0
    BY <1>6, <1>n, <2>1
  <2>2. CASE times[u] > 0
    <3>1. /\ \A s \in Symbol : entry[u].symbols[s] > 0 => times[u] * entry[u].symbols[s] > 0
      BY <1>6, <2>2, Times
    <3>2. /\ \A m \in Macro : m \in entry[u].macros => times[u] * Count(m \in entry[u].macros) > 0
          /\ \A n \in Name : n \in entry[u].referencedSymbols
                               => times[u] * Count(n \in entry[u].referencedSymbols) > 0
      BY <1>6, <2>2 DEF Count
    <3> QED BY <1>1, <1>6, <2>2, <3>1, <3>2
  <2> QED BY <1>6, <2>1, <2>2
<1>8. ASSUME \A u \in Uri : Collected[u] \in {0, 1} PROVE IndexExact
  <2> SUFFICES ASSUME NEW u \in Uri
               PROVE  /\ \A s \in Symbol : symbolToFiles[s][u] = Recorded(u).symbols[s]
                      /\ \A m \in Macro : macroToFiles[m][u] = Count(m \in Recorded(u).macros)
                      /\ \A n \in Name : symbolReferences[n][u]
                                           = Count(n \in Recorded(u).referencedSymbols)
    BY DEF IndexExact
  <2>1. times[u] \in {0, 1}
    BY <1>3, <1>8
  <2>2. CASE times[u] = 0
    <3>1. /\ \A m \in Macro : Count(m \in NoEntries.macros) = 0
          /\ \A n \in Name : Count(n \in NoEntries.referencedSymbols) = 0
      BY <1>n DEF Count
    <3> QED BY <1>1, <1>6, <1>c, <1>n, <2>2, <3>1, Times
  <2>3. CASE times[u] = 1
    BY <1>1, <1>6, <1>c, <2>3, Times
  <2> QED BY <2>1, <2>2, <2>3
<1> QED BY <1>1, <1>5, <1>7, <1>8

\* A step keeps types and completeness.
LEMMA CompleteStep == CompleteInv /\ [Next]_vars => CompleteInv'
<1> SUFFICES ASSUME CompleteInv, [Next]_vars PROVE CompleteInv'
  OBVIOUS
<1>t. TypeOK /\ IndexComplete /\ IndexType
  BY TypeParts DEF CompleteInv
<1>1. CASE \/ \E u \in Uri, t \in Text : EditorSave(u, t) \/ ToolWrite(u, t)
           \/ \E u \in Uri : ToolDelete(u) \/ WatcherIgnores(u)
  <2>1. /\ UNCHANGED index /\ reindexes' = reindexes
        /\ disk' \in [Uri -> Text \cup {None}] /\ inbox' \in Seq([uri : Uri, text : Text])
        /\ watch' \in [Uri -> Kind \cup {None}] /\ missed' \subseteq Uri /\ ops' \in Nat
    BY <1>1, <1>t, WritersKeep
  <2> QED BY <1>t, <2>1 DEF CompleteInv, TypeOK, IndexComplete, Recorded, index
<1>2. CASE \/ updateDocument
           \/ \E S \in SUBSET Uri : onWorkspaceDidChangeWatchedFiles(S)
           \/ startIndexing
  <2>1. PICK removed, times, entry :
          /\ times \in [Uri -> Nat] /\ entry \in [Uri -> IndexedPath]
          /\ Replace(removed, times, entry)
    BY <1>2, <1>t, OperationIsReplace
  <2>2. IndexType' /\ IndexComplete'
    BY <1>t, <2>1, ReplaceType, ReplaceComplete
  <2>3. /\ disk' \in [Uri -> Text \cup {None}] /\ inbox' \in Seq([uri : Uri, text : Text])
        /\ watch' \in [Uri -> Kind \cup {None}] /\ missed' \subseteq Uri
        /\ reindexes' \in Nat /\ ops' \in Nat
    BY <1>2, <1>t, OperationFiles
  <2> QED BY <2>2, <2>3 DEF CompleteInv, TypeOK, IndexType
<1>3. CASE UNCHANGED vars
  BY <1>3, <1>t DEF CompleteInv, vars, TypeOK, IndexComplete, Recorded
<1> QED BY <1>1, <1>2, <1>3 DEF Next

\* Types and completeness hold in every reachable state, reloads, created files
\* and overlapping index directories included.
THEOREM IndexIsComplete == Spec => [](TypeOK /\ IndexComplete)
<1>1. Init => CompleteInv
  BY InitFacts DEF CompleteInv
<1>2. CompleteInv => TypeOK /\ IndexComplete
  BY DEF CompleteInv
<1> QED BY <1>1, <1>2, CompleteStep, PTL DEF Spec

-----------------------------------------------------------------------------
(* The index is exact.                                                      *)

\* The invariant: nothing was re-indexed.
ExactInv == TypeOK /\ IndexExact /\ reindexes = 0

\* Whatever the order of saves, writes, deletions and events: with the watcher the
\* server registers (changes only), index directories that do not overlap and no
\* config reload, the lists hold a file exactly as often as its record says.
THEOREM IndexIsExact ==
  ASSUME "Created" \notin WatchKind, MaxReindex = 0, \A u \in Uri : Collected[u] \in {0, 1}
  PROVE  Spec => []IndexExact
<1>1. Init => ExactInv
  BY InitFacts DEF ExactInv
<1>2. ExactInv /\ [Next]_vars => ExactInv'
  <2> SUFFICES ASSUME ExactInv, [Next]_vars PROVE ExactInv'
    OBVIOUS
  <2>t. TypeOK /\ IndexExact /\ IndexType /\ reindexes = 0
    BY TypeParts DEF ExactInv
  <2>1. CASE \/ \E u \in Uri, t \in Text : EditorSave(u, t) \/ ToolWrite(u, t)
             \/ \E u \in Uri : ToolDelete(u) \/ WatcherIgnores(u)
    <3>1. /\ UNCHANGED index /\ reindexes' = reindexes
          /\ disk' \in [Uri -> Text \cup {None}] /\ inbox' \in Seq([uri : Uri, text : Text])
          /\ watch' \in [Uri -> Kind \cup {None}] /\ missed' \subseteq Uri /\ ops' \in Nat
      BY <2>1, <2>t, WritersKeep
    <3> QED BY <2>t, <3>1 DEF ExactInv, TypeOK, IndexExact, Recorded, index
  <2>2. CASE \/ updateDocument
             \/ \E S \in SUBSET Uri : onWorkspaceDidChangeWatchedFiles(S)
             \/ startIndexing
    <3>1. PICK removed, times, entry :
            /\ times \in [Uri -> Nat] /\ entry \in [Uri -> IndexedPath]
            /\ Replace(removed, times, entry)
            /\ \/ reindexes < MaxReindex
               \/ reindexes' = reindexes
                  /\ \A u \in Uri : \/ times[u] = 0 \/ (times[u] = 1 /\ u \in removed)
                                    \/ (watch[u] = "Created" /\ "Created" \in WatchKind)
      BY <2>2, <2>t, OperationIsReplace
    <3>2. /\ reindexes' = 0
          /\ \A u \in Uri : times[u] = 0 \/ (times[u] = 1 /\ u \in removed)
      BY <2>t, <3>1
    <3>3. IndexType' /\ IndexExact'
      BY <2>t, <3>1, <3>2, ReplaceType, ReplaceExact
    <3>4. /\ disk' \in [Uri -> Text \cup {None}] /\ inbox' \in Seq([uri : Uri, text : Text])
          /\ watch' \in [Uri -> Kind \cup {None}] /\ missed' \subseteq Uri
          /\ reindexes' \in Nat /\ ops' \in Nat
      BY <2>2, <2>t, OperationFiles
    <3> QED BY <3>2, <3>3, <3>4 DEF ExactInv, TypeOK, IndexType
  <2>3. CASE UNCHANGED vars
    BY <2>3, <2>t DEF ExactInv, vars, TypeOK, IndexExact, Recorded
  <2> QED BY <2>1, <2>2, <2>3 DEF Next
<1>3. ExactInv => IndexExact
  BY DEF ExactInv
<1> QED BY <1>1, <1>2, <1>3, PTL DEF Spec

-----------------------------------------------------------------------------
(* The index is current.                                                    *)

\* Every file is written by one side only.
OneWriter == \A u \in Uri : Writer[u] \subseteq {"editor"} \/ Writer[u] \subseteq {"tool"}

\* The i-th save in flight is the last one of file u and brings its present content.
LastSave(u, i) ==
  /\ inbox[i].uri = u /\ inbox[i].text = disk[u]
  /\ \A j \in (i + 1)..Len(inbox) : inbox[j].uri # u

Unsaved(u) == \A i \in 1..Len(inbox) : inbox[i].uri # u

\* A file the editor writes is up to date, or will be with the last of its saves.
EditorFile(u) ==
  /\ watch[u] # "Deleted" /\ (watch[u] # None => disk[u] # None)
  /\ (Unsaved(u) /\ Current(u)) \/ \E i \in 1..Len(inbox) : LastSave(u, i)

\* A file tools write is up to date unless its last event was missed or the watcher
\* holds one for it, and then the event is the difference between record and file.
ToolFile(u) ==
  /\ Unsaved(u)
  /\ watch[u] = None => u \in missed \/ Current(u)
  /\ watch[u] = "Created" => disk[u] # None /\ (u \in missed \/ Recorded(u) = NoEntries)
  /\ watch[u] = "Changed" => disk[u] # None
  /\ watch[u] = "Deleted" => disk[u] = None

CurrentInv ==
  /\ reindexes = 0
  /\ \A u \in Uri : IF "editor" \in Writer[u] THEN EditorFile(u) ELSE ToolFile(u)

\* What the writers' steps do to the watcher's event for a file.
LEMMA SeenFacts ==
  ASSUME TypeOK, NEW u \in Uri, NEW kind \in Kind, Seen(u, kind)
  PROVE  /\ \A v \in Uri : v # u => watch'[v] = watch[v]
         /\ watch'[u] = Coalesce(watch[u], kind)
BY DEF TypeOK, Seen

LEMMA CoalesceFacts ==
  ASSUME NEW old \in Kind \cup {None}, NEW kind \in Kind
  PROVE  /\ kind # "Deleted" => Coalesce(old, kind) \in {"Created", "Changed"}
         /\ Coalesce(old, "Deleted") = IF old = "Created" THEN None ELSE "Deleted"
         /\ Coalesce(old, "Created") = "Created" => old # "Deleted"
         /\ Coalesce(old, "Changed") = "Created" => old = "Created"
<1>1. Coalesce(old, "Created") = IF old = "Deleted" THEN "Changed" ELSE "Created"
  BY DEF Coalesce
<1>2. Coalesce(old, "Changed") = IF old = "Created" THEN "Created" ELSE "Changed"
  BY DEF Coalesce
<1>3. Coalesce(old, "Deleted") = IF old = "Created" THEN None ELSE "Deleted"
  BY DEF Coalesce
<1> QED BY <1>1, <1>2, <1>3 DEF Kind

\* A step that neither touches a file nor its saves, record and event.
LEMMA FileKept ==
  ASSUME NEW u \in Uri, IF "editor" \in Writer[u] THEN EditorFile(u) ELSE ToolFile(u),
         disk'[u] = disk[u], watch'[u] = watch[u], indexedFiles'[u] = indexedFiles[u],
         inbox' = inbox, u \in missed' <=> u \in missed
  PROVE  (IF "editor" \in Writer[u] THEN EditorFile(u) ELSE ToolFile(u))'
BY DEF EditorFile, ToolFile, Current, Unsaved, LastSave, Recorded

\* Another file's save changes nothing for this one.
LEMMA SaveOther ==
  ASSUME TypeOK, NEW u \in Uri, NEW msg \in [uri : Uri, text : Text], msg.uri # u,
         IF "editor" \in Writer[u] THEN EditorFile(u) ELSE ToolFile(u),
         disk'[u] = disk[u], watch'[u] = watch[u], indexedFiles'[u] = indexedFiles[u],
         inbox' = Append(inbox, msg), missed' = missed
  PROVE  (IF "editor" \in Writer[u] THEN EditorFile(u) ELSE ToolFile(u))'
<1>1. /\ Len(inbox) \in Nat /\ Len(inbox') = Len(inbox) + 1 /\ inbox'[Len(inbox) + 1] = msg
      /\ \A i \in 1..Len(inbox) : inbox'[i] = inbox[i]
  BY AppendProperties, LenProperties DEF TypeOK
<1>2. Unsaved(u) => Unsaved(u)'
  BY <1>1 DEF Unsaved
<1>3. Current(u) => Current(u)'
  BY DEF Current, Recorded
<1>4. ASSUME NEW i \in 1..Len(inbox), LastSave(u, i)
      PROVE  i \in 1..Len(inbox') /\ LastSave(u, i)'
  <2>1. i \in 1..Len(inbox') /\ inbox'[i] = inbox[i]
    BY <1>1
  <2>2. \A j \in (i + 1)..Len(inbox') : inbox'[j].uri # u
    <3> SUFFICES ASSUME NEW j \in (i + 1)..Len(inbox') PROVE inbox'[j].uri # u
      OBVIOUS
    <3>1. j = Len(inbox) + 1 \/ (j \in (i + 1)..Len(inbox) /\ j \in 1..Len(inbox))
      BY <1>1
    <3> QED BY <1>1, <1>4, <3>1 DEF LastSave
  <2> QED BY <1>4, <2>1, <2>2 DEF LastSave
<1>5. EditorFile(u) => EditorFile(u)'
  BY <1>2, <1>3, <1>4 DEF EditorFile
<1>6. ToolFile(u) => ToolFile(u)'
  BY <1>2, <1>3 DEF ToolFile, Recorded
<1> QED BY <1>5, <1>6

LEMMA EditorSaveCurrent ==
  ASSUME TypeOK, OneWriter, CurrentInv, NEW u \in Uri, NEW t \in Text, EditorSave(u, t)
  PROVE  CurrentInv'
<1> DEFINE msg == [uri |-> u, text |-> t]
<1>1. /\ "editor" \in Writer[u] /\ disk' = [disk EXCEPT ![u] = t] /\ inbox' = Append(inbox, msg)
      /\ UNCHANGED index /\ UNCHANGED <<missed, reindexes>>
  BY DEF EditorSave, Written
<1>2. PICK kind \in {"Created", "Changed"} : Seen(u, kind)
  BY DEF EditorSave, Written
<1>3. /\ disk \in [Uri -> Text \cup {None}] /\ watch[u] \in Kind \cup {None} /\ kind \in Kind
      /\ inbox \in Seq([uri : Uri, text : Text]) /\ None \notin Text /\ None # "Deleted"
  BY IndexAssumption DEF TypeOK, Kind
<1>4. /\ \A v \in Uri : v # u => watch'[v] = watch[v]
      /\ watch'[u] = Coalesce(watch[u], kind)
  BY <1>2, <1>3, SeenFacts
<1>5. /\ disk'[u] = t /\ t # None /\ \A v \in Uri : v # u => disk'[v] = disk[v]
  BY <1>1, <1>3
<1>6. ASSUME NEW v \in Uri, v # u
      PROVE  (IF "editor" \in Writer[v] THEN EditorFile(v) ELSE ToolFile(v))'
  <2>1. IF "editor" \in Writer[v] THEN EditorFile(v) ELSE ToolFile(v)
    BY DEF CurrentInv
  <2>2. msg \in [uri : Uri, text : Text] /\ msg.uri # v
    BY <1>6
  <2>3. disk'[v] = disk[v] /\ watch'[v] = watch[v] /\ indexedFiles'[v] = indexedFiles[v]
    BY <1>1, <1>4, <1>5, <1>6 DEF index
  <2> HIDE DEF msg
  <2> QED BY <1>1, <2>1, <2>2, <2>3, SaveOther
<1>7. EditorFile(u)'
  <2>1. EditorFile(u)
    BY <1>1 DEF CurrentInv
  <2>2. watch'[u] # "Deleted"
    <3>1. Coalesce(watch[u], kind) # "Deleted"
      BY <1>2, <1>3, CoalesceFacts
    <3> QED BY <1>4, <2>1, <3>1 DEF EditorFile
  <2>3. /\ Len(inbox) \in Nat /\ Len(inbox') = Len(inbox) + 1 /\ inbox'[Len(inbox) + 1] = msg
    BY <1>1, <1>3, AppendProperties, LenProperties
  <2>4. msg.uri = u /\ msg.text = t
    OBVIOUS
  <2>l. PICK last \in Nat : last = Len(inbox) + 1
    BY <2>3
  <2>5. last \in 1..Len(inbox') /\ \A j \in (last + 1)..Len(inbox') : FALSE
    BY <2>3, <2>l
  <2>6. LastSave(u, last)'
    BY <1>5, <2>3, <2>4, <2>5, <2>l DEF LastSave
  <2>7. \E i \in 1..Len(inbox') : LastSave(u, i)'
    BY <2>5, <2>6
  <2> QED BY <1>5, <2>2, <2>7 DEF EditorFile
<1>8. reindexes' = 0
  BY <1>1 DEF CurrentInv
<1> QED BY <1>1, <1>6, <1>7, <1>8 DEF CurrentInv

LEMMA ToolCurrent ==
  ASSUME TypeOK, OneWriter, CurrentInv, NEW u \in Uri,
         (\E t \in Text : ToolWrite(u, t)) \/ ToolDelete(u)
  PROVE  CurrentInv'
<1>1. /\ "tool" \in Writer[u] /\ UNCHANGED <<inbox, missed, reindexes>> /\ UNCHANGED index
  BY DEF ToolWrite, ToolDelete
<1>2. "editor" \notin Writer[u]
  BY <1>1 DEF OneWriter
<1>3. ToolFile(u)
  BY <1>2 DEF CurrentInv
<1>4. /\ disk \in [Uri -> Text \cup {None}] /\ watch[u] \in Kind \cup {None} /\ None \notin Text
      /\ "Created" \in Kind /\ "Changed" \in Kind /\ "Deleted" \in Kind /\ None \notin Kind
  BY IndexAssumption DEF TypeOK, Kind
<1>5. ASSUME \A v \in Uri : v # u => disk'[v] = disk[v] /\ watch'[v] = watch[v], ToolFile(u)'
      PROVE  CurrentInv'
  <2>1. ASSUME NEW v \in Uri, v # u
        PROVE  (IF "editor" \in Writer[v] THEN EditorFile(v) ELSE ToolFile(v))'
    <3>1. /\ disk'[v] = disk[v] /\ watch'[v] = watch[v] /\ indexedFiles'[v] = indexedFiles[v]
          /\ inbox' = inbox /\ missed' = missed
      BY <1>1, <1>5, <2>1 DEF index
    <3>2. IF "editor" \in Writer[v] THEN EditorFile(v) ELSE ToolFile(v)
      BY DEF CurrentInv
    <3> QED BY <3>1, <3>2, FileKept
  <2>2. reindexes' = 0
    BY <1>1 DEF CurrentInv
  <2> QED BY <1>2, <1>5, <2>1, <2>2 DEF CurrentInv
<1>6. Unsaved(u)' /\ Recorded(u)' = Recorded(u) /\ missed' = missed
  BY <1>1, <1>3 DEF ToolFile, Unsaved, Recorded, index
<1>7. ASSUME NEW t \in Text, ToolWrite(u, t) PROVE CurrentInv'
  <2> DEFINE kind == IF disk[u] = None THEN "Created" ELSE "Changed"
  <2>1. disk' = [disk EXCEPT ![u] = t] /\ Seen(u, kind) /\ kind \in Kind
    BY <1>4, <1>7 DEF ToolWrite, Written
  <2>2. /\ \A v \in Uri : v # u => watch'[v] = watch[v]
        /\ watch'[u] = Coalesce(watch[u], kind)
    BY <2>1, SeenFacts
  <2>3. disk'[u] = t /\ t # None /\ \A v \in Uri : v # u => disk'[v] = disk[v]
    BY <1>4, <2>1
  <2>4. watch'[u] \in {"Created", "Changed"}
    BY <1>4, <2>2, CoalesceFacts
  <2>5. watch'[u] = "Created" => u \in missed \/ Recorded(u) = NoEntries
    <3>1. CASE disk[u] = None
      <4>1. watch'[u] = "Created" => watch[u] \notin {"Changed", "Deleted"}
        BY <1>3, <1>4, <2>2, <3>1, CoalesceFacts DEF ToolFile
      <4>2. watch'[u] = "Created" => watch[u] = None \/ watch[u] = "Created"
        BY <1>4, <4>1 DEF Kind
      <4> QED BY <1>3, <3>1, <4>2 DEF ToolFile, Current
    <3>2. CASE disk[u] # None
      <4>1. watch'[u] = "Created" => watch[u] = "Created"
        BY <1>4, <2>2, <3>2, CoalesceFacts
      <4> QED BY <1>3, <4>1 DEF ToolFile
    <3> QED BY <3>1, <3>2
  <2>6. ToolFile(u)'
    BY <1>4, <1>6, <2>3, <2>4, <2>5 DEF ToolFile
  <2> QED BY <1>5, <2>2, <2>3, <2>6
<1>8. ASSUME ToolDelete(u) PROVE CurrentInv'
  <2>1. disk' = [disk EXCEPT ![u] = None] /\ Seen(u, "Deleted") /\ disk[u] # None
    BY <1>8 DEF ToolDelete
  <2>2. /\ \A v \in Uri : v # u => watch'[v] = watch[v]
        /\ watch'[u] = Coalesce(watch[u], "Deleted")
    BY <1>4, <2>1, SeenFacts
  <2>3. watch'[u] = IF watch[u] = "Created" THEN None ELSE "Deleted"
    BY <1>4, <2>2, CoalesceFacts
  <2>4. disk'[u] = None /\ \A v \in Uri : v # u => disk'[v] = disk[v]
    BY <1>4, <2>1
  <2>5. watch'[u] = None => u \in missed \/ Current(u)'
    BY <1>3, <1>4, <1>6, <2>3, <2>4 DEF ToolFile, Current
  <2>6. ToolFile(u)'
    BY <1>4, <1>6, <2>3, <2>4, <2>5 DEF ToolFile
  <2> QED BY <1>5, <2>2, <2>4, <2>6
<1> QED BY <1>7, <1>8

\* What a replacement does to a file's record.
LEMMA ReplaceRecord ==
  ASSUME NEW removed, NEW times \in [Uri -> Nat], NEW entry,
         Replace(removed, times, entry), NEW u \in Uri
  PROVE  /\ times[u] > 0 => indexedFiles'[u] = entry[u]
         /\ times[u] = 0 /\ u \in removed => indexedFiles'[u] = None
         /\ times[u] = 0 /\ u \notin removed => indexedFiles'[u] = indexedFiles[u]
BY DEF Replace

\* A handled save shifts the saves in flight by one.
LEMMA SaveHandled ==
  ASSUME TypeOK, inbox # <<>>, inbox' = Tail(inbox), disk' = disk, NEW u \in Uri
  PROVE  /\ Unsaved(u) => Unsaved(u)' /\ Head(inbox).uri # u
         /\ \A i \in 1..Len(inbox) : LastSave(u, i) /\ i # 1 =>
              i - 1 \in 1..Len(inbox') /\ LastSave(u, i - 1)'
         /\ LastSave(u, 1) => Unsaved(u)' /\ Head(inbox) = inbox[1]
<1>1. inbox \in Seq([uri : Uri, text : Text])
  BY DEF TypeOK
<1>2. /\ Len(inbox) \in Nat /\ Len(inbox) >= 1 /\ Len(inbox') = Len(inbox) - 1
      /\ Head(inbox) = inbox[1] /\ \A i \in 1..Len(inbox') : inbox'[i] = inbox[i + 1]
  BY <1>1, HeadTailProperties, EmptySeq, LenProperties
<1>3. Unsaved(u) => Unsaved(u)' /\ Head(inbox).uri # u
  BY <1>2 DEF Unsaved
<1>4. ASSUME NEW i \in 1..Len(inbox), LastSave(u, i), i # 1
      PROVE  i - 1 \in 1..Len(inbox') /\ LastSave(u, i - 1)'
  <2>1. i - 1 \in 1..Len(inbox') /\ inbox'[i - 1] = inbox[i]
    BY <1>2, <1>4
  <2>2. ASSUME NEW j \in ((i - 1) + 1)..Len(inbox') PROVE inbox'[j].uri # u
    <3>1. inbox'[j] = inbox[j + 1] /\ j + 1 \in (i + 1)..Len(inbox)
      BY <1>2, <1>4
    <3> QED BY <1>4, <3>1 DEF LastSave
  <2> QED BY <1>4, <2>1, <2>2 DEF LastSave
<1>5. ASSUME LastSave(u, 1) PROVE Unsaved(u)'
  <2> SUFFICES ASSUME NEW j \in 1..Len(inbox') PROVE inbox'[j].uri # u
    BY DEF Unsaved
  <2>1. inbox'[j] = inbox[j + 1] /\ j + 1 \in (1 + 1)..Len(inbox)
    BY <1>2
  <2> QED BY <1>5, <2>1 DEF LastSave
<1> QED BY <1>2, <1>3, <1>4, <1>5

\* Handling a save leaves the other files alone, and brings the saved one up to
\* date unless a later save of it is in flight.
LEMMA UpdateCurrent ==
  ASSUME TypeOK, CurrentInv, updateDocument
  PROVE  CurrentInv'
<1> DEFINE times == [v \in Uri |-> Count(v = Head(inbox).uri)]
           entry == [v \in Uri |-> extractFromTree(Head(inbox).text)]
<1>1. /\ inbox # <<>> /\ inbox' = Tail(inbox) /\ UNCHANGED <<disk, watch, reindexes>>
      /\ missed' = missed \ {Head(inbox).uri}
      /\ Replace({Head(inbox).uri}, times, entry)
  BY DEF updateDocument
<1>2. /\ times \in [Uri -> Nat]
      /\ \A v \in Uri : times[v] = (IF v = Head(inbox).uri THEN 1 ELSE 0)
                        /\ entry[v] = extractFromTree(Head(inbox).text)
  BY DEF Count
<1> HIDE DEF times, entry
<1>3. ASSUME NEW v \in Uri
      PROVE  /\ v = Head(inbox).uri => indexedFiles'[v] = extractFromTree(Head(inbox).text)
             /\ v # Head(inbox).uri => indexedFiles'[v] = indexedFiles[v]
  BY <1>1, <1>2, ReplaceRecord
<1>4. ASSUME NEW u \in Uri
      PROVE  (IF "editor" \in Writer[u] THEN EditorFile(u) ELSE ToolFile(u))'
  <2>1. /\ Unsaved(u) => Unsaved(u)' /\ Head(inbox).uri # u
        /\ \A i \in 1..Len(inbox) : LastSave(u, i) /\ i # 1 =>
             i - 1 \in 1..Len(inbox') /\ LastSave(u, i - 1)'
        /\ LastSave(u, 1) => Unsaved(u)' /\ Head(inbox) = inbox[1]
    BY <1>1, SaveHandled
  <2>2. Head(inbox).uri # u => (Current(u) => Current(u)') /\ Recorded(u)' = Recorded(u)
    BY <1>1, <1>3 DEF Current, Recorded
  <2>3. CASE "editor" \in Writer[u]
    <3>1. EditorFile(u)
      BY <2>3 DEF CurrentInv
    <3>2. watch'[u] # "Deleted" /\ (watch'[u] # None => disk'[u] # None)
      BY <1>1, <3>1 DEF EditorFile
    <3>3. CASE Unsaved(u) /\ Current(u)
      BY <2>1, <2>2, <2>3, <3>2, <3>3 DEF EditorFile
    <3>4. ASSUME NEW i \in 1..Len(inbox), LastSave(u, i) PROVE EditorFile(u)'
      <4>1. CASE i = 1
        <5>1. Head(inbox).uri = u /\ Head(inbox).text = disk[u] /\ Unsaved(u)'
          BY <2>1, <3>4, <4>1 DEF LastSave
        <5>2. Head(inbox).text \in Text
          <6>1. inbox \in Seq([uri : Uri, text : Text])
            BY DEF TypeOK
          <6>2. Head(inbox) \in [uri : Uri, text : Text]
            BY <1>1, <6>1, HeadTailProperties
          <6> QED BY <6>2
        <5>3. disk'[u] # None /\ indexedFiles'[u] = extractFromTree(disk'[u])
          BY <1>1, <1>3, <5>1, <5>2, IndexAssumption
        <5> QED BY <3>2, <5>1, <5>3 DEF EditorFile, Current
      <4>2. CASE i # 1
        <5>1. \E k \in 1..Len(inbox') : LastSave(u, k)'
          BY <2>1, <3>4, <4>2
        <5> QED BY <3>2, <5>1 DEF EditorFile
      <4> QED BY <4>1, <4>2
    <3> QED BY <2>3, <3>1, <3>3, <3>4 DEF EditorFile
  <2>4. CASE "editor" \notin Writer[u]
    <3>1. ToolFile(u)
      BY <2>4 DEF CurrentInv
    <3> QED BY <1>1, <2>1, <2>2, <2>4, <3>1 DEF ToolFile
  <2> QED BY <2>3, <2>4
<1> QED BY <1>1, <1>4 DEF CurrentInv

\* Delivered events bring the files they are about up to date.
LEMMA WatchedCurrent ==
  ASSUME TypeOK, CurrentInv, NEW S \in SUBSET Uri, onWorkspaceDidChangeWatchedFiles(S)
  PROVE  CurrentInv'
<1> DEFINE Is(u, kinds) == u \in S /\ watch[u] \in kinds
           removed == {u \in S : Is(u, {"Changed", "Deleted"})}
           times == [u \in Uri |->
                       Count(Is(u, {"Created"}) \/ (Is(u, {"Changed"}) /\ disk[u] # None))]
<1>1. /\ UNCHANGED <<disk, inbox, reindexes>> /\ Replace(removed, times, OnDisk)
      /\ \A u \in S : watch[u] \in WatchKind
      /\ \A u \in Uri : watch'[u] = IF u \in S THEN None ELSE watch[u]
      /\ missed' = missed \ S
  BY DEF onWorkspaceDidChangeWatchedFiles
<1>2. times \in [Uri -> Nat]
  BY DEF Count
<1>3. ASSUME NEW u \in Uri
      PROVE  /\ u \notin S => times[u] = 0 /\ u \notin removed
             /\ u \in S /\ watch[u] = "Deleted" => times[u] = 0 /\ u \in removed
             /\ u \in S /\ watch[u] \in {"Created", "Changed"} /\ disk[u] # None => times[u] = 1
  BY DEF Count
<1>4. \A u \in Uri : OnDisk[u] = indexPaths(disk[u])
  BY DEF OnDisk
<1> HIDE DEF removed, times
<1>5. ASSUME NEW u \in Uri
      PROVE  /\ u \notin S => indexedFiles'[u] = indexedFiles[u]
             /\ u \in S /\ watch[u] = "Deleted" => indexedFiles'[u] = None
             /\ u \in S /\ watch[u] \in {"Created", "Changed"} /\ disk[u] # None
                  => indexedFiles'[u] = indexPaths(disk[u])
  BY <1>1, <1>2, <1>3, <1>4, ReplaceRecord
<1>6. ASSUME NEW u \in Uri
      PROVE  (IF "editor" \in Writer[u] THEN EditorFile(u) ELSE ToolFile(u))'
  <2>1. IF "editor" \in Writer[u] THEN EditorFile(u) ELSE ToolFile(u)
    BY DEF CurrentInv
  <2>2. CASE u \notin S
    BY <1>1, <1>5, <2>1, <2>2, FileKept
  <2>3. CASE u \in S
    <3>1. watch[u] \in Kind /\ watch'[u] = None /\ None \notin Kind /\ u \notin missed'
      BY <1>1, <2>3, IndexAssumption DEF TypeOK
    <3>2. Current(u)'
      <4>1. CASE watch[u] = "Deleted"
        <5>1. disk'[u] = None /\ indexedFiles'[u] = None
          BY <1>1, <1>5, <2>1, <2>3, <4>1 DEF EditorFile, ToolFile
        <5> QED BY <5>1 DEF Current, Recorded
      <4>2. CASE watch[u] \in {"Created", "Changed"}
        <5>1. disk[u] # None
          BY <2>1, <3>1, <4>2 DEF EditorFile, ToolFile
        <5>2. disk'[u] # None /\ indexedFiles'[u] = indexPaths(disk'[u])
          BY <1>1, <1>5, <2>3, <4>2, <5>1
        <5> QED BY <5>2 DEF Current
      <4> QED BY <3>1, <4>1, <4>2 DEF Kind
    <3>3. /\ Unsaved(u)' = Unsaved(u) /\ Len(inbox') = Len(inbox)
          /\ \A i \in 1..Len(inbox) : LastSave(u, i) => LastSave(u, i)'
      BY <1>1 DEF Unsaved, LastSave
    <3>4. /\ watch'[u] # "Deleted" /\ watch'[u] # "Created" /\ watch'[u] # "Changed"
      BY <3>1 DEF Kind
    <3>5. CASE "editor" \in Writer[u]
      BY <2>1, <3>1, <3>2, <3>3, <3>4, <3>5 DEF EditorFile
    <3>6. CASE "editor" \notin Writer[u]
      BY <2>1, <3>1, <3>2, <3>3, <3>4, <3>6 DEF ToolFile
    <3> QED BY <3>5, <3>6
  <2> QED BY <2>2, <2>3
<1> QED BY <1>1, <1>6 DEF CurrentInv

\* An event that is not sent leaves the index as it is: the file is missed then,
\* unless the index describes it anyway.
LEMMA IgnoredCurrent ==
  ASSUME TypeOK, CurrentInv, NEW u \in Uri, WatcherIgnores(u)
  PROVE  CurrentInv'
<1>1. /\ UNCHANGED <<disk, inbox, reindexes>> /\ UNCHANGED index
      /\ watch' = [watch EXCEPT ![u] = None]
      /\ missed' = IF Current(u) THEN missed ELSE missed \cup {u}
  BY DEF WatcherIgnores
<1>2. watch \in [Uri -> Kind \cup {None}] /\ None \notin Kind
  BY IndexAssumption DEF TypeOK
<1>3. ASSUME NEW v \in Uri
      PROVE  (IF "editor" \in Writer[v] THEN EditorFile(v) ELSE ToolFile(v))'
  <2>1. IF "editor" \in Writer[v] THEN EditorFile(v) ELSE ToolFile(v)
    BY DEF CurrentInv
  <2>2. CASE v # u
    BY <1>1, <1>2, <2>1, <2>2, FileKept DEF index
  <2>3. CASE v = u
    <3>1. watch'[v] = None /\ watch'[v] \notin {"Created", "Changed", "Deleted"}
      BY <1>1, <1>2, <2>3 DEF Kind
    <3>2. Current(v)' <=> Current(v)
      BY <1>1 DEF Current, Recorded, index
    <3>3. v \in missed' \/ Current(v)
      BY <1>1, <2>3
    <3>4. /\ Unsaved(v)' <=> Unsaved(v)
          /\ Len(inbox') = Len(inbox) /\ \A i \in 1..Len(inbox) : LastSave(v, i) => LastSave(v, i)'
      BY <1>1 DEF Unsaved, LastSave
    <3> QED BY <2>1, <3>1, <3>2, <3>3, <3>4 DEF EditorFile, ToolFile
  <2> QED BY <2>2, <2>3
<1> QED BY <1>1, <1>3 DEF CurrentInv

\* Once saves and events are handled the index describes the files as they are,
\* whatever was saved, written, created or deleted, whichever notification of one
\* save came last and whichever kinds of events the client reports, except for the
\* files whose last event was of a kind it does not report.  Each file has one
\* writer and the crawl lists every file; without reloads, since one that reads a
\* file whose creation is still held by the watcher leaves its entries behind when
\* the file is deleted before the report.
THEOREM IndexIsCurrent ==
  ASSUME OneWriter, MaxReindex = 0, \A u \in Uri : Collected[u] > 0
  PROVE  Spec => []IndexCurrent
<1>1. Init => CurrentInv
  <2> SUFFICES ASSUME Init, NEW u \in Uri PROVE EditorFile(u) /\ ToolFile(u) /\ reindexes = 0
    BY DEF CurrentInv, Init
  <2>1. /\ inbox = <<>> /\ watch[u] = None /\ reindexes = 0 /\ Len(inbox) = 0
    BY EmptySeq DEF Init
  <2>2. Unsaved(u)
    BY <2>1 DEF Unsaved
  <2>3. None \notin Kind /\ Collected[u] > 0 /\ Collected[u] \in Nat
    BY IndexAssumption
  <2>4. indexedFiles[u] = IF disk[u] = None THEN None ELSE indexPaths(disk[u])
    BY <2>3 DEF Init
  <2>5. Current(u)
    BY <2>4 DEF Current, Recorded
  <2> QED BY <2>1, <2>2, <2>3, <2>5 DEF EditorFile, ToolFile, Kind
<1>2. TypeOK /\ CurrentInv /\ [Next]_vars => CurrentInv'
  <2> SUFFICES ASSUME TypeOK, CurrentInv, [Next]_vars PROVE CurrentInv'
    OBVIOUS
  <2>1. ASSUME NEW u \in Uri, NEW t \in Text, EditorSave(u, t) PROVE CurrentInv'
    BY <2>1, EditorSaveCurrent
  <2>2. ASSUME NEW u \in Uri, (\E t \in Text : ToolWrite(u, t)) \/ ToolDelete(u) PROVE CurrentInv'
    BY <2>2, ToolCurrent
  <2>3. CASE updateDocument
    BY <2>3, UpdateCurrent
  <2>4. ASSUME NEW S \in SUBSET Uri, onWorkspaceDidChangeWatchedFiles(S) PROVE CurrentInv'
    BY <2>4, WatchedCurrent
  <2>7. ASSUME NEW u \in Uri, WatcherIgnores(u) PROVE CurrentInv'
    BY <2>7, IgnoredCurrent
  <2>5. CASE startIndexing
    BY <2>5 DEF startIndexing, CurrentInv
  <2>6. CASE UNCHANGED vars
    <3>1. ASSUME NEW u \in Uri
          PROVE  (IF "editor" \in Writer[u] THEN EditorFile(u) ELSE ToolFile(u))'
      <4>1. IF "editor" \in Writer[u] THEN EditorFile(u) ELSE ToolFile(u)
        BY DEF CurrentInv
      <4> QED BY <2>6, <4>1, FileKept DEF vars
    <3> QED BY <2>6, <3>1 DEF CurrentInv, vars
  <2> QED BY <2>1, <2>2, <2>3, <2>4, <2>5, <2>6, <2>7 DEF Next
<1>3. TypeOK /\ CurrentInv => IndexCurrent
  <2> SUFFICES ASSUME TypeOK, CurrentInv, inbox = <<>>, \A v \in Uri : watch[v] = None,
                      NEW u \in Uri \ missed
               PROVE  Current(u)
    BY DEF IndexCurrent
  <2>1. 1..Len(inbox) = {}
    BY EmptySeq
  <2> QED BY <2>1 DEF CurrentInv, EditorFile, ToolFile
<1> QED BY <1>1, <1>2, <1>3, IndexIsComplete, PTL DEF Spec
=============================================================================
