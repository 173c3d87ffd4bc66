------------------------------ MODULE Indexer ------------------------------
(***************************************************************************)
(* The workspace index: which file declares a module, package or           *)
(* interface, which header defines a macro, which file references a name,  *)
(* and, per file, the record of what was entered for it (indexedFiles),    *)
(* which is what a removal goes by.                                        *)
(*                                                                         *)
(* The index is filled by startIndexing (at start and at each config       *)
(* reload), by didSave, from the saved document's syntax tree, and by      *)
(* watcher events, from the file on disk.  A vector of the code is the     *)
(* number of times a file occurs in it; the order is left out.  A symbol   *)
(* is a name with its kind, the pair removal compares.                     *)
(***************************************************************************)
EXTENDS Naturals, Sequences

CONSTANTS
  Uri, Text, None,
  Symbol,       \* names of design elements, each with its kind
  Macro,        \* macro names
  Name,         \* names a file may reference
  Members,      \* [Text -> [Symbol -> Nat]]: top-level declarations
  Referenced,   \* [Text -> SUBSET Name]: names referenced
  Defines,      \* [Text -> SUBSET Macro]: macros the text itself defines
  Includes,     \* [Text -> SUBSET Macro]: macros of the files it includes
  HasClass,     \* texts that declare a class
  Collected,    \* [Uri -> Nat]: how often the crawl of the index dirs lists
                \* the file: twice if two dirs overlap, never if excluded
  WatchKind,    \* the kinds of events the client was asked to report
  Writer,       \* [Uri -> SUBSET {"editor", "tool"}]: who writes the file
  Absent,       \* files that may not exist at start
  MaxReindex,   \* bound: config reloads
  MaxOps,       \* bound: writes and deletions
  MaxInbox      \* bound: saves the server has not handled

Kind == {"Created", "Changed", "Deleted"}

\* The record of what was entered for a file.
IndexedPath ==
  [symbols : [Symbol -> Nat], macros : SUBSET Macro, referencedSymbols : SUBSET Name]

ASSUME IndexAssumption ==
  /\ None \notin Text \cup Kind /\ None \notin IndexedPath
  /\ Members \in [Text -> [Symbol -> Nat]]
  /\ Referenced \in [Text -> SUBSET Name]
  /\ Defines \in [Text -> SUBSET Macro]
  /\ Includes \in [Text -> SUBSET Macro]
  /\ Collected \in [Uri -> Nat]
  /\ WatchKind \subseteq Kind
  /\ MaxReindex \in Nat /\ MaxOps \in Nat /\ MaxInbox \in Nat

VARIABLES
  disk,         \* [Uri -> Text or None]
  inbox,        \* saves to handle: Seq([uri : Uri, text : Text])
  watch,        \* [Uri -> Kind or None]: the event the client's watcher holds per file
  missed,       \* a history of the model: the files whose last event was of a kind
                \* nobody asked for, while the index did not describe them
  symbolToFiles,     \* [Symbol -> [Uri -> Nat]]
  macroToFiles,      \* [Macro -> [Uri -> Nat]]
  symbolReferences,  \* [Name -> [Uri -> Nat]]
  indexedFiles,      \* [Uri -> IndexedPath or None]
  reindexes,
  ops

index == <<symbolToFiles, macroToFiles, symbolReferences, indexedFiles>>
files == <<disk, inbox, watch, missed, reindexes, ops>>
vars == <<disk, inbox, watch, missed, symbolToFiles, macroToFiles, symbolReferences,
          indexedFiles, reindexes, ops>>

-----------------------------------------------------------------------------
(* What is extracted from a text.                                           *)

NoEntries ==
  [symbols |-> [s \in Symbol |-> 0], macros |-> {}, referencedSymbols |-> {}]

Declares(t) == \E s \in Symbol : Members[t][s] > 0

\* indexPaths: the file is parsed by itself.  Macros are taken only from a file
\* that declares nothing, and no class; an unreadable file yields nothing.
indexPaths(t) ==
  IF t = None THEN NoEntries
  ELSE IF Declares(t)
    THEN [symbols |-> Members[t], macros |-> {}, referencedSymbols |-> Referenced[t]]
  ELSE [NoEntries EXCEPT !.macros = IF t \in HasClass THEN {} ELSE Defines[t]]

\* updateDocument extracts from the document's tree, whose preprocessor followed
\* the includes; a class makes no difference there.
extractFromTree(t) ==
  [symbols |-> Members[t],
   macros |-> IF Declares(t) THEN {} ELSE Defines[t] \cup Includes[t],
   referencedSymbols |-> Referenced[t]]

-----------------------------------------------------------------------------
(* Entering and removing files.                                             *)

Count(yes) == IF yes THEN 1 ELSE 0

\* Mutant: the removal forgets the references.
ReplaceKeepsRefs(removed, times, entry) ==
  LET Listed(u) == u \in removed /\ indexedFiles[u] # None
  IN
  /\ symbolToFiles' = [s \in Symbol |-> [u \in Uri |->
       (IF Listed(u) /\ indexedFiles[u].symbols[s] > 0 THEN 0 ELSE symbolToFiles[s][u])
       + times[u] * entry[u].symbols[s]]]
  /\ macroToFiles' = [m \in Macro |-> [u \in Uri |->
       (IF Listed(u) /\ m \in indexedFiles[u].macros THEN 0 ELSE macroToFiles[m][u])
       + times[u] * Count(m \in entry[u].macros)]]
  /\ symbolReferences' = [n \in Name |-> [u \in Uri |->
       symbolReferences[n][u] + times[u] * Count(n \in entry[u].referencedSymbols)]]
  /\ indexedFiles' = [u \in Uri |->
       IF times[u] > 0 THEN entry[u]
       ELSE IF u \in removed THEN None ELSE indexedFiles[u]]

\* Mutant: a removed symbol is removed for every file.
ReplaceClearsName(removed, times, entry) ==
  LET Listed(u) == u \in removed /\ indexedFiles[u] # None
  IN
  /\ symbolToFiles' = [s \in Symbol |-> [u \in Uri |->
       (IF \E v \in Uri : Listed(v) /\ indexedFiles[v].symbols[s] > 0
          THEN 0 ELSE symbolToFiles[s][u])
       + times[u] * entry[u].symbols[s]]]
  /\ macroToFiles' = [m \in Macro |-> [u \in Uri |->
       (IF Listed(u) /\ m \in indexedFiles[u].macros THEN 0 ELSE macroToFiles[m][u])
       + times[u] * Count(m \in entry[u].macros)]]
  /\ symbolReferences' = [n \in Name |-> [u \in Uri |->
       (IF Listed(u) /\ n \in indexedFiles[u].referencedSymbols
          THEN 0 ELSE symbolReferences[n][u])
       + times[u] * Count(n \in entry[u].referencedSymbols)]]
  /\ indexedFiles' = [u \in Uri |->
       IF times[u] > 0 THEN entry[u]
       ELSE IF u \in removed THEN None ELSE indexedFiles[u]]

\* removePathFromIndex of each file of `removed', then indexPath of each file u,
\* times[u] times, with entry[u].  Removal erases the file from the lists of the
\* symbols, macros and names recorded for it, and from no other.
Replace(removed, times, entry) ==
  LET Listed(u) == u \in removed /\ indexedFiles[u] # None
  IN
  /\ symbolToFiles' = [s \in Symbol |-> [u \in Uri |->
       (IF Listed(u) /\ indexedFiles[u].symbols[s] > 0 THEN 0 ELSE symbolToFiles[s][u])
       + times[u] * entry[u].symbols[s]]]
  /\ macroToFiles' = [m \in Macro |-> [u \in Uri |->
       (IF Listed(u) /\ m \in indexedFiles[u].macros THEN 0 ELSE macroToFiles[m][u])
       + times[u] * Count(m \in entry[u].macros)]]
  /\ symbolReferences' = [n \in Name |-> [u \in Uri |->
       (IF Listed(u) /\ n \in indexedFiles[u].referencedSymbols
          THEN 0 ELSE symbolReferences[n][u])
       + times[u] * Count(n \in entry[u].referencedSymbols)]]
  /\ indexedFiles' = [u \in Uri |->
       IF times[u] > 0 THEN entry[u]
       ELSE IF u \in removed THEN None ELSE indexedFiles[u]]

\* What parsing each file on disk yields.
OnDisk == [u \in Uri |-> indexPaths(disk[u])]

-----------------------------------------------------------------------------
(* Writers and the client's watcher.                                        *)

Recorded(u) == IF indexedFiles[u] = None THEN NoEntries ELSE indexedFiles[u]

\* The index describes the file as it is on disk: what it holds was extracted from
\* that content, and nothing is recorded for a file that is gone.
Current(u) ==
  IF disk[u] = None THEN Recorded(u) = NoEntries
  ELSE indexedFiles[u] \in {indexPaths(disk[u]), extractFromTree(disk[u])}

Spend == ops < MaxOps /\ ops' = ops + 1

\* The watcher holds one event per file: what happened since the last delivery.
Coalesce(old, kind) ==
  CASE old = "Created" /\ kind = "Deleted" -> None
    [] old = "Created" /\ kind # "Deleted" -> "Created"
    [] old = "Deleted" /\ kind = "Created" -> "Changed"
    [] OTHER -> kind

Seen(u, kind) == watch' = [watch EXCEPT ![u] = Coalesce(@, kind)]

Written(u, t) ==
  /\ disk' = [disk EXCEPT ![u] = t]
  /\ Seen(u, IF disk[u] = None THEN "Created" ELSE "Changed")

EditorSave(u, t) ==
  /\ Spend /\ "editor" \in Writer[u] /\ Len(inbox) < MaxInbox
  /\ Written(u, t)
  /\ inbox' = Append(inbox, [uri |-> u, text |-> t])
  /\ UNCHANGED index /\ UNCHANGED <<missed, reindexes>>

ToolWrite(u, t) ==
  /\ Spend /\ "tool" \in Writer[u] /\ disk[u] # t
  /\ Written(u, t)
  /\ UNCHANGED index /\ UNCHANGED <<inbox, missed, reindexes>>

ToolDelete(u) ==
  /\ Spend /\ "tool" \in Writer[u] /\ disk[u] # None
  /\ disk' = [disk EXCEPT ![u] = None]
  /\ Seen(u, "Deleted")
  /\ UNCHANGED index /\ UNCHANGED <<inbox, missed, reindexes>>

\* Events of a kind the server did not register for are not sent to it.
WatcherIgnores(u) ==
  /\ watch[u] \in Kind \ WatchKind
  /\ watch' = [watch EXCEPT ![u] = None]
  /\ missed' = IF Current(u) THEN missed ELSE missed \cup {u}
  /\ UNCHANGED index /\ UNCHANGED <<disk, inbox, reindexes, ops>>

-----------------------------------------------------------------------------
(* The operations of the Indexer.                                           *)

\* updateDocument(path, tree), as onDocDidSave calls it.
updateDocument ==
  /\ inbox # <<>>
  /\ LET u == Head(inbox).uri
     IN  Replace({u}, [v \in Uri |-> Count(v = u)],
                 [v \in Uri |-> extractFromTree(Head(inbox).text)])
  /\ inbox' = Tail(inbox) /\ missed' = missed \ {Head(inbox).uri}
  /\ UNCHANGED <<disk, watch, reindexes, ops>>

\* Mutant: files changed on disk are only removed.
WatchedFilesNoAdd(S) ==
  LET Is(u, kinds) == u \in S /\ watch[u] \in kinds
  IN
  /\ S # {} /\ \A u \in S : watch[u] \in WatchKind
  /\ Replace({u \in S : Is(u, {"Changed", "Deleted"})},
             [u \in Uri |-> Count(Is(u, {"Created"}))], OnDisk)
  /\ watch' = [u \in Uri |-> IF u \in S THEN None ELSE watch[u]]
  /\ missed' = missed \ S
  /\ UNCHANGED <<disk, inbox, reindexes, ops>>

\* onWorkspaceDidChangeWatchedFiles: changed and deleted files are removed, then
\* created files, and changed files that exist, are parsed and entered.
onWorkspaceDidChangeWatchedFiles(S) ==
  LET Is(u, kinds) == u \in S /\ watch[u] \in kinds
  IN
  /\ S # {} /\ \A u \in S : watch[u] \in WatchKind
  /\ Replace({u \in S : Is(u, {"Changed", "Deleted"})},
             [u \in Uri |-> Count(Is(u, {"Created"}) \/ (Is(u, {"Changed"}) /\ disk[u] # None))],
             OnDisk)
  /\ watch' = [u \in Uri |-> IF u \in S THEN None ELSE watch[u]]
  /\ missed' = missed \ S
  /\ UNCHANGED <<disk, inbox, reindexes, ops>>

\* startIndexing at a config reload: every file the crawl lists is entered, on
\* top of what the index holds.
startIndexing ==
  /\ reindexes < MaxReindex /\ reindexes' = reindexes + 1
  /\ Replace({}, [u \in Uri |-> IF disk[u] = None THEN 0 ELSE Collected[u]], OnDisk)
  /\ UNCHANGED <<disk, inbox, watch, missed, ops>>

\* startIndexing at start, into the empty index; the watcher is registered after.
Init ==
  /\ disk \in [Uri -> Text \cup {None}]
  /\ \A u \in Uri \ Absent : disk[u] # None
  /\ LET listed(u) == IF disk[u] = None THEN 0 ELSE Collected[u]
         entry(u) == indexPaths(disk[u])
     IN  /\ symbolToFiles = [s \in Symbol |-> [u \in Uri |-> listed(u) * entry(u).symbols[s]]]
         /\ macroToFiles = [m \in Macro |-> [u \in Uri |-> listed(u) * Count(m \in entry(u).macros)]]
         /\ symbolReferences = [n \in Name |-> [u \in Uri |->
                                  listed(u) * Count(n \in entry(u).referencedSymbols)]]
         /\ indexedFiles = [u \in Uri |-> IF listed(u) > 0 THEN entry(u) ELSE None]
  /\ inbox = <<>> /\ watch = [u \in Uri |-> None] /\ missed = {}
  /\ reindexes = 0 /\ ops = 0

Next ==
  \/ \E u \in Uri, t \in Text : EditorSave(u, t) \/ ToolWrite(u, t)
  \/ \E u \in Uri : ToolDelete(u) \/ WatcherIgnores(u)
  \/ updateDocument
  \/ \E S \in SUBSET Uri : onWorkspaceDidChangeWatchedFiles(S)
  \/ startIndexing

Spec == Init /\ [][Next]_vars

-----------------------------------------------------------------------------
(* Properties.                                                              *)

\* Every variable has the type its declaration says.
TypeOK ==
  /\ disk \in [Uri -> Text \cup {None}]
  /\ inbox \in Seq([uri : Uri, text : Text])
  /\ watch \in [Uri -> Kind \cup {None}] /\ missed \subseteq Uri
  /\ symbolToFiles \in [Symbol -> [Uri -> Nat]]
  /\ macroToFiles \in [Macro -> [Uri -> Nat]]
  /\ symbolReferences \in [Name -> [Uri -> Nat]]
  /\ indexedFiles \in [Uri -> IndexedPath \cup {None}]
  /\ reindexes \in Nat /\ ops \in Nat

\* The lists hold a file exactly as often as its record says (a file that declares
\* a name twice is listed twice): a lookup returns no file that no longer declares
\* the name, and a removal by the record removes everything.  (Without config
\* reloads, which enter files without removing them first.)
IndexExact ==
  \A u \in Uri :
    /\ \A s \in Symbol : symbolToFiles[s][u] = Recorded(u).symbols[s]
    /\ \A m \in Macro : macroToFiles[m][u] = Count(m \in Recorded(u).macros)
    /\ \A n \in Name : symbolReferences[n][u] = Count(n \in Recorded(u).referencedSymbols)

\* Whatever the order of saves, events and reloads, nothing recorded for a file is
\* missing from the lists: removing one file's entries never takes another's.
IndexComplete ==
  \A u \in Uri :
    /\ \A s \in Symbol : Recorded(u).symbols[s] > 0 => symbolToFiles[s][u] > 0
    /\ \A m \in Macro : m \in Recorded(u).macros => macroToFiles[m][u] > 0
    /\ \A n \in Name : n \in Recorded(u).referencedSymbols => symbolReferences[n][u] > 0

\* Once saves and events are handled the index describes every file as it is on
\* disk, whichever of the two notifications of one save came last, except the files
\* whose last creation or deletion the client was not asked to report: those that come
\* and go by a git pull, say, which CHANGELOG.md:74 wants followed, and for which
\* Indexer.cpp:381 ("Add new file to index") is there.
IndexCurrent ==
  inbox = <<>> /\ (\A v \in Uri : watch[v] = None) =>
    \A u \in Uri \ missed : Current(u)
=============================================================================
