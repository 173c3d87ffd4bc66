----------------------------- MODULE DiagClient -----------------------------
(***************************************************************************)
(* The class ServerDiagClient: the diagnostics a driver has collected per  *)
(* file and the files whose collected diagnostics the editor has not been  *)
(* sent yet.  An instance is a record                                      *)
(*                                                                         *)
(*    [diags : [Uri -> Seq(Diag)],   m_diagnostics; <<>> is an absent key  *)
(*     dirty : SUBSET Uri]           m_dirtyUris                           *)
(*                                                                         *)
(* (a key of m_diagnostics never maps to an empty list: report creates the *)
(* list and appends to it at once, and both clears erase the key).  Each   *)
(* method is an operator that returns the instance it leaves behind; the   *)
(* ones that send publishDiagnostics come with an operator that maps what  *)
(* the editor last received per file to what it has received afterwards.   *)
(***************************************************************************)
EXTENDS Sequences

CONSTANT Uri      \* the files of the workspace

\* A freshly constructed client: no diagnostics, nothing to send.
EmptyDiags == [diags |-> [u \in Uri |-> <<>>], dirty |-> {}]

\* report(): the reports of one batch, issued[u] being those located in u that
\* are not filtered out; each one marks its file dirty and is appended to the
\* list.
report(dc, issued) ==
  [diags |-> [u \in Uri |-> dc.diags[u] \o issued[u]],
   dirty |-> dc.dirty \cup {u \in Uri : issued[u] # <<>>}]

\* clear(uri): erase the file's list; the file is dirty even if it had none.
clearUri(dc, uri) ==
  [diags |-> [dc.diags EXCEPT ![uri] = <<>>], dirty |-> dc.dirty \cup {uri}]

\* clear(): every file with diagnostics becomes dirty, all lists are erased.
clearAll(dc) ==
  [diags |-> [u \in Uri |-> <<>>],
   dirty |-> dc.dirty \cup {u \in Uri : dc.diags[u] # <<>>}]

\* pushDiags(): send every dirty file's list (the empty one if it has none).
pushDiags(dc) == [dc EXCEPT !.dirty = {}]

pushDiagsView(dc, view) ==
  [u \in Uri |-> IF u \in dc.dirty THEN dc.diags[u] ELSE view[u]]

\* pushDiags(priorityUri): the priority file is sent first, and is sent even
\* when clean if it has diagnostics; then every other dirty file.
pushPriorityView(dc, view, priorityUri) ==
  [u \in Uri |->
     IF u \in dc.dirty \/ (u = priorityUri /\ dc.diags[u] # <<>>)
       THEN dc.diags[u]
       ELSE view[u]]

\* clearAndPush(): an empty list is sent for every file that has diagnostics or
\* is dirty; the client is then empty.
clearAndPushView(dc, view) ==
  [u \in Uri |->
     IF dc.diags[u] # <<>> \/ u \in dc.dirty THEN <<>> ELSE view[u]]

\* What the client owes the editor: a file that is not dirty is displayed with
\* exactly the diagnostics collected for it.
Shows(dc, view) == \A u \in Uri : u \notin dc.dirty => view[u] = dc.diags[u]
=============================================================================
