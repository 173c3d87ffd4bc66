---------------------------- MODULE HeaderDiags ----------------------------
(* The diagnostics of headers. The syntax tree of a document holds the parse *)
(* diagnostics of the headers it includes next to its own; they are issued   *)
(* with it, for the header's address, while clear(uri) takes back only what  *)
(* is listed for the document. ServerDriver has everything else of updateDoc *)
(* and its callers; here are files of which some include others, and what    *)
(* the parser reports. Elaboration reports in the document itself, or is     *)
(* filtered, and is left out.                                                *)
EXTENDS DiagClient, Naturals, FiniteSets, SequencesExt

CONSTANTS Content,   \* [Uri -> set of [broken, incl, rev]]: texts a file may have
          Builds,    \* the sets of files a build may list
          MaxUpdates \* bound on what the editor does

VARIABLES latest,  \* [Uri -> Content[u]]: what the source manager has
          listed,  \* the files that are documents of the driver
          held,    \* m_openDocs
          built,   \* there is a comp
          client,  \* diagClient
          shown,   \* what the editor displays per file
          updates

headerVars == <<latest, listed, held, built, client, shown, updates>>

\* The parse diagnostics of u's tree, made anew if one of its buffers is not the latest.
ParseDiags(buf, u) ==
  [v \in Uri |-> IF v \in {u} \cup buf[u].incl /\ buf[v].broken
                 THEN <<[tree |-> u, of |-> buf[v]]>> ELSE <<>>]

\* Mutant: issued on top of what the document had.
issueDiagnosticsToAppending(buf, u) == report(client, ParseDiags(buf, u))
\* updateDoc of a document that was opened or changed.
issueDiagnosticsTo(buf, u) == report(clearUri(client, u), ParseDiags(buf, u))

Show(c, u) == client' = pushDiags(c) /\ shown' = pushPriorityView(c, shown, u)

\* updateDoc of a save in a build: everything is cleared, every document reissued.
issueParseDiagnostics(from) ==
  LET trees == SetToSeq(listed)
  IN report(from, [v \in Uri |-> FlattenSeq([i \in DOMAIN trees |-> ParseDiags(latest, trees[i])[v]])])

reissueAll == issueParseDiagnostics(clearAll(client))

HeaderInit ==
  /\ latest \in [Uri -> UNION {Content[u] : u \in Uri}] /\ \A u \in Uri : latest[u] \in Content[u]
  /\ \E b \in Builds :
       /\ listed = b /\ built = (b # {})
       /\ client = pushDiags(issueParseDiagnostics(EmptyDiags)) /\ shown = client.diags
  /\ held = {} /\ updates = 0

\* openDocument with the text the server has: diagnostics of a build are shown already.
openDocument(u) ==
  /\ u \notin held /\ updates < MaxUpdates /\ updates' = updates + 1
  /\ IF built /\ u \in listed THEN UNCHANGED <<client, shown>> ELSE Show(issueDiagnosticsTo(latest, u), u)
  /\ listed' = listed \cup {u} /\ held' = held \cup {u}
  /\ UNCHANGED <<latest, built>>

onDocDidChange(u) ==
  /\ u \in held /\ updates < MaxUpdates /\ updates' = updates + 1
  /\ \E c \in Content[u] \ {latest[u]} :
       /\ latest' = [latest EXCEPT ![u] = c]
       /\ Show(issueDiagnosticsTo(latest', u), u)
  /\ UNCHANGED <<listed, held, built>>

onDocDidSave(u) ==
  /\ u \in held /\ updates < MaxUpdates /\ updates' = updates + 1
  /\ Show(IF built THEN reissueAll ELSE issueDiagnosticsTo(latest, u), u)
  /\ UNCHANGED <<latest, listed, held, built>>

\* closeDocument: the display follows with the next push.
closeDocument(u) ==
  /\ u \in held /\ updates < MaxUpdates /\ updates' = updates + 1
  /\ held' = held \ {u}
  /\ client' = IF built THEN client ELSE clearUri(client, u)
  /\ UNCHANGED <<latest, listed, built, shown>>

HeaderNext == \E u \in Uri : openDocument(u) \/ onDocDidChange(u) \/ onDocDidSave(u) \/ closeDocument(u)
----------------------------------------------------------------------------
\* What is displayed for a file, a header too, is about the text the server has of it,
\* whichever documents it was reported from and in whichever order these and the header
\* were updated; and what a document's own tree reports in it is displayed once. What
\* the trees of other documents report in a header is not: issueDiagnosticsTo repeats it
\* with each update of the document (SlangDoc.cpp:261), and clear(uri) takes it back only
\* with an update of the header or the save of a build.
HeadersCurrent ==
  \A u \in Uri :
    /\ \A i \in DOMAIN shown[u] : shown[u][i].of = latest[u]
    /\ Cardinality({i \in DOMAIN shown[u] : shown[u][i].tree = u}) <= 1
=============================================================================
