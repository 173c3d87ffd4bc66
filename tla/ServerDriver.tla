---------------------------- MODULE ServerDriver ----------------------------
(***************************************************************************)
(* The core of slang-server: the editor's documents, the files on disk and *)
(* the ServerDriver that mirrors them.                                     *)
(*                                                                         *)
(* The editor edits its own copy of each open file and sends               *)
(* didOpen/didChange/didSave/didClose; the file watcher reports writes to  *)
(* disk some time after they happened; commands and config changes replace *)
(* the whole driver.  Messages wait in `inbox'; the server handles one at  *)
(* a time, under its mutex.  A handler is one action, except those that    *)
(* loop over several documents: their remaining work is in `plan', which   *)
(* the server finishes before it takes the next message, while the editor  *)
(* and the disk go on.                                                     *)
(*                                                                         *)
(* A text is an opaque value.  What the code computes from it is given by  *)
(* constants: the files whose symbols it references, whether slang reports *)
(* diagnostics for it, whether it has a top module.                        *)
(***************************************************************************)
EXTENDS Naturals, Sequences, FiniteSets, DiagClient

CONSTANTS
  Text,         \* contents an editor or a tool gives a file
  Garbled,      \* a buffer no editor ever showed: an edit misapplied
  None,         \* no text, no file, no build file, no top file
  Refs,         \* [Text -> SUBSET Uri]: files whose symbols the text references
  Broken,       \* texts for which slang reports diagnostics
  NoTop,        \* texts without a top module
  Pkg,          \* files that declare a package or an interface
  BuildFile,    \* the .f build files
  Sources,      \* [BuildFile -> SUBSET Uri]: the sources a build file lists
  Cmd,          \* the commands the editor issues in this instance
  Fault,        \* what tools other than the editor do to files: subset of
                \* {"write", "delete", "config"}
  WatchKind,    \* the kinds of file events the watcher reports: subset of
                \* {"Created", "Changed", "Deleted"}
  MaxOps,       \* bound: what editor and tools do in one behaviour
  MaxInbox,     \* bound: messages in flight to the server
  MaxDiags      \* bound: length of one file's list of diagnostics

ASSUME ConstantsAssumption ==
  /\ Garbled \notin Text
  /\ None \notin Text \cup {Garbled}
  /\ None \notin BuildFile \cup Uri
  /\ Refs \in [Text \cup {Garbled} -> SUBSET Uri]
  /\ Broken \subseteq Text \cup {Garbled}
  /\ Sources \in [BuildFile -> SUBSET Uri]
  /\ MaxOps \in Nat /\ MaxInbox \in Nat /\ MaxDiags \in Nat

Buffer   == Text \cup {Garbled}
MaybeBuf == Buffer \cup {None}
Diag     == [by : {"shallow", "parse", "design"}, of : Buffer]

VARIABLES
  editor,       \* [Uri -> Text or None]: the text in the editor, None if closed
  disk,         \* [Uri -> Text or None]: the file's content, None if missing
  inbox,        \* messages from the editor to the server, oldest first
  watch,        \* file events the watcher has seen and not delivered
  config,       \* the build file named by the config files on disk
  reloadDue,    \* a config file was written and its event not delivered
  indexed,      \* files whose symbols are in the index
  plan,         \* what the running handler has still to do
  drv,          \* m_driver
  new,          \* the driver ServerDriver::create is building
  adopt,        \* open documents create has still to carry over
  published,    \* [Uri -> Seq(Diag)]: what the editor displays per file
  m_buildfile,
  m_topFile,
  ops           \* how many operations of editor and tools there were

outside == <<editor, disk, watch, config, reloadDue, ops>>
vars == <<editor, disk, inbox, watch, config, reloadDue, indexed, plan, drv,
          new, adopt, published, m_buildfile, m_topFile, ops>>

-----------------------------------------------------------------------------
(* A driver: its documents' buffers, m_openDocs, the design (comp, as the   *)
(* buffers it was last elaborated from; all None is no design), diagClient. *)

NoDesign == [u \in Uri |-> None]

EmptyDriver == [docs |-> NoDesign, open |-> {}, comp |-> NoDesign, dc |-> EmptyDiags]

HasDesign(d) == \E u \in Uri : d.comp[u] # None

\* What the parser or elaboration reports, each for the file it is in. A tree also holds
\* the parse diagnostics of the headers it includes; the texts here include none with
\* any, HeaderDiags has those.
Issued(by, buffers) ==
  [u \in Uri |->
     IF buffers[u] \in Broken THEN <<[by |-> by, of |-> buffers[u]]>> ELSE <<>>]

\* The buffer getDocument(u) yields: the loaded one, else the file on disk.
Read(d, u) == IF d.docs[u] # None THEN d.docs[u] ELSE disk[u]

References(b) == IF b = None THEN {} ELSE Refs[b]

\* The files reached from u by looking up referenced names in the index; from a
\* file reached on the way the search goes on only if the file is in `through'.
Reach(d, u, through) ==
  LET Named(v) == (References(Read(d, v)) \cap indexed) \ {u}
      Closed(S) == /\ Named(u) \subseteq S
                   /\ \A v \in S \cap through : Named(v) \subseteq S
  IN  {v \in Uri : \A S \in SUBSET Uri : Closed(S) => v \in S}

\* getDependentDocs: packages and interfaces are searched in turn.
getDependentDocs(d, u) == Reach(d, u, Pkg)

\* SlangDoc::open throws for a file that cannot be read, so one missing
\* dependency makes the whole search throw.
Missing(d, u) == {v \in getDependentDocs(d, u) : Read(d, v) = None}

Throws(d, u) == Missing(d, u) # {}

Load(d, S) ==
  [d EXCEPT !.docs = [u \in Uri |-> IF u \in S THEN Read(d, u) ELSE d.docs[u]]]

\* What a search that throws leaves behind: some of the dependencies loaded.
Interrupted(d, u) ==
  {Load(d, S) : S \in SUBSET (getDependentDocs(d, u) \ Missing(d, u))}

\* comp->refresh(): elaborate again from the documents' current buffers.
refresh(d) ==
  [d EXCEPT !.comp = [u \in Uri |-> IF d.comp[u] = None THEN None ELSE d.docs[u]]]

\* The diagnostics of every document and of the design, from a cleared client.
FullDiagnostics(d) ==
  report(report(clearAll(d.dc), Issued("parse", d.docs)), Issued("design", d.comp))

\* updateDoc when the search does not throw, up to the pushDiags that ends it.
updateDoc(d, u, type) ==
  LET loaded == Load(d, getDependentDocs(d, u))
      cleared == [loaded EXCEPT !.dc = clearUri(@, u)]
  IN  IF HasDesign(d) /\ type = "save"
        THEN LET r == refresh(cleared)
             IN  [r EXCEPT !.dc = FullDiagnostics(r)]
        ELSE [cleared EXCEPT !.dc =
                report(@, Issued("shallow", [NoDesign EXCEPT ![u] = loaded.docs[u]]))]

Pushed(d) == [d EXCEPT !.dc = pushDiags(@)]

-----------------------------------------------------------------------------
(* Messages and the work a handler leaves for later steps.                  *)

Event == [uri : Uri, type : {"Created", "Changed", "Deleted"}]

Message ==
       [m : {"didOpen", "didSave"}, uri : Uri, text : Text]
  \cup [m : {"didChange"}, uri : Uri, from : Text, to : Text]
  \cup [m : {"didClose", "setTopLevel"}, uri : Uri]
  \cup [m : {"setBuildFile"}, build : BuildFile \cup {None}]
  \cup [m : {"watchedFiles"}, changes : SUBSET Event]
  \cup [m : {"reload"}]

Step ==
       [op : {"create", "adopt"}, build : BuildFile \cup {None}]
  \cup [op : {"startIndexing"}]
  \cup [op : {"updateDocs"}, uris : SUBSET Uri]
  \cup [op : {"watchIndex"}, changes : SUBSET Event]

create(b) == [op |-> "create", build |-> b]

Idle == plan = <<>>

Send(msg) == Len(inbox) < MaxInbox /\ inbox' = Append(inbox, msg)

Receive(m) == Idle /\ inbox # <<>> /\ Head(inbox).m = m /\ inbox' = Tail(inbox)

\* The handler's action took effect on the current driver only.
Leaves(d, view) ==
  /\ drv' = d /\ published' = view
  /\ UNCHANGED <<new, adopt, m_buildfile>> /\ UNCHANGED outside

-----------------------------------------------------------------------------
(* The editor, the other tools and the watcher.                             *)

NoServerStep == UNCHANGED <<indexed, plan, drv, new, adopt, published, m_buildfile, m_topFile>>

\* Editor and tools do at most MaxOps things.
Spend == ops < MaxOps /\ ops' = ops + 1

WatchedAs(u, kind) ==
  watch' = IF kind \in WatchKind THEN watch \cup {[uri |-> u, type |-> kind]} ELSE watch

EditorOpen(u) ==
  /\ Spend
  /\ editor[u] = None /\ disk[u] # None
  /\ editor' = [editor EXCEPT ![u] = disk[u]]
  /\ Send([m |-> "didOpen", uri |-> u, text |-> disk[u]])
  /\ UNCHANGED <<disk, watch, config, reloadDue>> /\ NoServerStep

EditorType(u, t) ==
  /\ Spend
  /\ editor[u] \notin {None, t}
  /\ editor' = [editor EXCEPT ![u] = t]
  /\ Send([m |-> "didChange", uri |-> u, from |-> editor[u], to |-> t])
  /\ UNCHANGED <<disk, watch, config, reloadDue>> /\ NoServerStep

EditorSave(u) ==
  /\ Spend
  /\ editor[u] # None
  /\ disk' = [disk EXCEPT ![u] = editor[u]]
  /\ Send([m |-> "didSave", uri |-> u, text |-> editor[u]])
  /\ WatchedAs(u, "Changed")
  /\ UNCHANGED <<editor, config, reloadDue>> /\ NoServerStep

EditorClose(u) ==
  /\ Spend
  /\ editor[u] # None
  /\ editor' = [editor EXCEPT ![u] = None]
  /\ Send([m |-> "didClose", uri |-> u])
  /\ UNCHANGED <<disk, watch, config, reloadDue>> /\ NoServerStep

EditorCommand ==
  /\ Spend
  /\ \/ \E b \in BuildFile \cup {None} :
          /\ "setBuildFile" \in Cmd
          /\ Send([m |-> "setBuildFile", build |-> b])
     \/ \E u \in Uri :
          /\ "setTopLevel" \in Cmd
          /\ Send([m |-> "setTopLevel", uri |-> u])
  /\ UNCHANGED <<editor, disk, watch, config, reloadDue>> /\ NoServerStep

ToolWrite(u, t) ==
  /\ Spend
  /\ "write" \in Fault /\ disk[u] # t
  /\ disk' = [disk EXCEPT ![u] = t]
  /\ WatchedAs(u, IF disk[u] = None THEN "Created" ELSE "Changed")
  /\ UNCHANGED <<editor, config, reloadDue, inbox>> /\ NoServerStep

ToolDelete(u) ==
  /\ Spend
  /\ "delete" \in Fault /\ disk[u] # None
  /\ disk' = [disk EXCEPT ![u] = None]
  /\ WatchedAs(u, "Deleted")
  /\ UNCHANGED <<editor, config, reloadDue, inbox>> /\ NoServerStep

ToolConfig(b) ==
  /\ Spend
  /\ "config" \in Fault
  /\ config' = b /\ reloadDue' = TRUE
  /\ UNCHANGED <<editor, disk, watch, inbox>> /\ NoServerStep

\* The watcher coalesces: a batch holds at most one event per file.
WatcherDeliver(changes) ==
  /\ changes # {} /\ changes \subseteq watch
  /\ \A e1, e2 \in changes : e1.uri = e2.uri => e1 = e2
  /\ watch' = watch \ changes
  /\ Send([m |-> "watchedFiles", changes |-> changes])
  /\ UNCHANGED <<editor, disk, config, reloadDue>> /\ UNCHANGED ops /\ NoServerStep

ConfigDeliver ==
  /\ reloadDue /\ reloadDue' = FALSE
  /\ Send([m |-> "reload"])
  /\ UNCHANGED <<editor, disk, watch, config>> /\ UNCHANGED ops /\ NoServerStep

-----------------------------------------------------------------------------
(* The server's handlers.                                                   *)

\* updateDoc(doc, type) as the last thing a handler does to driver d: either it
\* runs to the push, after which the documents of `opened' count as open, or the
\* search for dependencies throws and the handler ends there.
RunUpdate(d, u, type, opened) ==
  \/ /\ ~Throws(d, u)
     /\ LET r == updateDoc(d, u, type)
        IN  Leaves([Pushed(r) EXCEPT !.open = @ \cup opened],
                   pushPriorityView(r.dc, published, u))
  \/ /\ Throws(d, u)
     /\ \E r \in Interrupted(d, u) : Leaves(r, published)

SetText(d, u, b) == [d EXCEPT !.docs[u] = b]

\* Mutant: a loaded document is reused whatever its text is.
HandleDidOpenReuse ==
  /\ Receive("didOpen")
  /\ LET u == Head(inbox).uri
         d == IF drv.docs[u] = None THEN SetText(drv, u, Head(inbox).text) ELSE drv
     IN  RunUpdate(d, u, "open", {u})
  /\ UNCHANGED <<indexed, plan, m_topFile>>

\* onDocDidOpen -> openDocument.  With a design and an unchanged text the
\* diagnostics already published are kept; the document counts as open only
\* after updateDoc returned.
HandleDidOpen ==
  /\ Receive("didOpen")
  /\ LET u == Head(inbox).uri
         t == Head(inbox).text
     IN  IF HasDesign(drv) /\ drv.docs[u] = t
           THEN Leaves([drv EXCEPT !.open = @ \cup {u}], published)
           ELSE RunUpdate(SetText(drv, u, t), u, "open", {u})
  /\ UNCHANGED <<indexed, plan, m_topFile>>

\* onDocDidChange.  The edit is relative to the text the editor had; applied to
\* another buffer it is out of bounds and throws, or garbles the buffer.
HandleDidChange ==
  /\ Receive("didChange")
  /\ LET u == Head(inbox).uri
         d == Load(drv, {u})
     IN  \/ d.docs[u] = None /\ Leaves(drv, published)
         \/ /\ d.docs[u] = Head(inbox).from
            /\ RunUpdate(SetText(d, u, Head(inbox).to), u, "change", {})
         \/ /\ d.docs[u] \notin {None, Head(inbox).from}
            /\ \/ Leaves(d, published)
               \/ RunUpdate(SetText(d, u, Garbled), u, "change", {})
  /\ UNCHANGED <<indexed, plan, m_topFile>>

\* Mutant: the buffer is replaced after the search for dependencies.
HandleDidSaveLate ==
  /\ Receive("didSave")
  /\ LET u == Head(inbox).uri
         d == SetText(drv, u, Head(inbox).text)
     IN  IF u \notin drv.open \/ Throws(d, u)
           THEN Leaves(drv, published) /\ UNCHANGED indexed
           ELSE RunUpdate(d, u, "save", {}) /\ indexed' = indexed \cup {u}
  /\ UNCHANGED <<plan, m_topFile>>

\* onDocDidSave: ignored unless open; a buffer that differs from the saved text
\* is replaced by it; then updateDoc(SAVE) and Indexer::updateDocument.
HandleDidSave ==
  /\ Receive("didSave")
  /\ LET u == Head(inbox).uri
         d == SetText(drv, u, Head(inbox).text)
     IN  IF u \notin drv.open
           THEN Leaves(drv, published) /\ UNCHANGED indexed
           ELSE /\ RunUpdate(d, u, "save", {})
                /\ indexed' = IF Throws(d, u) THEN indexed ELSE indexed \cup {u}
  /\ UNCHANGED <<plan, m_topFile>>

\* closeDocument of each file of S: without a design its diagnostics are
\* cleared, but not pushed.
closeDocuments(d, S) ==
  [d EXCEPT !.open = @ \ S,
            !.dc = IF HasDesign(d) THEN @
                   ELSE [diags |-> [u \in Uri |-> IF u \in S THEN <<>> ELSE @.diags[u]],
                         dirty |-> @.dirty \cup S]]

HandleDidClose ==
  /\ Receive("didClose")
  /\ Leaves(closeDocuments(drv, {Head(inbox).uri}), published)
  /\ UNCHANGED <<indexed, plan, m_topFile>>

\* Mutant: re-read documents get no updateDoc.
HandleWatchedFilesNoUpdate ==
  /\ Receive("watchedFiles")
  /\ LET changes == Head(inbox).changes
         deleted == {e.uri : e \in {c \in changes : c.type = "Deleted"}}
         reload  == {u \in drv.open : disk[u] # None
                                      /\ [uri |-> u, type |-> "Changed"] \in changes}
         reread  == [drv EXCEPT !.docs =
                       [u \in Uri |-> IF u \in reload THEN disk[u] ELSE drv.docs[u]]]
     IN  /\ Leaves(closeDocuments(reread, deleted), published)
         /\ plan' = <<[op |-> "watchIndex", changes |-> changes]>>
  /\ UNCHANGED <<indexed, m_topFile>>

\* ServerDriver::onWorkspaceDidChangeWatchedFiles, first loop: deleted files are
\* closed, changed files that are open are re-read from disk (a file that cannot
\* be read is skipped).  Left for later: updateDoc of each re-read document,
\* then the indexer's part.
HandleWatchedFiles ==
  /\ Receive("watchedFiles")
  /\ LET changes == Head(inbox).changes
         deleted == {e.uri : e \in {c \in changes : c.type = "Deleted"}}
         reload  == {u \in drv.open : disk[u] # None
                                      /\ [uri |-> u, type |-> "Changed"] \in changes}
         reread  == [drv EXCEPT !.docs =
                       [u \in Uri |-> IF u \in reload THEN disk[u] ELSE drv.docs[u]]]
     IN  /\ Leaves(closeDocuments(reread, deleted), published)
         /\ plan' = <<[op |-> "updateDocs", uris |-> reload],
                      [op |-> "watchIndex", changes |-> changes]>>
  /\ UNCHANGED <<indexed, m_topFile>>

Current(op) == plan # <<>> /\ Head(plan).op = op

\* ... second loop: one updateDoc; if it throws the rest of the handler, the
\* indexer's part included, does not happen.
UpdateReloaded(u) ==
  /\ Current("updateDocs") /\ u \in Head(plan).uris
  /\ RunUpdate(drv, u, "change", {})
  /\ plan' = IF Throws(drv, u)
               THEN <<>>
               ELSE [plan EXCEPT ![1] = [op |-> "updateDocs", uris |-> Head(plan).uris \ {u}]]
  /\ UNCHANGED <<indexed, inbox, m_topFile>>

UpdatesDone ==
  /\ Current("updateDocs") /\ Head(plan).uris = {}
  /\ plan' = Tail(plan)
  /\ UNCHANGED <<inbox, indexed, drv, new, adopt, published, m_buildfile, m_topFile>>
  /\ UNCHANGED outside

\* Indexer::onWorkspaceDidChangeWatchedFiles: changed and deleted files leave
\* the index; created and changed ones that can be read enter it.
WatchIndex ==
  /\ Current("watchIndex")
  /\ LET changes == Head(plan).changes
         Of(kinds) == {e.uri : e \in {c \in changes : c.type \in kinds}}
     IN  indexed' = (indexed \ Of({"Changed", "Deleted"}))
                    \cup {u \in Of({"Created", "Changed"}) : disk[u] # None}
  /\ plan' = Tail(plan)
  /\ UNCHANGED <<inbox, drv, new, adopt, published, m_buildfile, m_topFile>>
  /\ UNCHANGED outside

\* setTopLevel(path): getDocument, then createCompilation(doc, top) with every
\* file reachable through the index.  m_topFile is set before the top module is
\* looked for; diagnostics are issued on top of those already collected.
HandleSetTopLevel ==
  /\ Receive("setTopLevel")
  /\ \A u \in Uri : Len(drv.dc.diags[u]) < MaxDiags
  /\ LET u == Head(inbox).uri
         d == Load(drv, {u})
         design == {u} \cup {v \in Reach(d, u, Uri) : Read(d, v) # None}
         loaded == Load(d, design)
         trees == [v \in Uri |-> IF v \in design THEN loaded.docs[v] ELSE None]
         r == [loaded EXCEPT !.comp = trees,
                             !.dc = report(report(@, Issued("parse", trees)), Issued("design", trees))]
     IN  \/ d.docs[u] = None /\ Leaves(drv, published) /\ UNCHANGED m_topFile
         \/ d.docs[u] \in NoTop /\ Leaves(d, published) /\ m_topFile' = u
         \/ /\ d.docs[u] \notin NoTop \cup {None}
            /\ Leaves(Pushed(r), pushDiagsView(r.dc, published))
            /\ m_topFile' = u
  /\ UNCHANGED <<indexed, plan>>

\* setBuildFile(path) / setExplore(): the driver is replaced.
HandleSetBuildFile ==
  /\ Receive("setBuildFile")
  /\ plan' = <<create(Head(inbox).build)>>
  /\ UNCHANGED <<indexed, drv, new, adopt, published, m_buildfile, m_topFile>>
  /\ UNCHANGED outside

\* A config or build file changed: loadConfig() (its build file or explore mode,
\* then a full re-index), then the build file that was active before.
HandleReload ==
  /\ Receive("reload")
  /\ plan' = IF m_buildfile = None
               THEN <<create(config), [op |-> "startIndexing"]>>
               ELSE <<create(config), [op |-> "startIndexing"], create(m_buildfile)>>
  /\ UNCHANGED <<indexed, drv, new, adopt, published, m_buildfile, m_topFile>>
  /\ UNCHANGED outside

StartIndexing ==
  /\ Current("startIndexing")
  /\ indexed' = indexed \cup {u \in Uri : disk[u] # None}
  /\ plan' = Tail(plan)
  /\ UNCHANGED <<inbox, drv, new, adopt, published, m_buildfile, m_topFile>>
  /\ UNCHANGED outside

\* Mutant: create that leaves the old driver's diagnostics to its destructor.
BeginCreateNoClear ==
  /\ Current("create")
  /\ LET b == Head(plan).build
         sources == IF b = None THEN {} ELSE Sources[b]
     IN  /\ new' = [EmptyDriver EXCEPT !.docs =
                      [u \in Uri |-> IF u \in sources THEN disk[u] ELSE None]]
         /\ plan' = [plan EXCEPT ![1] = [op |-> "adopt", build |-> b]]
         /\ m_buildfile' = b
         /\ m_topFile' = IF b = None THEN None ELSE m_topFile
  /\ adopt' = drv.open
  /\ UNCHANGED <<inbox, indexed, drv, published>> /\ UNCHANGED outside

\* setBuildFile/setExplore up to the loop in ServerDriver::create: the new driver
\* loads the build file's sources from disk, the old one clears what it
\* published.
BeginCreate ==
  /\ Current("create")
  /\ LET b == Head(plan).build
         sources == IF b = None THEN {} ELSE Sources[b]
     IN  /\ new' = [EmptyDriver EXCEPT !.docs =
                      [u \in Uri |-> IF u \in sources THEN disk[u] ELSE None]]
         /\ plan' = [plan EXCEPT ![1] = [op |-> "adopt", build |-> b]]
         /\ m_buildfile' = b
         /\ m_topFile' = IF b = None THEN None ELSE m_topFile
  /\ published' = clearAndPushView(drv.dc, published)
  /\ drv' = [drv EXCEPT !.dc = EmptyDiags]
  /\ adopt' = drv.open
  /\ UNCHANGED <<inbox, indexed>> /\ UNCHANGED outside

\* The driver create has when its loop reaches open document u of the old one: a
\* document it does not have gets the old one's text, one it already has keeps
\* the text it was loaded with.
Carried(u) == IF new.docs[u] = None THEN SetText(new, u, drv.docs[u]) ELSE new

\* Mutant: an adopted document does not count as open in the new driver.
AdoptDocNotOpen(u) ==
  /\ Current("adopt") /\ u \in adopt
  /\ drv.docs[u] # None => ~Throws(Carried(u), u)
  /\ IF drv.docs[u] = None
       THEN UNCHANGED <<new, published>>
       ELSE LET r == updateDoc(Carried(u), u, "open")
            IN  /\ new' = Pushed(r)
                /\ published' = pushPriorityView(r.dc, published, u)
  /\ adopt' = adopt \ {u}
  /\ UNCHANGED <<inbox, indexed, plan, drv, m_buildfile, m_topFile>>
  /\ UNCHANGED outside

\* One iteration of create's loop; a document the old driver does not have is
\* skipped.
AdoptDoc(u) ==
  /\ Current("adopt") /\ u \in adopt
  /\ drv.docs[u] # None => ~Throws(Carried(u), u)
  /\ IF drv.docs[u] = None
       THEN UNCHANGED <<new, published>>
       ELSE LET r == updateDoc(Carried(u), u, "open")
            IN  /\ new' = [Pushed(r) EXCEPT !.open = @ \cup {u}]
                /\ published' = pushPriorityView(r.dc, published, u)
  /\ adopt' = adopt \ {u}
  /\ UNCHANGED <<inbox, indexed, plan, drv, m_buildfile, m_topFile>>
  /\ UNCHANGED outside

\* Mutant: an abandoned driver that takes back nothing.
AbandonCreateSilent(u) ==
  /\ Current("adopt") /\ u \in adopt
  /\ drv.docs[u] # None /\ Throws(Carried(u), u)
  /\ new' = EmptyDriver /\ adopt' = {} /\ plan' = <<>>
  /\ UNCHANGED <<inbox, indexed, published, drv, m_buildfile, m_topFile>>
  /\ UNCHANGED outside

\* The loop throws: the unfinished driver is destroyed, which clears what it had
\* published, and the old driver stays; nothing more of the handler happens.
AbandonCreate(u) ==
  /\ Current("adopt") /\ u \in adopt
  /\ drv.docs[u] # None /\ Throws(Carried(u), u)
  /\ published' = clearAndPushView(new.dc, published)
  /\ new' = EmptyDriver /\ adopt' = {} /\ plan' = <<>>
  /\ UNCHANGED <<inbox, indexed, drv, m_buildfile, m_topFile>>
  /\ UNCHANGED outside

\* createCompilation(): the design is every document of the driver; without a
\* document there is none.
createCompilation(d) ==
  LET r == [d EXCEPT !.comp = d.docs]
  IN  IF HasDesign(r) THEN [r EXCEPT !.dc = FullDiagnostics(r)] ELSE d

\* Mutant: the design is also elaborated in explore mode.
FinishCreateAlways ==
  /\ Current("adopt") /\ adopt = {}
  /\ LET r == createCompilation(new)
     IN  /\ drv' = Pushed(r)
         /\ published' = pushDiagsView(r.dc, clearAndPushView(drv.dc, published))
  /\ new' = EmptyDriver
  /\ plan' = Tail(plan)
  /\ UNCHANGED <<inbox, indexed, adopt, m_buildfile, m_topFile>>
  /\ UNCHANGED outside

\* m_driver is assigned, which destroys the old driver (clearing what it still
\* shows); then createCompilation(), or in explore mode pushDiags().
FinishCreate ==
  /\ Current("adopt") /\ adopt = {}
  /\ LET r == IF Head(plan).build = None THEN new ELSE createCompilation(new)
     IN  /\ drv' = Pushed(r)
         /\ published' = pushDiagsView(r.dc, clearAndPushView(drv.dc, published))
  /\ new' = EmptyDriver
  /\ plan' = Tail(plan)
  /\ UNCHANGED <<inbox, indexed, adopt, m_buildfile, m_topFile>>
  /\ UNCHANGED outside

-----------------------------------------------------------------------------
\* The initialize handler is about to load the config and index the workspace.
Init ==
  /\ editor = [u \in Uri |-> None]
  /\ disk \in [Uri -> Text]
  /\ inbox = <<>> /\ watch = {}
  /\ config \in BuildFile \cup {None} /\ reloadDue = FALSE
  /\ indexed = {}
  /\ plan = <<create(config), [op |-> "startIndexing"]>>
  /\ drv = EmptyDriver /\ new = EmptyDriver /\ adopt = {}
  /\ published = [u \in Uri |-> <<>>]
  /\ m_buildfile = None /\ m_topFile = None
  /\ ops = 0

Input ==
  \/ \E u \in Uri : EditorOpen(u) \/ EditorSave(u) \/ EditorClose(u) \/ ToolDelete(u)
  \/ \E u \in Uri, t \in Text : EditorType(u, t) \/ ToolWrite(u, t)
  \/ \E b \in BuildFile \cup {None} : ToolConfig(b)
  \/ EditorCommand

Deliver ==
  \/ \E changes \in SUBSET watch : WatcherDeliver(changes)
  \/ ConfigDeliver

Handle ==
  \/ HandleDidOpen \/ HandleDidChange \/ HandleDidSave \/ HandleDidClose
  \/ HandleWatchedFiles \/ HandleSetTopLevel \/ HandleSetBuildFile \/ HandleReload

Continue ==
  \/ \E u \in Uri : UpdateReloaded(u) \/ AdoptDoc(u) \/ AbandonCreate(u)
  \/ UpdatesDone \/ WatchIndex \/ StartIndexing \/ BeginCreate \/ FinishCreate

Next == Input \/ Deliver \/ Handle \/ Continue

Spec == Init /\ [][Next]_vars

-----------------------------------------------------------------------------
(* Properties.                                                              *)

DriverType ==
  [docs : [Uri -> MaybeBuf], open : SUBSET Uri, comp : [Uri -> MaybeBuf],
   dc : [diags : [Uri -> Seq(Diag)], dirty : SUBSET Uri]]

\* Every variable has the type its declaration says.
TypeOK ==
  /\ editor \in [Uri -> Text \cup {None}]
  /\ disk \in [Uri -> Text \cup {None}]
  /\ inbox \in Seq(Message)
  /\ watch \subseteq Event
  /\ config \in BuildFile \cup {None} /\ reloadDue \in BOOLEAN
  /\ indexed \subseteq Uri
  /\ plan \in Seq(Step)
  /\ drv \in DriverType /\ new \in DriverType /\ adopt \subseteq Uri
  /\ published \in [Uri -> Seq(Diag)]
  /\ m_buildfile \in BuildFile \cup {None} /\ m_topFile \in Uri \cup {None}
  /\ ops \in 0..MaxOps

Quiet == Idle /\ inbox = <<>>

\* What the editor displays for a file is what the driver in charge collected
\* for it, unless the file is still marked dirty.  It survives driver
\* replacement (clearAndPush in create, ~ServerDriver of the old or of an
\* abandoned new driver) and handlers cut short by an exception.
PublishedFaithful ==
  IF Current("adopt") THEN Shows(new.dc, published) ELSE Shows(drv.dc, published)

\* Every document in m_openDocs has a SlangDoc: the "Open Doc not found in old
\* driver" branch of create, which would drop the document, is never taken.
OpenDocsLoaded ==
  \A u \in Uri : /\ u \in drv.open => drv.docs[u] # None
                 /\ u \in new.open => new.docs[u] # None
                 /\ u \in adopt => drv.docs[u] # None

\* While create runs, the old driver shows nothing any more; otherwise there is no
\* driver under construction.  Only the step being worked on is a running create.
CreateShape ==
  /\ \A i \in 2..Len(plan) : plan[i].op # "adopt"
  /\ IF Current("adopt") THEN drv.dc = EmptyDiags ELSE new = EmptyDriver /\ adopt = {}

\* The inductive invariant: the two properties above, the types, and the state of
\* a driver replacement that has begun.
DriverInv == TypeOK /\ CreateShape /\ PublishedFaithful /\ OpenDocsLoaded

\* Every displayed diagnostic was computed from the buffer the server now has
\* for its file, so its range points into the right text: updateDoc re-issues
\* after each change, driver replacement drops the old driver's.
NoStaleDiagnostics ==
  Idle => \A u \in Uri : \A i \in DOMAIN published[u] :
            published[u][i].of = drv.docs[u]

\* Once the server has caught up, its buffer of an open document is the
\* editor's text.
Mirror ==
  Quiet => \A u \in Uri : editor[u] # None => drv.docs[u] = editor[u]

\* Once the server has caught up, m_openDocs is the set of documents open in the
\* editor.
OpenTracksClient == Quiet => drv.open = {u \in Uri : editor[u] # None}

\* A design exists only while a build file or a top file is selected.
DesignHasOrigin ==
  Idle /\ HasDesign(drv) => m_buildfile # None \/ m_topFile # None

\* After a didSave of an open document its buffer is the saved text, whatever went wrong
\* before: an edit misapplied, lost or overtaken by a file event. If the search for
\* dependencies throws, that is all. Otherwise the file is in the index and nothing
\* displayed for it is of an older text; with a design, that is elaborated from the
\* current buffers, and nothing displayed for any file is older than its buffer.
SaveRepairs ==
  [][\A u \in Uri :
       (/\ Idle /\ inbox # <<>> /\ inbox' = Tail(inbox)
        /\ Head(inbox).m = "didSave" /\ Head(inbox).uri = u /\ u \in drv.open)
       => /\ drv'.docs[u] = Head(inbox).text
          /\ ~Throws(SetText(drv, u, Head(inbox).text), u) =>
               /\ u \in indexed'
               /\ \A i \in DOMAIN published'[u] : published'[u][i].of = drv'.docs[u]
               /\ HasDesign(drv) => \A v \in Uri :
                    /\ drv.comp[v] # None => drv'.comp[v] = drv'.docs[v]
                    /\ \A i \in DOMAIN published'[v] : published'[v][i].of = drv'.docs[v]]_vars
=============================================================================
