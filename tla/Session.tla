------------------------------- MODULE Session -------------------------------
(***************************************************************************)
(* SlangServer as a session: the handshake and the registration of         *)
(* handlers, the configuration files, the replacement of the driver, and   *)
(* what a batch of file events does to the driver and to the index. The    *)
(* documents inside a driver are ServerDriver's subject and left out here; *)
(* what they contribute is that replacing a driver, or reloading documents *)
(* in it, may throw once there are documents.                              *)
(***************************************************************************)
EXTENDS LspMethods, ConfigFiles, FiniteSets

CONSTANTS
  None,
  Src,          \* source files of the workspace
  BuildFile,    \* build files a user may select
  ConfText,     \* what each configuration file may hold
  Folders,      \* whether a workspace folder is given: a set of booleans
  MaxEdits,     \* bound on changes of files
  MaxCommands   \* bound on commands and requests

ConfFile == {"workspace", "user", "local"}
Path == Src \cup ConfFile \cup BuildFile

\* The options and the build file a ServerDriver was created with, and whether it
\* has a design.
FlagSource == [filePath : ConfFile, flags : Seq(Word)]
Driver == [build : BuildFile \cup {None}, flags : Seq(FlagSource),
           resolve : BOOLEAN, comp : BOOLEAN]

\* The text of a configuration file of this workspace: a build it names is one of
\* the build files.
IsConfText(f) ==
  /\ IsText(f)
  /\ f \notin {Absent, Malformed} /\ "build" \in DOMAIN f /\ ~ IsArray(f["build"]) =>
       f["build"].scalar \in BuildFile \cup {Unset}

ASSUME SessionAssumption ==
  /\ Src \cap ConfFile = {} /\ Src \cap BuildFile = {} /\ BuildFile \cap ConfFile = {}
  /\ None \notin Driver /\ "-DM" \in Word
  /\ Folders \subseteq BOOLEAN
  /\ \A n \in ConfFile : \A f \in ConfText[n] : IsConfText(f)

VARIABLES
  phase,         \* where run() is: fresh, running, down, exited
  handlers,      \* [requests, notifications, commands] as registered
  advertised,    \* capabilities of the initialize result, None before it
  reply,         \* how the last request was answered
  client,        \* [resolve: its resolve support, folder: whether it gave one]
  files,         \* the configuration files
  src,           \* the version of each source file on disk
  events,        \* changed files the watcher has not reported
  watching,      \* onInitialized has asked for file events
  srv,           \* m_config, m_buildfile, m_driver, m_indexer, the configuration the
                 \* editor was sent; thrown: the last replacement of the driver ended
                 \* in an exception, cut: the last loadConfig did
  missed,        \* changed files the server was not told of, or dropped
  edits, sent

env  == <<client, files, src, edits>>
vars == <<phase, handlers, advertised, reply, client, files, src, events, watching,
          srv, missed, edits, sent>>
-----------------------------------------------------------------------------
\* Mutant: a handler is added without its register call.
InitializeRegistersButResolve == {
  "textDocument/didOpen", "textDocument/didChange", "textDocument/didSave",
  "textDocument/didClose", "textDocument/definition", "textDocument/hover",
  "textDocument/documentSymbol", "textDocument/documentLink", "textDocument/completion",
  "textDocument/documentHighlight", "textDocument/inlayHint", "textDocument/references",
  "textDocument/rename", "textDocument/codeAction", "textDocument/prepareCallHierarchy",
  "callHierarchy/incomingCalls", "callHierarchy/outgoingCalls", "workspace/executeCommand",
  "workspace/symbol", "workspace/didChangeWatchedFiles", "initialized"}

\* The register calls of getInitialize.
InitializeRegisters == {
  "textDocument/didOpen", "textDocument/didChange", "textDocument/didSave",
  "textDocument/didClose", "textDocument/definition", "textDocument/hover",
  "textDocument/documentSymbol", "textDocument/documentLink", "textDocument/completion",
  "completionItem/resolve", "textDocument/documentHighlight", "textDocument/inlayHint",
  "textDocument/references", "textDocument/rename", "textDocument/codeAction",
  "textDocument/prepareCallHierarchy", "callHierarchy/incomingCalls",
  "callHierarchy/outgoingCalls", "workspace/executeCommand", "workspace/symbol",
  "workspace/didChangeWatchedFiles", "initialized"}

\* Commands that need a design, and the ones that do not.
DesignCommands == {
  "slang.getInstances", "slang.getDriversWithLocation", "slang.getLoadsWithLocation",
  "slang.getScope", "slang.getScopesByModule", "slang.getInstancesOfModule"}
OtherCommands == {
  "slang.setTopLevel", "slang.setBuildFile", "slang.getModulesInFile",
  "slang.addToWaveform", "slang.openWaveform", "slang.getFilesContainingModule",
  "slang.expandMacros", "slang.addDefine"}

\* The capabilities getInitialize answers with.
InitializeCapabilities == {
  "textDocumentSync", "completionProvider", "completionResolve", "hoverProvider",
  "definitionProvider", "referencesProvider", "documentHighlightProvider",
  "documentSymbolProvider", "codeActionProvider", "documentLinkProvider",
  "workspaceSymbolProvider", "renameProvider", "executeCommandProvider",
  "callHierarchyProvider", "inlayHintProvider"}

register(h, methods) ==
  [requests      |-> h.requests \cup (methods \cap RequestMethods),
   notifications |-> h.notifications \cup (methods \cap NotificationMethods),
   commands      |-> h.commands]

registerCommand(h, names) ==
  [requests |-> h.requests, notifications |-> h.notifications, commands |-> h.commands \cup names]

\* SlangServer's constructor keeps to what the handshake needs.
Construct == register([requests |-> {}, notifications |-> {}, commands |-> {}],
                      {"initialize", "shutdown"})

\* processMessage: an unknown request is not answered, an exception is an error.
processRequest(m, throws) ==
  CASE m \notin handlers.requests -> "unanswered"
    [] m \in handlers.requests /\ throws -> "error"
    [] OTHER -> "result"

\* What the client may send by what the server advertised.
Offered == UNION {CapabilityMethods[c] : c \in advertised}
-----------------------------------------------------------------------------
(* Operations on srv. After an exception the rest of the handler is skipped. *)

\* Mutant: the negotiated option is not carried over.
createAfresh(s, build, throws) ==
  IF throws THEN [s EXCEPT !.thrown = TRUE]
  ELSE [s EXCEPT !.driver = [build |-> build, flags |-> s.config.flagsByFile,
                             resolve |-> FALSE, comp |-> FALSE]]

\* ServerDriver::create: a new driver takes the negotiated option over.
create(s, build, throws) ==
  IF throws THEN [s EXCEPT !.thrown = TRUE]
  ELSE [s EXCEPT !.driver =
          [build   |-> build,
           flags   |-> s.config.flagsByFile,
           resolve |-> s.driver # None /\ s.driver.resolve,
           comp    |-> FALSE]]

\* Mutant: the selected build file is kept when the server goes back to exploring.
setExploreKeepsBuild(s, throws) == create(s, None, throws)

setExplore(s, throws) == create([s EXCEPT !.buildfile = None], None, throws)

setBuildFile(s, b, throws) ==
  LET c == create([s EXCEPT !.buildfile = b], b, throws)
  IN  IF c.thrown THEN c ELSE [c EXCEPT !.driver.comp = TRUE]

\* startIndexing with the globs or directories of the configuration: the files
\* of the workspace are read as they are. Without a folder none is in reach.
startIndexing(s) == IF client.folder THEN [s EXCEPT !.index = src] ELSE s

usesGlobs(c) == c.fields["indexGlobs"].array # <<>> \/ c.fields["excludeDirs"].array # <<>>

\* Mutant: a reload with an unchanged configuration does not crawl again.
needsIndexingOnChange(old, c, force) == old # c

needsIndexing(old, c, force) ==
  \/ force
  \/ /\ usesGlobs(c)
     /\ \/ getIndexGlobs(old) # getIndexGlobs(c)
        \/ old.fields["excludeDirs"] # c.fields["excludeDirs"]

\* loadConfig(config, forceIndexing)
loadConfig(s, c, force, throws) ==
  LET build == c.fields["build"].scalar
      next  == [s EXCEPT !.config = c]
      swap  == IF build # Unset THEN setBuildFile(next, build, throws)
               ELSE setExplore(next, throws)
      index == IF needsIndexing(s.config, c, force) THEN startIndexing(swap) ELSE swap
  IN  IF swap.thrown THEN [swap EXCEPT !.cut = TRUE]
      ELSE [index EXCEPT !.shown = c, !.cut = FALSE]

\* loadConfig(): the three files, of which two need a folder.
VisibleFiles(fs) ==
  [n \in ConfFile |-> IF n # "user" /\ ~ client.folder THEN Absent ELSE fs[n]]

\* onWorkspaceDidChangeWatchedFiles and addDefine load the configuration again
\* and put the selected build file back. bad: which of the two creations throw.
reload(s, fs, bad) ==
  LET a == loadConfig([s EXCEPT !.thrown = FALSE], fromFiles(VisibleFiles(fs)), TRUE, 1 \in bad)
  IN  IF a.thrown \/ s.buildfile = None THEN a
      ELSE setBuildFile(a, s.buildfile, 2 \in bad)

\* Creations can throw when there are documents to carry over.
BadCreations == IF srv.driver = None THEN {{}} ELSE SUBSET {1, 2}

\* What a reload leaves unreported: the configuration is read first, and the
\* files of the batch are read by the crawl unless the first creation threw.
MissedAfter(batch, bad) ==
  IF 1 \in bad THEN (missed \cup (batch \cap Src)) \ ConfFile ELSE {}

\* The watchers of onInitialized: files of the workspace, and only changes of
\* existing files, not their creation or removal.
Reported(p, old, new) == watching /\ p # "user" /\ Absent \notin {old, new}
-----------------------------------------------------------------------------
Init ==
  /\ phase = "fresh"
  /\ handlers = Construct
  /\ advertised = {}
  /\ reply = "none"
  /\ client \in [resolve : BOOLEAN, folder : Folders]
  /\ files \in {fs \in [ConfFile -> UNION {ConfText[n] : n \in ConfFile}] :
                 \A n \in ConfFile : fs[n] \in ConfText[n]}
  /\ src = [f \in Src |-> 1]
  /\ events = {} /\ watching = FALSE /\ missed = {}
  /\ srv = [config |-> [fields |-> DefaultConfig, flagsByFile |-> <<>>],
            buildfile |-> None, driver |-> None, index |-> [f \in Src |-> 0],
            shown |-> None, thrown |-> FALSE, cut |-> FALSE]
  /\ edits = 0 /\ sent = 0

\* run(): before initialize every message is answered with an error.
BeforeInitialize ==
  /\ phase = "fresh" /\ sent < MaxCommands
  /\ reply' = "error"
  /\ sent' = sent + 1
  /\ UNCHANGED <<phase, handlers, advertised, events, watching, srv, missed, env>>

\* getInitialize. The registrations come first, then the configuration, whose
\* exception leaves them and nothing else; a client may try again.
Initialize ==
  /\ phase = "fresh" \/ (phase = "running" /\ advertised = {} /\ sent < MaxCommands)
  /\ phase' = "running"
  /\ sent' = sent + 1
  /\ handlers' = registerCommand(register(handlers, InitializeRegisters),
                                 DesignCommands \cup OtherCommands)
  /\ LET throws == FromFilesThrows(VisibleFiles(files))
         s == loadConfig(srv, fromFiles(VisibleFiles(files)), TRUE, FALSE)
     IN  /\ srv' = IF throws THEN srv ELSE [s EXCEPT !.driver.resolve = client.resolve]
         /\ advertised' = IF throws THEN {} ELSE InitializeCapabilities
         /\ reply' = processRequest("initialize", throws)
         /\ missed' = IF throws THEN missed ELSE {}
  /\ UNCHANGED <<events, watching, env>>

\* onInitialized sends the configuration and asks for file events.
Initialized ==
  /\ phase = "running" /\ advertised # {} /\ ~ watching
  /\ "initialized" \in handlers.notifications
  /\ srv' = [srv EXCEPT !.shown = srv.config, !.cut = FALSE]
  /\ watching' = client.folder
  /\ UNCHANGED <<phase, handlers, advertised, reply, events, missed, sent, env>>

\* A request the client may send. The queries read the driver's documents.
Query ==
  /\ phase = "running" /\ advertised # {} /\ sent < MaxCommands
  /\ \E m \in Offered \cap RequestMethods, throws \in BOOLEAN :
       reply' = processRequest(m, throws)
  /\ sent' = sent + 1
  /\ UNCHANGED <<phase, handlers, advertised, events, watching, srv, missed, env>>

\* A command that only reads. An unknown one is answered with null, and one
\* about the design with nothing when there is no design.
ReadCommand ==
  /\ phase = "running" /\ advertised # {} /\ sent < MaxCommands
  /\ \E c \in DesignCommands \cup (OtherCommands \ {"slang.setBuildFile", "slang.addDefine",
                                                    "slang.setTopLevel"}) :
       reply' = CASE c \notin handlers.commands -> "unknown"
                  [] c \in handlers.commands /\ c \in DesignCommands /\ ~ srv.driver.comp
                     -> "empty"
                  [] OTHER -> "result"
  /\ sent' = sent + 1
  /\ UNCHANGED <<phase, handlers, advertised, events, watching, srv, missed, env>>

\* setTopLevel with a file: a design from that file, in the same driver, unless
\* the file or a module in it is not found. The empty name is setExplore.
SetTopLevel ==
  /\ phase = "running" /\ advertised # {} /\ sent < MaxCommands
  /\ srv' \in {setExplore([srv EXCEPT !.thrown = FALSE], 1 \in bad) : bad \in BadCreations}
              \cup {srv, [srv EXCEPT !.driver.comp = TRUE]}
  /\ reply' = IF srv'.thrown THEN "error" ELSE "result"
  /\ sent' = sent + 1
  /\ UNCHANGED <<phase, handlers, advertised, events, watching, missed, env>>

\* setBuildFile, as a command or because a waveform was loaded for which
\* buildPattern names an existing file.
SetBuildFile ==
  /\ phase = "running" /\ advertised # {} /\ sent < MaxCommands
  /\ \E b \in BuildFile, bad \in BadCreations :
       srv' = setBuildFile([srv EXCEPT !.thrown = FALSE], b, 1 \in bad)
  /\ reply' = IF srv'.thrown THEN "error" ELSE "result"
  /\ sent' = sent + 1
  /\ UNCHANGED <<phase, handlers, advertised, events, watching, missed, env>>

\* The object addDefine starts from: what it cannot read it replaces.
LocalObject == IF files["local"] \in {Absent, Malformed} THEN << >> ELSE files["local"]

\* addDefine appends a flag to the local file, writes it and reloads. The watcher
\* reports the write later.
AddDefine ==
  /\ phase = "running" /\ advertised # {} /\ client.folder /\ sent < MaxCommands
  /\ edits < MaxEdits
  /\ LET old   == Field(LocalObject, "flags")
         flags == (IF IsArray(old) \/ old.scalar = Unset THEN <<>> ELSE old.scalar) \o <<"-DM">>
         fs    == [files EXCEPT !["local"] =
                     [k \in DOMAIN LocalObject \cup {"flags"} |->
                        IF k = "flags" THEN [scalar |-> flags] ELSE LocalObject[k]]]
         told  == Reported("local", files["local"], fs["local"])
     IN  /\ files' = fs
         /\ events' = IF told THEN events \cup {"local"} ELSE events
         /\ \/ /\ FromFilesThrows(VisibleFiles(fs))
               /\ reply' = "error"
               /\ missed' = IF told THEN missed ELSE missed \cup {"local"}
               /\ UNCHANGED srv
            \/ /\ ~ FromFilesThrows(VisibleFiles(fs))
               /\ \E bad \in BadCreations : /\ srv' = reload(srv, fs, bad)
                                            /\ missed' = MissedAfter({}, bad)
               /\ reply' = IF srv'.thrown THEN "error" ELSE "result"
  /\ edits' = edits + 1 /\ sent' = sent + 1
  /\ UNCHANGED <<phase, handlers, advertised, watching, client, src>>

\* Whether a batch makes the server load its configuration again.
needsReload(batch) ==
  \/ batch \cap ConfFile # {}
  \/ srv.driver.build \in batch

\* A batch that changes the configuration or the build file in use: the other
\* changes in it are left to the new crawl.
WatchedReload ==
  \E batch \in SUBSET events :
    /\ phase = "running" /\ batch # {} /\ needsReload(batch)
    /\ events' = events \ batch
    /\ \/ /\ FromFilesThrows(VisibleFiles(files))
          /\ missed' = missed \cup (batch \ BuildFile)
          /\ UNCHANGED srv
       \/ /\ ~ FromFilesThrows(VisibleFiles(files))
          /\ \E bad \in BadCreations : /\ srv' = reload(srv, files, bad)
                                       /\ missed' = MissedAfter(batch, bad)
    /\ UNCHANGED <<phase, handlers, advertised, reply, watching, sent, env>>

\* A batch of source files: the driver reloads its documents, which may throw,
\* and then the index reads the files again.
WatchedSources ==
  \E batch \in SUBSET events :
    /\ phase = "running" /\ batch # {} /\ ~ needsReload(batch)
    /\ events' = events \ batch
    /\ \/ /\ srv' = [srv EXCEPT !.index =
                       [f \in Src |-> IF f \in batch THEN src[f] ELSE @[f]]]
          /\ missed' = missed \ batch
       \/ /\ UNCHANGED srv
          /\ missed' = missed \cup (batch \cap Src)
    /\ UNCHANGED <<phase, handlers, advertised, reply, watching, sent, env>>

\* onDocDidSave of an open document: its tree goes to the index, if updating it
\* does not throw before. The watcher reports the file as well.
DidSave ==
  /\ phase = "running" /\ advertised # {} /\ edits < MaxEdits
  /\ \E f \in Src :
       /\ src' = [src EXCEPT ![f] = @ + 1]
       /\ \/ srv' = [srv EXCEPT !.index[f] = src'[f]] /\ missed' = missed \ {f}
          \/ srv' = srv /\ missed' = IF watching THEN missed ELSE missed \cup {f}
       /\ events' = IF watching THEN events \cup {f} ELSE events
  /\ edits' = edits + 1
  /\ UNCHANGED <<phase, handlers, advertised, reply, client, files, watching, sent>>

\* Another program, or the user outside the server, changes a file.
ChangeFile ==
  /\ edits < MaxEdits /\ phase # "exited"
  /\ edits' = edits + 1
  /\ \E p \in Path :
       /\ \/ p \in ConfFile /\ UNCHANGED src
             /\ \E t \in ConfText[p] \ {files[p]} : files' = [files EXCEPT ![p] = t]
          \/ p \in Src /\ UNCHANGED files /\ src' = [src EXCEPT ![p] = @ + 1]
          \/ p \in BuildFile /\ UNCHANGED <<files, src>>
       /\ LET told == IF p \in ConfFile THEN Reported(p, files[p], files'[p]) ELSE watching
         IN  /\ events' = IF told THEN events \cup {p} ELSE events
             /\ missed' = IF told THEN missed ELSE missed \cup ({p} \ BuildFile)
  /\ UNCHANGED <<phase, handlers, advertised, reply, client, watching, srv, sent>>

\* shutdown, after which run() waits for exit.
Shutdown ==
  /\ phase = "running" /\ phase' = "down"
  /\ reply' = processRequest("shutdown", FALSE)
  /\ UNCHANGED <<handlers, advertised, events, watching, srv, missed, sent, env>>

Exit ==
  /\ phase = "down" /\ phase' = "exited"
  /\ UNCHANGED <<handlers, advertised, reply, events, watching, srv, missed, sent, env>>

Next ==
  \/ BeforeInitialize \/ Initialize \/ Initialized \/ Query \/ ReadCommand \/ SetTopLevel
  \/ SetBuildFile \/ AddDefine \/ WatchedReload \/ WatchedSources \/ DidSave \/ ChangeFile
  \/ Shutdown \/ Exit

Spec == Init /\ [][Next]_vars
-----------------------------------------------------------------------------
\* A capability is offered if and only if its handlers are registered, through a
\* failed initialize and a second one, so that no request a client is entitled to
\* goes unanswered and no command it is offered is unknown (getInitialize keeps
\* three lists by hand: registrations, commands, capabilities).
OfferedIsServed ==
  /\ advertised # {} =>
       /\ Offered \subseteq handlers.requests \cup handlers.notifications
       /\ handlers.requests = (Offered \cap RequestMethods) \cup {"initialize", "shutdown"}
  /\ reply \notin {"unanswered", "unknown"}

\* When initialize was answered with a result there is a driver, and it and every
\* driver that replaces it resolve completions the way the client asked for, also
\* across exceptions (getInitialize sets the option once, create carries it over).
NegotiatedKept ==
  advertised # {} => srv.driver # None /\ srv.driver.resolve = client.resolve

\* The driver is the one its build file and configuration call for, and the editor
\* has been sent that configuration, unless the last replacement, or the last load
\* of the configuration, ended in an exception (setBuildFile, setExplore and loadConfig assign before they create).
DriverFollowsConfig ==
  advertised # {} =>
    /\ ~ srv.thrown => /\ srv.driver.build = srv.buildfile
                       /\ srv.driver.flags = srv.config.flagsByFile
    /\ ~ srv.cut => srv.shown = srv.config

\* "The server watches these config files [...] for changes, automatically reloading when
\* they are saved" (docs/start/config.md): the configuration is the documented merge of the
\* files as they are now, once every reported change has been handled. Changes nobody reports (of the user's
\* file, before the watchers exist, creations and removals), and those whose files
\* contradict each other so that reading them throws, are the exceptions.
ConfigCurrent ==
  advertised # {} /\ (events \cup missed) \cap ConfFile = {} =>
    MergedAsDocumented(srv.config, VisibleFiles(files))

\* The index has read every source file since it last changed, except for changes
\* that are still to be reported or were dropped because the driver threw first. In
\* particular a batch that is treated as a change of the configuration loses none.
IndexHears ==
  advertised # {} /\ client.folder =>
    \A f \in Src \ (events \cup missed) : srv.index[f] = src[f]

-----------------------------------------------------------------------------
(* What makes the properties inductive.                                     *)

\* The server's own part of the state.
SrvType(s) ==
  /\ s = [config |-> s.config, buildfile |-> s.buildfile, driver |-> s.driver,
          index |-> s.index, shown |-> s.shown, thrown |-> s.thrown, cut |-> s.cut]
  /\ s.config.flagsByFile \in Seq(FlagSource)
  /\ s.buildfile \in BuildFile \cup {None} /\ s.driver \in Driver \cup {None}
  /\ s.index \in [Src -> Nat] /\ s.thrown \in BOOLEAN /\ s.cut \in BOOLEAN

\* Every variable has the type its declaration says.
TypeOK ==
  /\ phase \in {"fresh", "running", "down", "exited"}
  /\ client \in [resolve : BOOLEAN, folder : BOOLEAN]
  /\ DOMAIN files = ConfFile /\ \A n \in ConfFile : IsConfText(files[n])
  /\ src \in [Src -> Nat]
  /\ events \subseteq Path /\ watching \in BOOLEAN
  /\ SrvType(srv)

\* The handlers there are once initialize has registered its own.
Registered ==
  registerCommand(register(Construct, InitializeRegisters), DesignCommands \cup OtherCommands)

\* How far the handshake has come: until initialize was answered with a result no
\* file event is asked for and no driver replaced.
Handshake ==
  /\ phase = "fresh" => advertised = {}
  /\ handlers \in {Construct, Registered}
  /\ advertised \in {{}, InitializeCapabilities}
  /\ advertised # {} => handlers = Registered
  /\ advertised = {} => ~ srv.thrown /\ events = {} /\ ~ watching

\* The inductive invariant of the session.
SessionInv ==
  /\ TypeOK /\ Handshake /\ OfferedIsServed /\ NegotiatedKept /\ DriverFollowsConfig
  /\ ConfigCurrent /\ IndexHears
=============================================================================
