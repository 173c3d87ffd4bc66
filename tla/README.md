# A TLA+ verification project for slang-server

slang-server is a SystemVerilog language server. An editor sends it LSP messages
over stdin; it mirrors the editor's documents, analyses them with the slang
library, and sends diagnostics and answers back. This directory models the parts
of it that keep state and the queries that have control of their own, checks them with TLC on small instances, and proves the
most important results with TLAPS for all instances.

All paths below are relative to the repository (`src/`).

## 1. Inventory

| Component | State | Operations | Correct means | Here |
|---|---|---|---|---|
| `ServerDiagClient` | diagnostics per document, the set of dirty documents | `report`, `clear`, `clear(uri)`, `pushDiags`, `clearAndPush` | the editor shows exactly what the client holds | `DiagClient` |
| `ServerDriver` | `docs`, `m_openDocs`, `comp` (the design), the diagnostics client | `openDocument`, `onDocDidChange`, `updateDoc`, `getDependentDocs`, `closeDocument`, `onWorkspaceDidChangeWatchedFiles`, `create`, `createCompilation` | buffers equal the editor's texts; diagnostics are those of the buffers; a replaced driver leaves nothing behind | `ServerDriver`, `HeaderDiags` (diagnostics of headers) |
| `SlangServer` | `m_driver`, `m_buildfile`, `m_topFile`, `m_config`, `m_wcpClient`, the registered handlers | the LSP handlers and commands, `loadConfig`, `addDefine` | a handler that fails leaves a state the next one can work with; what is offered is served; driver, config and index follow the files | `ServerDriver` (documents, build files), `Session` (handshake, configuration, file events), `ServerThreads` (waveform commands) |
| `SlangDoc` | a buffer, its tree, dependencies and analysis, made on demand | `open`, `fromText`, `onChange`, `reloadBuffer`, `getSyntaxTree`, `getAnalysis`, `issueDiagnosticsTo` | the buffer is the editor's text, the tree is of the current buffer, the analysis of current trees | `ServerDriver` (whole texts), `TextSync` (`onChange`), `Definitions` (the caches), `HeaderDiags` (what a tree says of headers) |
| `ServerCompilation` | documents, trees, the elaborated design | `refresh`, `issueDiagnosticsTo`, hierarchy queries | the design follows saves; its views agree | `ServerDriver`, `Hierarchy`, `Cones` |
| `Indexer` | `symbolToFiles`, `macroToFiles`, `symbolReferences`, `indexedFiles` | `startIndexing`, `updateDocument`, `onWorkspaceDidChangeWatchedFiles`, `removePathFromIndex` | a lookup returns the files that declare the name now | `Indexer` |
| JSON-RPC loop | the phase of `run()`, the mutex, stdout | `readJson`, `handleMessage`, `processMessage`, `sendMessage` | every request is answered; frames are whole | `ServerThreads` |
| `WcpClient` | sockets, `m_running`, `m_recvBuffer`, a thread | constructor, `greet`, `runClient`, `getMessage`, `sendMessage`, `stop` | messages are taken whole and in order; a viewer that is gone is noticed | `ServerThreads` |
| `Config` | three files layered into one | `fromFiles` | the documented merge of the files as they are | `ConfigFiles` |
| `URI` | none | parsing, decoding, `str`, `getPath` | every spelling of an address is one document | `Uri` |
| `SyntaxIndexer` | collected tokens, disabled ranges, expansions | the walk over a tree, lookups by place | complete, in order, each expansion its own | `SyntaxIndexer`, `Tokens` |
| Definitions, references, rename | the caches of `SlangDoc`, the index | `getDefinitionInfoAt`, `getDocReferences`, `getDocRename`, `getDependentDocs` | locations are current and complete, a rename keeps the meaning | `Definitions`, `References` |
| Completions | `resolveEdits`, the data of an item | `getCompletionSite`, one query per context, `resolve` | the accepted text is a well-formed use of what was picked | `Completions`, `Snippet` |
| Outline, code actions, hints | none | `SymbolTreeVisitor`, `ExpandMacro`, `InlayHintCollector` | each where and what it should be | `Outline`, `Annotations` |
| Hierarchy, cones | the reference index, made on demand | `getScope`, `getScopesByModule`, `getDrivers`, `getLoads` | the two views agree; cones are the flow relation | `Hierarchy`, `Cones` |

**Interaction.** One thread, the server thread, reads a message, takes the mutex,
runs the handler to its end and replies; an exception ends only the handler
(`processMessage` catches it). The editor and the file watcher keep going
meanwhile, so a message may be old when it is handled. Commands and config
reloads replace the whole driver: `ServerDriver::create` builds a new one, carries
the open documents over, and only then is `m_driver` assigned. The viewer thread
of a waveform session reads a socket without the mutex and handles each message
with it.

**What is hard.** Messages, file events and driver replacement interleave; a
dependency that cannot be read throws out of the middle of a handler; two
producers of diagnostics share one display; one save is reported twice, from two
sources; a tree reports in files that are
documents of their own; two threads write to one stdout and one socket; a viewer may
fail to start, never connect, greet wrongly or quit at any moment; analyses, index entries and completion
items are used after the text they were made from has changed; the merge of
configuration files and a driver's creation can throw after half of the state was
assigned; searches by place rest on the order of a walk. `PROJECT.json` lists every such hazard
with its line and the properties that would catch it going wrong.

## 2. Modules

```
DiagClient <- ServerDriver <- MCServerDriver          Indexer <- MCIndexer
    ^              ^                                     ^
DiagClientProofs <- ServerDriverProofs                IndexerProofs
                          ^
                    DriverSyncProofs

DiagClient <- HeaderDiags <- MCQueries

MessageQueue <- ServerThreads <- MCServerThreads,  ServerThreadsProofs

ConfigFiles, LspMethods <- Session <- MCSession,  SessionProofs

Tokens, Snippet <- Completions
TextSync, Uri, Completions, Outline, Annotations                      <- MCEditing
TextSync, Uri, Completions, Annotations <- EditingProofs
Tokens <- SyntaxIndexer, References, Hierarchy, Cones, Definitions    <- MCQueries
Definitions <- DefinitionsProofs
```

**DiagClient** is `ServerDiagClient` as operators on a record (lists per file,
dirty set). Where a method publishes, a second operator (`...View`) gives what the
editor displays afterwards. `Shows` is the promise that binds the two.

**ServerDriver** composes the editor, the disk, the watcher and the server.
`editor`, `disk`, `watch`, `config` are the outside; `inbox` the messages on their
way; `drv` is `m_driver` and `new` the driver `create` is building; `published` is
the display. One action is one handler. Handlers that walk over several documents
leave their remaining work in `plan`, which the server finishes before it takes
another message: this is where the outside can move between two steps of one
handler (`UpdateReloaded`, `AdoptDoc`). Handlers end early where the code throws:
`Throws` is the missing dependency of `getDependentDocs`, `Interrupted` what such
a search has loaded by then, `AbandonCreate` the destruction of a half-built
driver. A text is a value; constants say which files it references, whether slang
reports something for it and whether it has a top module. An edit is relative to
the text the editor had: applied to another buffer it throws or leaves `Garbled`.

**HeaderDiags** takes up what `ServerDriver` leaves out of `updateDoc`: the syntax
tree of a document holds the parse diagnostics of the headers it includes, and they
are issued with its own, for the header's address. Each diagnostic there says which
tree reported it and of which text. It has the same handlers, without messages in
flight and exceptions. It is a part of `qry_lookup`, sharing no state with the others.

**Indexer** has the three maps and the per-file record of what was entered, by
which removal goes. `indexPaths` (from disk) and `extractFromTree` (from a saved
document) are kept apart because the code extracts different things. The watcher
holds one coalesced event per file and delivers those of the kinds the server has
registered for (`WatchKind`: in this code, changes only); it drops the others
(`WatcherIgnores`), and `missed` holds the files that are behind for that.

**ServerThreads** has a program counter per thread. A frame is two writes, so
`half` can hold two threads' halves; the socket carries two pieces per message and
`recv` takes any number of them; a launch may fail in the child process, which the
server is not told (`LaunchFails`); `ended` records how the process ended: exit,
`teardown` (exit with a joinable viewer thread), `relaunch`, `sigpipe`, `deaf`
(`stop()` closed an uninitialised descriptor number that was stdin or stdout).

**MessageQueue** is what `getMessage` promises: a queue of whole messages. The
mapping (`InTransit`, `Queue` in `ServerThreads`) takes the messages sent and not
yet returned for the queue; `IsQueue` says that `ServerThreads` implements it.

**Session** is `SlangServer` from `initialize` to `exit`: the registration of
handlers and what an unregistered method gets, the three configuration files and
who is told when they change, `loadConfig`, `setBuildFile`, `setTopLevel`,
`addDefine`, and a batch of file events on its way to driver and index. It composes
the driver's replacement with the index, which `ServerDriver` and `Indexer` have
one by one; of the documents it keeps that replacing a driver that has some may
throw, at either of the two creations of a reload. `missed` holds the changes
nobody will report. **ConfigFiles** is `Config::fromFiles`, field by field;
**LspMethods** the tables of `LspServer.h` and `LspTypes.h`.

**TextSync** has the editor's text in characters and the buffer in bytes, with its
null byte; a batch of changes is spliced as `onChange` does it, the first change by
other code than the rest. **Uri** parses, decodes and writes addresses character by
character; an escape is the two digits of the character's byte (`Code`, `to_hex`,
`stoi`). **Completions** goes from a cursor in a line to the accepted text: the
site, the query its tokens select, the items, the edit, and the resolve, between
which declarations may change (`ChangeDeclarations`). **Snippet** is
`SnippetString` with an editor's expansion of it. **Outline** is the tree of the
document's declarations, **Annotations** the reindented expansion of a macro and the
inlay hints of a range, each node's as a set. The nodes are those the walk collects:
the document's (`own`) and those of included files and macro bodies, by the offsets
they have in their own texts.

**SyntaxIndexer** is the walk over a file's tokens and trivia, one step per token;
**Tokens** the binary searches over what it collected. **References** is a program
as a sequence of name tokens, in which slang's lookup (external) says what each
denotes from the texts they have at the moment: a rename that misses one changes the
meaning. **Definitions** has the caches of documents (tree, dependencies, analysis)
with revisions of texts, the index, `getDependentDocs` and goto. **Hierarchy** and
**Cones** work on an elaborated design given as a constant. The blocks of a generate
loop have the values of its genvar in **Hierarchy**. **Cones** has the two tracers as
the code runs them, with the flag they carry from use to use, and next to them what
the language says flows where (`Flow`), by kind: followed by the tracers, not seen by
them, or taken by them for something else.

External, modelled from their use: the editor, the watcher, other tools, the
waveform viewer, and slang's parsing and elaboration (constants).

## 3. Runs

| Run | Question | Bounds |
|---|---|---|
| `drv_edit` | With only an editor at work, do the server's buffers follow it? (`Mirror`) | 2 files, 2 texts, 9 operations, 3 messages in flight |
| `drv_swap` | Do display, open set and design stay right through driver swaps, reloads and files written by tools? (`PublishedFaithful`, `NoStaleDiagnostics`, `OpenTracksClient`, `DesignHasOrigin`) | 2 files, 4 operations, 3 in flight |
| `drv_fault` | Does the invariant (`DriverInv`: types, `PublishedFaithful`, `OpenDocsLoaded` and what they need) survive exceptions, and does the next save repair what they leave (`SaveRepairs`)? | 3 files, 5 operations, deletions |
| `idx_save` | Is the index exact and current when each save is reported twice and tools create, write and delete, with the kinds of events the server registers for? (`IndexExact`, `IndexCurrent`) | 2 files, 4 texts, 6 writes |
| `idx_reload` | Is anything recorded ever lost, with reloads and overlapping directories? (`IndexComplete`) | 3 writes, 2 reloads |
| `thr_session` | Are frames whole, the stream in order, the receive buffer a queue, requests answered, a lost viewer noticed? (`TypeOK`, `Framed`, `StreamInOrder`, `IsQueue`, `RequestsAnswered`, `GoneNoticed`) | 4 editor messages, 2 viewer messages |
| `ses_config` | Is what is offered served, does what was negotiated survive, and do driver, config and index follow the files? (`OfferedIsServed`, `NegotiatedKept`, `DriverFollowsConfig`, `ConfigCurrent`, `IndexHears`) | 3 config files with 2-3 contents, 2 build files, 1 source; 2 changes, 3 commands |
| `edit_doc` | Text, address, completions and annotations of one document (`Mirrored`, `SameDocument`, `ShapeKept`, `WholeWordReplaced`, `SnippetWellFormed`, `OutlineExact`, `ShapeOfExpansion`, `HintsNameFormals`, `HintsOfRange`) | texts and paths up to 3 characters, batches of 2 changes; 13 lines with every cursor, 3 sets of declarations, 1 change of them; outlines of 3 declarations, expansions of 3 lines, sheets of 2-3 nodes, some of other texts |
| `qry_lookup` | Do queries find what is there? (`ExpansionsOwn`, `LookupsExact`, `ReferencesComplete`, `RenameKeepsMeaning`, `ViewsAgree`, `ConesMatchFlow`, `LocationsCurrent`, `AllDefinitions`, `DiagnosisComplete`, `HeadersCurrent`) | files of 3 items, macros of 2 tokens; 2 programs of 15-17 names in 3-4 files, 2 renames; designs of 7 signals with every wiring of 6 places, a switched and a clocked one with an open port, a select on the left, a loop and a call, 1 refresh; trees with loops that start at 0 and that do not; 5 files, 2 edits, 2 saves; a header and 2 documents, 6 operations |
| `drv_bug_explore` | `Mirror` fails: see findings | 2 files, 5 operations |
| `thr_bug_relaunch` | `RelaunchWorks` fails: see findings | as `thr_session` |
| `edit_bug_utf16` | `Mirrored` fails: see findings | as `edit_doc`, with a character of two bytes |

`edit_doc` and `qry_lookup` each check several modules that share no state: `lab`
says which one a behaviour is about, so their state spaces add up instead of
multiplying.

Why the bounds are enough. Losing an edit takes an open, a keystroke and one
event (a swap, a late file event); repairing it one save: four operations. A swap
goes wrong over the order of two documents that reference each other, and over a
dependency of two others that fails after the first was adopted: two and three
files. Two texts distinguish the editor's from the disk's, and `Garbled` any
third. In the index every cell is one file's, so a second file shows removal
taking too much; the four texts are the cases of the extraction (module, module
with a repeated declaration and a reference, header with include, header with a
class). The stream needs two messages for one to be left behind in the buffer;
initialize, openWaveform and two more requests reach every state of a session.
A configuration goes wrong over one file changed before and one after a command that
throws; two changes and three commands have that order and its reverse. A splice
depends on its line's start and on whether it is the first of its batch; three
characters give three lines, an empty one, and a change behind a newline the change
before it made. An address needs an escape (three characters) next to a character
that looks like one. In a file of three items every kind of token meets every other
on both sides. Cones are checked for all wirings because flags carried through the
traversal go wrong only when one signal stands in two places. Definitions need two
saves to let the index fall behind and catch up, and a second edit in between.

The bounds `MaxOps`, `MaxInbox`, `MaxDiags`, `MaxReindex`, `MaxMessages`,
`MaxEvents`, `MaxEdits`, `MaxCommands`, `MaxSaves`, `MaxRenames`, `MaxUpdates` and their like stop the environment, so behaviours end and deadlock is not checked:
a server that has handled everything waits.

`drv_edit`, `drv_swap` and `drv_fault` differ in what the environment may do: `Mirror`
holds only for an editor alone (the findings are what breaks it otherwise), the
properties of `drv_swap` hold against files rewritten by others, and those of
`drv_fault` against deletions too, which make handlers throw.

**Fairness.** `RequestsAnswered` and `GoneNoticed` assume that both threads run, which with the greeting's clock is `WF` of each thread's
actions, and nothing else: the viewer need not start, connect, greet, send or quit.
So `RequestsAnswered` has to name the one way in which a request stays open, a server
thread that waits in `accept` for ever (`[]InAccept`).
For the mutex weak fairness is enough on these bounds, since each thread releases
it on every path and the number of messages is finite.

## 4. Findings

Each is a violation run; `PROJECT.json` quotes the line it contradicts.

* **Unsaved edits are lost in a driver swap** (`drv_bug_explore`,
  `ServerDriver.cpp:183`). If the new driver has already read a document from
  disk, as a source or as a dependency of another open document, `create` keeps
  that text.
* **A second viewer ends the server** (`thr_bug_relaunch`, `SlangServer.cpp:437`):
  `emplace` destroys a `WcpClient` whose thread is joinable.
* **Edits behind a wide character land elsewhere** (`edit_bug_utf16`,
  `SlangDoc.cpp:177`): the editor counts UTF-16 units, the code adds them to a byte
  offset, and no position encoding is negotiated.

A lost edit lasts until the next save of the document: that leaves the buffer at the
saved text (`SaveRepairs`, checked in `drv_fault`, proved for all). If the search for
dependencies throws, that is all it does; otherwise what is displayed for the document
is of that text, and with a design, the design and the whole display are of the current
buffers. Without a design the save says nothing of what is displayed for other files.

Also seen while modelling. Where a property of section 3 has to allow for one of
these, it says so.

* A watcher event for the editor's own save that arrives after the next keystroke
  replaces the newer text by the file (`ServerDriver.cpp:306`); `drv_edit` has no
  such events.
* After a dependency was deleted, `updateDoc` throws once the text is replaced, and
  the old diagnostics stay (`SlangDoc.cpp:79`); `drv_swap` deletes nothing.
* A reload re-enters files without removing what an earlier crawl entered
  (`Indexer.cpp:229`), and a saved header is given the macros of its includes
  (`Indexer.cpp:195`).
* A config edit that names another build file has no lasting effect:
  `onWorkspaceDidChangeWatchedFiles` puts the previous one back
  (`SlangServer.cpp:745`).
* Config files of which one has an array and the other a scalar for the same unknown
  field make `fromFiles` throw (`Config.cpp:64`).
* References through `import p::c` are not found (`ServerDriver.cpp:975`); the
  programs of `qry_lookup` import with wildcards.
* Rename edits the files the index names, so a file edited since its last save keeps
  the old name (`ServerDriver.cpp:1267`); `RenameKeepsMeaning` is about saved files.
* A change of a document issues what its tree reports in an included header without
  having taken back the last time's, though the comment promises to "clear and re-issue
  diagnostics for this document" (`SlangDoc.cpp:261`, `ServerDriver.cpp:137`). The
  repetition ends with an update of the header or a save in a build. `HeadersCurrent`
  allows for it.
* A viewer that cannot be started or does not connect stops the server: `accept` has no
  deadline and runs under the mutex (`WcpClient.cpp:141`); the greeting's deadline starts
  behind it. `RequestsAnswered` has this as its one exception.
* Files that another program creates or deletes are not followed: the server registers
  for changes only (`SlangServer.cpp:250`), although `CHANGELOG.md:74` has git pulls in
  mind and the index has cases for both (`Indexer.cpp:374`). They are `missed`, and
  `IndexCurrent` leaves them out.
* The hierarchy view counts the blocks of a generate loop from 0, everything else uses
  the genvar's value (`HierarchicalView.h:139`): in a loop that starts elsewhere, is
  stepped or descends, what the view shows is not found or is another block
  (`IntoSkewedLoop`).
* A read of the traced signal outside of assignments and conditionals, as in
  `@(posedge clk)`, a `case`, a loop or a call, sets a flag that nothing puts back
  (`ConeTracer.h:205`): targets of all later assignments are listed as loads
  (`ReadBare`).
* A query for loads that comes to an open port visits an expression that is not there
  and ends the server (`ConeTracer.h:247`, `:243`; `MeetsOpenPort`).
* Cones leave out the selector of an element on a left side and the condition of a
  loop as drivers, and initializers of declarations (`ReferenceIndexer.h:44`), and they
  take the selector for a target (`ConeTracer.h:119`). `ConesMatchFlow` names them.
* While the index is behind, a document that no longer declares a name it uses
  becomes its own dependency (`ServerDriver.cpp:358`).
* Inlay hints: behind an empty connection (`InlayHintCollector.cpp:240`) or a localparam
  of the header (`:61`) they name another formal; a node that begins before the range
  loses its hints to a shorter one that begins inside it (`:374`), also to one of an
  included file or macro body, whose offset is in another text; of two nodes at one
  offset only the first visited is kept (`SyntaxIndexer.cpp:55`); two named ports on one
  line end the hints of the remaining instances (`:176`).
* A subroutine whose name has a `$` is completed with the name as it is, in a snippet,
  where the editor reads `$` as a stop or a variable (`MemberCompletions.cpp:434`); before
  a call the list holds the plain name, and the resolve then makes it a snippet (`:685`).
  `ShapeKept` and `SnippetWellFormed` leave such names out (`RawName`).
* A failed `socket`, `bind` or `listen` closes an uninitialised descriptor
  (`WcpClient.cpp:106`, `ended = "deaf"`), and `stop()` runs twice at the end of a
  session (`WcpClient.cpp:261`).

## 5. Proofs

TLAPS checks all of the following for any sets of files, texts, symbols and build
files and any bounds, from the `ASSUME`s of the modules: the types of the constants;
`None` and `Garbled` are not texts, build files or addresses (`ServerDriver`);
sources, build files and configuration files are different files, and what a
configuration file holds is lists of words and values (`SessionAssumption`); the null
byte is not a character (`TextAssumption`); different characters have different bytes
(`UriAssumption`); tokens have characters, names are simple identifiers, and place, kind
and name tell two declarations apart (`CompAssumption`); an expansion has a line, a node
an extent, arguments by position stand before those by name and a macro's have no names
(`AnnAssumption`). Where a theorem needs more, it says so itself with a named
condition, listed below with what goes wrong without it.

* **ServerDriverProofs**: `TypeCorrect`, `DisplayIsFaithful`, `OpenDocsAreLoaded`,
  from `DriverInvariant` (`Spec => []DriverInv`). Faithfulness is not inductive by
  itself: while `create` runs, two drivers have diagnostics clients. `CreateShape`
  adds that the old one is then empty (it was cleared at the start), and that
  otherwise there is no new one; with it the destructor of either driver takes
  nothing away that the other shows. The argument rests on lemmas of
  `DiagClientProofs`, one per method, that the method keeps `Shows`; every handler
  is a composition of such methods (`UpdateDocSound`, `RunUpdateSound`,
  `CreateCompilationSound`).
* **DriverSyncProofs**: what the driver knows is what the editor has.
  * `SavesRepair` (`Spec => SaveRepairs`) for all behaviours, deletions, reloads and
    exceptions among what went before. The property has its own cases: the buffer is
    the saved text in all of them; the index and the document's diagnostics follow
    unless the save's own search for dependencies throws; the design and the display of
    the other files follow if there is a design (`Repaired`).
  * `DiagnosticsAreCurrent`, `DesignsHaveOrigins`, `OpenDocsFollowEditor` under
    `FilesStay` (no tool deletes files). With deletions they fail, for the reasons
    `Throws` and `AbandonCreate` model: a change whose search for dependencies throws
    leaves a buffer newer than the display; an abandoned `create` leaves the old
    driver's design with `m_buildfile` already empty; a Deleted event closes a
    document the editor has open. `FilesPresent` shows that without deletions no
    handler is cut short. `FreshInv` says that every list a driver holds was computed
    from one buffer per file, the current one except for the documents the running
    handler has still to update; between two drivers it speaks of the new one.
    `OpenInv` reads the messages in flight as a `History` that leads from the server's
    set of open documents to the editor's; an LSP client opens what is closed and
    changes, saves and closes what is open, so each message makes sense where it
    stands.
  * `BuffersFollowEditor` (`Mirror`) under `NoReread` (no watcher events, no
    configuration changes, no `setBuildFile`), the conditions of `drv_edit`. The same
    `History` now carries texts: playing the messages in flight over the buffer gives
    the editor's text. Without the condition the findings of section 4 break it.
* **IndexerProofs**: `IndexIsComplete` for all behaviours: removal goes by the
  record and by file, so it cannot take what another file recorded.
  `IndexIsExact` without reloads, without Created events and with each file listed
  at most once: these are exactly the ways a file is entered without being removed
  first. Both reduce
  to one lemma about `Replace`, of which every operation is an instance.
  `IndexIsCurrent` under `OneWriter` (each file is written by the editor or by tools,
  not by both), without reloads, every file in an indexed directory, for any kinds of
  events watched. `CurrentInv`: a file of the editor is up to date, or the last save of
  it in flight has its text (`EditorFile`); a file of tools is up to date, or missed,
  unless the watcher holds an event, which then says what the difference is
  (`ToolFile`). With both writing, a didSave handled after a tool's event puts the older
  text back. With the kinds this server registers for, the theorem says nothing of a
  file after tools have created or deleted it, until it is changed or saved again.
* **ServerThreadsProofs**: `GetMessageIsQueue` (`Spec => IsQueue`, the refinement):
  `StreamInv` gives that a message taken from the buffer is the oldest in transit, and
  every other step leaves the queue alone or appends to it. `StreamIsInOrder`: `StreamInv` says that the buffer
  followed by the socket is the rest of the stream, two pieces to a message, so
  that the first message end in the buffer is its second piece. `FramesAreWhole`
  and `ThreadsTypeCorrect` assume an editor that keeps to the protocol (`Polite`:
  parseable JSON, and only exit after shutdown, as `LspServer.h:814` says it
  does): replies of `run()` itself are written without the mutex, and `FrameInv`
  shows that the protocol confines them to the time before there is a second
  thread. With a viewer connected, junk on stdin could cut a frame in two.
* **SessionProofs**: `SessionInvariant` (`Spec => []SessionInv`) and, from it, all
  five properties of `ses_config` without further conditions: `OffersServed`,
  `OptionSurvivesDrivers`, `DriverIsConfigured`, `ConfigIsMerged`,
  `ReportsReachIndex`. `Handshake` is the strengthening: the handlers are those of the
  constructor or all of them, capabilities are given out only with all of them
  registered, and before that there is no event and no exception to remember. The
  first half of the module shows that `fromFiles`, three layers one over the other, is
  the merge the documentation describes (`FromFilesMerges`); the second goes through
  the handlers, each of which is a sequence of `create`, `setExplore`, `setBuildFile`
  and `loadConfig` (`CreateFacts`, `SetBuildFileFacts`, `LoadConfigFacts`), any of
  which may end in an exception half way.
* **EditingProofs**: one document, for texts, batches and paths of any length.
  * `EditorIsMirrored` (`TextSpec => []Mirrored`) under `OneByte` (no character wider
    than a byte, the condition the third finding shows to be needed). `FollowInv`:
    applying the batch that is still pending to the buffer gives the text and its null
    byte. The core is `ChangeApplied`: line and character of a position give the
    offset the editor meant (`OffsetOfPosition`), and both splices, that of a first
    change and that of a later one, put the three pieces together to the same text.
  * `AddressesAgree` (`UriSpec => []SameDocument`), without conditions. A spelling is a
    row of pieces, each a character or an escape (`Pieced`); `decode` reads a row of
    pieces as its characters, from the last one on (`DecodePieces`), and `parse` finds
    the path behind `file://` since no piece holds a `?` or `#` (`ParseFile`).
  * `CompletionsReplaceWords` (`CompSpec => []WholeWordReplaced`), without conditions.
    The tokens of a line lie next to each other (`PlaceIs`), and the binary search finds
    the last that starts at or before a place: its bounds always have that token between
    them (`SearchFinds`). So the site is the word at the cursor or the marker before it
    (`WordTouchingIs`, `TargetIs`), and putting a text between the ends of the site is
    putting it in place of that token (`Spliced`). The invariant `WordInv` adds that an
    item is well typed through every provider, edit and resolve.
  * `ExpansionsKeepShape`, `HintsAreOfTheirFormals`, `HintsAreOfTheRange` (`AnnSpec =>
    []...`), without conditions. `AnnInv` says that an answer was drawn from the sheet
    the document has. Behind it: the smallest indent is one of a line of code
    (`MinIndentIs`); counting the ordered arguments before one gives its place, unless
    one was left empty or is a localparam (`OrderedHintsBind`); and the walk back from the
    start of a range ends too early only at a node inside another, of whichever text
    (`NodesInRange`).
* **DefinitionsProofs**: `LocationsAreCurrent`, `AllDefinitionsAreShown`,
  `DiagnosesAreComplete` (`DefSpec => []...`), without conditions beyond
  `DefAssumption` (headers are files, and a unit is a module, an interface or a
  package). None of the three is inductive: what a request answers comes out of caches
  that other requests and older texts have filled. The strengthening `DefInv` says how
  far a cache can be trusted: a tree is `Honest` if its buffers are revisions that
  existed and, should all of them be the latest, it is what the parser would make of
  its file now. A change of a text keeps every tree honest, those of the other
  documents too, since the revision grows (`HonestKept`); so `hasValidBuffers` lets
  through only trees equal to new ones (`TreeCurrent`), and after `getAnalysis` the
  document's analysis is of the latest texts (`GetAnalysis`), which the analyses of the
  other files leave so (`SearchedFiles`). `DiagnosesAreComplete` needs the worklist of
  `getDependentDocs` to end with nothing left open: `Worked` is its loop invariant
  (every known name is settled, every tree that is looked into is queued or done),
  and no file is loaded twice, so one pass per file empties the queue (`FewFiles`,
  `DependentDocs`).

Recursive functions and induction. The provers have no induction rule they can
instantiate, but a set of numbers has a least element (`Least`, from the library's
well-foundedness of `<`): the least counterexample gives induction for one fixed
formula at a time. That is how `EditingProofs` treats `FlattenSeq`, `decode` and the
applying of a batch; that the recursive equation has a solution is itself proved so
(`DecodesMore`, `FlattensMore`). The loops of `DefinitionsProofs` are treated alike
(`UpTo`, `TriesExist`, `PassesExist`, `VisitsExist`).

What the proofs changed in the model. `ChangeOne` of `TextSync` was a `CASE` whose
guards overlapped (a whole-document change behind one that had thrown met two of
them), so that it did not say which branch is taken; it is now the code's chain of
conditions. `Uri` had a table of escapes, which
is now the arithmetic of `to_hex` and `stoi`. The searches of `Definitions` were
`RECURSIVE` operators and folds; they are recursive functions with the loop's own
counter, and what the texts have to satisfy is stated (`DefAssumption`). The binary
search of `Tokens` ran over two variables and is now a function on pairs of them; the
snippets of `Completions` were folds and are recursive functions; the hints of a node
are sets, since no order of theirs matters; and the outline, which is walked by a
`RECURSIVE` operator, is a module of its own.

Only model-checked: the liveness properties (`RequestsAnswered`, `GoneNoticed`: out of
this prover's reach); those of `HeaderDiags` (not proved); `ShapeKept` (not proved) and
`SnippetWellFormed` of `Completions` (it needs that different numbers are written
differently, which no library says of `ToString`); those of `References`, which do not hold for every program
(section 4, `import p::c`) and are checked for the programs of the run; that of `Outline` and those of `SyntaxIndexer`,
`Hierarchy` and `Cones`, whose trees and designs are walked by `RECURSIVE` operators,
with which the prover cannot work.

## 6. Not modelled, and why

Name lookup, parsing, preprocessing and elaboration are slang's and external.
Protocol types are generated; formatting, Markdown, hovers (`DefinitionInfo.cpp`) and
the documentation of system tasks are text layout. Left out of modelled parts: the
lookup of struct and interface members, completions behind several dots, the offer of
`addDefine` (which reads the wording of a diagnostic; the command itself is in
`Session`), the path of a place in a file (`InstanceVisitor`), drive letters of
Windows, multi-dimensional instance arrays, nodes that begin in one text and end in
another (`Annotations`), and, in `Cones`, what flows through the arguments of a
subroutine: neither tracer follows a call, and the model has it as a mere read. The end of stdin, headers that do not
parse, and descriptor numbers are left out of `ServerThreads`; unanswered unknown
requests are in it and excluded from `RequestsAnswered`. The editor extensions are
separate programs.

## 7. Plan

Done, in this order: `DiagClient`, `ServerDriver`, `Indexer`, `ServerThreads`, each
with its proofs; `HeaderDiags`; `Session` with `ConfigFiles` and `LspMethods`; `TextSync`, `Uri`,
`Completions`, `Outline`, `Annotations`; `SyntaxIndexer`, `References`, `Hierarchy`, `Cones`,
`Definitions`; `MessageQueue` with the refinement; the proofs of `Session`, of what
`ServerDriver` and `Indexer` keep in step with the editor, of `TextSync`, `Uri`,
`Completions` and `Annotations`, and of `Definitions`.
Next:

1. `ShapeKept` of `Completions` for names and argument lists of any length.
2. An abstract specification of the display (for each file, the diagnostics of one
   buffer, replaced atomically), implemented by `ServerDriver`.
3. The diagnostics of headers within `ServerDriver`, with messages in flight, and their
   proofs.
4. Member lookups in `Definitions`; `import p::c` in `References` once the code has it.
