----------------------------- MODULE LspMethods -----------------------------
(***************************************************************************)
(* The methods LspServer.h can register, by section of that file, and the  *)
(* requests a client may send on the strength of a server capability.      *)
(* LspServer.h has, for each method, a virtual handler that answers with   *)
(* nothing and a register function that enters the handler under the       *)
(* method's name, among the requests or among the notifications.           *)
(***************************************************************************)

\* Requests about the workspace as a whole.
WorkspaceRequests == {
  "workspaceSymbol/resolve", "workspace/willRenameFiles", "workspace/willDeleteFiles",
  "workspace/willCreateFiles", "workspace/textDocumentContent", "workspace/symbol",
  "workspace/executeCommand"}

\* Notifications about the workspace, its diagnostics and its progress.
WorkspaceNotifications == {
  "workspace/didRenameFiles", "workspace/didDeleteFiles", "workspace/didCreateFiles",
  "workspace/didChangeWorkspaceFolders", "workspace/didChangeWatchedFiles",
  "workspace/didChangeConfiguration", "window/workDoneProgress/cancel"}

\* Requests on types, saving, tokens and ranges of a document.
TypeAndTokenRequests == {
  "workspace/diagnostic", "typeHierarchy/supertypes", "typeHierarchy/subtypes",
  "textDocument/willSaveWaitUntil", "textDocument/typeDefinition",
  "textDocument/signatureHelp", "textDocument/semanticTokens/range",
  "textDocument/semanticTokens/full/delta", "textDocument/semanticTokens/full",
  "textDocument/selectionRange", "textDocument/rename", "textDocument/references"}

\* Requests that format, prepare or show something inside a document.
FormatAndHintRequests == {
  "textDocument/rangesFormatting", "textDocument/rangeFormatting",
  "textDocument/prepareTypeHierarchy", "textDocument/prepareRename",
  "textDocument/prepareCallHierarchy", "textDocument/onTypeFormatting",
  "textDocument/moniker", "textDocument/linkedEditingRange", "textDocument/inlineValue",
  "textDocument/inlineCompletion", "textDocument/inlayHint"}

\* Requests that look at a document.
DocumentRequests == {
  "textDocument/implementation", "textDocument/hover", "textDocument/formatting",
  "textDocument/foldingRange", "textDocument/documentSymbol", "textDocument/documentLink",
  "textDocument/documentHighlight", "textDocument/documentColor"}

\* The life of a document in the editor.
DocumentNotifications == {
  "textDocument/willSave", "textDocument/didSave", "textDocument/didOpen",
  "textDocument/didClose", "textDocument/didChange"}

\* Requests at a position, and the ones that act on it.
PositionRequests == {
  "textDocument/diagnostic", "textDocument/definition", "textDocument/declaration",
  "textDocument/completion", "textDocument/colorPresentation", "textDocument/codeLens",
  "textDocument/codeAction", "shutdown"}

\* Notebooks and the handshake.
NotebookAndLifeNotifications == {
  "notebookDocument/didSave", "notebookDocument/didOpen", "notebookDocument/didClose",
  "notebookDocument/didChange", "initialized", "exit"}

\* Requests that complete an earlier answer.
ResolveRequests == {
  "inlayHint/resolve", "initialize", "documentLink/resolve", "completionItem/resolve",
  "codeLens/resolve", "codeAction/resolve", "callHierarchy/outgoingCalls",
  "callHierarchy/incomingCalls"}

\* Notifications of the protocol itself.
ProtocolNotifications == {"$/setTrace", "$/progress", "$/cancelRequest"}

RequestMethods ==
  WorkspaceRequests \cup TypeAndTokenRequests \cup FormatAndHintRequests
  \cup DocumentRequests \cup PositionRequests \cup ResolveRequests

NotificationMethods ==
  WorkspaceNotifications \cup DocumentNotifications \cup NotebookAndLifeNotifications
  \cup ProtocolNotifications

\* The fields of ServerCapabilities and, for each, what a client may send when
\* the server sets it. Resolving has a field of its own inside the options.
CapabilityMethods == [
  textDocumentSync            |-> DocumentNotifications \ {"textDocument/willSave"},
  notebookDocumentSync        |-> {"notebookDocument/didSave", "notebookDocument/didOpen",
                                   "notebookDocument/didClose", "notebookDocument/didChange"},
  completionProvider          |-> {"textDocument/completion"},
  completionResolve           |-> {"completionItem/resolve"},
  hoverProvider               |-> {"textDocument/hover"},
  signatureHelpProvider       |-> {"textDocument/signatureHelp"},
  declarationProvider         |-> {"textDocument/declaration"},
  definitionProvider          |-> {"textDocument/definition"},
  typeDefinitionProvider      |-> {"textDocument/typeDefinition"},
  implementationProvider      |-> {"textDocument/implementation"},
  referencesProvider          |-> {"textDocument/references"},
  documentHighlightProvider   |-> {"textDocument/documentHighlight"},
  documentSymbolProvider      |-> {"textDocument/documentSymbol"},
  codeActionProvider          |-> {"textDocument/codeAction"},
  codeLensProvider            |-> {"textDocument/codeLens"},
  documentLinkProvider        |-> {"textDocument/documentLink"},
  documentLinkResolve         |-> {"documentLink/resolve"},
  colorProvider               |-> {"textDocument/documentColor",
                                   "textDocument/colorPresentation"},
  workspaceSymbolProvider     |-> {"workspace/symbol"},
  documentFormattingProvider  |-> {"textDocument/formatting"},
  documentRangeFormattingProvider  |-> {"textDocument/rangeFormatting"},
  documentOnTypeFormattingProvider |-> {"textDocument/onTypeFormatting"},
  renameProvider              |-> {"textDocument/rename"},
  foldingRangeProvider        |-> {"textDocument/foldingRange"},
  selectionRangeProvider      |-> {"textDocument/selectionRange"},
  executeCommandProvider      |-> {"workspace/executeCommand"},
  callHierarchyProvider       |-> {"textDocument/prepareCallHierarchy",
                                   "callHierarchy/incomingCalls",
                                   "callHierarchy/outgoingCalls"},
  linkedEditingRangeProvider  |-> {"textDocument/linkedEditingRange"},
  semanticTokensProvider      |-> {"textDocument/semanticTokens/full"},
  monikerProvider             |-> {"textDocument/moniker"},
  typeHierarchyProvider       |-> {"textDocument/prepareTypeHierarchy",
                                   "typeHierarchy/supertypes", "typeHierarchy/subtypes"},
  inlineValueProvider         |-> {"textDocument/inlineValue"},
  inlayHintProvider           |-> {"textDocument/inlayHint"},
  inlayHintResolve            |-> {"inlayHint/resolve"},
  diagnosticProvider          |-> {"textDocument/diagnostic", "workspace/diagnostic"},
  inlineCompletionProvider    |-> {"textDocument/inlineCompletion"}]
=============================================================================
