---------------------------- MODULE Capabilities ----------------------------
(* The capability mixins a client class is put together from (capability/ and *)
(* clients/deno/extension.py). A mixin is what it adds to a client:           *)
(*   section   the client capabilities its register_*_capability writes to    *)
(*   declares  the capabilities of that section it writes                     *)
(*   chains    whether it passes register_*_capability on to the next mixin   *)
(*   demands   the server capabilities check_server_capability asserts        *)
(*   hooks     the methods of the server it registers hooks for               *)
(*   calls     the calls it offers to users                                   *)
(* and a call is the request or notification it sends, whether a file is open *)
(* around it, and what it then does with every item of the answer, inside the *)
(* context of that file or after it. The parameters of a message and the      *)
(* shape of an answer are left out; so is apply_code_action.                  *)

None == "none"

Call(method, file, each, inside) ==
    [asks |-> method, file |-> file, each |-> each, inside |-> inside, notifies |-> FALSE]

(* A request about an open file; about no file; a notification.               *)
OnFile(method) == Call(method, TRUE, None, FALSE)
Plain(method) == Call(method, FALSE, None, FALSE)
Notice(method) == [Plain(method) EXCEPT !.notifies = TRUE]

(* A request about an open file whose items are each asked about: while the   *)
(* file is open, or after it is closed.                                       *)
EachInside(method, each) == Call(method, TRUE, each, TRUE)
EachAfter(method, each) == Call(method, TRUE, each, FALSE)

Mixin(section, declares, demands, hooks, calls) ==
    [section |-> section, declares |-> declares, chains |-> TRUE,
     demands |-> demands, hooks |-> hooks, calls |-> calls]

(* The three ways mixins are written: those that send, to a text document or  *)
(* to the workspace, and those that only listen.                              *)
Document(capability, provider, calls) ==
    Mixin("text_document", {capability}, {provider}, {}, calls)
Workspace(capability, demands, calls) ==
    Mixin("workspace", {capability}, demands, {}, calls)
Listener(section, declares, methods) == Mixin(section, declares, {}, methods, {})

-----------------------------------------------------------------------------
(* What a slip in the code would make of a mixin below: the variants TLC must *)
(* tell from the code. No specification uses them.                            *)

(* The mixin forgets super() in register_workspace_capability.                *)
UnchainedInlayHintRefresh ==
    [Listener("workspace", {"inlay_hint"}, {"workspace/inlayHint/refresh"})
        EXCEPT !.chains = FALSE]

(* The mixin advertises the refresh and registers no hook for it.             *)
UnhookedInlayHintRefresh == Listener("workspace", {"inlay_hint"}, {})

-----------------------------------------------------------------------------
(* capability/notification                                                    *)
(* Its notifications are for open_files and write_file to send.               *)
WithNotifyTextDocumentSynchronize ==
    Document("synchronization", "text_document_sync", {})

WithNotifyDidChangeConfiguration ==
    Workspace("did_change_configuration", {}, {Notice("workspace/didChangeConfiguration")})

WithNotifyDidChangeWorkspaceFolders ==
    Workspace("workspace_folders", {}, {Notice("workspace/didChangeWorkspaceFolders")})

WithNotifyDidCreateFiles ==
    Workspace("file_operations.did_create", {}, {Notice("workspace/didCreateFiles")})

WithNotifyDidRenameFiles ==
    Workspace("file_operations.did_rename", {}, {Notice("workspace/didRenameFiles")})

WithNotifyDidDeleteFiles ==
    Workspace("file_operations.did_delete", {}, {Notice("workspace/didDeleteFiles")})

-----------------------------------------------------------------------------
(* capability/request and capability/diagnostic                               *)
WithRequestCallHierarchy ==
    Document("call_hierarchy", "call_hierarchy_provider",
        {OnFile("textDocument/prepareCallHierarchy"),
         EachInside("textDocument/prepareCallHierarchy", "callHierarchy/incomingCalls"),
         EachInside("textDocument/prepareCallHierarchy", "callHierarchy/outgoingCalls")})

WithRequestTypeHierarchy ==
    Document("type_hierarchy", "type_hierarchy_provider",
        {OnFile("textDocument/prepareTypeHierarchy"),
         EachInside("textDocument/prepareTypeHierarchy", "typeHierarchy/supertypes"),
         EachInside("textDocument/prepareTypeHierarchy", "typeHierarchy/subtypes")})

WithRequestCodeAction ==
    Document("code_action", "code_action_provider",
        {OnFile("textDocument/codeAction"), Plain("codeAction/resolve")})

WithRequestCompletion ==
    Document("completion", "completion_provider",
        {OnFile("textDocument/completion"), Plain("completionItem/resolve"),
         EachAfter("textDocument/completion", "completionItem/resolve")})

WithRequestInlayHint ==
    Document("inlay_hint", "inlay_hint_provider",
        {OnFile("textDocument/inlayHint"), Plain("inlayHint/resolve"),
         EachAfter("textDocument/inlayHint", "inlayHint/resolve")})

(* The edit a rename returns is applied as one item, while the file is open.  *)
ApplyEdit == "apply_workspace_edit"

WithRequestRename ==
    Document("rename", "rename_provider",
        {OnFile("textDocument/prepareRename"), OnFile("textDocument/rename"),
         EachInside("textDocument/rename", ApplyEdit)})

WithRequestDeclaration ==
    Document("declaration", "declaration_provider", {OnFile("textDocument/declaration")})
WithRequestDefinition ==
    Document("definition", "definition_provider", {OnFile("textDocument/definition")})
WithRequestDocumentSymbol ==
    Document("document_symbol", "document_symbol_provider",
        {OnFile("textDocument/documentSymbol")})
WithRequestHover ==
    Document("hover", "hover_provider", {OnFile("textDocument/hover")})
WithRequestImplementation ==
    Document("implementation", "implementation_provider",
        {OnFile("textDocument/implementation")})
WithRequestInlineValue ==
    Document("inline_value", "inline_value_provider", {OnFile("textDocument/inlineValue")})
WithRequestReferences ==
    Document("references", "references_provider", {OnFile("textDocument/references")})
WithRequestSignatureHelp ==
    Document("signature_help", "signature_help_provider",
        {OnFile("textDocument/signatureHelp")})
WithRequestTypeDefinition ==
    Document("type_definition", "type_definition_provider",
        {OnFile("textDocument/typeDefinition")})
WithDocumentDiagnostic ==
    Document("diagnostic", "diagnostic_provider", {OnFile("textDocument/diagnostic")})

WithRequestExecuteCommand ==
    Workspace("execute_command", {"execute_command_provider"},
        {Plain("workspace/executeCommand")})
WithRequestWillCreateFiles ==
    Workspace("file_operations.will_create", {}, {Plain("workspace/willCreateFiles")})
WithRequestWillRenameFiles ==
    Workspace("file_operations.will_rename", {}, {Plain("workspace/willRenameFiles")})
WithRequestWillDeleteFiles ==
    Workspace("file_operations.will_delete", {}, {Plain("workspace/willDeleteFiles")})

(* The second call resolves only where WithRequestWorkspaceSymbolResolve is   *)
(* another mixin of the class.                                                *)
WithRequestWorkspaceSymbol ==
    Workspace("symbol", {"workspace_symbol_provider"},
        {Plain("workspace/symbol"),
         Call("workspace/symbol", FALSE, "workspaceSymbol/resolve", FALSE)})

(* register_workspace_capability returns without passing the call on.         *)
WithRequestWorkspaceSymbolResolve ==
    [Mixin("workspace", {}, {"workspace_symbol_provider.resolve_provider"}, {},
           {Plain("workspaceSymbol/resolve")})
        EXCEPT !.chains = FALSE]

WithWorkspaceDiagnostic ==
    Mixin("workspace", {"diagnostics"}, {"diagnostic_provider"},
        {"workspace/diagnostic/refresh"}, {Plain("workspace/diagnostic")})

-----------------------------------------------------------------------------
(* capability/server_notification and capability/server_request               *)
WithReceiveLogMessage == Listener("window", {}, {"window/logMessage"})
WithReceiveLogTrace == Listener("window", {}, {"$/logTrace"})
WithReceivePublishDiagnostics ==
    Listener("text_document", {"diagnostic"}, {"textDocument/publishDiagnostics"})
WithReceiveShowMessage == Listener("window", {"show_message"}, {"window/showMessage"})

WithRespondApplyEdit ==
    Listener("workspace", {"apply_edit", "workspace_edit"}, {"workspace/applyEdit"})
WithRespondConfigurationRequest ==
    Listener("workspace", {"configuration"}, {"workspace/configuration"})
WithRespondInlayHintRefresh ==
    Listener("workspace", {"inlay_hint"}, {"workspace/inlayHint/refresh"})
WithRespondRegisterCapability ==
    Listener(None, {}, {"client/registerCapability", "client/unregisterCapability"})
WithRespondShowDocumentRequest ==
    Listener("window", {"show_document"}, {"window/showDocument"})
WithRespondShowMessageRequest ==
    Listener("window", {"show_message"}, {"window/showMessageRequest"})
WithRespondWorkspaceFoldersRequest ==
    Listener("workspace", {"workspace_folders"}, {"workspace/workspaceFolders"})

-----------------------------------------------------------------------------
(* clients/deno/extension.py                                                  *)
Deno(methods) == Mixin(None, {}, {}, {}, {Plain(m) : m \in methods})

WithRequestDenoCache == Deno({"deno/cache"})
WithRequestDenoPerformance == Deno({"deno/performance"})
WithRequestDenoReloadImportRegistries == Deno({"deno/reloadImportRegistries"})
WithRequestDenoVirtualTextDocument == Deno({"deno/virtualTextDocument"})
WithRequestDenoTask == Deno({"deno/task"})

WithRequestDenoTestRun ==
    [Deno({"deno/testRun"})
        EXCEPT !.section = "experimental", !.declares = {"testingApi"}, !.chains = FALSE]
WithRequestDenoTestRunCancel == Deno({"deno/testRunCancel"})

WithReceiveDenoRegistryStatus == Listener(None, {}, {"deno/registryState"})
WithReceiveDenoTestModule == Listener(None, {}, {"deno/testModule"})
WithReceiveDenoTestModuleDelete == Listener(None, {}, {"deno/testModuleDelete"})
WithReceiveDenoTestRunProgress == Listener(None, {}, {"deno/testRunProgress"})
=============================================================================
