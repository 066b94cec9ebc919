--------------------------- MODULE ClientClasses ---------------------------
(* The client classes of clients/: the mixins of each in the order of its     *)
(* method resolution, which is the order in which it lists them behind those  *)
(* every client has (client/abc.py). WithRespondRegisterCapability comes      *)
(* earlier in Python's order; it declares nothing, so its place is immaterial.*)
EXTENDS Capabilities, Sequences

Client(mixins) ==
    <<WithNotifyTextDocumentSynchronize>> \o mixins \o <<WithRespondRegisterCapability>>

(* What all of them listen to.                                                *)
Listeners ==
    <<WithReceiveLogMessage, WithReceiveLogTrace, WithReceivePublishDiagnostics,
      WithReceiveShowMessage, WithRespondConfigurationRequest,
      WithRespondInlayHintRefresh, WithRespondShowDocumentRequest,
      WithRespondShowMessageRequest, WithRespondWorkspaceFoldersRequest>>

PyrightClient == Client(
    <<WithNotifyDidChangeConfiguration, WithNotifyDidCreateFiles,
      WithNotifyDidRenameFiles, WithNotifyDidDeleteFiles, WithRequestCallHierarchy,
      WithRequestCodeAction, WithRequestCompletion, WithRequestDeclaration,
      WithRequestDefinition, WithRequestDocumentSymbol, WithRequestHover,
      WithRequestReferences, WithRequestRename, WithRequestSignatureHelp,
      WithRequestTypeDefinition, WithRequestWillCreateFiles, WithRequestWillRenameFiles,
      WithRequestWillDeleteFiles, WithRequestWorkspaceSymbol>> \o Listeners)

BasedpyrightClient == PyrightClient

GoplsClient == Client(
    <<WithNotifyDidChangeConfiguration, WithRequestCallHierarchy, WithRequestCodeAction,
      WithRequestCompletion, WithRequestDefinition, WithRequestDocumentSymbol,
      WithRequestHover, WithRequestImplementation, WithRequestInlayHint,
      WithRequestReferences, WithRequestSignatureHelp, WithRequestTypeDefinition,
      WithRequestTypeHierarchy, WithRequestWorkspaceSymbol>> \o Listeners)

JdtlsClient == Client(
    <<WithNotifyDidChangeConfiguration, WithRequestCallHierarchy, WithRequestCodeAction,
      WithRequestCompletion, WithRequestDefinition, WithRequestDocumentSymbol,
      WithRequestHover, WithRequestImplementation, WithRequestInlayHint,
      WithRequestReferences, WithRequestRename, WithRequestSignatureHelp,
      WithRequestTypeDefinition, WithRequestTypeHierarchy,
      WithRequestWorkspaceSymbol>> \o Listeners)

PyreflyClient == Client(
    <<WithNotifyDidChangeConfiguration, WithRequestCallHierarchy, WithRequestCodeAction,
      WithRequestCompletion, WithRequestDeclaration, WithRequestDefinition,
      WithRequestDocumentSymbol, WithRequestHover, WithRequestImplementation,
      WithRequestInlayHint, WithRequestReferences, WithRequestSignatureHelp,
      WithRequestTypeDefinition, WithRequestWorkspaceSymbol>> \o Listeners)

RustAnalyzerClient == Client(
    <<WithNotifyDidChangeConfiguration, WithNotifyDidCreateFiles,
      WithNotifyDidRenameFiles, WithNotifyDidDeleteFiles, WithRequestCallHierarchy,
      WithRequestCodeAction, WithRequestCompletion, WithRequestDeclaration,
      WithRequestDefinition, WithRequestDocumentSymbol, WithRequestHover,
      WithRequestImplementation, WithRequestInlayHint, WithDocumentDiagnostic,
      WithWorkspaceDiagnostic, WithRequestReferences, WithRequestSignatureHelp,
      WithRequestTypeDefinition, WithRequestWillCreateFiles, WithRequestWillRenameFiles,
      WithRequestWillDeleteFiles, WithRequestWorkspaceSymbol>> \o Listeners)

TyClient == Client(
    <<WithNotifyDidChangeConfiguration, WithRequestCodeAction, WithRequestCompletion,
      WithRequestDeclaration, WithRequestDefinition, WithRequestDocumentSymbol,
      WithRequestHover, WithRequestInlayHint, WithDocumentDiagnostic,
      WithRequestReferences, WithRequestSignatureHelp, WithRequestTypeDefinition,
      WithWorkspaceDiagnostic, WithRequestWorkspaceSymbol>> \o Listeners)

TypescriptClient == Client(
    <<WithNotifyDidChangeConfiguration, WithRequestCodeAction, WithRequestCompletion,
      WithRequestHover, WithRequestDefinition, WithRequestReferences,
      WithRequestImplementation, WithRequestTypeDefinition, WithRequestDocumentSymbol,
      WithRequestInlayHint, WithRequestSignatureHelp,
      WithRequestWorkspaceSymbol>> \o Listeners)

DenoClient == Client(
    <<WithNotifyDidChangeConfiguration, WithRequestCodeAction, WithRequestHover,
      WithRequestCompletion, WithRequestDefinition, WithRequestReferences,
      WithRequestImplementation, WithRequestTypeDefinition, WithRequestCallHierarchy,
      WithRequestDocumentSymbol, WithRequestInlayHint, WithDocumentDiagnostic,
      WithRequestSignatureHelp, WithRequestWorkspaceSymbol>> \o Listeners \o
    <<WithRequestDenoCache, WithRequestDenoPerformance,
      WithRequestDenoReloadImportRegistries, WithRequestDenoVirtualTextDocument,
      WithRequestDenoTask, WithRequestDenoTestRun, WithRequestDenoTestRunCancel,
      WithReceiveDenoRegistryStatus, WithReceiveDenoTestModule,
      WithReceiveDenoTestModuleDelete, WithReceiveDenoTestRunProgress>>)

Shipped ==
    [pyright |-> PyrightClient, basedpyright |-> BasedpyrightClient,
     gopls |-> GoplsClient, jdtls |-> JdtlsClient, pyrefly |-> PyreflyClient,
     rust_analyzer |-> RustAnalyzerClient, ty |-> TyClient,
     typescript |-> TypescriptClient, deno |-> DenoClient]
=============================================================================
