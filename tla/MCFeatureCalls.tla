--------------------------- MODULE MCFeatureCalls ---------------------------
(* The shipped client classes, and one of the mixins they leave out.          *)
EXTENDS FeatureCallsProofs, TLC

(* A class with mixins no shipped client has, and with a call of every shape; *)
(* the resolving mixin, which ends the chain of its section, is the last.     *)
MCEditor == Client(
    <<WithRespondApplyEdit, WithRequestExecuteCommand, WithRequestInlineValue,
      WithRequestHover, WithRequestRename, WithRequestCallHierarchy,
      WithRequestCompletion, WithNotifyDidChangeWorkspaceFolders,
      WithRequestWorkspaceSymbol>> \o Listeners \o <<WithRequestWorkspaceSymbolResolve>>)

(* Calls that leave a file alone while another opens it and calls that do not,*)
(* where reads fail, and where didOpens fail too.                             *)
MCRegimes ==
    {[overlap |-> o, failures |-> F, writers |-> {}, reentries |-> 0] :
        o \in BOOLEAN, F \in {{"read"}, {"read", "open"}}}

MCClasses == Shipped @@ [editor |-> MCEditor]

(* They are what the theorems about the handshake suppose of a class.         *)
ASSUME ClassesComposed ==
    \A c \in DOMAIN MCClasses :
        Composed(MCClasses[c]) /\ ResolveBehind(MCClasses[c]) /\ Paired(MCClasses[c])
=============================================================================
