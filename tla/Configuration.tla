---------------------------- MODULE Configuration ----------------------------
(* ConfigurationMap (utils/config.py) and how a server comes to know it: the  *)
(* callback that WithRespondConfigurationRequest registers for every session  *)
(* (capability/server_request/configuration.py), the notification it sends    *)
(* (capability/notification/did_change_configuration.py), and the settings    *)
(* the server then asks for. A setting is a leaf of a tree of dictionaries.   *)
(* deep_merge is a recursive operator in MergedSettings and a constant here,  *)
(* of which only LatestSays needs to know anything (MergesDeeply).            *)
EXTENDS Integers, SequencesExt

CONSTANTS
    Updates,    \* the trees that update_global and add_scope are given
    Patterns,   \* the scopes they are added for
    Matching,   \* for every file the patterns that match it
    Paths,      \* the sections that are looked up
    DeepMerge(_, _)     \* deep_merge of the entries of two dictionaries

Files == DOMAIN Matching

(* "client" is the session itself, which applies the client's defaults.       *)
Updaters == {"client", "user"}

VARIABLES
    global_config,
    scoped_configs, \* the trees added for patterns, in order
    said,       \* history: the trees that update_global made global_config of
    callbacks,  \* the callbacks registered so far, one for every session
    notices,    \* for every updater, the callbacks its change has yet to call
    told,       \* the server has been told of a change and not asked yet
    asked,      \* its request for the settings: none, sent, or the answer to it
    known       \* the settings of every file as it knows them, or Nothing

configVars ==
    <<global_config, scoped_configs, said, callbacks, notices, told, asked, known>>

Leaf(value) == [leaf |-> value]
Dict(entries) == [dict |-> entries]
IsDict(tree) == DOMAIN tree = {"dict"}
Empty == Dict(<<>>)

ASSUME UpdatesAssumption == \A tree \in Updates : IsDict(tree)
ASSUME PathsAssumption == \A path \in Paths : path \in Seq(Range(path))

Nothing == [nothing |-> TRUE]
Request == [request |-> TRUE]

ConfigTypeOK ==
    /\ IsDict(global_config)
    /\ scoped_configs \in Seq([pattern : Patterns, config : Updates])
    /\ said \in Seq(Range(said)) /\ \A n \in DOMAIN said : IsDict(said[n])
    /\ callbacks \in Nat /\ notices \in [Updaters -> Nat] /\ told \in BOOLEAN

ConfigInit ==
    /\ global_config = Empty /\ scoped_configs = <<>> /\ said = <<Empty>>
    /\ callbacks = 0 /\ notices = [who \in Updaters |-> 0]
    /\ told = FALSE /\ asked = Nothing /\ known = Nothing

-----------------------------------------------------------------------------
(* What a slip in the code would make of an operator or action below: the     *)
(* variants TLC must tell from the code. No specification uses them.          *)

(* A scope is added and nobody called.                                        *)
AddScopeQuietly(pattern, config) ==
    /\ scoped_configs' = Append(scoped_configs, [pattern |-> pattern, config |-> config])
    /\ UNCHANGED <<global_config, said, callbacks, notices, told, asked, known>>

(* Dictionaries in dictionaries are replaced as a whole.                      *)
ShallowMerge(base, update) == Dict(update.dict @@ base.dict)

-----------------------------------------------------------------------------
Merge(base, update) == Dict(DeepMerge(base.dict, update.dict))

(* What deep_merge makes of the dictionaries among some trees: of a key that  *)
(* both have the update's value, unless both have a dictionary there.         *)
MergesDeeply(trees) ==
    \A base, update \in trees :
        IsDict(base) /\ IsDict(update) =>
            DeepMerge(base.dict, update.dict) =
                [key \in DOMAIN base.dict \cup DOMAIN update.dict |->
                    CASE key \notin DOMAIN update.dict -> base.dict[key]
                      [] key \notin DOMAIN base.dict -> update.dict[key]
                      [] OTHER ->
                            IF IsDict(base.dict[key]) /\ IsDict(update.dict[key])
                            THEN Dict(DeepMerge(base.dict[key].dict, update.dict[key].dict))
                            ELSE update.dict[key]]

(* Trees of which every part and what merging makes of two is among them.     *)
Closed(trees) ==
    /\ Updates \cup {Empty} \subseteq trees /\ Nothing \notin trees
    /\ \A tree \in trees :
          IsDict(tree) => \A key \in DOMAIN tree.dict : tree.dict[key] \in trees
    /\ \A base, update \in trees :
          IsDict(base) /\ IsDict(update) => Dict(DeepMerge(base.dict, update.dict)) \in trees

(* ConfigurationMap.get of all sections: the trees whose pattern matches, in  *)
(* the order they were added, over the global one.                            *)
Applies(scope, file) == scope.pattern \in Matching[file]

Get(file) ==
    LET final_config[n \in 0 .. Len(scoped_configs)] ==
            IF n = 0 THEN global_config
            ELSE IF Applies(scoped_configs[n], file)
                 THEN Merge(final_config[n - 1], scoped_configs[n].config)
                 ELSE final_config[n - 1] IN
    final_config[Len(scoped_configs)]

Settings == [settings |-> [file \in Files |-> Get(file)]]

-----------------------------------------------------------------------------
(* A change is made at once, and a task started for every callback.           *)
NotifyChange(who) == notices' = [notices EXCEPT ![who] = @ + callbacks]

UpdateGlobal(who, config, merge) ==
    /\ global_config' = IF merge THEN Merge(global_config, config) ELSE config
    /\ said' = IF merge THEN Append(said, config) ELSE <<config>>
    /\ NotifyChange(who)
    /\ UNCHANGED <<scoped_configs, callbacks, told, asked, known>>

AddScope(pattern, config) ==
    /\ scoped_configs' = Append(scoped_configs, [pattern |-> pattern, config |-> config])
    /\ NotifyChange("user")
    /\ UNCHANGED <<global_config, said, callbacks, told, asked, known>>

(* The hooks of a session with a server that knows nothing yet are registered,*)
(* and one more callback with them; those of earlier sessions stay.           *)
Register ==
    /\ callbacks' = callbacks + 1
    /\ told' = FALSE /\ asked' = Nothing /\ known' = Nothing
    /\ UNCHANGED <<global_config, scoped_configs, said, notices>>

(* A task of the group sends its notification.                                *)
SendNotice(who) ==
    /\ notices[who] > 0
    /\ notices' = [notices EXCEPT ![who] = @ - 1]
    /\ told' = TRUE
    /\ UNCHANGED <<global_config, scoped_configs, said, callbacks, asked, known>>

(* One cannot, or its time is over: the group cancels the others, and the     *)
(* change raises.                                                             *)
Withdraw(who) ==
    /\ notices' = [notices EXCEPT ![who] = 0]
    /\ UNCHANGED <<global_config, scoped_configs, said, callbacks, told, asked, known>>

NoticeFails(who) == notices[who] > 0 /\ Withdraw(who)

(* The server asks for the settings of all files, first of its own accord and *)
(* then when it has been told of a change.                                    *)
ServerAsks ==
    /\ told \/ known = Nothing
    /\ asked = Nothing
    /\ told' = FALSE
    /\ asked' = Request
    /\ UNCHANGED <<global_config, scoped_configs, said, callbacks, notices, known>>

(* respond_configuration_request: nothing is awaited between two items.       *)
RespondConfiguration ==
    /\ asked = Request
    /\ asked' = Settings
    /\ UNCHANGED <<global_config, scoped_configs, said, callbacks, notices, told, known>>

ServerLearns ==
    /\ asked \notin {Nothing, Request}
    /\ known' = asked
    /\ asked' = Nothing
    /\ UNCHANGED <<global_config, scoped_configs, said, callbacks, notices, told>>

-----------------------------------------------------------------------------
(* What merged trees are to say: of every path what the last tree says of it. *)

(* deep_get: the trees on the way down a path, Nothing where it leaves them.  *)
Along(tree, path) ==
    LET sub[n \in 0 .. Len(path)] ==
            IF n = 0 THEN tree
            ELSE IF IsDict(sub[n - 1]) /\ path[n] \in DOMAIN sub[n - 1].dict
                 THEN sub[n - 1].dict[path[n]]
                 ELSE Nothing IN
    sub

At(tree, path) == Along(tree, path)[Len(path)]

IsLeaf(tree) == tree # Nothing /\ ~ IsDict(tree)

LeafOf(tree, path) == IF IsLeaf(At(tree, path)) THEN At(tree, path) ELSE Nothing

(* A leaf where a path goes on says that there is nothing behind it.          *)
Speaks(tree, path) ==
    At(tree, path) # Nothing \/ \E n \in 0 .. Len(path) : IsLeaf(Along(tree, path)[n])

LastSaid(trees, path) ==
    LET speakers == {n \in DOMAIN trees : Speaks(trees[n], path)} IN
    IF speakers = {} THEN Nothing ELSE LeafOf(trees[Max(speakers)], path)

(* The trees that are merged for a file; a scope of others says nothing.      *)
SaidFor(file) ==
    said \o [n \in DOMAIN scoped_configs |->
                IF Applies(scoped_configs[n], file) THEN scoped_configs[n].config ELSE Empty]

(* README.md:132 "allowing you to override specific sub-keys without losing   *)
(* the rest": whatever updates and scopes were merged, in whatever order, a   *)
(* setting is the last that any of them made it for that file.                *)
LatestSays ==
    \A file \in Files :
        LET merged == Get(file) IN
        \A path \in Paths : LeafOf(merged, path) = LastSaid(SaidFor(file), path)
=============================================================================
