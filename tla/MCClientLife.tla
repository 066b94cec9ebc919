---------------------------- MODULE MCClientLife ----------------------------
(* An instance of ClientLife for TLC, which merges dictionaries as deep_merge *)
(* does.                                                                      *)
EXTENDS ClientLife, MergedSettings

CONSTANTS source, tests, everywhere

(* Settings a and b of a section, another section, and a section that is no   *)
(* dictionary.                                                                *)
A == Dict([section |-> Dict([a |-> Leaf(1)])])
AB == Dict([section |-> Dict([a |-> Leaf(2), b |-> Leaf(2)])])
Other == Dict([other |-> Leaf(3)])
Flat == Dict([section |-> Leaf(4)])

MCUpdates == {A, AB, Other, Flat}
MCPatterns == {everywhere, tests}
MCMatching == [file \in {source, tests} |-> {everywhere, file} \cap MCPatterns]
MCPaths == {<<"section">>, <<"section", "a">>, <<"section", "b">>, <<"other">>}

(* The trees that merging can make of these are what the theorem about        *)
(* LatestSays supposes of trees.                                              *)
MCSections ==
    {Dict([a |-> Leaf(1)]), Dict([a |-> Leaf(2), b |-> Leaf(2)]),
     Dict([a |-> Leaf(1), b |-> Leaf(2)])}
MCTrees ==
    {Leaf(value) : value \in 1 .. 4} \cup
    {Dict([key \in {k \in DOMAIN entries : entries[k] # Nothing} |-> entries[key]]) :
        entries \in [a : {Nothing, Leaf(1), Leaf(2)}, b : {Nothing, Leaf(2)},
                     section : {Nothing, Leaf(4)} \cup MCSections,
                     other : {Nothing, Leaf(3)}]}

ASSUME TreesClosed == Closed(MCTrees) /\ MergesDeeply(MCTrees)

(* A machine that has everything.                                             *)
Machine ==
    [onPath |-> TRUE, spawns |-> TRUE, installer |-> "installs", mayInstall |-> TRUE,
     containers |-> TRUE, backendOnPath |-> TRUE, backendSpawns |-> TRUE,
     arguments |-> TRUE, given |-> "runs"]

Life(arg, m, entries, followed, defaults, changes, updates) ==
    [argument |-> arg, machine |-> m, entries |-> entries,
     followed |-> followed, blocked |-> FALSE, defaults |-> defaults, changes |-> changes,
     updates |-> updates]

(* Every selection; sessions one after the other on a server that is new each *)
(* time, on one that an installer brings, and on one that the user gives; the *)
(* same with changes of the configuration, which the server may not take in   *)
(* time; and changes alone.                                                   *)
Selections == {Life(arg, m, 1, FALSE, {}, 0, {}) : arg \in S!Arguments, m \in S!Machines}
Sessions ==
    {Life("given", Machine, 2, TRUE, {}, 0, {}),
     Life("local", [Machine EXCEPT !.onPath = FALSE], 2, TRUE, {}, 0, {})}
Synchronised ==
    {Life("local", Machine, 2, TRUE, {AB}, 1, {<<A, "replace">>, <<A, tests>>})}
Blocked ==
    {[Life("local", Machine, 1, TRUE, {AB}, 1, {<<A, "replace">>}) EXCEPT !.blocked = TRUE]}
Changed == {Life("none", Machine, 0, FALSE, {}, 3, MCUpdates \X Ways)}

MCLives == Selections \cup Sessions \cup Synchronised \cup Blocked \cup Changed
=============================================================================
