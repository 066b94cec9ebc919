---------------------------- MODULE MergedSettings ----------------------------
(* deep_merge (utils/config.py), which makes one dictionary of two for        *)
(* Configuration. It is a recursive operator and has a module of its own, so  *)
(* that Configuration and ClientLife need none.                               *)
EXTENDS Configuration

RECURSIVE MergeEntries(_, _)
MergeEntries(base, update) ==
    [key \in DOMAIN base \cup DOMAIN update |->
        CASE key \notin DOMAIN update -> base[key]
          [] key \notin DOMAIN base -> update[key]
          [] OTHER -> IF IsDict(base[key]) /\ IsDict(update[key])
                      THEN Dict(MergeEntries(base[key].dict, update[key].dict))
                      ELSE update[key]]
=============================================================================
