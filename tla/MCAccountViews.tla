---- MODULE MCAccountViews ----
(* Instances of AccountViews for TLC: one source, one list to start from. *)
EXTENDS AccountViews

MCKeys == {"tunein"}
MCSources == <<[id |-> 7, key |-> "tunein"]>>
OnePreset == {<<[id |-> 1, key |-> "tunein", loc |-> "a"]>>}
OneRecent == {<<[id |-> 2, key |-> "tunein", loc |-> "a"]>>}
MCPresetRequests == {[num |-> 1, sid |-> 7, loc |-> "b"]}
MCRecentRequests == {[num |-> 0, sid |-> 7, loc |-> "b"]}
====
