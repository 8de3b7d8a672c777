---- MODULE MCMargeStore ----
(* Instances of MargeStore for TLC. *)
EXTENDS MargeStore

MCKeys == {"tunein", "aux"}
MCSources == <<[id |-> 7, key |-> "tunein"], [id |-> NoID, key |-> "aux"]>>

(* Buttons 1 and 2 as copied from the speaker, or an empty list. *)
MCPresets == {<<>>, <<[id |-> 1, key |-> "tunein", loc |-> "a"], [id |-> 2, key |-> "aux", loc |-> "b"]>>}

(* Button numbers 0 to 3, the auto-numbered source and one that is unknown. *)
MCPresetRequests ==
  [num : {1, 3}, sid : {7}, loc : {"c"}] \cup
  {[num |-> 2, sid |-> 101, loc |-> "a"], [num |-> 0, sid |-> 7, loc |-> "c"], [num |-> 1, sid |-> 9, loc |-> "c"]}

(* Three recents, as many as are kept, and four, more than are kept. *)
MCRecents ==
  LET three == <<[id |-> 5, key |-> "tunein", loc |-> "a"],
                 [id |-> 2, key |-> "aux", loc |-> "a"],
                 [id |-> 3, key |-> "aux", loc |-> "b"]>>
  IN  {<<>>, three, Append(three, [id |-> 9, key |-> "tunein", loc |-> "b"])}

MCRecentRequests ==
  {[num |-> 0, sid |-> 7, loc |-> "a"], [num |-> 0, sid |-> 7, loc |-> "c"],
   [num |-> 0, sid |-> 101, loc |-> "b"], [num |-> 0, sid |-> 9, loc |-> "a"]}

NoRequests == {}
NoLists == {<<>>}
====
