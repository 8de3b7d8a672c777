---- MODULE MCSharedStore ----
(* Instances of SharedStore for TLC. *)
EXTENDS SharedStore

(* One source with an id, two that are numbered. *)
MCKeys == {"tunein", "aux", "radio"}
MCSources == <<[id |-> 7, key |-> "tunein"], [id |-> NoID, key |-> "aux"], [id |-> NoID, key |-> "radio"]>>

(* Button 1 as copied from the speaker: button 3 needs padding. *)
MCPresets == {<<[id |-> 1, key |-> "tunein", loc |-> "a"]>>}

(* Button numbers 0 to 3; source 101 is the first numbered one. *)
MCPresetRequests ==
  {[num |-> 0, sid |-> 7, loc |-> "c"], [num |-> 1, sid |-> 7, loc |-> "c"],
   [num |-> 2, sid |-> 101, loc |-> "a"], [num |-> 3, sid |-> 7, loc |-> "c"]}

(* No recents, and one more than are kept. *)
MCRecents ==
  {<<>>, <<[id |-> 5, key |-> "tunein", loc |-> "a"], [id |-> 2, key |-> "aux", loc |-> "a"],
           [id |-> 3, key |-> "aux", loc |-> "b"], [id |-> 9, key |-> "tunein", loc |-> "b"]>>}

(* A new content, listed ones of both sources, and an unknown source. *)
MCRecentRequests ==
  {[num |-> 0, sid |-> 7, loc |-> "a"], [num |-> 0, sid |-> 7, loc |-> "c"],
   [num |-> 0, sid |-> 101, loc |-> "b"], [num |-> 0, sid |-> 9, loc |-> "a"]}

NoRequests == {}
NoLists == {<<>>}
====
