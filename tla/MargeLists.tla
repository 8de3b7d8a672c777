----------------------------- MODULE MargeLists -----------------------------
(***************************************************************************)
(* The list algorithms of the marge service: how the sources of an account *)
(* get their ids, which source a request means, and what one "update       *)
(* preset" and one "add recent" make of the list that was read.            *)
(*                                                                         *)
(* A stored preset or recent is an Item: its id (0 is the empty attribute),*)
(* the key of its source (source type and source account, which the code   *)
(* always compares together) and its location.  Names, types, art and      *)
(* timestamps are carried along by the code and decide nothing, so they    *)
(* are left out.  The source id of a request is not an Item field: the     *)
(* datastore neither writes nor reads it back.                             *)
(***************************************************************************)
EXTENDS Naturals, Sequences, FiniteSets

CONSTANTS
  Keys,          \* source keys: (SourceKeyType, SourceKeyAccount) pairs
  Locs,          \* content locations
  FirstAutoID,   \* first id given to a source without one: 100001
  MaxRecents     \* length the recents are cut to when one is added: 10

ASSUME MargeAssumption ==
  /\ FirstAutoID \in Nat \ {0}
  /\ MaxRecents \in Nat \ {0}

NoID  == 0       \* an empty id attribute
NoKey == ""
NoLoc == ""

Item == [id : Nat, key : Keys \cup {NoKey}, loc : Locs \cup {NoLoc}]

(* Faulty variant: padding without a location. *)
PaddingWithoutLoc == [id |-> NoID, key |-> NoKey]

EmptyPreset == [id |-> NoID, key |-> NoKey, loc |-> NoLoc]

-----------------------------------------------------------------------------
(* GetConfiguredSources numbers the sources that have no id, in file order. *)
GetConfiguredSources(xml) ==
  [i \in 1 .. Len(xml) |->
     [id  |-> IF xml[i].id = NoID
              THEN FirstAutoID + Cardinality({j \in 1 .. i - 1 : xml[j].id = NoID})
              ELSE xml[i].id,
      key |-> xml[i].key]]

(* The positions whose source carries the requested id. *)
SourcesWithID(sources, sid) == {i \in 1 .. Len(sources) : sources[i].id = sid}

(* The lowest of a set of positions: the loops stop at the first match. *)
First(S) == CHOOSE i \in S : \A j \in S : i <= j

(* matchingSrc: the key of the first source with the requested id. *)
MatchingKey(sources, sid) == sources[First(SourcesWithID(sources, sid))].key

-----------------------------------------------------------------------------
(* Faulty variant: the number is taken for an index from 0. *)
UpdatedPresetsFromZero(presets, n, preset) ==
  [i \in 1 .. (IF n + 1 > Len(presets) THEN n + 1 ELSE Len(presets)) |->
     IF i = n + 1 THEN preset
     ELSE IF i <= Len(presets) THEN presets[i]
     ELSE EmptyPreset]

(* UpdatePreset on the list it read: pad with empty presets up to button n, *)
(* then overwrite position n.                                               *)
UpdatedPresets(presets, n, preset) ==
  [i \in 1 .. (IF n > Len(presets) THEN n ELSE Len(presets)) |->
     IF i = n THEN preset
     ELSE IF i <= Len(presets) THEN presets[i]
     ELSE EmptyPreset]

(* The positions of the recents that a request for (key, loc) would touch. *)
SameContent(recents, key, loc) ==
  {i \in 1 .. Len(recents) : recents[i].key = key /\ recents[i].loc = loc}

(* append(recents[:i], recents[i+1:]...): the list without position i. *)
Without(recents, i) ==
  [j \in 1 .. Len(recents) - 1 |-> IF j < i THEN recents[j] ELSE recents[j + 1]]

(* What &recents[i] points at once that append has shifted the tail down in *)
(* the array it shares with recents.                                        *)
ShiftedInto(recents, i) ==
  IF i < Len(recents) THEN recents[i + 1] ELSE recents[i]

(* The recents in front of which `front` is put. *)
Prepend(front, recents) ==
  [j \in 1 .. Len(recents) + 1 |-> IF j = 1 THEN front ELSE recents[j - 1]]

(* "Move to front" in one expression that both reads *recentObj and shifts  *)
(* the array under it.  Go does not say which of the two comes first, so    *)
(* either may: the front is the touched recent, or what was shifted into    *)
(* its place.                                                               *)
MovedToFront(recents, i) ==
  {Prepend(front, Without(recents, i)) : front \in {recents[i], ShiftedInto(recents, i)}}

(* Faulty variant: the length is taken for the largest id. *)
NextRecentIDByLength(recents) == Len(recents) + 1

(* The next free id: one more than the largest. *)
NextRecentID(recents) ==
  1 + (CHOOSE m \in {0} \cup {recents[i].id : i \in 1 .. Len(recents)} :
         \A i \in 1 .. Len(recents) : recents[i].id <= m)

(* The new recent of a request nothing in the list matches. *)
NewRecent(recents, key, loc) == [id |-> NextRecentID(recents), key |-> key, loc |-> loc]

(* Faulty variant: the list is not cut. *)
InsertedUncut(recents, recent) == Prepend(recent, recents)

(* The new recent goes in front and only this path cuts the list. *)
Inserted(recents, recent) ==
  LET longer == Prepend(recent, recents)
  IN  [j \in 1 .. (IF Len(longer) > MaxRecents THEN MaxRecents ELSE Len(longer)) |-> longer[j]]

=============================================================================
