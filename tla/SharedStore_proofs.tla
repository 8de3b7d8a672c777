------------------------- MODULE SharedStore_proofs --------------------------
(***************************************************************************)
(* Proofs about SharedStore: the Go and the Python service on one pair of  *)
(* files.  A step of Go is a step of MargeStore, so its lemmas are reused; *)
(* what is new is what Python computes.                                    *)
(***************************************************************************)
EXTENDS SharedStore, MargeStore_proofs

(* The steps in which Python computes, and not only saves. *)
PyStep(c) == PyReject(c) \/ PyUpdatePreset(c) \/ PyAddNewRecent(c) \/ PyTouchRecent(c)

(* Every step is one of the Go service's or one of these. *)
LEMMA SharedSteps ==
  ASSUME [SharedNext]_sharedVars
  PROVE  [StoreNext]_storeVars \/ \E c \in PyClients : PyStep(c)
<1>1. CASE CrashBoth
  BY <1>1 DEF CrashBoth, StoreNext
<1>2. ASSUME NEW c \in Clients, (Receive(c) \/ Prepare(c)) \/ Save(c) \/ SaveAborted(c)
      PROVE  ClientStep(c) \/ (c \in PyClients /\ PyStep(c))
  BY <1>2 DEF Receive, PyAccept, Prepare, Save, SaveAborted, ClientStep, PyStep
<1>3. CASE UNCHANGED sharedVars
  BY <1>3 DEF sharedVars
<1> QED
  BY <1>1, <1>2, <1>3 DEF SharedNext, StoreNext

-----------------------------------------------------------------------------
(* Types.                                                                  *)

(* Python replaces a position that exists: the list keeps its length, its  *)
(* buttons keep their places, and one button plays something else.         *)
LEMMA PyReplacedFacts ==
  ASSUME NEW l \in Seq(Item), NEW n \in 1 .. Len(l), NEW p \in Item
  PROVE  LET u == PyReplaced(l, n, p) IN
         /\ u \in Seq(Item) /\ Len(u) = Len(l)
         /\ \A i \in 1 .. Len(l) : u[i] = IF i = n THEN p ELSE l[i]
  BY DEF PyReplaced

LEMMA PyReplacedKeeps ==
  ASSUME NEW l \in Seq(Item), NEW n \in 1 .. Len(l), NEW p \in Item, p.id = n
  PROVE  LET u == PyReplaced(l, n, p) IN
         /\ InPlace(l) => InPlace(u)
         /\ \A m \in Nat \ {0} : LocAt(u, m) = IF m = n THEN p.loc ELSE LocAt(l, m)
<1> DEFINE u == PyReplaced(l, n, p)
<1>1. /\ u \in Seq(Item) /\ Len(u) = Len(l)
      /\ \A i \in 1 .. Len(l) : u[i] = IF i = n THEN p ELSE l[i]
  BY PyReplacedFacts
<1> HIDE DEF u
<1>2. InPlace(l) => InPlace(u)
  BY <1>1 DEF InPlace
<1>3. \A m \in Nat \ {0} : LocAt(u, m) = IF m = n THEN p.loc ELSE LocAt(l, m)
  BY <1>1 DEF LocAt
<1> QED
  BY <1>2, <1>3 DEF u

(* Python indexes the presets by number - 1, and a number of 0 would be    *)
(* the last button: requests that reach it have positive numbers.          *)
PyNumbered ==
  \A c \in PyClients : pc[c] # "idle" /\ req[c].kind = "presets" => req[c].num > 0

LEMMA PyNumberedNext ==
  ASSUME TypeOK, PyNumbered, [SharedNext]_sharedVars
  PROVE  PyNumbered'
<1>c. PyClients \subseteq Clients
  BY SharedAssumption
<1>1. CASE CrashBoth
  BY <1>1, <1>c DEF CrashBoth, Crash, PyNumbered
<1>2. ASSUME NEW c \in Clients, Receive(c)
      PROVE  PyNumbered'
  <2>1. CASE c \in PyClients
    <3>1. CASE \E r \in PresetRequests : r.num > 0 /\ Accept(c, "presets", r)
      BY <3>1, <1>c DEF Accept, PyNumbered, TypeOK
    <3>2. CASE \E r \in RecentRequests : Accept(c, "recents", r)
      BY <3>2, <1>c DEF Accept, PyNumbered, TypeOK
    <3> QED
      BY <1>2, <2>1, <3>1, <3>2 DEF Receive, PyAccept
  <2>2. CASE c \notin PyClients
    BY <1>2, <2>2, <1>c DEF Receive, Accept, PyNumbered, TypeOK
  <2> QED
    BY <2>1, <2>2
<1>3. ASSUME NEW c \in Clients, Finish(c)
      PROVE  PyNumbered'
  BY <1>3, <1>c DEF Finish, PyNumbered, TypeOK
<1>4. ASSUME NEW c \in Clients, pc' = [pc EXCEPT ![c] = "idle"], req' = [req EXCEPT ![c] = Idle]
      PROVE  PyNumbered'
  BY <1>4, <1>c DEF PyNumbered, TypeOK
<1>5. ASSUME NEW c \in Clients, UNCHANGED req, pc[c] # "idle", NEW at, pc' = [pc EXCEPT ![c] = at]
      PROVE  PyNumbered'
  BY <1>5, <1>c DEF PyNumbered, TypeOK
<1>6. ASSUME NEW c \in Clients, Prepare(c)
      PROVE  PyNumbered'
  <2>1. CASE Reject(c) \/ PyReject(c)
    BY <2>1, <1>3 DEF Reject, PyReject
  <2>2. CASE UpdatePreset(c) \/ AddNewRecent(c) \/ TouchRecent(c)
    BY <2>2, <1>5 DEF UpdatePreset, AddNewRecent, TouchRecent
  <2>3. CASE PyUpdatePreset(c) \/ PyAddNewRecent(c) \/ PyTouchRecent(c)
    BY <2>3, <1>5 DEF PyUpdatePreset, PyAddNewRecent, PyTouchRecent
  <2> QED
    BY <1>6, <2>1, <2>2, <2>3 DEF Prepare
<1>7. ASSUME NEW c \in Clients, Save(c) \/ SaveAborted(c)
      PROVE  PyNumbered'
  <2>1. CASE Truncate(c)
    BY <2>1, <1>5 DEF Truncate
  <2>2. CASE Write(c)
    BY <2>2, <1>4 DEF Write
  <2>3. CASE SaveFails(c)
    BY <2>3, <1>3 DEF SaveFails
  <2> QED
    BY <1>7, <2>1, <2>2, <2>3 DEF Save, SaveAborted
<1>8. CASE UNCHANGED sharedVars
  BY <1>8 DEF sharedVars, storeVars, PyNumbered
<1> QED
  BY <1>1, <1>2, <1>6, <1>7, <1>8 DEF SharedNext

(* What Python's update_preset puts into the list, and where. *)
PyPreset(c) == [id |-> req[c].num, key |-> MatchingKey(Sources, req[c].sid), loc |-> req[c].loc]

LEMMA PyUpdateFacts ==
  ASSUME TypeOK, PyNumbered, NEW c \in PyClients, PyUpdatePreset(c)
  PROVE  /\ SourcesWithID(Sources, req[c].sid) # {}
         /\ file["presets"].readable
         /\ file["presets"].list \in Seq(Item)
         /\ req[c].num \in 1 .. Len(file["presets"].list)
         /\ PyPreset(c) \in Item /\ PyPreset(c).id = req[c].num /\ PyPreset(c).loc = req[c].loc
         /\ draft' = [draft EXCEPT ![c] = PyReplaced(file["presets"].list, req[c].num, PyPreset(c))]
         /\ result' = [result EXCEPT ![c] = PyPreset(c)]
<1>0. c \in Clients /\ "presets" \in Kinds
  BY SharedAssumption DEF Kinds
<1>1. /\ SourcesWithID(Sources, req[c].sid) # {}
      /\ file["presets"].readable
      /\ ~(req[c].num > Len(file["presets"].list))
      /\ req[c].num > 0
  BY DEF PyUpdatePreset, PyRejected, PyReads, PyNumbered
<1>2. file["presets"].list \in Seq(Item) /\ req[c].num \in Nat /\ req[c].loc \in Locs \cup {NoLoc}
  BY <1>0 DEF TypeOK
<1>3. req[c].num \in 1 .. Len(file["presets"].list)
  BY <1>1, <1>2
<1>4. PyPreset(c) \in Item /\ PyPreset(c).id = req[c].num /\ PyPreset(c).loc = req[c].loc
  BY <1>1, <1>2, MatchingKeyType DEF PyPreset, Item
<1>5. /\ draft' = [draft EXCEPT ![c] = PyReplaced(file["presets"].list, req[c].num, PyPreset(c))]
      /\ result' = [result EXCEPT ![c] = PyPreset(c)]
  BY DEF PyUpdatePreset, PyPreset
<1> QED
  BY <1>1, <1>2, <1>3, <1>4, <1>5

(* What Python's add_recent makes of the list it read. *)
LEMMA PyAddFacts ==
  ASSUME TypeOK, NEW c \in PyClients, PyAddNewRecent(c)
  PROVE  LET l == file["recents"].list
             key == MatchingKey(Sources, req[c].sid)
             x == NewRecent(l, key, req[c].loc)
         IN  /\ l \in Seq(Item) /\ key \in Keys /\ req[c].loc \in Locs \cup {NoLoc}
             /\ PySameContent(l, key, req[c].loc) = {}
             /\ draft' = [draft EXCEPT ![c] = Inserted(l, x)]
             /\ result' = [result EXCEPT ![c] = x]
<1>0. c \in Clients /\ "recents" \in Kinds
  BY SharedAssumption DEF Kinds
<1>1. file["recents"].list \in Seq(Item) /\ req[c].loc \in Locs \cup {NoLoc}
  BY <1>0 DEF TypeOK
<1>2. MatchingKey(Sources, req[c].sid) \in Keys
  BY MatchingKeyType DEF PyAddNewRecent, PyRejected
<1> QED
  BY <1>1, <1>2 DEF PyAddNewRecent

LEMMA PyTouchFacts ==
  ASSUME TypeOK, NEW c \in PyClients, PyTouchRecent(c)
  PROVE  LET l == file["recents"].list
         IN  /\ l \in Seq(Item)
             /\ draft' = [draft EXCEPT ![c] = l]
             /\ \E i \in 1 .. Len(l) : result' = [result EXCEPT ![c] = l[i]]
<1> DEFINE l == file["recents"].list
           S == PySameContent(l, MatchingKey(Sources, req[c].sid), req[c].loc)
<1>0. c \in Clients /\ "recents" \in Kinds
  BY SharedAssumption DEF Kinds
<1>1. l \in Seq(Item)
  BY <1>0 DEF TypeOK
<1>2. S # {} /\ draft' = [draft EXCEPT ![c] = l] /\ result' = [result EXCEPT ![c] = l[First(S)]]
  BY DEF PyTouchRecent
<1>3. S \in SUBSET (1 .. Len(l))
  BY DEF PySameContent, SameContent
<1> HIDE DEF S, l
<1>4. S \in SUBSET Nat
  BY <1>3
<1>5. First(S) \in 1 .. Len(l)
  BY <1>2, <1>3, <1>4, FirstInSet
<1> QED
  BY <1>1, <1>2, <1>5 DEF l

(* The variables that a step of Python leaves alone, and where it ends. *)
LEMMA PyStepFrame ==
  ASSUME NEW c \in PyClients, PyStep(c)
  PROVE  /\ UNCHANGED <<file, clock, saved, raced, promised>>
         /\ \/ PyReject(c) /\ Finish(c)
            \/ /\ PyUpdatePreset(c) \/ PyAddNewRecent(c) \/ PyTouchRecent(c)
               /\ pc[c] = "read" /\ pc' = [pc EXCEPT ![c] = "open"]
               /\ UNCHANGED <<req, stale>>
  BY DEF PyStep, PyReject, PyUpdatePreset, PyAddNewRecent, PyTouchRecent

LEMMA PyStepType ==
  ASSUME TypeOK, PyNumbered, NEW c \in PyClients, PyStep(c)
  PROVE  TypeOK'
<1>c. c \in Clients
  BY SharedAssumption
<1>0. /\ req \in [Clients -> ReqType] /\ result \in [Clients -> Item]
      /\ pc \in [Clients -> {"idle", "read", "open", "write"}]
      /\ draft \in [Clients -> Seq(Item)]
      /\ stale \in [Clients -> BOOLEAN]
  BY TypeOKFolded
<1>1. CASE Finish(c) /\ UNCHANGED <<file, clock, saved, raced, promised>>
  <2>1. /\ req' \in [Clients -> ReqType] /\ result' \in [Clients -> Item]
        /\ pc' \in [Clients -> {"idle", "read", "open", "write"}]
        /\ draft' \in [Clients -> Seq(Item)]
        /\ stale' \in [Clients -> BOOLEAN]
    BY <1>0, <1>1, <1>c, IdleType, EmptyPresetType DEF Finish
  <2> QED
    BY <1>1, <2>1 DEF TypeOK, ReqType
<1>2. ASSUME NEW l \in Seq(Item), NEW x \in Item,
             draft' = [draft EXCEPT ![c] = l], result' = [result EXCEPT ![c] = x],
             pc' = [pc EXCEPT ![c] = "open"],
             UNCHANGED <<file, clock, saved, raced, promised, req, stale>>
      PROVE  TypeOK'
  <2>1. /\ draft' \in [Clients -> Seq(Item)] /\ result' \in [Clients -> Item]
        /\ pc' \in [Clients -> {"idle", "read", "open", "write"}]
    BY <1>0, <1>2, <1>c
  <2> QED
    BY <1>2, <2>1 DEF TypeOK
<1>3. CASE PyUpdatePreset(c)
  <2> DEFINE l == file["presets"].list
             u == PyReplaced(l, req[c].num, PyPreset(c))
  <2>1. /\ l \in Seq(Item) /\ req[c].num \in 1 .. Len(l) /\ PyPreset(c) \in Item
        /\ draft' = [draft EXCEPT ![c] = u] /\ result' = [result EXCEPT ![c] = PyPreset(c)]
    BY <1>3, PyUpdateFacts
  <2>2. u \in Seq(Item)
    BY <2>1, PyReplacedFacts
  <2> HIDE DEF u, l
  <2> QED
    BY <1>2, <1>3, <2>1, <2>2 DEF PyUpdatePreset
<1>4. CASE PyAddNewRecent(c)
  <2> DEFINE l == file["recents"].list
             x == NewRecent(l, MatchingKey(Sources, req[c].sid), req[c].loc)
  <2>1. x \in Item /\ l \in Seq(Item)
    BY <1>4, PyAddFacts, NewRecentFacts
  <2>2. draft' = [draft EXCEPT ![c] = Inserted(l, x)] /\ result' = [result EXCEPT ![c] = x]
    BY <1>4, PyAddFacts
  <2> HIDE DEF x, l
  <2>3. Inserted(l, x) \in Seq(Item)
    BY <2>1, InsertedFacts
  <2> QED
    BY <1>2, <1>4, <2>1, <2>2, <2>3 DEF PyAddNewRecent
<1>5. CASE PyTouchRecent(c)
  BY <1>2, <1>5, PyTouchFacts, ItemsHaveIDs DEF PyTouchRecent
<1> QED
  BY <1>1, <1>3, <1>4, <1>5, PyStepFrame

(* Type correctness of the shared store: in particular Python never writes *)
(* a list with a hole or an item that is not one.                          *)
THEOREM SharedTypeCorrect == SharedSpec => [](TypeOK /\ PyNumbered)
<1>1. SharedInit => TypeOK /\ PyNumbered
  BY InitType, SharedAssumption DEF SharedInit, StoreInit, PyNumbered
<1>2. TypeOK /\ PyNumbered /\ [SharedNext]_sharedVars => (TypeOK /\ PyNumbered)'
  BY SharedSteps, TypeNext, PyStepType, PyNumberedNext
<1> QED
  BY <1>1, <1>2, PTL DEF SharedSpec

-----------------------------------------------------------------------------
(* Presets.                                                                *)

LEMMA PyInPlace ==
  ASSUME TypeOK, PyNumbered, ListsIn("presets", InPlaceLists), NEW c \in PyClients, PyStep(c)
  PROVE  ListsIn("presets", InPlaceLists)'
<1>0. c \in Clients /\ "presets" \in Kinds
  BY SharedAssumption DEF Kinds
<1>1. CASE PyReject(c)
  BY <1>0, <1>1, ListsInFinish DEF PyReject
<1>2. CASE PyUpdatePreset(c)
  <2> DEFINE l == file["presets"].list
             u == PyReplaced(l, req[c].num, PyPreset(c))
  <2>1. /\ l \in Seq(Item) /\ req[c].num \in 1 .. Len(l)
        /\ PyPreset(c) \in Item /\ PyPreset(c).id = req[c].num
        /\ draft' = [draft EXCEPT ![c] = u]
    BY <1>2, PyUpdateFacts
  <2>2. InPlace(l)
    BY DEF ListsIn, InPlaceLists
  <2>3. u \in InPlaceLists
    BY <2>1, <2>2, PyReplacedFacts, PyReplacedKeeps DEF InPlaceLists
  <2> HIDE DEF u, l
  <2> QED
    BY <1>0, <1>2, <2>1, <2>3, ListsInPrepare DEF PyUpdatePreset
<1>3. CASE PyAddNewRecent(c) \/ PyTouchRecent(c)
  <2>1. PICK l : draft' = [draft EXCEPT ![c] = l]
    BY <1>3 DEF PyAddNewRecent, PyTouchRecent
  <2>2. /\ req[c].kind # "presets"
        /\ pc' = [pc EXCEPT ![c] = "open"]
        /\ UNCHANGED <<file, req>>
    BY <1>3 DEF PyAddNewRecent, PyTouchRecent
  <2> QED
    BY <1>0, <2>1, <2>2, ListsInPrepare
<1> QED
  BY <1>1, <1>2, <1>3 DEF PyStep

LEMMA PyPresetsInv ==
  ASSUME TypeOK, PyNumbered, PresetsInv, NEW c \in PyClients, PyStep(c)
  PROVE  PresetsInv'
<1>0. c \in Clients /\ "presets" \in Kinds
  BY SharedAssumption DEF Kinds
<1>1. CASE PyReject(c)
  BY <1>0, <1>1 DEF PyReject, Finish, PresetsInv, TypeOK, Saving, DraftFollows
<1>2. CASE PyUpdatePreset(c)
  <2> DEFINE l == file["presets"].list
             u == PyReplaced(l, req[c].num, PyPreset(c))
  <2>1. /\ l \in Seq(Item) /\ req[c].num \in 1 .. Len(l)
        /\ PyPreset(c) \in Item /\ PyPreset(c).id = req[c].num /\ PyPreset(c).loc = req[c].loc
        /\ draft' = [draft EXCEPT ![c] = u]
    BY <1>2, PyUpdateFacts
  <2>2. l = saved["presets"]
    BY <1>2, PyUpdateFacts DEF PresetsInv
  <2>3. \A n \in Nat \ {0} : LocAt(u, n) = IF n = req[c].num THEN req[c].loc ELSE LocAt(l, n)
    BY <2>1, PyReplacedKeeps
  <2>4. req[c].num \in Buttons
    BY <1>0, <1>2, <2>1 DEF PresetsInv, PyUpdatePreset
  <2> HIDE DEF u, l
  <2>5. draft'[c] = u
    BY <1>0, <2>1 DEF TypeOK
  <2>6. \A n \in Buttons :
          LocAt(draft'[c], n) = IF n = req[c].num THEN req[c].loc ELSE LocAt(saved["presets"], n)
    BY <2>2, <2>3, <2>5, ButtonsType
  <2>7. /\ UNCHANGED <<file, req, saved, stale, raced, promised>>
        /\ pc[c] = "read"
        /\ pc' = [pc EXCEPT ![c] = "open"]
    BY <1>2 DEF PyUpdatePreset
  <2> QED
    BY <1>0, <2>1, <2>4, <2>6, <2>7, PresetsInvPrepare
<1>3. CASE PyAddNewRecent(c)
  BY <1>0, <1>3 DEF PyAddNewRecent, PresetsInv, TypeOK, Saving, DraftFollows
<1>4. CASE PyTouchRecent(c)
  BY <1>0, <1>4 DEF PyTouchRecent, PresetsInv, TypeOK, Saving, DraftFollows
<1> QED
  BY <1>1, <1>2, <1>3, <1>4 DEF PyStep

(* Whichever service writes Presets.xml and however their requests overlap *)
(* or die: button n stays at position n.                                   *)
THEOREM SharedButtonsStayInPlace ==
  ASSUME InitialInPlace
  PROVE  SharedSpec => []ButtonsInPlace
<1>1. SharedInit => ListsIn("presets", InPlaceLists)
  BY InPlaceInit DEF SharedInit
<1>2. TypeOK /\ PyNumbered /\ ListsIn("presets", InPlaceLists) /\ [SharedNext]_sharedVars
        => ListsIn("presets", InPlaceLists)'
  BY SharedSteps, InPlaceNext, PyInPlace
<1>3. ListsIn("presets", InPlaceLists) => ButtonsInPlace
  BY DEF ListsIn, InPlaceLists, ButtonsInPlace
<1> QED
  BY <1>1, <1>2, <1>3, SharedTypeCorrect, PTL DEF SharedSpec

LEMMA SharedPresetsInv == SharedSpec => []PresetsInv
<1>1. SharedInit => PresetsInv
  BY PresetsInvInit DEF SharedInit
<1>2. TypeOK /\ PyNumbered /\ PresetsInv /\ [SharedNext]_sharedVars => PresetsInv'
  BY SharedSteps, PresetsInvNext, PyPresetsInv
<1> QED
  BY <1>1, <1>2, SharedTypeCorrect, PTL DEF SharedSpec

(* As long as no stale list was saved, by either service, a readable       *)
(* Presets.xml plays on every button what was copied or acknowledged last. *)
THEOREM SharedPresetsKeepTheirPromise == SharedSpec => []PromisedPresets
<1>1. PresetsInv => PromisedPresets
  BY DEF PresetsInv, PromisedPresets
<1> QED
  BY <1>1, SharedPresetsInv, PTL

-----------------------------------------------------------------------------
(* Recents.                                                                *)

(* What both services make of the recents they read stays in L, if adding  *)
(* a content that Python does not find and moving one to the front do.     *)
LEMMA SharedRecentsStep ==
  ASSUME TypeOK, NEW L, ListsIn("recents", L), <<>> \in L, [SharedNext]_sharedVars,
         \A l \in L \cap Seq(Item), key \in Keys, loc \in Locs \cup {NoLoc} :
           PySameContent(l, key, loc) = {} => Inserted(l, NewRecent(l, key, loc)) \in L,
         \A l \in L \cap Seq(Item) : \A i \in 1 .. Len(l) : MovedToFront(l, i) \subseteq L
  PROVE  ListsIn("recents", L)'
<1>0. "presets" \in Kinds /\ "recents" \in Kinds /\ PyClients \subseteq Clients
  BY SharedAssumption DEF Kinds
<1> DEFINE l == file["recents"].list
<1>l. l \in L \cap Seq(Item)
  BY <1>0 DEF TypeOK, ListsIn
<1>1. CASE [StoreNext]_storeVars
  <2>1. \A m \in L \cap Seq(Item), key \in Keys, loc \in Locs \cup {NoLoc} :
          SameContent(m, key, loc) = {} => Inserted(m, NewRecent(m, key, loc)) \in L
    BY DEF PySameContent
  <2> QED
    BY <1>1, <2>1, RecentsStep
<1>2. ASSUME NEW c \in PyClients, PyReject(c)
      PROVE  ListsIn("recents", L)'
  BY <1>0, <1>2, ListsInFinish DEF PyReject
<1>3. ASSUME NEW c \in PyClients, PyUpdatePreset(c)
      PROVE  ListsIn("recents", L)'
  <2>1. PICK u : draft' = [draft EXCEPT ![c] = u]
    BY <1>3 DEF PyUpdatePreset
  <2>2. /\ req[c].kind # "recents"
        /\ pc' = [pc EXCEPT ![c] = "open"]
        /\ UNCHANGED <<file, req>>
    BY <1>3 DEF PyUpdatePreset
  <2> QED
    BY <1>0, <2>1, <2>2, ListsInPrepare
<1>4. ASSUME NEW c \in PyClients, PyAddNewRecent(c)
      PROVE  ListsIn("recents", L)'
  <2> DEFINE key == MatchingKey(Sources, req[c].sid)
             u == Inserted(l, NewRecent(l, key, req[c].loc))
  <2>1. /\ key \in Keys /\ req[c].loc \in Locs \cup {NoLoc}
        /\ PySameContent(l, key, req[c].loc) = {}
        /\ draft' = [draft EXCEPT ![c] = u]
    BY <1>4, PyAddFacts
  <2>2. pc' = [pc EXCEPT ![c] = "open"] /\ UNCHANGED <<file, req>>
    BY <1>4 DEF PyAddNewRecent
  <2> HIDE DEF key, l
  <2>3. u \in L
    BY <1>l, <2>1
  <2> HIDE DEF u
  <2> QED
    BY <1>0, <2>1, <2>2, <2>3, ListsInPrepare
<1>5. ASSUME NEW c \in PyClients, PyTouchRecent(c)
      PROVE  ListsIn("recents", L)'
  <2>1. draft' = [draft EXCEPT ![c] = l]
    BY <1>5, PyTouchFacts
  <2>2. pc' = [pc EXCEPT ![c] = "open"] /\ UNCHANGED <<file, req>>
    BY <1>5 DEF PyTouchRecent
  <2> HIDE DEF l
  <2> QED
    BY <1>0, <1>l, <2>1, <2>2, ListsInPrepare
<1> HIDE DEF l
<1> QED
  BY <1>1, <1>2, <1>3, <1>4, <1>5, SharedSteps DEF PyStep

(* The two services together never let Recents.xml outgrow MaxRecents, or  *)
(* the list it was copied with.                                            *)
THEOREM SharedRecentsStayBounded == SharedSpec => []RecentsBounded
<1>0. <<>> \in BoundedLists
  BY MargeAssumption DEF BoundedLists, Bounded
<1>1. SharedInit => ListsIn("recents", BoundedLists)
  BY BoundedInit DEF SharedInit
<1>2. TypeOK /\ ListsIn("recents", BoundedLists) /\ [SharedNext]_sharedVars
        => ListsIn("recents", BoundedLists)'
  <2>1. \A l \in BoundedLists \cap Seq(Item), key \in Keys, loc \in Locs \cup {NoLoc} :
          Inserted(l, NewRecent(l, key, loc)) \in BoundedLists
    BY NewRecentFacts, InsertedBounded
  <2>2. \A l \in BoundedLists \cap Seq(Item) : \A i \in 1 .. Len(l) :
          MovedToFront(l, i) \subseteq BoundedLists
    BY MovedBounded
  <2> QED
    BY <1>0, <2>1, <2>2, SharedRecentsStep
<1>3. ListsIn("recents", BoundedLists) => RecentsBounded
  BY DEF ListsIn, BoundedLists, RecentsBounded
<1> QED
  BY <1>1, <1>2, <1>3, SharedTypeCorrect, PTL DEF SharedSpec

(* The recents in which an id tells the content, and a content of a source *)
(* with an account its id.                                                 *)
SharedIdentified(l) ==
  \A i, j \in 1 .. Len(l) :
    /\ l[i].id = l[j].id => l[i].key = l[j].key /\ l[i].loc = l[j].loc
    /\ l[i].key = l[j].key /\ l[i].loc = l[j].loc /\ l[i].key \notin Anonymous => l[i].id = l[j].id

SharedIdentifiedLists == {l \in Seq(Item) : SharedIdentified(l)}

(* The recents copied from the speaker are such lists. *)
InitialSharedIdentified == \A l \in InitialRecents : SharedIdentified(l)

(* Python does not look for the contents of a source without an account:   *)
(* they may be added again, but always under a new id.                     *)
LEMMA InsertedSharedIdentified ==
  ASSUME NEW l \in SharedIdentifiedLists, NEW key \in Keys, NEW loc \in Locs \cup {NoLoc},
         PySameContent(l, key, loc) = {}
  PROVE  Inserted(l, NewRecent(l, key, loc)) \in SharedIdentifiedLists
<1> DEFINE x == NewRecent(l, key, loc)
           n == Inserted(l, x)
           Agree(a, b) ==
             /\ a.id = b.id => a.key = b.key /\ a.loc = b.loc
             /\ a.key = b.key /\ a.loc = b.loc /\ a.key \notin Anonymous => a.id = b.id
<1>1. l \in Seq(Item) /\ \A i, j \in 1 .. Len(l) : Agree(l[i], l[j])
  BY DEF SharedIdentifiedLists, SharedIdentified
<1>2. /\ x \in Item /\ x.key = key /\ x.loc = loc
      /\ \A i \in 1 .. Len(l) : l[i].id # x.id
  BY <1>1, NewRecentFacts
<1>3. \A i \in 1 .. Len(l) : Agree(x, l[i]) /\ Agree(l[i], x)
  BY <1>1, <1>2 DEF PySameContent, SameContent
<1> HIDE DEF x
<1>4. /\ n \in Seq(Item)
      /\ \A i \in 1 .. Len(n) : i - 1 <= Len(l)
      /\ \A i \in 1 .. Len(n) : n[i] = IF i = 1 THEN x ELSE l[i - 1]
  BY <1>1, <1>2, InsertedFacts
<1> HIDE DEF n
<1>5. \A i \in 1 .. Len(n) : n[i] = x \/ \E j \in 1 .. Len(l) : n[i] = l[j]
  <2> TAKE i \in 1 .. Len(n)
  <2>1. CASE i = 1
    BY <1>4, <2>1
  <2>2. CASE i # 1
    <3>1. i - 1 \in 1 .. Len(l) /\ n[i] = l[i - 1]
      BY <1>1, <1>4, <2>2
    <3> QED
      BY <3>1
  <2> QED
    BY <2>1, <2>2
<1>6. Agree(x, x)
  OBVIOUS
<1>7. ASSUME NEW i \in 1 .. Len(n), NEW j \in 1 .. Len(n)
      PROVE  Agree(n[i], n[j])
  <2> HIDE DEF Agree
  <2> QED
    BY <1>1, <1>3, <1>5, <1>6
<1>8. n \in SharedIdentifiedLists
  BY <1>4, <1>7 DEF SharedIdentifiedLists, SharedIdentified
<1> QED
  BY <1>8 DEF n, x

LEMMA MovedSharedIdentified ==
  ASSUME NEW l \in SharedIdentifiedLists, NEW i \in 1 .. Len(l), NEW moved \in MovedToFront(l, i)
  PROVE  moved \in SharedIdentifiedLists
<1> DEFINE Agree(a, b) ==
             /\ a.id = b.id => a.key = b.key /\ a.loc = b.loc
             /\ a.key = b.key /\ a.loc = b.loc /\ a.key \notin Anonymous => a.id = b.id
<1>1. l \in Seq(Item) /\ \A a, b \in 1 .. Len(l) : Agree(l[a], l[b])
  BY DEF SharedIdentifiedLists, SharedIdentified
<1>2. /\ moved \in Seq(Item)
      /\ \A j \in 1 .. Len(moved) : \E k \in 1 .. Len(l) : moved[j] = l[k]
  BY <1>1, MovedToFrontFacts
<1>3. ASSUME NEW a \in 1 .. Len(moved), NEW b \in 1 .. Len(moved)
      PROVE  Agree(moved[a], moved[b])
  <2> HIDE DEF Agree
  <2> QED
    BY <1>1, <1>2
<1> QED
  BY <1>2, <1>3 DEF SharedIdentifiedLists, SharedIdentified

(* However the requests of the two services overlap, a recent id never     *)
(* stands for two contents, and only contents of a source without an       *)
(* account ever have two ids.                                              *)
THEOREM SharedRecentIDsIdentify ==
  ASSUME InitialSharedIdentified
  PROVE  SharedSpec => []SharedIDsIdentifyContent
<1>0. <<>> \in SharedIdentifiedLists
  BY DEF SharedIdentifiedLists, SharedIdentified
<1>1. SharedInit => ListsIn("recents", SharedIdentifiedLists)
  <2>1. InitialRecents \subseteq SharedIdentifiedLists
    BY StoreAssumption DEF InitialSharedIdentified, SharedIdentifiedLists
  <2> QED
    BY <1>0, <2>1, ListsInInit DEF SharedInit
<1>2. TypeOK /\ ListsIn("recents", SharedIdentifiedLists) /\ [SharedNext]_sharedVars
        => ListsIn("recents", SharedIdentifiedLists)'
  <2>1. \A l \in SharedIdentifiedLists \cap Seq(Item), key \in Keys, loc \in Locs \cup {NoLoc} :
          PySameContent(l, key, loc) = {} => Inserted(l, NewRecent(l, key, loc)) \in SharedIdentifiedLists
    BY InsertedSharedIdentified
  <2>2. \A l \in SharedIdentifiedLists \cap Seq(Item) : \A i \in 1 .. Len(l) :
          MovedToFront(l, i) \subseteq SharedIdentifiedLists
    BY MovedSharedIdentified
  <2> QED
    BY <1>0, <2>1, <2>2, SharedRecentsStep
<1>3. ListsIn("recents", SharedIdentifiedLists) => SharedIDsIdentifyContent
  BY DEF ListsIn, SharedIdentifiedLists, SharedIdentified, SharedIDsIdentifyContent
<1> QED
  BY <1>1, <1>2, <1>3, SharedTypeCorrect, PTL DEF SharedSpec

-----------------------------------------------------------------------------
(* The shared store implements the account's promise.                      *)

(* The request of c sets a button, and which one to what. *)
Wanting(c) == pc[c] # "idle" /\ req[c].kind = "presets" /\ req[c].num \in Buttons
WishOf(c) == IF Wanting(c) THEN [button |-> req[c].num, content |-> req[c].loc] ELSE NoWish

LEMMA WishOfFacts ==
  ASSUME NEW c
  PROVE  /\ WishOf(c) # NoWish <=> Wanting(c)
         /\ Wanting(c) => WishOf(c).button = req[c].num /\ WishOf(c).content = req[c].loc
<1>1. NoWish.button = 0
  BY DEF NoWish
<1>2. 0 \notin Buttons
  BY ButtonsType
<1> QED
  BY <1>1, <1>2 DEF WishOf, Wanting

(* The refinement mapping, spelled out. *)
PlaysNow == [n \in Buttons |-> LocAt(saved["presets"], n)]
WishesNow == [c \in Clients |-> WishOf(c)]

LEMMA PlaysType ==
  ASSUME TypeOK
  PROVE  PlaysNow \in [Buttons -> Locs \cup {NoLoc}]
<1>1. saved["presets"] \in Seq(Item)
  BY DEF TypeOK, Kinds
<1>2. \A n \in Buttons : LocAt(saved["presets"], n) \in Locs \cup {NoLoc}
  BY <1>1, ButtonsType, LocAtType
<1> QED
  BY <1>2 DEF PlaysNow

(* The abstract actions in terms of the mapping. *)
PromiseSame == UNCHANGED <<PlaysNow, WishesNow, file["presets"].readable, raced["presets"]>>

LEMMA PromiseStutters == PromiseSame => UNCHANGED Promise!accountVars
  BY DEF PromiseSame, Promise!accountVars, PlaysNow, WishesNow, WishOf, Wanting

LEMMA PromiseAsks ==
  ASSUME NEW c \in Clients, WishOf(c) = NoWish,
         NEW w \in [button : Buttons, content : Locs \cup {NoLoc}],
         WishesNow' = [WishesNow EXCEPT ![c] = w],
         UNCHANGED <<PlaysNow, file["presets"].readable, raced["presets"]>>
  PROVE  Promise!Next
<1>1. Promise!Ask(c)
  BY DEF Promise!Ask, Promise!Wish, PlaysNow, WishesNow, WishOf, Wanting
<1> QED
  BY <1>1 DEF Promise!Next

LEMMA PromiseRefuses ==
  ASSUME NEW c \in Clients, WishOf(c) # NoWish,
         WishesNow' = [WishesNow EXCEPT ![c] = NoWish],
         UNCHANGED <<PlaysNow, file["presets"].readable, raced["presets"]>>
  PROVE  Promise!Next
<1>1. Promise!Refuse(c)
  BY DEF Promise!Refuse, PlaysNow, WishesNow, WishOf, Wanting
<1> QED
  BY <1>1 DEF Promise!Next

LEMMA PromiseHides ==
  ASSUME NEW c \in Clients, WishOf(c) # NoWish, file'["presets"].readable = FALSE,
         UNCHANGED <<PlaysNow, WishesNow, raced["presets"]>>
  PROVE  Promise!Next
<1>1. Promise!Hide
  BY DEF Promise!Hide, PlaysNow, WishesNow, WishOf, Wanting
<1> QED
  BY <1>1 DEF Promise!Next

LEMMA PromiseGrants ==
  ASSUME NEW c \in Clients, WishOf(c) # NoWish, ~raced["presets"],
         PlaysNow' = [PlaysNow EXCEPT ![WishOf(c).button] = WishOf(c).content],
         WishesNow' = [WishesNow EXCEPT ![c] = NoWish],
         file'["presets"].readable = TRUE, UNCHANGED raced["presets"]
  PROVE  Promise!Next
<1>1. Promise!Grant(c)
  BY DEF Promise!Grant, PlaysNow, WishesNow, WishOf, Wanting
<1> QED
  BY <1>1 DEF Promise!Next

LEMMA PromiseDegrades ==
  ASSUME NEW c \in Clients, WishOf(c) # NoWish, raced'["presets"] = TRUE,
         PlaysNow' \in [Buttons -> Locs \cup {NoLoc}],
         WishesNow' = [WishesNow EXCEPT ![c] = NoWish],
         file'["presets"].readable = TRUE
  PROVE  Promise!Next
<1>1. Promise!Overlap(c)
  BY DEF Promise!Overlap, PlaysNow, WishesNow, WishOf, Wanting
<1> QED
  BY <1>1 DEF Promise!Next

LEMMA PromiseDies ==
  ASSUME \A c \in Clients : WishOf(c)' = NoWish,
         UNCHANGED <<PlaysNow, file["presets"].readable, raced["presets"]>>
  PROVE  Promise!Next
<1>1. WishesNow' = [c \in Clients |-> NoWish]
  BY DEF WishesNow
<1>2. Promise!Die
  BY <1>1 DEF Promise!Die, PlaysNow, WishesNow, WishOf, Wanting
<1> QED
  BY <1>2 DEF Promise!Next

(* The wish of one client changes, and no other. *)
LEMMA WishChanges ==
  ASSUME NEW c \in Clients, NEW w, WishOf(c)' = w,
         \A d \in Clients \ {c} : pc'[d] = pc[d] /\ req'[d] = req[d]
  PROVE  WishesNow' = [WishesNow EXCEPT ![c] = w]
<1>1. \A d \in Clients \ {c} : WishOf(d)' = WishOf(d)
  BY DEF WishOf, Wanting
<1> QED
  BY <1>1 DEF WishesNow

LEMMA WishesStay ==
  ASSUME \A d \in Clients : WishOf(d)' = WishOf(d)
  PROVE  UNCHANGED WishesNow
  BY DEF WishesNow

(* What the presets file and its history look like does not change. *)
PresetsSame ==
  UNCHANGED <<saved["presets"], file["presets"].readable, raced["presets"]>>

LEMMA PresetsSamePlays ==
  ASSUME PresetsSame
  PROVE  UNCHANGED <<PlaysNow, file["presets"].readable, raced["presets"]>>
  BY DEF PresetsSame, PlaysNow

(* A request that has an answer no longer wishes anything. *)
LEMMA PromiseFinish ==
  ASSUME TypeOK, NEW c \in Clients, pc' = [pc EXCEPT ![c] = "idle"], req' = [req EXCEPT ![c] = Idle],
         PresetsSame
  PROVE  Promise!Next \/ PromiseSame
<1>1. WishOf(c)' = NoWish
  BY DEF WishOf, Wanting, TypeOK
<1>2. WishesNow' = [WishesNow EXCEPT ![c] = NoWish]
  BY <1>1, WishChanges DEF TypeOK
<1>3. UNCHANGED <<PlaysNow, file["presets"].readable, raced["presets"]>>
  BY PresetsSamePlays
<1>4. CASE WishOf(c) # NoWish
  BY <1>2, <1>3, <1>4, PromiseRefuses
<1>5. CASE WishOf(c) = NoWish
  <2>1. WishesNow' = WishesNow
    BY <1>2, <1>5 DEF WishesNow
  <2> QED
    BY <1>3, <2>1 DEF PromiseSame
<1> QED
  BY <1>4, <1>5

(* Nor does a request that goes on change its wish. *)
LEMMA PromiseGoesOn ==
  ASSUME TypeOK, NEW c \in Clients, NEW at \in {"read", "open", "write"}, pc[c] # "idle",
         pc' = [pc EXCEPT ![c] = at], UNCHANGED req
  PROVE  \A d \in Clients : WishOf(d)' = WishOf(d)
  BY DEF WishOf, Wanting, TypeOK

LEMMA PromiseAccept ==
  ASSUME TypeOK, NEW c \in Clients, NEW kind \in Kinds, NEW r \in PresetRequests \cup RecentRequests,
         Accept(c, kind, r)
  PROVE  Promise!Next \/ PromiseSame
<1>1. /\ pc[c] = "idle"
      /\ pc' = [pc EXCEPT ![c] = "read"]
      /\ req' = [req EXCEPT ![c] = [kind |-> kind, num |-> r.num, sid |-> r.sid, loc |-> r.loc]]
      /\ UNCHANGED <<file, saved, raced>>
  BY DEF Accept
<1>2. WishOf(c) = NoWish
  BY <1>1 DEF WishOf, Wanting
<1>3. /\ req'[c].loc = r.loc
      /\ \A d \in Clients \ {c} : pc'[d] = pc[d] /\ req'[d] = req[d]
  BY <1>1 DEF TypeOK
<1>4. UNCHANGED <<PlaysNow, file["presets"].readable, raced["presets"]>>
  BY <1>1, PresetsSamePlays DEF PresetsSame
<1>5. WishesNow' = [WishesNow EXCEPT ![c] = WishOf(c)']
  BY <1>3, WishChanges
<1>6. CASE Wanting(c)'
  <2>1. WishOf(c)' = [button |-> req'[c].num, content |-> req'[c].loc]
    BY <1>6 DEF WishOf
  <2>2. req'[c].num \in Buttons /\ req'[c].loc \in Locs
    BY <1>3, <1>6, RequestType DEF Wanting
  <2>3. WishOf(c)' \in [button : Buttons, content : Locs \cup {NoLoc}]
    BY <2>1, <2>2
  <2> QED
    BY <1>2, <1>4, <1>5, <2>3, PromiseAsks
<1>7. CASE ~Wanting(c)'
  <2>1. WishOf(c)' = NoWish
    BY <1>7 DEF WishOf
  <2>2. WishesNow' = WishesNow
    BY <1>2, <1>5, <2>1 DEF WishesNow
  <2> QED
    BY <1>4, <2>2 DEF PromiseSame
<1> QED
  BY <1>6, <1>7

LEMMA PromiseTruncate ==
  ASSUME TypeOK, PresetsInv, NEW c \in Clients, Truncate(c)
  PROVE  Promise!Next \/ PromiseSame
<1>0. "presets" \in Kinds /\ "recents" \in Kinds /\ req[c].kind \in Kinds
  BY DEF TypeOK, Kinds
<1>1. PICK t \in Now(c) : file' = [file EXCEPT ![req[c].kind] = Emptied(c, t)]
  BY TruncateFile
<1>2. /\ pc[c] = "open"
      /\ pc' = [pc EXCEPT ![c] = "write"]
      /\ UNCHANGED <<req, saved, raced>>
  BY DEF Truncate
<1>3. UNCHANGED WishesNow
  BY <1>2, PromiseGoesOn, WishesStay
<1>4. UNCHANGED PlaysNow
  BY <1>2 DEF PlaysNow
<1>5. CASE req[c].kind = "presets"
  <2>1. file'["presets"].readable = FALSE
    BY <1>0, <1>1, <1>5 DEF TypeOK, Emptied
  <2>2. Wanting(c)
    BY <1>2, <1>5 DEF PresetsInv, Saving, Wanting
  <2> QED
    BY <1>2, <1>3, <1>4, <2>1, <2>2, WishOfFacts, PromiseHides
<1>6. CASE req[c].kind = "recents"
  <2>1. file'["presets"] = file["presets"]
    BY <1>0, <1>1, <1>6 DEF TypeOK
  <2> QED
    BY <1>2, <1>3, <1>4, <2>1 DEF PromiseSame
<1> QED
  BY <1>0, <1>5, <1>6 DEF Kinds

LEMMA PromiseWrite ==
  ASSUME TypeOK, TypeOK', PresetsInv, NEW c \in Clients, Write(c)
  PROVE  Promise!Next \/ PromiseSame
<1>0. "presets" \in Kinds /\ "recents" \in Kinds /\ req[c].kind \in Kinds
  BY DEF TypeOK, Kinds
<1>1. PICK t \in Now(c), tail \in BOOLEAN :
        file' = [file EXCEPT ![req[c].kind] = Written(draft[c], tail, t)]
  BY WriteFile
<1>2. /\ pc[c] = "write"
      /\ pc' = [pc EXCEPT ![c] = "idle"]
      /\ req' = [req EXCEPT ![c] = Idle]
      /\ saved' = [saved EXCEPT ![req[c].kind] = draft[c]]
      /\ raced' = [raced EXCEPT ![req[c].kind] = raced[req[c].kind] \/ stale[c]]
  BY DEF Write
<1>3. CASE req[c].kind = "recents"
  <2>1. PresetsSame
    BY <1>0, <1>1, <1>2, <1>3 DEF PresetsSame, TypeOK
  <2> QED
    BY <1>2, <2>1, PromiseFinish
<1>4. CASE req[c].kind = "presets"
  <2>1. /\ file'["presets"].readable = TRUE
        /\ saved'["presets"] = draft[c]
    BY <1>0, <1>1, <1>2, <1>4 DEF TypeOK, Written, Holding
  <2>2. raced'["presets"] <=> raced["presets"] \/ stale[c]
    BY <1>0, <1>2, <1>4 DEF TypeOK
  <2>3. raced["presets"] \in BOOLEAN /\ raced'["presets"] \in BOOLEAN
    BY <1>0, Zenon DEF TypeOK
  <2>4. Wanting(c) /\ (~stale[c] => DraftFollows(c))
    BY <1>2, <1>4 DEF PresetsInv, Saving, Wanting
  <2>5. WishOf(c) # NoWish /\ WishOf(c).button = req[c].num /\ WishOf(c).content = req[c].loc
    BY <2>4, WishOfFacts
  <2>6. WishOf(c)' = NoWish
    BY <1>2 DEF WishOf, Wanting, TypeOK
  <2>7. WishesNow' = [WishesNow EXCEPT ![c] = NoWish]
    BY <1>2, <2>6, WishChanges DEF TypeOK
  <2>8. CASE raced["presets"] \/ stale[c]
    <3>1. raced'["presets"] = TRUE
      BY <2>2, <2>3, <2>8
    <3>2. PlaysNow' \in [Buttons -> Locs \cup {NoLoc}]
      <4>1. saved'["presets"] \in Seq(Item)
        BY <1>0 DEF TypeOK
      <4>2. \A n \in Buttons : LocAt(saved'["presets"], n) \in Locs \cup {NoLoc}
        BY <4>1, ButtonsType, LocAtType
      <4> QED
        BY <4>2 DEF PlaysNow
    <3> QED
      BY <2>1, <2>5, <2>7, <3>1, <3>2, PromiseDegrades
  <2>9. CASE ~raced["presets"] /\ ~stale[c]
    <3>1. UNCHANGED raced["presets"]
      BY <2>2, <2>3, <2>9
    <3>2. \A n \in Buttons :
            LocAt(saved'["presets"], n) = IF n = req[c].num THEN req[c].loc ELSE LocAt(saved["presets"], n)
      BY <2>1, <2>4, <2>9 DEF DraftFollows
    <3>3. PlaysNow' = [PlaysNow EXCEPT ![req[c].num] = req[c].loc]
      BY <3>2 DEF PlaysNow
    <3> QED
      BY <2>1, <2>5, <2>7, <2>9, <3>1, <3>3, PromiseGrants
  <2> QED
    BY <2>8, <2>9
<1> QED
  BY <1>0, <1>3, <1>4 DEF Kinds

LEMMA PromiseClientStep ==
  ASSUME TypeOK, TypeOK', PresetsInv, NEW c \in Clients, ClientStep(c) \/ PyStep(c)
  PROVE  Promise!Next \/ PromiseSame
<1>1. CASE \/ \E r \in PresetRequests : Accept(c, "presets", r)
           \/ \E r \in RecentRequests : Accept(c, "recents", r)
  BY <1>1, PromiseAccept DEF Kinds
<1>2. CASE Reject(c) \/ SaveFails(c) \/ PyReject(c)
  <2>1. PresetsSame
    BY <1>2 DEF Reject, SaveFails, PyReject, PresetsSame
  <2>2. pc' = [pc EXCEPT ![c] = "idle"] /\ req' = [req EXCEPT ![c] = Idle]
    BY <1>2 DEF Reject, SaveFails, PyReject, Finish
  <2> QED
    BY <2>1, <2>2, PromiseFinish
<1>3. CASE \/ UpdatePreset(c) \/ AddNewRecent(c) \/ TouchRecent(c)
           \/ PyUpdatePreset(c) \/ PyAddNewRecent(c) \/ PyTouchRecent(c)
  <2>1. /\ pc[c] = "read" /\ pc' = [pc EXCEPT ![c] = "open"]
        /\ UNCHANGED <<req, file, saved, raced>>
    BY <1>3 DEF UpdatePreset, AddNewRecent, TouchRecent, PyUpdatePreset, PyAddNewRecent, PyTouchRecent
  <2>2. UNCHANGED WishesNow
    BY <2>1, PromiseGoesOn, WishesStay
  <2> QED
    BY <2>1, <2>2 DEF PromiseSame, PlaysNow
<1>4. CASE Truncate(c)
  BY <1>4, PromiseTruncate
<1>5. CASE Write(c)
  BY <1>5, PromiseWrite
<1> QED
  BY <1>1, <1>2, <1>3, <1>4, <1>5 DEF ClientStep, PyStep

LEMMA PromiseStep ==
  ASSUME TypeOK, TypeOK', PresetsInv, [SharedNext]_sharedVars
  PROVE  [Promise!Next]_(Promise!accountVars)
<1>c. PyClients \subseteq Clients
  BY SharedAssumption
<1>1. CASE Crash
  <2>1. \A c \in Clients : WishOf(c)' = NoWish
    BY <1>1 DEF Crash, WishOf, Wanting
  <2>2. PresetsSame
    BY <1>1 DEF Crash, PresetsSame
  <2> QED
    BY <2>1, <2>2, PresetsSamePlays, PromiseDies
<1>2. ASSUME NEW c \in Clients, ClientStep(c) \/ PyStep(c)
      PROVE  Promise!Next \/ PromiseSame
  BY <1>2, PromiseClientStep
<1>3. CASE UNCHANGED storeVars
  <2>1. PromiseSame
    BY <1>3 DEF storeVars, PromiseSame, PlaysNow, WishesNow, WishOf, Wanting
  <2> QED
    BY <2>1, PromiseStutters
<1> QED
  BY <1>c, <1>1, <1>2, <1>3, PromiseStutters, SharedSteps DEF StoreNext

LEMMA PromiseInit ==
  ASSUME SharedInit
  PROVE  Promise!Init
<1>1. TypeOK
  BY InitType DEF SharedInit
<1>2. PlaysNow \in [Buttons -> Locs \cup {NoLoc}]
  BY <1>1, PlaysType
<1>3. \A c \in Clients : WishOf(c) = NoWish
  BY DEF SharedInit, StoreInit, WishOf, Wanting
<1>4. WishesNow = [c \in Clients |-> NoWish]
  BY <1>3 DEF WishesNow
<1>5. file["presets"].readable \in BOOLEAN
  BY <1>1 DEF TypeOK, Kinds
<1>6. raced["presets"] = FALSE
  BY DEF SharedInit, StoreInit, Kinds
<1> QED
  BY <1>2, <1>4, <1>5, <1>6 DEF Promise!Init, PlaysNow, WishesNow, WishOf, Wanting

(* The Go and the Python service together implement the account's promise, *)
(* for any number of requests at once, any lists and any crashes: every    *)
(* acknowledged update takes effect at one moment on one button, and a     *)
(* failed one never does, unless a stale list was saved.                   *)
THEOREM SharedStoreKeepsPromise == SharedSpec => KeepsPromise
<1>1. SharedInit => Promise!Init
  BY PromiseInit
<1>2. TypeOK /\ TypeOK' /\ PresetsInv /\ [SharedNext]_sharedVars => [Promise!Next]_(Promise!accountVars)
  BY PromiseStep
<1>3. SharedSpec => Promise!Spec
  BY <1>1, <1>2, SharedTypeCorrect, SharedPresetsInv, PTL DEF SharedSpec, Promise!Spec
<1> QED
  BY <1>3 DEF KeepsPromise

-----------------------------------------------------------------------------
(* Torn files.                                                             *)

(* A file that was truncated, and whose last save did not fail, still has  *)
(* a request that is going to write it.                                    *)
TornHasWriter ==
  \A k \in Kinds :
    ~file[k].readable /\ file[k].mtime > 0 /\ ~broken[k] =>
      \E c \in Clients : pc[c] = "write" /\ req[c].kind = k

BrokenType == broken \in [Kinds -> BOOLEAN]

LEMMA BrokenTypeNext ==
  ASSUME TypeOK, BrokenType, [SharedNext]_sharedVars
  PROVE  BrokenType'
<1>1. ASSUME NEW k, NEW b \in BOOLEAN, broken' = [broken EXCEPT ![k] = b]
      PROVE  BrokenType'
  BY <1>1 DEF BrokenType
<1>2. CASE CrashBoth
  <2> DEFINE b(k) == broken[k] \/ \E c \in Clients : pc[c] = "write" /\ req[c].kind = k
  <2>1. broken' = [k \in Kinds |-> b(k)]
    BY <1>2 DEF CrashBoth
  <2>2. \A k \in Kinds : b(k) \in BOOLEAN
    BY Zenon
  <2> HIDE DEF b
  <2> QED
    BY <2>1, <2>2 DEF BrokenType
<1>3. ASSUME NEW c \in Clients, Save(c)
      PROVE  BrokenType'
  BY <1>1, <1>3 DEF Save, BrokenType
<1>4. ASSUME NEW c \in Clients, SaveAborted(c)
      PROVE  BrokenType'
  <2>1. (broken[req[c].kind] \/ pc[c] = "write") \in BOOLEAN
    BY Zenon
  <2> QED
    BY <1>1, <1>4, <2>1 DEF SaveAborted
<1> QED
  BY <1>2, <1>3, <1>4 DEF SharedNext, sharedVars, BrokenType

LEMMA TornHasWriterNext ==
  ASSUME TypeOK, BrokenType, TornHasWriter, [SharedNext]_sharedVars
  PROVE  TornHasWriter'
<1>0. \A c \in Clients : req[c].kind \in Kinds
  BY DEF TypeOK
(* A request that has not truncated its file comes, goes on or goes. *)
<1>1. ASSUME NEW c \in Clients, pc[c] # "write", UNCHANGED <<file, broken>>,
             \A d \in Clients \ {c} : pc'[d] = pc[d] /\ req'[d] = req[d]
      PROVE  TornHasWriter'
  BY <1>1 DEF TornHasWriter
<1>2. ASSUME NEW c \in Clients, (Receive(c) \/ Prepare(c)) /\ UNCHANGED broken
      PROVE  TornHasWriter'
  <2>1. CASE \E k, r : Accept(c, k, r)
    BY <1>1, <1>2, <2>1 DEF Accept, TypeOK
  <2>2. CASE Reject(c) \/ PyReject(c)
    BY <1>1, <1>2, <2>2 DEF Reject, PyReject, Finish, TypeOK
  <2>3. CASE \/ UpdatePreset(c) \/ AddNewRecent(c) \/ TouchRecent(c)
             \/ PyUpdatePreset(c) \/ PyAddNewRecent(c) \/ PyTouchRecent(c)
    <3>1. pc[c] = "read" /\ pc' = [pc EXCEPT ![c] = "open"] /\ UNCHANGED <<req, file>>
      BY <2>3 DEF UpdatePreset, AddNewRecent, TouchRecent, PyUpdatePreset, PyAddNewRecent, PyTouchRecent
    <3> QED
      BY <1>1, <1>2, <3>1 DEF TypeOK
  <2> QED
    BY <1>2, <2>1, <2>2, <2>3 DEF Receive, PyAccept, Prepare
<1>3. ASSUME NEW c \in Clients, Truncate(c), UNCHANGED broken
      PROVE  TornHasWriter'
  <2>1. PICK t \in Now(c) : file' = [file EXCEPT ![req[c].kind] = Emptied(c, t)]
    BY <1>3, TruncateFile
  <2>2. pc[c] = "open" /\ pc' = [pc EXCEPT ![c] = "write"] /\ UNCHANGED req
    BY <1>3 DEF Truncate
  <2>3. pc'[c] = "write" /\ \A d \in Clients : pc[d] = "write" => pc'[d] = "write"
    BY <2>2 DEF TypeOK
  <2>4. \A k \in Kinds : k # req[c].kind => file'[k] = file[k]
    BY <2>1 DEF TypeOK
  <2> QED
    BY <1>3, <2>2, <2>3, <2>4 DEF TornHasWriter
<1>4. ASSUME NEW c \in Clients, Write(c), broken' = [broken EXCEPT ![req[c].kind] = FALSE]
      PROVE  TornHasWriter'
  <2>1. PICK t \in Now(c), tail \in BOOLEAN :
          file' = [file EXCEPT ![req[c].kind] = Written(draft[c], tail, t)]
    BY <1>4, WriteFile
  <2>2. pc' = [pc EXCEPT ![c] = "idle"] /\ req' = [req EXCEPT ![c] = Idle]
    BY <1>4 DEF Write
  <2>3. file'[req[c].kind].readable
    BY <1>0, <2>1 DEF TypeOK, Written, Holding
  <2>4. \A k \in Kinds : k # req[c].kind => file'[k] = file[k] /\ broken'[k] = broken[k]
    BY <1>4, <2>1 DEF TypeOK, BrokenType
  <2>5. \A d \in Clients \ {c} : pc'[d] = pc[d] /\ req'[d] = req[d]
    BY <2>2 DEF TypeOK
  <2> QED
    BY <2>3, <2>4, <2>5 DEF TornHasWriter
<1>5. ASSUME NEW c \in Clients, SaveAborted(c)
      PROVE  TornHasWriter'
  <2>1. /\ UNCHANGED file
        /\ \A d \in Clients \ {c} : pc'[d] = pc[d] /\ req'[d] = req[d]
    BY <1>5 DEF SaveAborted, SaveFails, Finish, TypeOK
  <2>2. /\ broken'[req[c].kind] <=> broken[req[c].kind] \/ pc[c] = "write"
        /\ \A k \in Kinds : k # req[c].kind => broken'[k] = broken[k]
    BY <1>0, <1>5 DEF SaveAborted, BrokenType
  <2> QED
    BY <1>0, <2>1, <2>2 DEF TornHasWriter
<1>6. CASE CrashBoth
  <2>1. UNCHANGED file
    BY <1>6 DEF CrashBoth, Crash
  <2>2. \A k \in Kinds : broken'[k] <=> broken[k] \/ \E c \in Clients : pc[c] = "write" /\ req[c].kind = k
    BY <1>6 DEF CrashBoth
  <2> QED
    BY <2>1, <2>2 DEF TornHasWriter
<1>7. CASE UNCHANGED sharedVars
  BY <1>7 DEF sharedVars, storeVars, TornHasWriter
<1> QED
  BY <1>2, <1>3, <1>4, <1>5, <1>6, <1>7 DEF SharedNext, Save

(* However requests of the two services truncate a file under each other:  *)
(* as long as no save of it failed half-way, a request is on its way that  *)
(* writes it.  This is the safety half of TornHeals: what remains for      *)
(* fairness is that this one request takes its next step.                  *)
THEOREM TornFilesHaveAWriter == SharedSpec => []TornHasWriter
<1>1. SharedInit => BrokenType /\ TornHasWriter
  <2> SUFFICES ASSUME SharedInit
               PROVE  BrokenType /\ TornHasWriter
    OBVIOUS
  <2>1. BrokenType
    BY DEF SharedInit, BrokenType
  <2>2. \A k \in Kinds : file[k] \in InitialFile(InitialPresets) \cup InitialFile(InitialRecents)
    BY DEF SharedInit, StoreInit
  <2>3. \A k \in Kinds : file[k].readable \/ file[k].mtime = 0
    BY <2>2 DEF InitialFile, Holding, Emptied
  <2> QED
    BY <2>1, <2>3 DEF TornHasWriter
<1>2. TypeOK /\ BrokenType /\ TornHasWriter /\ [SharedNext]_sharedVars => (BrokenType /\ TornHasWriter)'
  BY BrokenTypeNext, TornHasWriterNext
<1> QED
  BY <1>1, <1>2, SharedTypeCorrect, PTL DEF SharedSpec

-----------------------------------------------------------------------------
(* Tails.                                                                  *)

(* A request that finds its file readable again after it truncated it has  *)
(* a stale list to write, and only such a write leaves a tail.             *)
TailInv ==
  /\ \A c \in Clients : pc[c] = "write" /\ file[req[c].kind].readable => stale[c]
  /\ \A k \in Kinds : file[k].tail => raced[k]

(* The files stay, and no request comes to the point of writing. *)
LEMMA TailInvSame ==
  ASSUME TypeOK, TailInv, UNCHANGED <<file, raced>>,
         \A d \in Clients : pc'[d] = "write" => pc[d] = "write" /\ req'[d] = req[d] /\ stale'[d] = stale[d]
  PROVE  TailInv'
  BY DEF TailInv

LEMMA TailInvTruncate ==
  ASSUME TypeOK, TailInv, NEW c \in Clients, Truncate(c)
  PROVE  TailInv'
<1>0. \A d \in Clients : req[d].kind \in Kinds
  BY DEF TypeOK
<1>1. PICK t \in Now(c) : file' = [file EXCEPT ![req[c].kind] = Emptied(c, t)]
  BY TruncateFile
<1>2. pc' = [pc EXCEPT ![c] = "write"] /\ UNCHANGED <<req, stale, raced>>
  BY DEF Truncate
<1>3. ~file'[req[c].kind].readable /\ ~file'[req[c].kind].tail
  BY <1>0, <1>1 DEF TypeOK, Emptied
<1>4. \A k \in Kinds : k # req[c].kind => file'[k] = file[k]
  BY <1>1 DEF TypeOK
<1>5. \A d \in Clients : d # c => pc'[d] = pc[d]
  BY <1>2 DEF TypeOK
<1> QED
  BY <1>0, <1>2, <1>3, <1>4, <1>5 DEF TailInv

LEMMA TailInvWrite ==
  ASSUME TypeOK, TailInv, NEW c \in Clients, Write(c)
  PROVE  TailInv'
<1>0. \A d \in Clients : req[d].kind \in Kinds
  BY DEF TypeOK
<1>1. PICK t \in Now(c), tail \in BOOLEAN :
        /\ file' = [file EXCEPT ![req[c].kind] = Written(draft[c], tail, t)]
        /\ tail => file[req[c].kind].readable
  BY WriteFile
<1>2. /\ pc[c] = "write"
      /\ pc' = [pc EXCEPT ![c] = "idle"]
      /\ req' = [req EXCEPT ![c] = Idle]
      /\ raced' = [raced EXCEPT ![req[c].kind] = raced[req[c].kind] \/ stale[c]]
  BY DEF Write
<1>3. \A d \in Clients : d # c /\ pc[d] = "write" =>
        stale'[d] = (stale[d] \/ req[d].kind = req[c].kind)
  BY DEF Write
<1>4. file'[req[c].kind].tail = tail
  BY <1>0, <1>1 DEF TypeOK, Written, Holding
<1>5. \A k \in Kinds : k # req[c].kind => file'[k] = file[k] /\ raced'[k] = raced[k]
  BY <1>1, <1>2 DEF TypeOK
<1>6. tail => raced'[req[c].kind]
  BY <1>0, <1>1, <1>2 DEF TailInv, TypeOK
<1>7. pc'[c] # "write" /\ \A d \in Clients : d # c => pc'[d] = pc[d] /\ req'[d] = req[d]
  BY <1>2 DEF TypeOK
<1>8. ASSUME NEW d \in Clients, pc'[d] = "write", file'[req'[d].kind].readable
      PROVE  stale'[d]
  <2>1. d # c /\ pc[d] = "write" /\ req'[d] = req[d]
    BY <1>7, <1>8
  <2>2. CASE req[d].kind = req[c].kind
    BY <1>3, <2>1, <2>2
  <2>3. CASE req[d].kind # req[c].kind
    BY <1>0, <1>3, <1>5, <1>8, <2>1, <2>3 DEF TailInv
  <2> QED
    BY <2>2, <2>3
<1>9. \A k \in Kinds : file'[k].tail => raced'[k]
  BY <1>4, <1>5, <1>6 DEF TailInv
<1> QED
  BY <1>8, <1>9 DEF TailInv

LEMMA TailInvNext ==
  ASSUME TypeOK, TailInv, [SharedNext]_sharedVars
  PROVE  TailInv'
<1>1. ASSUME NEW c \in Clients, ClientStep(c) \/ PyStep(c)
      PROVE  TailInv'
  <2>1. CASE \E k, r : Accept(c, k, r)
    BY <2>1, TailInvSame DEF Accept, TypeOK
  <2>2. CASE Reject(c) \/ PyReject(c) \/ SaveFails(c)
    BY <2>2, TailInvSame DEF Reject, PyReject, SaveFails, Finish, TypeOK
  <2>3. CASE \/ UpdatePreset(c) \/ AddNewRecent(c) \/ TouchRecent(c)
             \/ PyUpdatePreset(c) \/ PyAddNewRecent(c) \/ PyTouchRecent(c)
    <3>1. pc' = [pc EXCEPT ![c] = "open"] /\ UNCHANGED <<req, file, stale, raced>>
      BY <2>3 DEF UpdatePreset, AddNewRecent, TouchRecent, PyUpdatePreset, PyAddNewRecent, PyTouchRecent
    <3> QED
      BY <3>1, TailInvSame DEF TypeOK
  <2> QED
    BY <1>1, <2>1, <2>2, <2>3, TailInvTruncate, TailInvWrite DEF ClientStep, PyStep
<1>2. CASE Crash
  BY <1>2, TailInvSame DEF Crash
<1>3. CASE UNCHANGED storeVars
  BY <1>3, TailInvSame DEF storeVars
<1> QED
  BY <1>1, <1>2, <1>3, SharedSteps, SharedAssumption DEF StoreNext

(* As long as no two saves of a file overlapped, Python can parse whatever *)
(* the Go service can, for any number of requests and lists of any length: *)
(* a tail takes a request that writes a file readable again since it was   *)
(* truncated, and such a request is stale.                                 *)
THEOREM BothServicesParse == SharedSpec => []ParsedAlike
<1>1. SharedInit => TailInv
  <2> SUFFICES ASSUME SharedInit
               PROVE  TailInv
    OBVIOUS
  <2>1. \A k \in Kinds : file[k] \in InitialFile(InitialPresets) \cup InitialFile(InitialRecents)
    BY DEF SharedInit, StoreInit
  <2>2. \A k \in Kinds : ~file[k].tail
    BY <2>1 DEF InitialFile, Holding, Emptied
  <2> QED
    BY <2>2 DEF TailInv, SharedInit, StoreInit
<1>2. TypeOK /\ TailInv /\ [SharedNext]_sharedVars => TailInv'
  BY TailInvNext
<1>3. TailInv => ParsedAlike
  BY DEF TailInv, ParsedAlike, PyReads
<1> QED
  BY <1>1, <1>2, <1>3, SharedTypeCorrect, PTL DEF SharedSpec
=============================================================================
