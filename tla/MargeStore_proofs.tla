-------------------------- MODULE MargeStore_proofs --------------------------
(***************************************************************************)
(* Proofs about MargeStore, for any set of clients, any requests and any   *)
(* initial files.                                                          *)
(***************************************************************************)
EXTENDS MargeStore, FiniteSetTheorems, WellFoundedInduction, TLAPS

-----------------------------------------------------------------------------
(* Lemmas about the list operators of MargeLists.                          *)

(* A function on 1 .. m is a sequence of length m. *)
LEMMA FunctionIsSeq ==
  ASSUME NEW S, NEW m \in Nat, NEW f, f \in [1 .. m -> S]
  PROVE  f \in Seq(S) /\ Len(f) = m
  BY SMT

(* The padding of a list of presets is a well-formed item. *)
LEMMA EmptyPresetType == EmptyPreset \in Item
  BY DEF EmptyPreset, Item, NoID, NoKey, NoLoc

(* A set of naturals that is not empty has a least member. *)
LEMMA LeastNatural ==
  ASSUME NEW S \in SUBSET Nat, S # {}
  PROVE  \E i \in S : \A j \in S : i <= j
<1> DEFINE Less == {ss \in Nat \X Nat : ss[1] < ss[2]}
<1>1. IsWellFoundedOn(Less, Nat)
  BY NatLessThanWellFounded, Zenon DEF OpToRel
<1> HIDE DEF Less
<1>2. \E i \in S : \A j \in S : ~(<<j, i>> \in Less)
  BY <1>1, WFMin
<1>3. \A i, j \in Nat : <<j, i>> \in Less <=> j < i
  BY DEF Less
<1>4. PICK i \in S : \A j \in S : ~(<<j, i>> \in Less)
  BY <1>2
<1>5. \A j \in S : ~(j < i)
  BY <1>3, <1>4, Zenon
<1>6. \A j \in S : i <= j
  BY <1>5
<1> QED
  BY <1>6

(* First picks the lowest position: the match at which a loop stops. *)
LEMMA FirstInSet ==
  ASSUME NEW S \in SUBSET Nat, S # {}
  PROVE  First(S) \in S /\ \A j \in S : First(S) <= j
  BY LeastNatural DEF First

(* The entries of a list are items, and their ids are naturals. *)
LEMMA ItemsHaveIDs ==
  ASSUME NEW l \in Seq(Item)
  PROVE  Len(l) \in Nat /\ \A i \in 1 .. Len(l) : l[i] \in Item /\ l[i].id \in Nat
<1>1. Len(l) \in Nat /\ \A i \in 1 .. Len(l) : l[i] \in Item
  OBVIOUS
<1>2. \A it \in Item : it.id \in Nat
  BY DEF Item
<1> QED
  BY <1>1, <1>2

(* Among the recents there is one with the largest id. *)
LEMMA LargestID ==
  ASSUME NEW l \in Seq(Item), Len(l) > 0
  PROVE  \E i \in 1 .. Len(l) : \A j \in 1 .. Len(l) : l[j].id <= l[i].id
<1> DEFINE D == 1 .. Len(l)
           above(i) == {j \in D : l[j].id > l[i].id}
           S == {Cardinality(above(i)) : i \in D}
<1>1. Len(l) \in Nat /\ \A i \in D : l[i].id \in Nat
  BY ItemsHaveIDs
<1>2. IsFiniteSet(D)
  <2>1. 1 \in Int /\ Len(l) \in Int
    BY <1>1
  <2> QED
    BY <2>1, FS_Interval, Zenon
<1>3. \A i \in D : IsFiniteSet(above(i)) /\ Cardinality(above(i)) \in Nat
  <2> TAKE i \in D
  <2>1. above(i) \in SUBSET D
    OBVIOUS
  <2> QED
    BY <1>2, <2>1, FS_Subset, FS_CardinalityType
<1>4. PICK i \in D : \A j \in D : Cardinality(above(i)) <= Cardinality(above(j))
  <2> HIDE DEF above
  <2>1. S \in SUBSET Nat
    BY <1>3
  <2>2. Cardinality(above(1)) \in S
    BY <1>1
  <2>3. PICK c \in S : \A d \in S : c <= d
    BY <2>1, <2>2, LeastNatural
  <2> QED
    BY <2>3
<1>5. ASSUME NEW j \in D, l[j].id > l[i].id
      PROVE  FALSE
  <2>1. above(j) \in SUBSET above(i) /\ j \in above(i) /\ j \notin above(j)
    BY <1>1, <1>5
  <2>2. Cardinality(above(j)) <= Cardinality(above(i))
        /\ (Cardinality(above(i)) = Cardinality(above(j)) => above(i) = above(j))
    BY <2>1, <1>3, FS_Subset
  <2>3. above(i) # above(j)
    BY <2>1
  <2>4. /\ Cardinality(above(i)) <= Cardinality(above(j))
        /\ Cardinality(above(i)) \in Nat
        /\ Cardinality(above(j)) \in Nat
    BY <1>3, <1>4
  <2> HIDE DEF above
  <2> QED
    BY <2>2, <2>3, <2>4
<1> HIDE DEF S, above
<1>6. \A j \in D : ~(l[j].id > l[i].id)
  BY <1>5
<1>7. \A j \in D : l[j].id <= l[i].id
  BY <1>1, <1>6
<1> QED
  BY <1>7

(* The id of a new recent is larger than any in the list. *)
LEMMA NextRecentIDFresh ==
  ASSUME NEW l \in Seq(Item)
  PROVE  /\ NextRecentID(l) \in Nat
         /\ \A i \in 1 .. Len(l) : l[i].id < NextRecentID(l)
<1> DEFINE M == {0} \cup {l[i].id : i \in 1 .. Len(l)}
<1>1. Len(l) \in Nat /\ \A i \in 1 .. Len(l) : l[i].id \in Nat
  BY ItemsHaveIDs
<1>2. \E m \in M : \A i \in 1 .. Len(l) : l[i].id <= m
  <2>1. CASE Len(l) = 0
    BY <2>1
  <2>2. CASE Len(l) > 0
    <3>1. PICK i \in 1 .. Len(l) : \A j \in 1 .. Len(l) : l[j].id <= l[i].id
      BY <2>2, LargestID
    <3>2. l[i].id \in M
      OBVIOUS
    <3> QED
      BY <3>1, <3>2
  <2> QED
    BY <1>1, <2>1, <2>2
<1>3. PICK m \in M : /\ \A i \in 1 .. Len(l) : l[i].id <= m
                     /\ NextRecentID(l) = 1 + m
  BY <1>2 DEF NextRecentID
<1> QED
  BY <1>1, <1>3

(* The source a request names has one of the configured keys. *)
LEMMA MatchingKeyType ==
  ASSUME NEW sid, SourcesWithID(Sources, sid) # {}
  PROVE  MatchingKey(Sources, sid) \in Keys
<1>1. SourcesXML \in Seq(SourceElement)
  BY StoreAssumption
<1>2. \A i \in 1 .. Len(SourcesXML) : SourcesXML[i].key \in Keys
  <2>1. \A i \in 1 .. Len(SourcesXML) : SourcesXML[i] \in SourceElement
    BY <1>1
  <2> QED
    BY <2>1 DEF SourceElement
<1>3. Len(Sources) = Len(SourcesXML) /\ \A i \in 1 .. Len(SourcesXML) : Sources[i].key = SourcesXML[i].key
  BY <1>1 DEF Sources, GetConfiguredSources
<1>4. SourcesWithID(Sources, sid) \in SUBSET (1 .. Len(SourcesXML))
  BY <1>3 DEF SourcesWithID
<1>5. First(SourcesWithID(Sources, sid)) \in 1 .. Len(SourcesXML)
  BY <1>1, <1>4, FirstInSet
<1> QED
  BY <1>2, <1>3, <1>5 DEF MatchingKey

(* UpdatePreset yields a list of presets at least n long, with the new     *)
(* preset at n and every other position as it was, or padding.             *)
IsUpdate(u, l, n, p) ==
  /\ u \in Seq(Item)
  /\ n <= Len(u) /\ Len(l) <= Len(u) /\ Len(u) \in {n, Len(l)}
  /\ u[n] = p
  /\ \A i \in 1 .. Len(l) : i # n => u[i] = l[i]
  /\ \A i \in 1 .. Len(u) : i # n /\ i > Len(l) => u[i] = EmptyPreset

LEMMA UpdatedPresetsFacts ==
  ASSUME NEW l \in Seq(Item), NEW n \in Nat \ {0}, NEW p \in Item
  PROVE  IsUpdate(UpdatedPresets(l, n, p), l, n, p)
<1> DEFINE m == IF n > Len(l) THEN n ELSE Len(l)
           u == UpdatedPresets(l, n, p)
<1>1. m \in Nat /\ n <= m /\ Len(l) <= m /\ m \in {n, Len(l)}
  OBVIOUS
<1>2. u \in [1 .. m -> Item]
  BY EmptyPresetType DEF UpdatedPresets
<1>3. u \in Seq(Item) /\ Len(u) = m
  BY <1>1, <1>2, FunctionIsSeq
<1>4. /\ u[n] = p
      /\ \A i \in 1 .. Len(l) : i # n => u[i] = l[i]
      /\ \A i \in 1 .. m : i # n /\ i > Len(l) => u[i] = EmptyPreset
  BY DEF UpdatedPresets
<1> HIDE DEF m
<1> QED
  BY <1>1, <1>3, <1>4 DEF IsUpdate

(* A recent put in front of a list. *)
LEMMA PrependFacts ==
  ASSUME NEW l \in Seq(Item), NEW x \in Item
  PROVE  LET p == Prepend(x, l) IN
         /\ p \in Seq(Item)
         /\ Len(p) = Len(l) + 1
         /\ p[1] = x
         /\ \A i \in 2 .. Len(p) : p[i] = l[i - 1]
<1> DEFINE p == Prepend(x, l)
<1>1. p \in [1 .. Len(l) + 1 -> Item]
  BY DEF Prepend
<1>2. p \in Seq(Item) /\ Len(p) = Len(l) + 1
  BY <1>1, FunctionIsSeq
<1>3. p[1] = x /\ \A i \in 2 .. Len(l) + 1 : p[i] = l[i - 1]
  BY DEF Prepend
<1> QED
  BY <1>2, <1>3

(* Both outcomes of "move to front" keep the length of the list and hold   *)
(* only recents that were in it.                                           *)
LEMMA MovedToFrontFacts ==
  ASSUME NEW l \in Seq(Item), NEW i \in 1 .. Len(l), NEW moved \in MovedToFront(l, i)
  PROVE  /\ moved \in Seq(Item)
         /\ Len(moved) = Len(l)
         /\ \A j \in 1 .. Len(moved) : \E k \in 1 .. Len(l) : moved[j] = l[k]
<1> DEFINE w == Without(l, i)
<1>1. w \in [1 .. Len(l) - 1 -> Item] /\ Len(l) - 1 \in Nat
  BY DEF Without
<1>2. w \in Seq(Item) /\ Len(w) = Len(l) - 1
  BY <1>1, FunctionIsSeq
<1>3. \A j \in 1 .. Len(w) : \E k \in 1 .. Len(l) : w[j] = l[k]
  BY <1>2 DEF Without
<1>4. PICK front \in {l[i], ShiftedInto(l, i)} : moved = Prepend(front, w)
  BY DEF MovedToFront
<1>5. \E k \in 1 .. Len(l) : front = l[k]
  BY <1>4 DEF ShiftedInto
<1>6. front \in Item
  BY <1>5, ItemsHaveIDs
<1>7. /\ moved \in Seq(Item)
      /\ Len(moved) = Len(l)
      /\ moved[1] = front
      /\ \A j \in 2 .. Len(moved) : moved[j] = w[j - 1]
  <2> HIDE DEF w
  <2>1. /\ moved \in Seq(Item)
        /\ Len(moved) = Len(w) + 1
        /\ moved[1] = front
        /\ \A j \in 2 .. Len(moved) : moved[j] = w[j - 1]
    BY <1>2, <1>4, <1>6, PrependFacts
  <2> QED
    BY <1>2, <2>1
<1>8. ASSUME NEW j \in 1 .. Len(moved)
      PROVE  \E k \in 1 .. Len(l) : moved[j] = l[k]
  <2>1. CASE j = 1
    BY <1>5, <1>7, <2>1
  <2>2. CASE j # 1
    <3>1. j \in 2 .. Len(moved) /\ j - 1 \in 1 .. Len(w)
      BY <1>2, <1>7, <2>2
    <3> QED
      BY <1>3, <1>7, <3>1
  <2> QED
    BY <2>1, <2>2
<1> QED
  BY <1>7, <1>8

(* Adding a recent gives a list of at most MaxRecents, one longer at most, *)
(* with the new recent in front and the others as they were.               *)
LEMMA InsertedFacts ==
  ASSUME NEW l \in Seq(Item), NEW x \in Item
  PROVE  LET n == Inserted(l, x) IN
         /\ n \in Seq(Item)
         /\ Len(n) <= MaxRecents
         /\ \A i \in 1 .. Len(n) : i - 1 <= Len(l)
         /\ \A i \in 1 .. Len(n) : n[i] = IF i = 1 THEN x ELSE l[i - 1]
<1> DEFINE p == Prepend(x, l)
           m == IF Len(p) > MaxRecents THEN MaxRecents ELSE Len(p)
           n == Inserted(l, x)
<1>1. /\ p \in Seq(Item)
      /\ Len(p) = Len(l) + 1
      /\ p[1] = x
      /\ \A i \in 2 .. Len(p) : p[i] = l[i - 1]
  BY PrependFacts
<1> HIDE DEF p
<1>2. m \in Nat /\ m <= MaxRecents /\ m <= Len(p)
  BY <1>1, MargeAssumption
<1>3. n = [j \in 1 .. m |-> p[j]]
  BY DEF Inserted, p
<1>4. n \in [1 .. m -> Item]
  BY <1>1, <1>2, <1>3
<1>5. n \in Seq(Item) /\ Len(n) = m
  BY <1>2, <1>4, FunctionIsSeq
<1>6. \A i \in 1 .. m : n[i] = IF i = 1 THEN x ELSE l[i - 1]
  BY <1>1, <1>2, <1>3
<1>7. \A i \in 1 .. m : i - 1 <= Len(l)
  BY <1>1, <1>2
<1>8. n \in Seq(Item) /\ Len(n) <= MaxRecents
  BY <1>2, <1>5
<1> HIDE DEF m
<1> QED
  BY <1>5, <1>6, <1>7, <1>8

-----------------------------------------------------------------------------
(* The requests in flight carry natural numbers and listed locations. *)
LEMMA RequestType ==
  /\ \A r \in PresetRequests : r.num \in Nat /\ r.sid \in Nat /\ r.loc \in Locs
  /\ \A r \in RecentRequests : r.num \in Nat /\ r.sid \in Nat /\ r.loc \in Locs
  BY StoreAssumption DEF Request

(* The record type of a file and of a request in flight. *)
FileType == [readable : BOOLEAN, list : Seq(Item), tail : BOOLEAN,
             by : Clients \cup {NoClient}, mtime : Nat]
ReqType == [kind : Kinds, num : Nat, sid : Nat, loc : Locs \cup {NoLoc}]

(* TypeOK with the record types folded. *)
LEMMA TypeOKFolded ==
  TypeOK <=>
    /\ file \in [Kinds -> FileType]
    /\ clock \in Nat
    /\ pc \in [Clients -> {"idle", "read", "open", "write"}]
    /\ req \in [Clients -> ReqType]
    /\ draft \in [Clients -> Seq(Item)]
    /\ result \in [Clients -> Item]
    /\ saved \in [Kinds -> Seq(Item)]
    /\ stale \in [Clients -> BOOLEAN]
    /\ raced \in [Kinds -> BOOLEAN]
    /\ promised \in [Buttons -> Locs \cup {NoLoc}]
  BY DEF TypeOK, FileType, ReqType

(* The location a list gives a button is a location or none. *)
LEMMA LocAtType ==
  ASSUME NEW l \in Seq(Item), NEW n \in Nat \ {0}
  PROVE  LocAt(l, n) \in Locs \cup {NoLoc}
<1>1. n <= Len(l) => l[n] \in Item
  BY ItemsHaveIDs
<1> QED
  BY <1>1 DEF LocAt, Item

LEMMA ButtonsType == Buttons \in SUBSET (Nat \ {0})
  BY RequestType DEF Buttons

LEMMA IdleType == Idle \in ReqType
  BY DEF Idle, ReqType, Kinds

(* An emptied file, and one that was written. *)
LEMMA EmptiedFacts ==
  ASSUME NEW c \in Clients \cup {NoClient}, NEW t \in Nat
  PROVE  /\ Emptied(c, t) \in FileType
         /\ Emptied(c, t).list = <<>> /\ ~Emptied(c, t).readable
         /\ ~Emptied(c, t).tail /\ Emptied(c, t).by = c /\ Emptied(c, t).mtime = t
<1>1. <<>> \in Seq(Item)
  OBVIOUS
<1> QED
  BY <1>1 DEF Emptied, FileType

Written(list, tail, t) == [Holding(list, t) EXCEPT !.tail = tail]

LEMMA WrittenFacts ==
  ASSUME NEW l \in Seq(Item), NEW tail \in BOOLEAN, NEW t \in Nat
  PROVE  /\ Holding(l, t) \in FileType /\ Written(l, tail, t) \in FileType
         /\ Written(l, tail, t).list = l /\ Written(l, tail, t).readable
         /\ Written(l, tail, t).tail = tail /\ Written(l, tail, t).mtime = t
  BY DEF Holding, Written, FileType

(* The initial files are well formed. *)
LEMMA InitialFileType ==
  ASSUME NEW lists \in SUBSET Seq(Item), NEW f \in InitialFile(lists)
  PROVE  f \in FileType
<1>1. CASE f = Emptied(NoClient, 0)
  BY <1>1, EmptiedFacts
<1>2. CASE \E l \in lists : f = Holding(l, 1)
  <2>1. PICK l \in lists : f = Holding(l, 1)
    BY <1>2
  <2>2. l \in Seq(Item)
    OBVIOUS
  <2> QED
    BY <2>1, <2>2 DEF Holding, FileType
<1> QED
  BY <1>1, <1>2 DEF InitialFile

LEMMA InitType == StoreInit => TypeOK
<1> SUFFICES ASSUME StoreInit
             PROVE  TypeOK
  OBVIOUS
<1> USE DEF StoreInit
<1>1. file \in [Kinds -> FileType]
  BY StoreAssumption, InitialFileType DEF Kinds
<1>2. \A k \in Kinds : file[k].list \in Seq(Item)
  BY <1>1 DEF FileType
<1>3. promised \in [Buttons -> Locs \cup {NoLoc}]
  <2>1. promised = [n \in Buttons |-> LocAt(file["presets"].list, n)]
    OBVIOUS
  <2>2. \A n \in Buttons : LocAt(file["presets"].list, n) \in Locs \cup {NoLoc}
    BY <1>2, ButtonsType, LocAtType DEF Kinds
  <2> QED
    BY <2>1, <2>2
<1>4. /\ req \in [Clients -> ReqType]
      /\ result \in [Clients -> Item]
      /\ draft \in [Clients -> Seq(Item)]
  BY IdleType, EmptyPresetType
<1>5. saved \in [Kinds -> Seq(Item)]
  BY <1>2
<1>6. /\ pc \in [Clients -> {"idle", "read", "open", "write"}]
      /\ stale \in [Clients -> BOOLEAN]
      /\ raced \in [Kinds -> BOOLEAN]
      /\ clock \in Nat
  OBVIOUS
<1> QED
  BY <1>1, <1>3, <1>4, <1>5, <1>6, TypeOKFolded

(* The modification times a step may give are naturals, and not earlier. *)
LEMMA NowType ==
  ASSUME clock \in Nat, NEW c, NEW t \in Now(c)
  PROVE  /\ t \in Nat /\ clock <= t
         /\ "saves" \notin SameMillisecond /\ ~JustEmptied(c) => clock < t
  BY DEF Now

(* What truncating and writing do to the files. *)
LEMMA TruncateFile ==
  ASSUME TypeOK, NEW c \in Clients, Truncate(c)
  PROVE  \E t \in Now(c) : /\ clock' = t
                           /\ file' = [file EXCEPT ![req[c].kind] = Emptied(c, t)]
  BY DEF Truncate

LEMMA WriteFile ==
  ASSUME TypeOK, NEW c \in Clients, Write(c)
  PROVE  \E t \in Now(c), tail \in BOOLEAN :
           /\ clock' = t
           /\ file' = [file EXCEPT ![req[c].kind] = Written(draft[c], tail, t)]
           /\ tail => file[req[c].kind].readable
  BY DEF Write, Tails, Written

(* Every step of a request keeps the types. *)
LEMMA ClientStepType ==
  ASSUME TypeOK, NEW c \in Clients, ClientStep(c)
  PROVE  TypeOK'
<1> DEFINE PC == {"idle", "read", "open", "write"}
<1>0. /\ file \in [Kinds -> FileType]
      /\ clock \in Nat
      /\ pc \in [Clients -> PC]
      /\ req \in [Clients -> ReqType]
      /\ draft \in [Clients -> Seq(Item)]
      /\ result \in [Clients -> Item]
      /\ saved \in [Kinds -> Seq(Item)]
      /\ stale \in [Clients -> BOOLEAN]
      /\ raced \in [Kinds -> BOOLEAN]
      /\ promised \in [Buttons -> Locs \cup {NoLoc}]
  BY TypeOKFolded
<1>k. /\ req[c].kind \in Kinds
      /\ req[c].num \in Nat
      /\ req[c].loc \in Locs \cup {NoLoc}
  BY <1>0 DEF ReqType
<1>f. \A k \in Kinds : file[k].list \in Seq(Item)
  BY <1>0 DEF FileType
<1>p. "presets" \in Kinds /\ "recents" \in Kinds
  BY DEF Kinds
<1>t. ASSUME /\ file' \in [Kinds -> FileType]
             /\ clock' \in Nat
             /\ pc' \in [Clients -> PC]
             /\ req' \in [Clients -> ReqType]
             /\ draft' \in [Clients -> Seq(Item)]
             /\ result' \in [Clients -> Item]
             /\ saved' \in [Kinds -> Seq(Item)]
             /\ stale' \in [Clients -> BOOLEAN]
             /\ raced' \in [Kinds -> BOOLEAN]
             /\ promised' \in [Buttons -> Locs \cup {NoLoc}]
      PROVE  TypeOK'
  BY <1>t DEF TypeOK, FileType, ReqType
<1> USE <1>0
<1>e. Finish(c) => /\ pc' \in [Clients -> PC]
                   /\ req' \in [Clients -> ReqType]
                   /\ draft' \in [Clients -> Seq(Item)]
                   /\ result' \in [Clients -> Item]
                   /\ stale' \in [Clients -> BOOLEAN]
  BY IdleType, EmptyPresetType DEF Finish
<1>1. CASE \E kind \in Kinds : \E r \in PresetRequests \cup RecentRequests : Accept(c, kind, r)
  <2>1. PICK kind \in Kinds, r \in PresetRequests \cup RecentRequests : Accept(c, kind, r)
    BY <1>1
  <2>2. [kind |-> kind, num |-> r.num, sid |-> r.sid, loc |-> r.loc] \in ReqType
    BY RequestType DEF ReqType
  <2>3. req' \in [Clients -> ReqType] /\ pc' \in [Clients -> PC]
    BY <2>1, <2>2 DEF Accept
  <2> QED
    BY <2>1, <2>3, <1>t DEF Accept
<1>2. CASE Reject(c)
  BY <1>2, <1>e, <1>t DEF Reject
<1>3. CASE UpdatePreset(c)
  <2> DEFINE p == [id |-> req[c].num, key |-> MatchingKey(Sources, req[c].sid), loc |-> req[c].loc]
             u == UpdatedPresets(file["presets"].list, req[c].num, p)
  <2>1. SourcesWithID(Sources, req[c].sid) # {} /\ req[c].num \in Nat \ {0}
    BY <1>3, <1>k DEF UpdatePreset, Rejected
  <2>2. p \in Item
    BY <2>1, <1>k, MatchingKeyType DEF Item
  <2>3. u \in Seq(Item)
    BY <2>1, <2>2, <1>f, <1>p, UpdatedPresetsFacts DEF IsUpdate
  <2>4. draft' = [draft EXCEPT ![c] = u] /\ result' = [result EXCEPT ![c] = p]
    BY <1>3 DEF UpdatePreset
  <2>5. draft' \in [Clients -> Seq(Item)] /\ result' \in [Clients -> Item]
    BY <2>2, <2>3, <2>4
  <2> QED
    BY <1>3, <2>5, <1>t DEF UpdatePreset
<1>4. CASE AddNewRecent(c)
  <2> DEFINE l == file["recents"].list
             x == NewRecent(l, MatchingKey(Sources, req[c].sid), req[c].loc)
  <2>1. SourcesWithID(Sources, req[c].sid) # {}
    BY <1>4 DEF AddNewRecent, Rejected
  <2>2. x \in Item
    BY <2>1, <1>k, <1>f, <1>p, MatchingKeyType, NextRecentIDFresh DEF Item, NewRecent
  <2>3. Inserted(l, x) \in Seq(Item)
    BY <2>2, <1>f, <1>p, InsertedFacts
  <2>4. draft' = [draft EXCEPT ![c] = Inserted(l, x)] /\ result' = [result EXCEPT ![c] = x]
    BY <1>4 DEF AddNewRecent
  <2>5. draft' \in [Clients -> Seq(Item)] /\ result' \in [Clients -> Item]
    BY <2>2, <2>3, <2>4
  <2> QED
    BY <1>4, <2>5, <1>t DEF AddNewRecent
<1>5. CASE TouchRecent(c)
  <2> DEFINE l == file["recents"].list
             S == SameContent(l, MatchingKey(Sources, req[c].sid), req[c].loc)
             i == First(S)
  <2>1. S \in SUBSET (1 .. Len(l)) /\ S # {}
    BY <1>5 DEF TouchRecent, SameContent
  <2>2. l \in Seq(Item)
    BY <1>f, <1>p
  <2>3. i \in 1 .. Len(l)
    <3> HIDE DEF S, l
    <3>1. S \in SUBSET Nat
      BY <2>1
    <3> QED
      BY <2>1, <3>1, FirstInSet
  <2>4. PICK moved \in MovedToFront(l, i) : draft' = [draft EXCEPT ![c] = moved]
    BY <1>5 DEF TouchRecent
  <2>5. moved \in Seq(Item)
    BY <2>2, <2>3, MovedToFrontFacts
  <2>6. ShiftedInto(l, i) \in Item
    BY <2>2, <2>3, ItemsHaveIDs DEF ShiftedInto
  <2>7. result' = [result EXCEPT ![c] = ShiftedInto(l, i)]
    BY <1>5 DEF TouchRecent
  <2>8. draft' \in [Clients -> Seq(Item)] /\ result' \in [Clients -> Item]
    BY <2>4, <2>5, <2>6, <2>7
  <2> QED
    BY <1>5, <2>8, <1>t DEF TouchRecent
<1>6. CASE Truncate(c)
  <2>1. PICK t \in Now(c) :
          /\ clock' = t
          /\ file' = [file EXCEPT ![req[c].kind] = Emptied(c, t)]
    BY <1>6, TruncateFile
  <2>2. Emptied(c, t) \in FileType
    BY NowType, EmptiedFacts
  <2>3. file' \in [Kinds -> FileType] /\ clock' \in Nat
    BY <2>1, <2>2, NowType
  <2> QED
    BY <1>6, <2>3, <1>t DEF Truncate
<1>7. CASE Write(c)
  <2>1. PICK t \in Now(c), tail \in BOOLEAN :
          /\ clock' = t
          /\ file' = [file EXCEPT ![req[c].kind] = Written(draft[c], tail, t)]
    BY <1>7, WriteFile
  <2>2. Written(draft[c], tail, t) \in FileType
    BY NowType, WrittenFacts
  <2>3. file' \in [Kinds -> FileType] /\ clock' \in Nat
    BY <2>1, <2>2, NowType
  <2>4. saved' \in [Kinds -> Seq(Item)] /\ raced' \in [Kinds -> BOOLEAN]
    BY <1>7, <1>k DEF Write
  <2>5. stale' \in [Clients -> BOOLEAN]
    <3> DEFINE late(d) == IF d = c THEN FALSE
                          ELSE stale[d] \/ (pc[d] \in {"open", "write"} /\ req[d].kind = req[c].kind)
    <3>1. stale' = [d \in Clients |-> late(d)]
      BY <1>7 DEF Write
    <3>2. \A d \in Clients : late(d) \in BOOLEAN
      BY Zenon
    <3> HIDE DEF late
    <3> QED
      BY <3>1, <3>2
  <2>6. promised' \in [Buttons -> Locs \cup {NoLoc}]
    BY <1>7, <1>k DEF Write
  <2>7. /\ pc' \in [Clients -> PC]
        /\ req' \in [Clients -> ReqType]
        /\ draft' \in [Clients -> Seq(Item)]
        /\ result' \in [Clients -> Item]
    BY <1>7, IdleType, EmptyPresetType DEF Write
  <2> QED
    BY <2>3, <2>4, <2>5, <2>6, <2>7, <1>t
<1>8. CASE SaveFails(c)
  BY <1>8, <1>e, <1>t DEF SaveFails
<1> QED
  BY <1>1, <1>2, <1>3, <1>4, <1>5, <1>6, <1>7, <1>8, <1>p DEF ClientStep

LEMMA TypeNext ==
  ASSUME TypeOK, [StoreNext]_storeVars
  PROVE  TypeOK'
<1>1. CASE Crash
  BY <1>1, IdleType, EmptyPresetType DEF Crash, TypeOK, ReqType
<1>2. CASE \E c \in Clients : ClientStep(c)
  BY <1>2, ClientStepType
<1>3. CASE UNCHANGED storeVars
  BY <1>3 DEF storeVars, TypeOK
<1> QED
  BY <1>1, <1>2, <1>3 DEF StoreNext

(* Type correctness of the store, for all constants: in particular every   *)
(* list UpdatePreset and AddRecent compute is a list of well-formed items. *)
THEOREM StoreTypeCorrect == StoreSpec => []TypeOK
<1>1. StoreInit => TypeOK
  BY InitType
<1>2. TypeOK /\ [StoreNext]_storeVars => TypeOK'
  BY TypeNext
<1> QED
  BY <1>1, <1>2, PTL DEF StoreSpec

-----------------------------------------------------------------------------
(* Every list of a file.  What holds of each list that a request computes  *)
(* from the one it read holds of the file: L is the set of lists for which *)
(* it holds, and the lists in question are the one in the file and those   *)
(* that requests in flight are about to save.                              *)
Saving(c, kind) == pc[c] \in {"open", "write"} /\ req[c].kind = kind

ListsIn(kind, L) ==
  /\ file[kind].list \in L
  /\ \A c \in Clients : Saving(c, kind) => draft[c] \in L

LEMMA ListsInInit ==
  ASSUME NEW L, <<>> \in L, StoreInit
  PROVE  /\ InitialPresets \subseteq L => ListsIn("presets", L)
         /\ InitialRecents \subseteq L => ListsIn("recents", L)
<1>1. \A c \in Clients, k \in Kinds : ~Saving(c, k)
  BY DEF StoreInit, Saving
<1>2. ASSUME NEW lists, NEW f \in InitialFile(lists), lists \subseteq L
      PROVE  f.list \in L
  BY <1>2 DEF InitialFile, Holding, Emptied
<1>3. /\ file["presets"] \in InitialFile(InitialPresets)
      /\ file["recents"] \in InitialFile(InitialRecents)
  BY DEF StoreInit
<1> QED
  BY <1>1, <1>2, <1>3 DEF ListsIn, Kinds

(* A request that computes its list from what it read. *)
LEMMA ListsInPrepare ==
  ASSUME TypeOK, NEW kind \in Kinds, NEW L, ListsIn(kind, L), NEW c \in Clients,
         NEW l, draft' = [draft EXCEPT ![c] = l], pc' = [pc EXCEPT ![c] = "open"],
         UNCHANGED <<file, req>>, req[c].kind = kind => l \in L
  PROVE  ListsIn(kind, L)'
<1>1. ASSUME NEW d \in Clients, Saving(d, kind)'
      PROVE  draft'[d] \in L
  <2>1. CASE d = c
    BY <1>1, <2>1 DEF Saving, TypeOK
  <2>2. CASE d # c
    BY <1>1, <2>2 DEF Saving, ListsIn, TypeOK
  <2> QED
    BY <2>1, <2>2
<1> QED
  BY <1>1 DEF ListsIn

(* Requests that arrive, end without a change, or save. *)
LEMMA ListsInArrive ==
  ASSUME TypeOK, NEW kind \in Kinds, NEW L, ListsIn(kind, L), NEW c \in Clients,
         NEW k, NEW r, Accept(c, k, r)
  PROVE  ListsIn(kind, L)'
  BY DEF Accept, ListsIn, Saving, TypeOK

LEMMA ListsInFinish ==
  ASSUME TypeOK, NEW kind \in Kinds, NEW L, ListsIn(kind, L), NEW c \in Clients,
         Finish(c), UNCHANGED file
  PROVE  ListsIn(kind, L)'
  BY DEF Finish, ListsIn, Saving, TypeOK

LEMMA ListsInTruncate ==
  ASSUME TypeOK, NEW kind \in Kinds, NEW L, <<>> \in L, ListsIn(kind, L), NEW c \in Clients,
         Truncate(c)
  PROVE  ListsIn(kind, L)'
<1>1. PICK t \in Now(c) : file' = [file EXCEPT ![req[c].kind] = Emptied(c, t)]
  BY TruncateFile
<1>2. file'[kind] = file[kind] \/ file'[kind].list = <<>>
  BY <1>1 DEF TypeOK, Emptied
<1>3. file'[kind].list \in L
  BY <1>2 DEF ListsIn
<1> QED
  BY <1>3 DEF Truncate, ListsIn, Saving, TypeOK

LEMMA ListsInWrite ==
  ASSUME TypeOK, NEW kind \in Kinds, NEW L, ListsIn(kind, L), NEW c \in Clients, Write(c)
  PROVE  ListsIn(kind, L)'
<1>1. PICK t \in Now(c), tail \in BOOLEAN :
        file' = [file EXCEPT ![req[c].kind] = Written(draft[c], tail, t)]
  BY WriteFile
<1>2. file'[kind] = file[kind] \/ (file'[kind].list = draft[c] /\ req[c].kind = kind)
  BY <1>1 DEF TypeOK, Written, Holding
<1>3. file'[kind].list \in L
  BY <1>2 DEF ListsIn, Saving, Write
<1> QED
  BY <1>3 DEF Write, ListsIn, Saving, TypeOK

(* The steps of a request that compute a list. *)
Computes(c) == UpdatePreset(c) \/ AddNewRecent(c) \/ TouchRecent(c)

(* All other steps keep the lists in L. *)
LEMMA ListsInStep ==
  ASSUME TypeOK, NEW kind \in Kinds, NEW L, <<>> \in L, ListsIn(kind, L),
         Crash \/ (\E c \in Clients : ClientStep(c) /\ ~Computes(c)) \/ UNCHANGED storeVars
  PROVE  ListsIn(kind, L)'
<1>1. CASE Crash
  BY <1>1 DEF Crash, ListsIn, Saving
<1>2. ASSUME NEW c \in Clients, ClientStep(c), ~Computes(c)
      PROVE  ListsIn(kind, L)'
  <2>1. CASE Reject(c) \/ SaveFails(c)
    BY <2>1, ListsInFinish DEF Reject, SaveFails
  <2> QED
    BY <1>2, <2>1, ListsInArrive, ListsInTruncate, ListsInWrite DEF ClientStep, Computes
<1>3. CASE UNCHANGED storeVars
  BY <1>3 DEF storeVars, ListsIn, Saving
<1> QED
  BY <1>1, <1>2, <1>3

-----------------------------------------------------------------------------
(* Presets.                                                                *)

(* UpdatePreset leaves every button in its place and changes what one      *)
(* button plays.                                                           *)
LEMMA UpdatedPresetsKeep ==
  ASSUME NEW l \in Seq(Item), NEW n \in Nat \ {0}, NEW p \in Item, p.id = n
  PROVE  LET u == UpdatedPresets(l, n, p) IN
         /\ InPlace(l) => InPlace(u)
         /\ \A m \in Nat \ {0} : LocAt(u, m) = IF m = n THEN p.loc ELSE LocAt(l, m)
<1> DEFINE u == UpdatedPresets(l, n, p)
<1>1. /\ u \in Seq(Item)
      /\ n <= Len(u) /\ Len(l) <= Len(u) /\ Len(u) \in {n, Len(l)}
      /\ u[n] = p
      /\ \A i \in 1 .. Len(l) : i # n => u[i] = l[i]
      /\ \A i \in 1 .. Len(u) : i # n /\ i > Len(l) => u[i] = EmptyPreset
  <2>1. IsUpdate(u, l, n, p)
    BY UpdatedPresetsFacts, Zenon
  <2> HIDE DEF u
  <2> QED
    BY <2>1, Zenon DEF IsUpdate
<1> HIDE DEF u
<1>2. EmptyPreset.id = NoID /\ EmptyPreset.loc = NoLoc
  BY DEF EmptyPreset
<1>3. InPlace(l) => InPlace(u)
  <2> SUFFICES ASSUME InPlace(l), NEW i \in 1 .. Len(u)
               PROVE  u[i].id \in {NoID, i}
    BY DEF InPlace
  <2>1. CASE i = n
    BY <1>1, <2>1
  <2>2. CASE i # n /\ i <= Len(l)
    BY <1>1, <2>2 DEF InPlace
  <2>3. CASE i # n /\ i > Len(l)
    BY <1>1, <1>2, <2>3
  <2> QED
    BY <2>1, <2>2, <2>3
<1>4. ASSUME NEW m \in Nat \ {0}
      PROVE  LocAt(u, m) = IF m = n THEN p.loc ELSE LocAt(l, m)
  <2>1. CASE m = n
    BY <1>1, <2>1 DEF LocAt
  <2>2. CASE m # n /\ m <= Len(l)
    BY <1>1, <2>2 DEF LocAt
  <2>3. CASE m # n /\ m > Len(l)
    BY <1>1, <1>2, <2>3 DEF LocAt
  <2> QED
    BY <2>1, <2>2, <2>3
<1> QED
  BY <1>3, <1>4 DEF u

(* The presets copied from the speaker list every button at its position. *)
InitialInPlace == \A l \in InitialPresets : InPlace(l)

InPlaceLists == {l \in Seq(Item) : InPlace(l)}

LEMMA EmptyInPlace == <<>> \in InPlaceLists
  BY DEF InPlaceLists, InPlace

LEMMA InPlaceInit ==
  ASSUME InitialInPlace, StoreInit
  PROVE  ListsIn("presets", InPlaceLists)
<1>1. InitialPresets \subseteq InPlaceLists
  BY StoreAssumption DEF InitialInPlace, InPlaceLists
<1> QED
  BY <1>1, EmptyInPlace, ListsInInit

LEMMA InPlaceNext ==
  ASSUME TypeOK, ListsIn("presets", InPlaceLists), [StoreNext]_storeVars
  PROVE  ListsIn("presets", InPlaceLists)'
<1>0. "presets" \in Kinds /\ "recents" \in Kinds
  BY DEF Kinds
<1>1. ASSUME NEW c \in Clients, UpdatePreset(c)
      PROVE  ListsIn("presets", InPlaceLists)'
  <2> DEFINE p == [id |-> req[c].num, key |-> MatchingKey(Sources, req[c].sid), loc |-> req[c].loc]
             l == file["presets"].list
             u == UpdatedPresets(l, req[c].num, p)
  <2>1. /\ SourcesWithID(Sources, req[c].sid) # {}
        /\ req[c].num \in Nat \ {0}
    BY <1>1 DEF UpdatePreset, Rejected, TypeOK
  <2>2. p \in Item /\ p.id = req[c].num
    BY <2>1, MatchingKeyType DEF Item, TypeOK
  <2>3. l \in Seq(Item) /\ InPlace(l)
    BY DEF ListsIn, InPlaceLists
  <2>4. /\ draft' = [draft EXCEPT ![c] = u]
        /\ pc' = [pc EXCEPT ![c] = "open"]
        /\ UNCHANGED <<file, req>>
    BY <1>1 DEF UpdatePreset
  <2> HIDE DEF p, l
  <2>5. u \in InPlaceLists
    BY <2>1, <2>2, <2>3, UpdatedPresetsFacts, UpdatedPresetsKeep DEF IsUpdate, InPlaceLists
  <2> HIDE DEF u
  <2> QED
    BY <1>0, <2>4, <2>5, ListsInPrepare
<1>2. ASSUME NEW c \in Clients, AddNewRecent(c) \/ TouchRecent(c)
      PROVE  ListsIn("presets", InPlaceLists)'
  <2>1. PICK l : draft' = [draft EXCEPT ![c] = l]
    BY <1>2 DEF AddNewRecent, TouchRecent
  <2>2. /\ req[c].kind # "presets"
        /\ pc' = [pc EXCEPT ![c] = "open"]
        /\ UNCHANGED <<file, req>>
    BY <1>2 DEF AddNewRecent, TouchRecent
  <2> QED
    BY <1>0, <2>1, <2>2, ListsInPrepare
<1> QED
  BY <1>0, <1>1, <1>2, EmptyInPlace, ListsInStep DEF Computes, StoreNext

(* What a list about to be saved holds, unless another save came between:  *)
(* the last saved list with one button changed.                            *)
DraftFollows(c) ==
  \A n \in Buttons :
    LocAt(draft[c], n) = IF n = req[c].num THEN req[c].loc ELSE LocAt(saved["presets"], n)

(* The inductive invariant for Presets.xml: it speaks of the file, of the  *)
(* list last saved, which the file holds whenever it is readable, and of   *)
(* the lists that requests in flight are about to save.                    *)
PresetsInv ==
  /\ file["presets"].readable => file["presets"].list = saved["presets"]
  /\ ~raced["presets"] => \A n \in Buttons : LocAt(saved["presets"], n) = promised[n]
  /\ \A c \in Clients : pc[c] # "idle" /\ req[c].kind = "presets" => req[c].num \in Buttons \cup {0}
  /\ \A c \in Clients : Saving(c, "presets") =>
       req[c].num \in Buttons /\ (~stale[c] => DraftFollows(c))

LEMMA PresetsInvInit == StoreInit => PresetsInv
<1> SUFFICES ASSUME StoreInit
             PROVE  PresetsInv
  OBVIOUS
<1>1. saved["presets"] = file["presets"].list
  BY DEF StoreInit, Kinds
<1>2. \A n \in Buttons : LocAt(saved["presets"], n) = promised[n]
  BY <1>1 DEF StoreInit
<1>3. \A c \in Clients : pc[c] = "idle"
  BY DEF StoreInit
<1> QED
  BY <1>1, <1>2, <1>3 DEF PresetsInv, Saving

(* A request for a button has computed its list. *)
LEMMA PresetsInvPrepare ==
  ASSUME TypeOK, PresetsInv, NEW c \in Clients, NEW l,
         draft' = [draft EXCEPT ![c] = l], pc' = [pc EXCEPT ![c] = "open"],
         UNCHANGED <<file, req, saved, stale, raced, promised>>,
         pc[c] = "read", req[c].num \in Buttons,
         \A n \in Buttons :
           LocAt(draft'[c], n) = IF n = req[c].num THEN req[c].loc ELSE LocAt(saved["presets"], n)
  PROVE  PresetsInv'
<1>1. ASSUME NEW d \in Clients, Saving(d, "presets")'
      PROVE  (req[d].num \in Buttons /\ (~stale[d] => DraftFollows(d)))'
  <2>1. CASE d = c
    BY <2>1 DEF DraftFollows
  <2>2. CASE d # c
    BY <1>1, <2>2 DEF PresetsInv, Saving, DraftFollows, TypeOK
  <2> QED
    BY <2>1, <2>2
<1>2. \A d \in Clients : (pc[d] # "idle" /\ req[d].kind = "presets" => req[d].num \in Buttons \cup {0})'
  BY DEF PresetsInv, TypeOK
<1> QED
  BY <1>1, <1>2 DEF PresetsInv

(* One step of one request. *)
LEMMA PresetsInvStep ==
  ASSUME TypeOK, PresetsInv, NEW c \in Clients, ClientStep(c)
  PROVE  PresetsInv'
<1>0. "presets" \in Kinds /\ "recents" \in Kinds /\ req[c].kind \in Kinds
  BY DEF TypeOK, Kinds
<1>1. ASSUME NEW r \in PresetRequests, Accept(c, "presets", r)
      PROVE  PresetsInv'
  <2>1. r.num \in Buttons \cup {0}
    BY DEF Buttons
  <2> QED
    BY <1>1, <2>1 DEF Accept, PresetsInv, TypeOK, Saving, DraftFollows
<1>2. ASSUME NEW r \in RecentRequests, Accept(c, "recents", r)
      PROVE  PresetsInv'
  BY <1>2 DEF Accept, PresetsInv, TypeOK, Saving, DraftFollows
<1>3. CASE Reject(c)
  BY <1>3 DEF Reject, Finish, PresetsInv, TypeOK, Saving, DraftFollows
<1>4. CASE UpdatePreset(c)
  <2> DEFINE p == [id |-> req[c].num, key |-> MatchingKey(Sources, req[c].sid), loc |-> req[c].loc]
             l == file["presets"].list
  <2>1. /\ SourcesWithID(Sources, req[c].sid) # {}
        /\ req[c].num \in Nat \ {0}
        /\ file["presets"].readable
        /\ req[c].kind = "presets"
        /\ pc[c] = "read"
    BY <1>4 DEF UpdatePreset, Rejected, TypeOK
  <2>2. p \in Item /\ p.id = req[c].num /\ p.loc = req[c].loc
    BY <2>1, MatchingKeyType DEF Item, TypeOK
  <2>3. l \in Seq(Item) /\ l = saved["presets"]
    BY <1>0, <2>1 DEF PresetsInv, TypeOK
  <2>4. draft' = [draft EXCEPT ![c] = UpdatedPresets(l, req[c].num, p)]
    BY <1>4 DEF UpdatePreset
  <2> HIDE DEF p, l
  <2>5. draft'[c] = UpdatedPresets(l, req[c].num, p)
    BY <2>4 DEF TypeOK
  <2>6. \A n \in Buttons :
          LocAt(draft'[c], n) = IF n = req[c].num THEN req[c].loc ELSE LocAt(saved["presets"], n)
    BY <2>1, <2>2, <2>3, <2>5, UpdatedPresetsKeep, ButtonsType
  <2>7. req[c].num \in Buttons
    BY <2>1 DEF PresetsInv
  <2>8. /\ UNCHANGED <<file, req, saved, stale, raced, promised>>
        /\ pc' = [pc EXCEPT ![c] = "open"]
    BY <1>4 DEF UpdatePreset
  <2> QED
    BY <2>1, <2>4, <2>6, <2>7, <2>8, PresetsInvPrepare
<1>5. CASE AddNewRecent(c)
  BY <1>5 DEF AddNewRecent, PresetsInv, TypeOK, Saving, DraftFollows
<1>6. CASE TouchRecent(c)
  BY <1>6 DEF TouchRecent, PresetsInv, TypeOK, Saving, DraftFollows
<1>7. CASE Truncate(c)
  <2>1. PICK t \in Now(c) : file' = [file EXCEPT ![req[c].kind] = Emptied(c, t)]
    BY <1>7, TruncateFile
  <2>2. \/ file'["presets"] = file["presets"]
        \/ file'["presets"].list = <<>> /\ ~file'["presets"].readable
    BY <1>0, <2>1 DEF TypeOK, Emptied
  <2>3. (file["presets"].readable => file["presets"].list = saved["presets"])'
    BY <1>7, <2>2 DEF PresetsInv, Truncate
  <2> QED
    BY <1>7, <2>3 DEF Truncate, PresetsInv, TypeOK, Saving, DraftFollows
<1>8. CASE Write(c)
  <2>1. /\ pc[c] = "write"
        /\ pc' = [pc EXCEPT ![c] = "idle"]
        /\ req' = [req EXCEPT ![c] = Idle]
        /\ draft' = [draft EXCEPT ![c] = <<>>]
        /\ saved' = [saved EXCEPT ![req[c].kind] = draft[c]]
        /\ raced' = [raced EXCEPT ![req[c].kind] = raced[req[c].kind] \/ stale[c]]
        /\ promised' = IF req[c].kind = "presets" THEN [promised EXCEPT ![req[c].num] = req[c].loc]
                                                  ELSE promised
        /\ \A d \in Clients \ {c} :
             stale'[d] <=> stale[d] \/ (pc[d] \in {"open", "write"} /\ req[d].kind = req[c].kind)
    BY <1>8 DEF Write
  <2>2. PICK t \in Now(c), tail \in BOOLEAN :
          file' = [file EXCEPT ![req[c].kind] = Written(draft[c], tail, t)]
    BY <1>8, WriteFile
  <2>3. CASE req[c].kind = "presets"
    <3>1. file'["presets"].list = draft[c] /\ saved'["presets"] = draft[c]
      BY <1>0, <2>1, <2>2, <2>3 DEF TypeOK, Written, Holding
    <3>2. req[c].num \in Buttons /\ (~stale[c] => DraftFollows(c))
      BY <2>1, <2>3 DEF PresetsInv, Saving
    <3>3. ASSUME ~raced'["presets"], NEW n \in Buttons
          PROVE  LocAt(saved'["presets"], n) = promised'[n]
      <4>1. ~raced["presets"] /\ ~stale[c]
        BY <1>0, <2>1, <2>3, <3>3 DEF TypeOK
      <4> QED
        BY <4>1, <2>1, <2>3, <3>1, <3>2 DEF PresetsInv, DraftFollows, TypeOK
    <3>4. ASSUME NEW d \in Clients, Saving(d, "presets")'
          PROVE  d # c /\ Saving(d, "presets") /\ stale'[d] /\ draft'[d] = draft[d] /\ req'[d] = req[d]
      <4>1. d # c
        BY <2>1, <3>4 DEF Saving, TypeOK
      <4> QED
        BY <4>1, <2>1, <2>3, <3>4 DEF Saving, TypeOK
    <3>5. \A d \in Clients : pc'[d] # "idle" => pc[d] # "idle" /\ req'[d] = req[d]
      BY <2>1 DEF TypeOK
    <3>6. ASSUME NEW d \in Clients, Saving(d, "presets")'
          PROVE  (req[d].num \in Buttons /\ (~stale[d] => DraftFollows(d)))'
      BY <3>4, <3>6 DEF PresetsInv
    <3>7. \A d \in Clients : (pc[d] # "idle" /\ req[d].kind = "presets" => req[d].num \in Buttons \cup {0})'
      BY <3>5 DEF PresetsInv
    <3> QED
      BY <3>1, <3>2, <3>3, <3>6, <3>7 DEF PresetsInv
  <2>4. CASE req[c].kind = "recents"
    <3>1. /\ file'["presets"] = file["presets"]
          /\ saved'["presets"] = saved["presets"]
          /\ raced'["presets"] = raced["presets"]
          /\ promised' = promised
      BY <1>0, <2>1, <2>2, <2>4 DEF TypeOK
    <3>2. ASSUME NEW d \in Clients, Saving(d, "presets")'
          PROVE  /\ Saving(d, "presets") /\ draft'[d] = draft[d] /\ req'[d] = req[d]
                 /\ stale'[d] <=> stale[d]
      <4>1. d # c
        BY <2>1, <3>2 DEF Saving, TypeOK
      <4> QED
        BY <4>1, <2>1, <2>4, <3>2 DEF Saving, TypeOK
    <3>3. \A d \in Clients : pc'[d] # "idle" => pc[d] # "idle" /\ req'[d] = req[d]
      BY <2>1 DEF TypeOK
    <3>4. ASSUME NEW d \in Clients, Saving(d, "presets")'
          PROVE  (req[d].num \in Buttons /\ (~stale[d] => DraftFollows(d)))'
      BY <3>1, <3>2, <3>4 DEF PresetsInv, DraftFollows
    <3>5. \A d \in Clients : (pc[d] # "idle" /\ req[d].kind = "presets" => req[d].num \in Buttons \cup {0})'
      BY <3>3 DEF PresetsInv
    <3> QED
      BY <3>1, <3>4, <3>5 DEF PresetsInv
  <2> QED
    BY <1>0, <2>3, <2>4 DEF Kinds
<1>9. CASE SaveFails(c)
  BY <1>9 DEF SaveFails, Finish, PresetsInv, TypeOK, Saving, DraftFollows
<1> QED
  BY <1>1, <1>2, <1>3, <1>4, <1>5, <1>6, <1>7, <1>8, <1>9 DEF ClientStep

LEMMA PresetsInvNext ==
  ASSUME TypeOK, PresetsInv, [StoreNext]_storeVars
  PROVE  PresetsInv'
<1>1. CASE Crash
  BY <1>1 DEF Crash, PresetsInv, Saving
<1>2. CASE \E c \in Clients : ClientStep(c)
  BY <1>2, PresetsInvStep
<1>3. CASE UNCHANGED storeVars
  BY <1>3 DEF storeVars, PresetsInv, Saving, DraftFollows
<1> QED
  BY <1>1, <1>2, <1>3 DEF StoreNext

(* Whatever requests overlap, fail or die with the server: if the presets  *)
(* copied from the speaker list every button at its position, button n is  *)
(* always at position n of Presets.xml.                                    *)
THEOREM PresetButtonsStayInPlace ==
  ASSUME InitialInPlace
  PROVE  StoreSpec => []ButtonsInPlace
<1>1. StoreInit => ListsIn("presets", InPlaceLists)
  BY InPlaceInit
<1>2. TypeOK /\ ListsIn("presets", InPlaceLists) /\ [StoreNext]_storeVars => ListsIn("presets", InPlaceLists)'
  BY InPlaceNext
<1>3. ListsIn("presets", InPlaceLists) => ButtonsInPlace
  BY DEF ListsIn, InPlaceLists, ButtonsInPlace
<1> QED
  BY <1>1, <1>2, <1>3, StoreTypeCorrect, PTL DEF StoreSpec

(* As long as no stale list was saved, a readable Presets.xml plays on     *)
(* every button what was copied or acknowledged last.                      *)
THEOREM PresetsKeepTheirPromise == StoreSpec => []PromisedPresets
<1>1. StoreInit => PresetsInv
  BY PresetsInvInit
<1>2. TypeOK /\ PresetsInv /\ [StoreNext]_storeVars => PresetsInv'
  BY PresetsInvNext
<1>3. PresetsInv => PromisedPresets
  BY DEF PresetsInv, PromisedPresets
<1> QED
  BY <1>1, <1>2, <1>3, StoreTypeCorrect, PTL DEF StoreSpec

-----------------------------------------------------------------------------
(* Recents.                                                                *)

(* The recents copied from the speaker have one id per content. *)
InitialIdentified == \A l \in InitialRecents : Identified(l)

(* The recents that are not too long, and those whose ids tell contents. *)
BoundedLists == {l \in Seq(Item) : Bounded(l)}
IdentifiedLists == {l \in Seq(Item) : Identified(l)}

(* The new recent: a fresh id and the content of the request. *)
LEMMA NewRecentFacts ==
  ASSUME NEW l \in Seq(Item), NEW key \in Keys, NEW loc \in Locs \cup {NoLoc}
  PROVE  LET x == NewRecent(l, key, loc) IN
         /\ x \in Item /\ x.key = key /\ x.loc = loc
         /\ \A i \in 1 .. Len(l) : l[i].id # x.id
<1> DEFINE x == NewRecent(l, key, loc)
<1>1. /\ x \in Item /\ x.key = key /\ x.loc = loc
      /\ \A i \in 1 .. Len(l) : l[i].id < x.id
  BY NextRecentIDFresh DEF NewRecent, Item
<1>2. \A i \in 1 .. Len(l) : l[i].id \in Nat
  BY ItemsHaveIDs
<1>3. x.id \in Nat
  BY <1>1 DEF Item
<1> HIDE DEF x
<1>4. \A i \in 1 .. Len(l) : l[i].id # x.id
  BY <1>1, <1>2, <1>3
<1> QED
  BY <1>1, <1>4 DEF x

(* Adding a recent cuts the list, and moving one to the front, in either   *)
(* order of evaluation, does not lengthen it.                              *)
LEMMA InsertedBounded ==
  ASSUME NEW l \in Seq(Item), NEW x \in Item
  PROVE  Inserted(l, x) \in BoundedLists
  BY InsertedFacts DEF BoundedLists, Bounded

LEMMA MovedBounded ==
  ASSUME NEW l \in BoundedLists, NEW i \in 1 .. Len(l), NEW moved \in MovedToFront(l, i)
  PROVE  moved \in BoundedLists
<1>1. l \in Seq(Item) /\ Bounded(l)
  BY DEF BoundedLists
<1>2. moved \in Seq(Item) /\ Len(moved) = Len(l)
  BY <1>1, MovedToFrontFacts
<1> QED
  BY <1>1, <1>2 DEF BoundedLists, Bounded

(* Adding a content that is not listed keeps ids and contents one to one:  *)
(* its id is larger than all others.                                       *)
LEMMA InsertedIdentified ==
  ASSUME NEW l \in IdentifiedLists, NEW key \in Keys, NEW loc \in Locs \cup {NoLoc},
         SameContent(l, key, loc) = {}
  PROVE  Inserted(l, NewRecent(l, key, loc)) \in IdentifiedLists
<1> DEFINE x == NewRecent(l, key, loc)
           n == Inserted(l, x)
<1>1. l \in Seq(Item) /\ Identified(l)
  BY DEF IdentifiedLists
<1>2. /\ x \in Item /\ x.key = key /\ x.loc = loc
      /\ \A i \in 1 .. Len(l) : l[i].id # x.id
  BY <1>1, NewRecentFacts
<1>3. \A i \in 1 .. Len(l) : l[i].id # x.id /\ ~(l[i].key = x.key /\ l[i].loc = x.loc)
  BY <1>1, <1>2 DEF SameContent
<1> HIDE DEF x
<1>4. /\ n \in Seq(Item)
      /\ \A i \in 1 .. Len(n) : i - 1 <= Len(l)
      /\ \A i \in 1 .. Len(n) : n[i] = IF i = 1 THEN x ELSE l[i - 1]
  BY <1>1, <1>2, InsertedFacts
<1> HIDE DEF n
<1>5. ASSUME NEW i \in 1 .. Len(n), NEW j \in 1 .. Len(n)
      PROVE  n[i].id = n[j].id <=> (n[i].key = n[j].key /\ n[i].loc = n[j].loc)
  <2>1. CASE i = 1 /\ j = 1
    BY <2>1
  <2>2. CASE i = 1 /\ j # 1
    <3>1. n[i] = x /\ n[j] = l[j - 1] /\ j - 1 \in 1 .. Len(l)
      BY <1>1, <1>4, <2>2
    <3> QED
      BY <1>3, <3>1
  <2>3. CASE i # 1 /\ j = 1
    <3>1. n[j] = x /\ n[i] = l[i - 1] /\ i - 1 \in 1 .. Len(l)
      BY <1>1, <1>4, <2>3
    <3> QED
      BY <1>3, <3>1
  <2>4. CASE i # 1 /\ j # 1
    <3>1. /\ n[i] = l[i - 1] /\ i - 1 \in 1 .. Len(l)
          /\ n[j] = l[j - 1] /\ j - 1 \in 1 .. Len(l)
      BY <1>1, <1>4, <2>4
    <3> QED
      BY <1>1, <3>1 DEF Identified
  <2> QED
    BY <2>1, <2>2, <2>3, <2>4
<1>6. n \in IdentifiedLists
  BY <1>4, <1>5 DEF IdentifiedLists, Identified
<1> QED
  BY <1>6 DEF n, x

(* Moving a content to the front keeps them one to one: nothing is new. *)
LEMMA MovedIdentified ==
  ASSUME NEW l \in IdentifiedLists, NEW i \in 1 .. Len(l), NEW moved \in MovedToFront(l, i)
  PROVE  moved \in IdentifiedLists
<1>1. l \in Seq(Item) /\ Identified(l)
  BY DEF IdentifiedLists
<1>2. /\ moved \in Seq(Item)
      /\ \A j \in 1 .. Len(moved) : \E k \in 1 .. Len(l) : moved[j] = l[k]
  BY <1>1, MovedToFrontFacts
<1>3. ASSUME NEW a \in 1 .. Len(moved), NEW b \in 1 .. Len(moved)
      PROVE  moved[a].id = moved[b].id
               <=> (moved[a].key = moved[b].key /\ moved[a].loc = moved[b].loc)
  <2>1. PICK j \in 1 .. Len(l) : moved[a] = l[j]
    BY <1>2
  <2>2. PICK k \in 1 .. Len(l) : moved[b] = l[k]
    BY <1>2
  <2> QED
    BY <1>1, <2>1, <2>2 DEF Identified
<1> QED
  BY <1>2, <1>3 DEF IdentifiedLists, Identified

(* What a request makes of the recents it read stays in L, if adding and   *)
(* moving stay in L: so every list of recents does.                        *)
LEMMA RecentsStep ==
  ASSUME TypeOK, NEW L, ListsIn("recents", L), <<>> \in L, [StoreNext]_storeVars,
         \A l \in L \cap Seq(Item), key \in Keys, loc \in Locs \cup {NoLoc} :
           SameContent(l, key, loc) = {} => Inserted(l, NewRecent(l, key, loc)) \in L,
         \A l \in L \cap Seq(Item) : \A i \in 1 .. Len(l) : MovedToFront(l, i) \subseteq L
  PROVE  ListsIn("recents", L)'
<1>0. "presets" \in Kinds /\ "recents" \in Kinds
  BY DEF Kinds
<1> DEFINE l == file["recents"].list
<1>l. l \in L \cap Seq(Item)
  BY <1>0 DEF TypeOK, ListsIn
<1>1. ASSUME NEW c \in Clients, UpdatePreset(c)
      PROVE  ListsIn("recents", L)'
  <2>1. PICK u : draft' = [draft EXCEPT ![c] = u]
    BY <1>1 DEF UpdatePreset
  <2>2. /\ req[c].kind # "recents"
        /\ pc' = [pc EXCEPT ![c] = "open"]
        /\ UNCHANGED <<file, req>>
    BY <1>1 DEF UpdatePreset
  <2> QED
    BY <1>0, <2>1, <2>2, ListsInPrepare
<1>2. ASSUME NEW c \in Clients, AddNewRecent(c)
      PROVE  ListsIn("recents", L)'
  <2> DEFINE key == MatchingKey(Sources, req[c].sid)
             u == Inserted(l, NewRecent(l, key, req[c].loc))
  <2>1. /\ SourcesWithID(Sources, req[c].sid) # {}
        /\ SameContent(l, key, req[c].loc) = {}
        /\ draft' = [draft EXCEPT ![c] = u]
        /\ pc' = [pc EXCEPT ![c] = "open"]
        /\ UNCHANGED <<file, req>>
    BY <1>2 DEF AddNewRecent, Rejected
  <2>2. key \in Keys /\ req[c].loc \in Locs \cup {NoLoc}
    BY <2>1, MatchingKeyType DEF TypeOK
  <2> HIDE DEF key, l
  <2>3. u \in L
    BY <1>l, <2>1, <2>2
  <2> HIDE DEF u
  <2> QED
    BY <1>0, <2>1, <2>3, ListsInPrepare
<1>3. ASSUME NEW c \in Clients, TouchRecent(c)
      PROVE  ListsIn("recents", L)'
  <2> DEFINE S == SameContent(l, MatchingKey(Sources, req[c].sid), req[c].loc)
  <2>1. S \in SUBSET (1 .. Len(l)) /\ S # {}
    BY <1>3 DEF TouchRecent, SameContent
  <2>2. PICK moved \in MovedToFront(l, First(S)) : draft' = [draft EXCEPT ![c] = moved]
    BY <1>3 DEF TouchRecent
  <2>3. pc' = [pc EXCEPT ![c] = "open"] /\ UNCHANGED <<file, req>>
    BY <1>3 DEF TouchRecent
  <2> HIDE DEF S, l
  <2>4. First(S) \in 1 .. Len(l)
    <3>1. S \in SUBSET Nat
      BY <2>1
    <3> QED
      BY <2>1, <3>1, FirstInSet
  <2>5. moved \in L
    BY <1>l, <2>2, <2>4
  <2> QED
    BY <1>0, <2>2, <2>3, <2>5, ListsInPrepare
<1> HIDE DEF l
<1> QED
  BY <1>0, <1>1, <1>2, <1>3, ListsInStep DEF Computes, StoreNext

LEMMA BoundedInit == StoreInit => ListsIn("recents", BoundedLists)
<1>1. <<>> \in BoundedLists
  BY MargeAssumption DEF BoundedLists, Bounded
<1>2. InitialRecents \subseteq BoundedLists
  <2>1. \A l \in InitialRecents : l \in Seq(Item) /\ Len(l) <= Len(l)
    BY StoreAssumption
  <2> QED
    BY <2>1 DEF BoundedLists, Bounded
<1> QED
  BY <1>1, <1>2, ListsInInit

LEMMA BoundedNext ==
  ASSUME TypeOK, ListsIn("recents", BoundedLists), [StoreNext]_storeVars
  PROVE  ListsIn("recents", BoundedLists)'
<1>1. <<>> \in BoundedLists
  BY MargeAssumption DEF BoundedLists, Bounded
<1>2. \A l \in BoundedLists \cap Seq(Item), key \in Keys, loc \in Locs \cup {NoLoc} :
        Inserted(l, NewRecent(l, key, loc)) \in BoundedLists
  BY NewRecentFacts, InsertedBounded
<1>3. \A l \in BoundedLists \cap Seq(Item) : \A i \in 1 .. Len(l) : MovedToFront(l, i) \subseteq BoundedLists
  BY MovedBounded
<1> QED
  BY <1>1, <1>2, <1>3, RecentsStep

(* Recents.xml never outgrows MaxRecents, or the list it was copied with,  *)
(* although only the path that adds a content cuts it.                     *)
THEOREM RecentsStayBounded == StoreSpec => []RecentsBounded
<1>1. StoreInit => ListsIn("recents", BoundedLists)
  BY BoundedInit
<1>2. TypeOK /\ ListsIn("recents", BoundedLists) /\ [StoreNext]_storeVars => ListsIn("recents", BoundedLists)'
  BY BoundedNext
<1>3. ListsIn("recents", BoundedLists) => RecentsBounded
  BY DEF ListsIn, BoundedLists, RecentsBounded
<1> QED
  BY <1>1, <1>2, <1>3, StoreTypeCorrect, PTL DEF StoreSpec

(* Ids and contents of the recents stay one to one in every list that is   *)
(* ever saved, whatever requests overlap and whichever way "move to front" *)
(* is evaluated.                                                           *)
THEOREM RecentIDsStayIdentifying ==
  ASSUME InitialIdentified
  PROVE  StoreSpec => []RecentIDsIdentifyContent
<1>0. <<>> \in IdentifiedLists
  BY DEF IdentifiedLists, Identified
<1>1. StoreInit => ListsIn("recents", IdentifiedLists)
  <2>1. InitialRecents \subseteq IdentifiedLists
    BY StoreAssumption DEF InitialIdentified, IdentifiedLists
  <2> QED
    BY <1>0, <2>1, ListsInInit
<1>2. TypeOK /\ ListsIn("recents", IdentifiedLists) /\ [StoreNext]_storeVars
        => ListsIn("recents", IdentifiedLists)'
  <2>1. \A l \in IdentifiedLists \cap Seq(Item), key \in Keys, loc \in Locs \cup {NoLoc} :
          SameContent(l, key, loc) = {} => Inserted(l, NewRecent(l, key, loc)) \in IdentifiedLists
    BY InsertedIdentified
  <2>2. \A l \in IdentifiedLists \cap Seq(Item) : \A i \in 1 .. Len(l) :
          MovedToFront(l, i) \subseteq IdentifiedLists
    BY MovedIdentified
  <2> QED
    BY <1>0, <2>1, <2>2, RecentsStep
<1>3. ListsIn("recents", IdentifiedLists) => RecentIDsIdentifyContent
  BY DEF ListsIn, IdentifiedLists, RecentIDsIdentifyContent
<1> QED
  BY <1>1, <1>2, <1>3, StoreTypeCorrect, PTL DEF StoreSpec
=============================================================================
