------------------------ MODULE DeviceRegistry_proofs ------------------------
(***************************************************************************)
(* Proofs about DeviceRegistry: type correctness, and that no scan ever    *)
(* removes a speaker that is recorded under its serial number.             *)
(***************************************************************************)
EXTENDS DeviceRegistry, WellFoundedInduction, TLAPS

(* A non-empty set of natural numbers has a least element. *)
LEMMA LeastPosition ==
  ASSUME NEW S \in SUBSET Nat, S # {}
  PROVE  \E i \in S : \A j \in S : i <= j
<1> DEFINE Below == OpToRel(<, Nat)
<1>1. IsWellFoundedOn(Below, Nat)
  BY NatLessThanWellFounded
<1>2. PICK i \in S : \A j \in S : ~(<<j, i>> \in Below)
  BY <1>1, WFMin, Zenon
<1>3. \A j \in S : ~(j < i)
  BY <1>2 DEF OpToRel
<1> QED
  BY <1>3

LEMMA NoInfoType ==
  /\ NoInfo \in Info
  /\ Missing \in [state : {"absent", "torn", "ok"}, info : Info]
  /\ Torn \in [state : {"absent", "torn", "ok"}, info : Info]
<1>1. (CHOOSE s \in Speakers : TRUE) \in Speakers
  BY RegistryAssumption
<1>2. NoInfo \in Info
  BY <1>1 DEF NoInfo, Unknown, Info, NoName
<1> QED
  BY <1>2 DEF Missing, Torn

LEMMA NameTypes ==
  /\ Serials \subseteq Nat \ {NoName} /\ Names \subseteq Nat
  /\ \A s \in Speakers : SerialOf[s] \in Serials
<1>1. \A s \in Speakers : SerialOf[s] \in Serials /\ SerialOf[s] \in Nat \ {NoName}
  BY RegistryAssumption DEF Serials
<1>2. Serials \subseteq Nat \ {NoName}
  BY <1>1 DEF Serials
<1>3. DeviceIDs \subseteq Nat
  BY RegistryAssumption DEF DeviceIDs, Info
<1>4. Addresses \subseteq Nat
  BY RegistryAssumption
<1> QED
  BY <1>1, <1>2, <1>3, <1>4 DEF Names

(* A device that is listed is one that was copied or one that parses. *)
LEMMA MetInfo ==
  ASSUME TypeOK, NEW k \in Met
  PROVE  /\ k.at \in Nat /\ k.info \in Info
         /\ \/ \E i \in 1 .. Len(Copied) : k.info = Copied[i]
            \/ \E n \in Names : dir[n].state = "ok" /\ k.info = dir[n].info
<1>1. CASE \E i \in 1 .. Len(Copied) : k = [at |-> i, info |-> Copied[i]]
  BY <1>1, RegistryAssumption
<1>2. CASE \E n \in Names : dir[n].state = "ok" /\ k = [at |-> Len(Copied) + n, info |-> dir[n].info]
  BY <1>2, RegistryAssumption, NameTypes DEF TypeOK
<1> QED
  BY <1>1, <1>2 DEF Met

(* ExistingID is no name, or the key of some listed device. *)
LEMMA ExistingFacts ==
  ASSUME TypeOK, NEW serial \in Nat
  PROVE  /\ ExistingID(serial) \in Nat
         /\ \/ ExistingID(serial) = NoName
            \/ /\ serial # NoName
               /\ \E k \in Met : /\ serial \in {k.info.id, k.info.serial}
                                 /\ ExistingID(serial) = KeyOf(k.info)
<1> DEFINE known == {k \in ListAllDevices : serial \in {k.info.id, k.info.serial}}
<1>1. CASE serial = NoName \/ known = {}
  BY <1>1 DEF ExistingID, NoName
<1>2. CASE ~(serial = NoName \/ known = {})
  <2> DEFINE S == {k.at : k \in known}
             least == CHOOSE k \in known : \A j \in known : k.at <= j.at
  <2>1. known \subseteq Met
    BY DEF ListAllDevices
  <2>2. S \in SUBSET Nat /\ S # {}
    BY <1>2, <2>1, MetInfo
  <2>3. PICK i \in S : \A j \in S : i <= j
    BY <2>2, LeastPosition
  <2>4. \E k \in known : \A j \in known : k.at <= j.at
    BY <2>3
  <2>5. least \in known
    BY <2>4
  <2>6. ExistingID(serial) = KeyOf(least.info)
    BY <1>2 DEF ExistingID
  <2>7. KeyOf(least.info) \in Nat
    BY <2>1, <2>5, MetInfo DEF KeyOf, Info
  <2> QED
    BY <1>2, <2>1, <2>5, <2>6, <2>7
<1> QED
  BY <1>1, <1>2

-----------------------------------------------------------------------------
LEMMA InitType == ASSUME Init PROVE TypeOK
<1>1. \A n \in DeviceIDs : (CHOOSE info \in InDefault : info.id = n) \in Info
  BY RegistryAssumption DEF DeviceIDs
<1>2. dir \in [Names -> [state : {"absent", "torn", "ok"}, info : Info]]
  BY <1>1, NoInfoType DEF Init
<1> QED
  BY <1>2, NoInfoType DEF Init, TypeOK, NoName

(* Moves of the scans. *)
LEMMA UnlinkedType ==
  ASSUME TypeOK, NEW name
  PROVE  Unlinked(name) \in [Scans -> {"idle", "search", "next", "live", "remove", "open", "write", "unlinked"}]
BY DEF Unlinked, TypeOK

(* Every step of a scan keeps the types. *)
LEMMA ScanType ==
  ASSUME TypeOK, NEW p \in Scans, StartScan(p) \/ ScanStep(p)
  PROVE  TypeOK'
<1>1. CASE StartScan(p)
  BY <1>1 DEF StartScan, TypeOK
<1>2. CASE SearchFails(p)
  BY <1>2 DEF SearchFails, Return, TypeOK
<1>3. CASE EndScan(p)
  BY <1>3 DEF EndScan, Return, TypeOK
<1>4. CASE SaveFails(p) \/ WriteUnlinked(p)
  BY <1>4 DEF SaveFails, WriteUnlinked, TypeOK
<1>5. CASE Search(p)
  <2>1. \A s \in Speakers : /\ [id |-> SerialOf[s], serial |-> SerialOf[s], ip |-> address[s], of |-> s] \in Info
                            /\ [id |-> NoName, serial |-> NoName, ip |-> address[s], of |-> s] \in Info
    <3> TAKE s \in Speakers
    <3>1. address[s] \in Nat /\ SerialOf[s] \in Nat /\ NoName \in Nat
      BY RegistryAssumption DEF TypeOK, NoName
    <3> QED
      BY <3>1 DEF Info
  <2>2. PICK told \in SUBSET Speakers, untold \in SUBSET Speakers :
          found' = [found EXCEPT ![p] =
            {[id |-> SerialOf[s], serial |-> SerialOf[s], ip |-> address[s], of |-> s] : s \in told} \cup
            {[id |-> NoName, serial |-> NoName, ip |-> address[s], of |-> s] : s \in untold}]
    BY <1>5 DEF Search
  <2>3. \A s \in told : [id |-> SerialOf[s], serial |-> SerialOf[s], ip |-> address[s], of |-> s] \in Info
    BY <2>1
  <2>4. \A s \in untold : [id |-> NoName, serial |-> NoName, ip |-> address[s], of |-> s] \in Info
    BY <2>1
  <2>5. found' \in [Scans -> SUBSET Info]
    BY <2>2, <2>3, <2>4 DEF TypeOK
  <2> QED
    BY <1>5, <2>5 DEF Search, TypeOK
<1>6. CASE Lookup(p)
  <2>1. PICK d \in found[p] :
          /\ current' = [current EXCEPT ![p] = d]
          /\ existing' = [existing EXCEPT ![p] = ExistingID(d.serial)]
          /\ found' = [found EXCEPT ![p] = found[p] \ {d}]
    BY <1>6 DEF Lookup
  <2>2. d \in Info /\ d.serial \in Nat
    BY DEF TypeOK, Info
  <2>3. ExistingID(d.serial) \in Nat
    BY <2>2, ExistingFacts
  <2> QED
    BY <1>6, <2>1, <2>2, <2>3 DEF Lookup, TypeOK
<1>7. CASE AskSpeaker(p)
  <2>1. current[p] \in Info
    BY DEF TypeOK
  <2>2. current[p].of \in Speakers /\ SerialOf[current[p].of] \in Nat
    BY <2>1, RegistryAssumption DEF Info
  <2>3. [current[p] EXCEPT !.id = SerialOf[current[p].of], !.serial = SerialOf[current[p].of]] \in Info
    BY <2>1, <2>2 DEF Info
  <2>4. current' \in [Scans -> Info]
    BY <1>7, <2>1, <2>3 DEF AskSpeaker, TypeOK
  <2>5. pc' \in [Scans -> {"idle", "search", "next", "live", "remove", "open", "write", "unlinked"}]
    BY <1>7 DEF AskSpeaker, TypeOK
  <2> QED
    BY <1>7, <2>4, <2>5 DEF AskSpeaker, TypeOK
<1>8. CASE RemoveOld(p)
  BY <1>8, NoInfoType, UnlinkedType DEF RemoveOld, RemoveDevice, TypeOK
<1>9. CASE OpenInfo(p)
  BY <1>9, NoInfoType DEF OpenInfo, TypeOK
<1>10. CASE WriteInfo(p)
  BY <1>10 DEF WriteInfo, TypeOK
<1> QED
  BY <1>1, <1>2, <1>3, <1>4, <1>5, <1>6, <1>7, <1>8, <1>9, <1>10 DEF ScanStep

LEMMA NextType == ASSUME TypeOK, [Next]_vars PROVE TypeOK'
<1>1. CASE UNCHANGED vars
  BY <1>1 DEF vars, scanVars, TypeOK
<1>2. CASE \E s \in Speakers : ChangeAddress(s)
  BY <1>2 DEF ChangeAddress, scanVars, TypeOK
<1>3. CASE \E n \in Names : DeleteDevice(n)
  BY <1>3, NoInfoType, UnlinkedType DEF DeleteDevice, RemoveDevice, TypeOK
<1>4. CASE Crash
  BY <1>4, NoInfoType DEF Crash, TypeOK, NoName
<1> QED
  BY <1>1, <1>2, <1>3, <1>4, ScanType DEF Next

(* Scans, infos and directories keep their types. *)
THEOREM RegistryTypeCorrect == Spec => []TypeOK
<1>1. Init => TypeOK
  BY InitType
<1>2. TypeOK /\ [Next]_vars => TypeOK'
  BY NextType
<1> QED
  BY <1>1, <1>2, PTL DEF Spec

-----------------------------------------------------------------------------
(* RecordedSpeakerKept is not inductive: that a scan never removes a       *)
(* serial's directory follows from what it may have found when it looked   *)
(* the speaker up.  An info it made has the same id and serial number; an  *)
(* info it can meet under a serial number has that serial number.          *)
Sighted(info) == info.id = info.serial /\ info.serial \in {NoName, SerialOf[info.of]}
SightedOnly ==
  /\ \A p \in Scans : \A d \in found[p] : Sighted(d)
  /\ \A p \in Scans : Sighted(current[p])
Unambiguous ==
  \A n \in Names :
    dir[n].state = "ok" /\ dir[n].info.id \in Serials \cup {NoName} => dir[n].info.id = dir[n].info.serial
KnownWell ==
  \A p \in Scans :
    /\ pc[p] = "live" /\ existing[p] \in Serials => existing[p] = current[p].serial
    /\ pc[p] = "remove" => existing[p] \notin Serials
RegInv == TypeOK /\ SightedOnly /\ Unambiguous /\ KnownWell /\ RecordedSpeakerKept

(* What a scan finds under a serial number is that serial number. *)
LEMMA ExistingIsOwn ==
  ASSUME TypeOK, Unambiguous, NEW serial \in Nat, ExistingID(serial) \in Serials
  PROVE  ExistingID(serial) = serial
<1>1. ExistingID(serial) # NoName
  BY NameTypes
<1>2. PICK k \in Met : serial \in {k.info.id, k.info.serial} /\ ExistingID(serial) = KeyOf(k.info)
  BY <1>1, ExistingFacts
<1>3. serial # NoName
  BY <1>1, ExistingFacts
<1>4. k.info.id \in Serials \cup {NoName} => k.info.id = k.info.serial
  <2>1. CASE \E i \in 1 .. Len(Copied) : k.info = Copied[i]
    BY <2>1, RegistryAssumption
  <2>2. CASE \E n \in Names : dir[n].state = "ok" /\ k.info = dir[n].info
    BY <2>2 DEF Unambiguous
  <2> QED
    BY <2>1, <2>2, MetInfo
<1>5. k.info.id # NoName
  BY <1>2, <1>3, <1>4
<1>6. ExistingID(serial) = k.info.id
  BY <1>2, <1>5 DEF KeyOf
<1> QED
  BY <1>2, <1>4, <1>6

LEMMA InitReg == ASSUME Init PROVE RegInv
<1>1. TypeOK
  BY InitType
<1>2. SightedOnly
  BY DEF Init, SightedOnly, Sighted, NoInfo, Unknown
<1>3. Unambiguous
  <2> SUFFICES ASSUME NEW n \in Names, dir[n].state = "ok"
               PROVE  dir[n].info.id \notin Serials \cup {NoName}
    BY DEF Unambiguous
  <2>1. n \in DeviceIDs /\ dir[n].info = CHOOSE info \in InDefault : info.id = n
    BY DEF Init, Missing
  <2>2. dir[n].info \in InDefault
    BY <2>1 DEF DeviceIDs
  <2> QED
    BY <2>2, RegistryAssumption
<1>4. KnownWell /\ RecordedSpeakerKept
  BY DEF Init, KnownWell, RecordedSpeakerKept
<1> QED
  BY <1>1, <1>2, <1>3, <1>4 DEF RegInv

(* Steps of a scan. *)
LEMMA ScanReg ==
  ASSUME RegInv, NEW p \in Scans, StartScan(p) \/ ScanStep(p)
  PROVE  SightedOnly' /\ Unambiguous' /\ KnownWell' /\ RecordedSpeakerKept'
<1> USE DEF RegInv
<1>1. CASE StartScan(p) \/ SearchFails(p) \/ EndScan(p) \/ SaveFails(p) \/ WriteUnlinked(p)
  <2>1. UNCHANGED <<dir, found, current, existing, kept>>
    BY <1>1 DEF StartScan, SearchFails, EndScan, SaveFails, WriteUnlinked
  <2>2. \A q \in Scans : pc'[q] \in {"live", "remove"} => pc'[q] = pc[q]
    BY <1>1 DEF StartScan, SearchFails, EndScan, SaveFails, WriteUnlinked, Return, TypeOK
  <2>3. SightedOnly' /\ Unambiguous' /\ RecordedSpeakerKept'
    BY <2>1 DEF SightedOnly, Unambiguous, RecordedSpeakerKept, Sighted
  <2>4. KnownWell'
    BY <2>1, <2>2 DEF KnownWell
  <2> QED
    BY <2>3, <2>4
<1>2. CASE Search(p)
  <2>1. PICK told \in SUBSET Speakers, untold \in SUBSET Speakers :
          found' = [found EXCEPT ![p] =
            {[id |-> SerialOf[s], serial |-> SerialOf[s], ip |-> address[s], of |-> s] : s \in told} \cup
            {[id |-> NoName, serial |-> NoName, ip |-> address[s], of |-> s] : s \in untold}]
    BY <1>2 DEF Search
  <2>2. \A q \in Scans : \A d \in found'[q] : Sighted(d)
    <3> SUFFICES ASSUME NEW q \in Scans, NEW d \in found'[q] PROVE Sighted(d)
      OBVIOUS
    <3>1. CASE q # p
      BY <2>1, <3>1 DEF SightedOnly, TypeOK
    <3>2. CASE q = p
      <4>1. found'[p] = {[id |-> SerialOf[s], serial |-> SerialOf[s], ip |-> address[s], of |-> s] : s \in told} \cup
                        {[id |-> NoName, serial |-> NoName, ip |-> address[s], of |-> s] : s \in untold}
        BY <2>1 DEF TypeOK
      <4>2. \/ \E s \in told : d = [id |-> SerialOf[s], serial |-> SerialOf[s], ip |-> address[s], of |-> s]
            \/ \E s \in untold : d = [id |-> NoName, serial |-> NoName, ip |-> address[s], of |-> s]
        BY <3>2, <4>1
      <4> QED
        BY <4>2 DEF Sighted
    <3> QED
      BY <3>1, <3>2
  <2>3. UNCHANGED <<dir, current, existing, kept>>
    BY <1>2 DEF Search
  <2>4. \A q \in Scans : pc'[q] \in {"live", "remove"} => pc'[q] = pc[q]
    BY <1>2 DEF Search, TypeOK
  <2>5. SightedOnly' /\ Unambiguous' /\ RecordedSpeakerKept'
    BY <2>2, <2>3 DEF SightedOnly, Unambiguous, RecordedSpeakerKept, Sighted
  <2>6. KnownWell'
    BY <2>3, <2>4 DEF KnownWell
  <2> QED
    BY <2>5, <2>6
<1>3. CASE Lookup(p)
  <2>1. PICK d \in found[p] :
          /\ current' = [current EXCEPT ![p] = d]
          /\ existing' = [existing EXCEPT ![p] = ExistingID(d.serial)]
          /\ found' = [found EXCEPT ![p] = found[p] \ {d}]
    BY <1>3 DEF Lookup
  <2>2. d \in Info /\ d.serial \in Nat /\ Sighted(d)
    BY DEF TypeOK, Info, SightedOnly
  <2>3. ExistingID(d.serial) \in Serials => ExistingID(d.serial) = d.serial
    BY <2>2, ExistingIsOwn
  <2>4. \A q \in Scans : found'[q] \subseteq found[q] /\ current'[q] = (IF q = p THEN d ELSE current[q])
    BY <2>1 DEF TypeOK
  <2>5. SightedOnly'
    BY <2>2, <2>4 DEF SightedOnly, Sighted
  <2>6. KnownWell'
    BY <1>3, <2>1, <2>3 DEF Lookup, KnownWell, TypeOK
  <2>7. Unambiguous' /\ RecordedSpeakerKept'
    BY <1>3 DEF Lookup, Unambiguous, RecordedSpeakerKept
  <2> QED
    BY <2>5, <2>6, <2>7
<1>4. CASE AskSpeaker(p)
  <2> DEFINE d == current[p]
             full == [d EXCEPT !.id = SerialOf[d.of], !.serial = SerialOf[d.of]]
  <2>1. PICK info \in {d, full} :
          /\ current' = [current EXCEPT ![p] = info]
          /\ pc' = [pc EXCEPT ![p] = IF MustRemove(info.serial, existing[p]) THEN "remove" ELSE "open"]
    BY <1>4 DEF AskSpeaker
  <2>2. d \in Info /\ Sighted(d)
    BY DEF TypeOK, SightedOnly
  <2>3. full.id = SerialOf[d.of] /\ full.serial = SerialOf[d.of] /\ full.of = d.of
    BY <2>2 DEF Info
  <2>4. Sighted(info)
    BY <2>2, <2>3 DEF Sighted
  <2>5. pc[p] = "live" /\ UNCHANGED <<dir, found, existing, kept>>
    BY <1>4 DEF AskSpeaker
  <2>6. MustRemove(info.serial, existing[p]) => existing[p] \notin Serials
    <3> SUFFICES ASSUME existing[p] \in Serials PROVE info.serial = existing[p]
      BY DEF MustRemove
    <3>1. existing[p] = d.serial /\ d.serial # NoName
      BY <2>5, NameTypes DEF KnownWell
    <3>2. d.serial = SerialOf[d.of]
      BY <2>2, <3>1 DEF Sighted
    <3> QED
      BY <2>3, <3>1, <3>2
  <2>7. SightedOnly'
    BY <2>1, <2>4, <2>5 DEF SightedOnly, Sighted, TypeOK
  <2>8. KnownWell'
    BY <2>1, <2>5, <2>6 DEF KnownWell, TypeOK
  <2>9. Unambiguous' /\ RecordedSpeakerKept'
    BY <2>5 DEF Unambiguous, RecordedSpeakerKept
  <2> QED
    BY <2>7, <2>8, <2>9
<1>5. CASE RemoveOld(p)
  <2>1. existing[p] \notin Serials
    BY <1>5 DEF RemoveOld, KnownWell
  <2>2. \A n \in Names : dir'[n] = (IF n = existing[p] THEN Missing ELSE dir[n])
    BY <1>5 DEF RemoveOld, RemoveDevice
  <2>3. UNCHANGED <<found, current, existing, kept>>
    BY <1>5 DEF RemoveOld
  <2>4. \A q \in Scans : pc'[q] \in {"live", "remove"} => pc'[q] = pc[q]
    BY <1>5 DEF RemoveOld, Unlinked, TypeOK
  <2>5. SightedOnly' /\ KnownWell'
    BY <2>3, <2>4 DEF SightedOnly, KnownWell, Sighted
  <2>6. Unambiguous'
    BY <2>2 DEF Unambiguous, Missing
  <2>7. RecordedSpeakerKept'
    BY <2>1, <2>2, <2>3 DEF RecordedSpeakerKept, TypeOK, Names
  <2> QED
    BY <2>5, <2>6, <2>7
<1>6. CASE OpenInfo(p)
  <2>1. \A n \in Names : dir'[n] = (IF n = NameOf(current[p]) THEN Torn ELSE dir[n])
    BY <1>6 DEF OpenInfo, TypeOK
  <2>2. UNCHANGED <<found, current, existing, kept>>
    BY <1>6 DEF OpenInfo
  <2>3. \A q \in Scans : pc'[q] \in {"live", "remove"} => pc'[q] = pc[q]
    BY <1>6 DEF OpenInfo, TypeOK
  <2>4. SightedOnly' /\ KnownWell'
    BY <2>2, <2>3 DEF SightedOnly, KnownWell, Sighted
  <2>5. Unambiguous'
    BY <2>1 DEF Unambiguous, Torn
  <2>6. RecordedSpeakerKept'
    BY <2>1, <2>2 DEF RecordedSpeakerKept, Torn, TypeOK, Names
  <2> QED
    BY <2>4, <2>5, <2>6
<1>7. CASE WriteInfo(p)
  <2> DEFINE name == NameOf(current[p])
  <2>1. \A n \in Names : dir'[n] = (IF n = name THEN [state |-> "ok", info |-> current[p]] ELSE dir[n])
    BY <1>7 DEF WriteInfo, TypeOK
  <2>2. UNCHANGED <<found, current, existing>> /\ kept' \subseteq kept \cup {name} /\ kept' \subseteq Serials
    BY <1>7 DEF WriteInfo, TypeOK
  <2>3. \A q \in Scans : pc'[q] \in {"live", "remove"} => pc'[q] = pc[q]
    BY <1>7 DEF WriteInfo, TypeOK
  <2>4. SightedOnly' /\ KnownWell'
    BY <2>2, <2>3 DEF SightedOnly, KnownWell, Sighted
  <2>5. Unambiguous'
    BY <2>1 DEF Unambiguous, SightedOnly, Sighted
  <2>6. RecordedSpeakerKept'
    BY <2>1, <2>2 DEF RecordedSpeakerKept, Names
  <2> QED
    BY <2>4, <2>5, <2>6
<1> QED
  BY <1>1, <1>2, <1>3, <1>4, <1>5, <1>6, <1>7 DEF ScanStep

LEMMA NextReg == ASSUME RegInv, [Next]_vars PROVE RegInv'
<1>1. TypeOK'
  BY NextType DEF RegInv
<1>2. SightedOnly' /\ Unambiguous' /\ KnownWell' /\ RecordedSpeakerKept'
  <2> USE DEF RegInv
  <2>1. CASE UNCHANGED vars \/ \E s \in Speakers : ChangeAddress(s)
    <3>1. UNCHANGED <<dir, pc, found, current, existing, kept>>
      BY <2>1 DEF vars, scanVars, ChangeAddress
    <3> QED
      BY <3>1 DEF SightedOnly, Sighted, Unambiguous, KnownWell, RecordedSpeakerKept
  <2>2. ASSUME NEW n \in Names, DeleteDevice(n)
        PROVE  SightedOnly' /\ Unambiguous' /\ KnownWell' /\ RecordedSpeakerKept'
    <3>1. \A m \in Names : dir'[m] = (IF m = n THEN Missing ELSE dir[m])
      BY <2>2 DEF DeleteDevice, RemoveDevice
    <3>2. UNCHANGED <<found, current, existing>> /\ kept' = kept \ {n}
      BY <2>2 DEF DeleteDevice
    <3>3. \A q \in Scans : pc'[q] \in {"live", "remove"} => pc'[q] = pc[q]
      BY <2>2 DEF DeleteDevice, Unlinked, TypeOK
    <3>4. SightedOnly' /\ KnownWell'
      BY <3>2, <3>3 DEF SightedOnly, KnownWell, Sighted
    <3>5. Unambiguous'
      BY <3>1 DEF Unambiguous, Missing
    <3>6. RecordedSpeakerKept'
      BY <3>1, <3>2 DEF RecordedSpeakerKept, TypeOK, Names
    <3> QED
      BY <3>4, <3>5, <3>6
  <2>3. CASE Crash
    <3>1. SightedOnly'
      BY <2>3 DEF Crash, SightedOnly, Sighted, NoInfo, Unknown
    <3>2. Unambiguous' /\ KnownWell' /\ RecordedSpeakerKept'
      BY <2>3 DEF Crash, Unambiguous, KnownWell, RecordedSpeakerKept
    <3> QED
      BY <3>1, <3>2
  <2> QED
    BY <2>1, <2>2, <2>3, ScanReg DEF Next
<1> QED
  BY <1>1, <1>2 DEF RegInv

(* For any number of scans, speakers and copied infos, a speaker recorded  *)
(* under its serial number keeps its directory until it is deleted: what   *)
(* discoverDevices removes is never the entry of a serial number.          *)
THEOREM RecordedSpeakersStay == Spec => []RecordedSpeakerKept
<1>1. Init => RegInv
  BY InitReg
<1>2. RegInv /\ [Next]_vars => RegInv'
  BY NextReg
<1>3. RegInv => RecordedSpeakerKept
  BY DEF RegInv
<1> QED
  BY <1>1, <1>2, <1>3, PTL DEF Spec
=============================================================================
