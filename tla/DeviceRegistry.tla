--------------------------- MODULE DeviceRegistry ---------------------------
(***************************************************************************)
(* Discovery: scans of the network that record the speakers they find as   *)
(* DeviceInfo.xml files of the "default" account.  One scan is started     *)
(* every five minutes and any number by the web page; they share the flag  *)
(* that the page polls and the files, and take no lock.                    *)
(*                                                                         *)
(* A speaker is known by its serial number when the scan or the speaker's  *)
(* own /info tells it, and by its address otherwise.  Serial numbers,      *)
(* device ids and addresses are all used as directory names; they are      *)
(* numbers here because directories are listed in the order of their names.*)
(***************************************************************************)
EXTENDS Naturals, Sequences, FiniteSets

CONSTANTS
  Scans,      \* scans that may run at once
  Speakers,   \* speakers on the network
  SerialOf,   \* their serial numbers
  Addresses,  \* addresses the router gives out
  Copied,     \* infos in the other accounts, which are listed first
  InDefault,  \* infos copied into the default account, under their device ids
  Silent,     \* speakers that accept a connection and never answer it
  Faults,     \* whether saving may fail and the server may crash
  MaxScans    \* bound on the scans of a behaviour

NoName == 0   \* an empty string

Serials == {SerialOf[s] : s \in Speakers}
DeviceIDs == {info.id : info \in InDefault}
Names == Serials \cup Addresses \cup DeviceIDs
Info == [id : Nat, serial : Nat, ip : Nat, of : Speakers]

ASSUME RegistryAssumption ==
  /\ Speakers # {}
  /\ SerialOf \in [Speakers -> Nat \ {NoName}]
  /\ \A s, t \in Speakers : SerialOf[s] = SerialOf[t] => s = t
  /\ Addresses \subseteq Nat \ {NoName}
  /\ Serials \cap Addresses = {}
  /\ Copied \in Seq(Info)
  /\ \A i \in 1 .. Len(Copied) : Copied[i].id \notin Serials \cup {NoName}
  /\ InDefault \subseteq Info
  /\ \A info \in InDefault : info.id \notin Serials \cup Addresses \cup {NoName}
  /\ \A info, other \in InDefault : info.id = other.id => info = other
  /\ Silent \subseteq Speakers
  /\ Faults \in BOOLEAN
  /\ MaxScans \in Nat

VARIABLES
  address,      \* the address of each speaker, as given out by the router
  dir,          \* directories of the default account: absent, torn or ok
  discovering,  \* the flag
  pc,           \* where each scan is
  found,        \* the speakers the scan has still to record
  current,      \* the info it is about to save
  existing,     \* the name under which that speaker was known
  started,      \* scans so far
  kept          \* history: serials recorded and not deleted since

scanVars == <<pc, found, current, existing>>
vars == <<address, dir, discovering, scanVars, started, kept>>

Unknown(s) == [id |-> NoName, serial |-> NoName, ip |-> NoName, of |-> s]
NoInfo == Unknown(CHOOSE s \in Speakers : TRUE)
Missing == [state |-> "absent", info |-> NoInfo]
Torn == [state |-> "torn", info |-> NoInfo]

(* The directory a scan saves an info in. *)
NameOf(info) == IF info.serial # NoName THEN info.serial ELSE info.ip

-----------------------------------------------------------------------------
(* ListAllDevices: the infos that parse, in the order in which they are    *)
(* met, each with its position.                                            *)
Met ==
  {[at |-> i, info |-> Copied[i]] : i \in 1 .. Len(Copied)} \cup
  {[at |-> Len(Copied) + n, info |-> dir[n].info] : n \in {n \in Names : dir[n].state = "ok"}}

(* Of those with the same id (or, without id, address) only the first. *)
KeyOf(info) == IF info.id = NoName THEN info.ip ELSE info.id
ListAllDevices == {k \in Met : \A j \in Met : j.at < k.at => KeyOf(j.info) # KeyOf(k.info)}

(* The name under which the first listed device with this serial is known. *)
ExistingID(serial) ==
  LET known == {k \in ListAllDevices : serial \in {k.info.id, k.info.serial}}
  IN  IF serial = NoName \/ known = {} THEN NoName
      ELSE KeyOf((CHOOSE k \in known : \A j \in known : k.at <= j.at).info)

-----------------------------------------------------------------------------
Init ==
  /\ address \in [Speakers -> Addresses]
  /\ \A s, t \in Speakers : address[s] = address[t] => s = t
  /\ dir = [n \in Names |->
       IF n \in DeviceIDs THEN [state |-> "ok", info |-> CHOOSE info \in InDefault : info.id = n] ELSE Missing]
  /\ discovering = FALSE
  /\ pc = [p \in Scans |-> "idle"]
  /\ found = [p \in Scans |-> {}]
  /\ current = [p \in Scans |-> NoInfo]
  /\ existing = [p \in Scans |-> NoName]
  /\ started = 0
  /\ kept = {}

(* The router gives a speaker a free address. *)
ChangeAddress(s) ==
  /\ \E a \in Addresses \ {address[t] : t \in Speakers} : address' = [address EXCEPT ![s] = a]
  /\ UNCHANGED <<dir, discovering, scanVars, started, kept>>

StartScan(p) ==
  /\ pc[p] = "idle"
  /\ started < MaxScans
  /\ started' = started + 1
  /\ discovering' = TRUE
  /\ pc' = [pc EXCEPT ![p] = "search"]
  /\ UNCHANGED <<address, dir, found, current, existing, kept>>

(* The scan returns, and whichever does clears the flag. *)
Return(p) ==
  /\ pc' = [pc EXCEPT ![p] = "idle"]
  /\ discovering' = FALSE

(* Faulty variant: an error returns without clearing the flag. *)
SearchFailsFlagged(p) ==
  /\ pc[p] = "search"
  /\ pc' = [pc EXCEPT ![p] = "idle"]
  /\ UNCHANGED <<address, dir, discovering, found, current, existing, started, kept>>

SearchFails(p) ==
  /\ pc[p] = "search"
  /\ Return(p)
  /\ UNCHANGED <<address, dir, found, current, existing, started, kept>>

(* Some speakers answer, with or without their serial number. *)
Search(p) ==
  /\ pc[p] = "search"
  /\ \E told \in SUBSET Speakers, untold \in SUBSET Speakers :
       /\ told \cap untold = {}
       /\ found' = [found EXCEPT ![p] =
            {[id |-> SerialOf[s], serial |-> SerialOf[s], ip |-> address[s], of |-> s] : s \in told} \cup
            {[id |-> NoName, serial |-> NoName, ip |-> address[s], of |-> s] : s \in untold}]
  /\ pc' = [pc EXCEPT ![p] = "next"]
  /\ UNCHANGED <<address, dir, discovering, current, existing, started, kept>>

(* The next speaker: is it known already?  Only what the scan told counts. *)
Lookup(p) ==
  /\ pc[p] = "next"
  /\ \E d \in found[p] :
       /\ current' = [current EXCEPT ![p] = d]
       /\ existing' = [existing EXCEPT ![p] = ExistingID(d.serial)]
       /\ found' = [found EXCEPT ![p] = found[p] \ {d}]
  /\ pc' = [pc EXCEPT ![p] = "live"]
  /\ UNCHANGED <<address, dir, discovering, started, kept>>

(* Faulty variant: whatever was known is removed. *)
RemovesAnything(serial, known) == serial # NoName /\ known # NoName

(* Whether the entry under the other name has to go. *)
MustRemove(serial, known) == serial # NoName /\ known # NoName /\ known # serial

(* Without a serial number the speaker itself is asked: http.Get, without  *)
(* a timeout.  It may be gone, and it may not tell either.                 *)
AskSpeaker(p) ==
  /\ pc[p] = "live"
  /\ LET d == current[p]
         full == [d EXCEPT !.id = SerialOf[d.of], !.serial = SerialOf[d.of]]
     IN  /\ d.serial # NoName \/ d.of \notin Silent
         /\ \E info \in {d, full} :
              /\ current' = [current EXCEPT ![p] = info]
              /\ pc' = [pc EXCEPT ![p] = IF MustRemove(info.serial, existing[p]) THEN "remove" ELSE "open"]
  /\ UNCHANGED <<address, dir, discovering, found, existing, started, kept>>

(* RemoveDevice.  A scan that has the file open goes on to write it, but   *)
(* nobody will see what it writes.                                         *)
RemoveDevice(name) == dir' = [n \in Names |-> IF n = name THEN Missing ELSE dir[n]]
Unlinked(name) ==
  [q \in Scans |-> IF pc[q] = "write" /\ NameOf(current[q]) = name THEN "unlinked" ELSE pc[q]]

(* Of the default account, whichever account the device was met in. *)
RemoveOld(p) ==
  /\ pc[p] = "remove"
  /\ RemoveDevice(existing[p])
  /\ pc' = [Unlinked(existing[p]) EXCEPT ![p] = "open"]
  /\ UNCHANGED <<address, discovering, found, current, existing, started, kept>>

(* SaveDeviceInfo makes the directory and truncates the file ... *)
OpenInfo(p) ==
  /\ pc[p] = "open"
  /\ dir' = [dir EXCEPT ![NameOf(current[p])] = Torn]
  /\ pc' = [pc EXCEPT ![p] = "write"]
  /\ UNCHANGED <<address, discovering, found, current, existing, started, kept>>

(* Faulty variant: only the address is written. *)
WriteAddressOnly(p) ==
  /\ pc[p] = "write"
  /\ dir' = [dir EXCEPT ![NameOf(current[p])] = [state |-> "ok", info |-> [ip |-> current[p].ip]]]
  /\ pc' = [pc EXCEPT ![p] = "next"]
  /\ UNCHANGED <<address, discovering, found, current, existing, started, kept>>

(* ... and writes it. *)
WriteInfo(p) ==
  /\ pc[p] = "write"
  /\ dir' = [dir EXCEPT ![NameOf(current[p])] = [state |-> "ok", info |-> current[p]]]
  /\ kept' = kept \cup ({NameOf(current[p])} \cap Serials)
  /\ pc' = [pc EXCEPT ![p] = "next"]
  /\ UNCHANGED <<address, discovering, found, current, existing, started>>

WriteUnlinked(p) ==
  /\ pc[p] = "unlinked"
  /\ pc' = [pc EXCEPT ![p] = "next"]
  /\ UNCHANGED <<address, dir, discovering, found, current, existing, started, kept>>

(* A save that fails is only logged. *)
SaveFails(p) ==
  /\ Faults
  /\ pc[p] \in {"open", "write"}
  /\ pc' = [pc EXCEPT ![p] = "next"]
  /\ UNCHANGED <<address, dir, discovering, found, current, existing, started, kept>>

EndScan(p) ==
  /\ pc[p] = "next"
  /\ found[p] = {}
  /\ Return(p)
  /\ UNCHANGED <<address, dir, found, current, existing, started, kept>>

(* DELETE of a device of the default account. *)
DeleteDevice(n) ==
  /\ dir[n].state # "absent"
  /\ RemoveDevice(n)
  /\ pc' = Unlinked(n)
  /\ kept' = kept \ {n}
  /\ UNCHANGED <<address, discovering, found, current, existing, started>>

Crash ==
  /\ Faults
  /\ discovering' = FALSE
  /\ pc' = [p \in Scans |-> "idle"]
  /\ found' = [p \in Scans |-> {}]
  /\ current' = [p \in Scans |-> NoInfo]
  /\ existing' = [p \in Scans |-> NoName]
  /\ UNCHANGED <<address, dir, started, kept>>

ScanStep(p) ==
  \/ SearchFails(p) \/ Search(p) \/ Lookup(p) \/ AskSpeaker(p) \/ RemoveOld(p)
  \/ OpenInfo(p) \/ WriteInfo(p) \/ WriteUnlinked(p) \/ SaveFails(p) \/ EndScan(p)

Next ==
  \/ \E s \in Speakers : ChangeAddress(s)
  \/ \E p \in Scans : StartScan(p) \/ ScanStep(p)
  \/ \E n \in Names : DeleteDevice(n)
  \/ Crash

(* Searching ends after ten seconds and goroutines are scheduled, so a     *)
(* scan goes on as long as it has a step to take.                          *)
Spec == Init /\ [][Next]_vars
FairSpec == Spec /\ \A p \in Scans : WF_vars(ScanStep(p))

-----------------------------------------------------------------------------
(* Type invariant. *)
TypeOK ==
  /\ address \in [Speakers -> Addresses]
  /\ dir \in [Names -> [state : {"absent", "torn", "ok"}, info : Info]]
  /\ discovering \in BOOLEAN
  /\ pc \in [Scans -> {"idle", "search", "next", "live", "remove", "open", "write", "unlinked"}]
  /\ found \in [Scans -> SUBSET Info]
  /\ current \in [Scans -> Info]
  /\ existing \in [Scans -> Nat]
  /\ started \in Nat
  /\ kept \in SUBSET Serials

(* A speaker once recorded under its serial number keeps its directory     *)
(* until someone deletes it: no scan, overlapping or dying in between,     *)
(* removes it while cleaning up another name.                              *)
RecordedSpeakerKept == \A n \in kept : dir[n].state # "absent"

(* The web page stops saying "Scanning..." after every scan, also one that *)
(* fails or overlaps another, when every speaker that is asked answers.    *)
ScanIndicatorClears == discovering ~> ~discovering

(* A speaker recorded under its serial number has no entry under the       *)
(* address it was recorded with before.                                    *)
NoAddressEntryBesideSerial ==
  \A n \in kept : \A a \in Addresses :
    dir[n].state = "ok" /\ dir[a].state = "ok" => dir[n].info.of # dir[a].info.of
=============================================================================
