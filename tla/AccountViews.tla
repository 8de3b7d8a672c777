---------------------------- MODULE AccountViews ----------------------------
(***************************************************************************)
(* The two views of an account that speakers fetch conditionally: its      *)
(* presets and the full account.  The server takes the ETag from the       *)
(* modification times of the files before it reads them, answers 304 when  *)
(* it is the one the speaker sent, and otherwise reads the files, one      *)
(* after the other and again for every device, while requests of           *)
(* MargeStore save them and devices come and go.                           *)
(*                                                                         *)
(* A speaker keeps the body and the ETag of its last 200 response, and a   *)
(* 304 tells it that this body is still what the account holds.            *)
(***************************************************************************)
EXTENDS MargeStore, Integers

CONSTANTS
  Readers,   \* speakers fetching the views
  Devices    \* device ids, as numbers: directories are listed in order

ASSUME ViewsAssumption == Devices \subseteq Nat

VARIABLES
  dev,          \* the directory of each device: absent, DeviceInfo.xml torn, ok
  adding,       \* devices whose DeviceInfo.xml is truncated and not yet written
  rpc,          \* where each fetch is
  etag,         \* the ETag the fetch will answer with
  todo,         \* full account: the devices still to be rendered
  body,         \* full account: what is rendered so far
  presetsView,  \* the presets the speaker keeps, with their ETag
  fullView      \* the full account the speaker keeps, with its ETag

deviceVars == <<dev, adding>>
fetchVars == <<rpc, etag, todo, body, presetsView, fullView>>
viewsVars == <<storeVars, deviceVars, fetchVars>>

(* What a file contributes to a body: a full account leaves out a file     *)
(* that does not parse, without an error.                                  *)
Shown(k) == [readable |-> file[k].readable, list |-> file[k].list]

Nothing == [readable |-> FALSE, list |-> <<>>]
NoEntry == [listed |-> FALSE, presets |-> Nothing, recents |-> Nothing]
Entered(presets, recents) == [listed |-> TRUE, presets |-> presets, recents |-> recents]
EmptyBody == [d \in Devices |-> NoEntry]

(* No ETag: what a speaker that has nothing yet sends. *)
NoETag == -1

(* Sources.xml is copied once and its modification time never changes. *)
SourcesETag == 1
(* Faulty variant: the oldest file decides. *)
Smaller(a, b) == IF a < b THEN a ELSE b

(* The latest of two modification times. *)
Larger(a, b) == IF a > b THEN a ELSE b
AccountETag == Larger(Larger(file["presets"].mtime, SourcesETag), file["recents"].mtime)

-----------------------------------------------------------------------------
ViewsInit ==
  /\ StoreInit
  /\ dev \in [Devices -> {"absent", "ok"}]
  /\ adding = {}
  /\ rpc = [r \in Readers |-> "idle"]
  /\ etag = [r \in Readers |-> NoETag]
  /\ todo = [r \in Readers |-> {}]
  /\ body = [r \in Readers |-> EmptyBody]
  /\ presetsView = [r \in Readers |-> [etag |-> NoETag, list |-> <<>>]]
  /\ fullView = [r \in Readers |-> [etag |-> NoETag, body |-> EmptyBody]]

(* GET presets: the ETag first.  304 changes nothing. *)
StatPresets(r) ==
  /\ rpc[r] = "idle"
  /\ file["presets"].mtime # presetsView[r].etag
  /\ etag' = [etag EXCEPT ![r] = file["presets"].mtime]
  /\ rpc' = [rpc EXCEPT ![r] = "presets"]
  /\ UNCHANGED <<todo, body, presetsView, fullView>>

(* Faulty variant: a file that does not parse is served as an empty list. *)
ServePresetsUnparsed(r) ==
  /\ rpc[r] = "presets"
  /\ presetsView' = [presetsView EXCEPT ![r] = [etag |-> etag[r], list |-> file["presets"].list]]
  /\ rpc' = [rpc EXCEPT ![r] = "idle"]
  /\ etag' = [etag EXCEPT ![r] = NoETag]
  /\ UNCHANGED <<todo, body, fullView>>

(* ... then the file: 500 when it does not parse, else the body. *)
ServePresets(r) ==
  /\ rpc[r] = "presets"
  /\ presetsView' = IF file["presets"].readable
                    THEN [presetsView EXCEPT ![r] = [etag |-> etag[r], list |-> file["presets"].list]]
                    ELSE presetsView
  /\ rpc' = [rpc EXCEPT ![r] = "idle"]
  /\ etag' = [etag EXCEPT ![r] = NoETag]
  /\ UNCHANGED <<todo, body, fullView>>

(* GET full account: the ETag is the largest of three modification times,  *)
(* looked up one after the other.                                          *)
StatAccount(r) ==
  /\ rpc[r] = "idle"
  /\ etag' = [etag EXCEPT ![r] = Larger(file["presets"].mtime, SourcesETag)]
  /\ rpc' = [rpc EXCEPT ![r] = "statRecents"]
  /\ UNCHANGED <<todo, body, presetsView, fullView>>

StatRecents(r) ==
  /\ rpc[r] = "statRecents"
  /\ LET e == Larger(etag[r], file["recents"].mtime)
     IN  IF e = fullView[r].etag
         THEN /\ rpc' = [rpc EXCEPT ![r] = "idle"]                     \* 304
              /\ etag' = [etag EXCEPT ![r] = NoETag]
         ELSE /\ rpc' = [rpc EXCEPT ![r] = "dir"]
              /\ etag' = [etag EXCEPT ![r] = e]
  /\ UNCHANGED <<todo, body, presetsView, fullView>>

(* Faulty variant: entries that are no devices are listed too. *)
ReadDirAll(r) ==
  /\ rpc[r] = "dir"
  /\ todo' = [todo EXCEPT ![r] = {d \in Devices : dev[d] # "absent"} \cup {0}]
  /\ rpc' = [rpc EXCEPT ![r] = "device"]
  /\ UNCHANGED <<etag, body, presetsView, fullView>>

ReadDir(r) ==
  /\ rpc[r] = "dir"
  /\ todo' = [todo EXCEPT ![r] = {d \in Devices : dev[d] # "absent"}]
  /\ rpc' = [rpc EXCEPT ![r] = "device"]
  /\ UNCHANGED <<etag, body, presetsView, fullView>>

(* GetDeviceInfo parses DeviceInfo.xml, which is there and not truncated. *)
InfoReadable(d) == dev[d] = "ok"

(* The next device: skipped when its DeviceInfo.xml cannot be read, else   *)
(* rendered with the presets and the recents of the account.  Reading      *)
(* DeviceInfo.xml and reading Presets.xml are one step: nothing changes    *)
(* both.                                                                   *)
RenderPresets(r) ==
  /\ rpc[r] = "device"
  /\ todo[r] # {}
  /\ LET d == First(todo[r])
     IN  IF InfoReadable(d)
         THEN /\ body' = [body EXCEPT ![r] = [@ EXCEPT ![d] = Entered(Shown("presets"), Nothing)]]
              /\ rpc' = [rpc EXCEPT ![r] = "recents"]
              /\ UNCHANGED todo
         ELSE /\ todo' = [todo EXCEPT ![r] = todo[r] \ {d}]
              /\ UNCHANGED <<body, rpc>>
  /\ UNCHANGED <<etag, presetsView, fullView>>

RenderRecents(r) ==
  /\ rpc[r] = "recents"
  /\ LET d == First(todo[r])
     IN  /\ body' = [body EXCEPT ![r] = [@ EXCEPT ![d] = Entered(body[r][d].presets, Shown("recents"))]]
         /\ todo' = [todo EXCEPT ![r] = todo[r] \ {d}]
  /\ rpc' = [rpc EXCEPT ![r] = "device"]
  /\ UNCHANGED <<etag, presetsView, fullView>>

ServeFull(r) ==
  /\ rpc[r] = "device"
  /\ todo[r] = {}
  /\ fullView' = [fullView EXCEPT ![r] = [etag |-> etag[r], body |-> body[r]]]
  /\ rpc' = [rpc EXCEPT ![r] = "idle"]
  /\ etag' = [etag EXCEPT ![r] = NoETag]
  /\ body' = [body EXCEPT ![r] = EmptyBody]
  /\ UNCHANGED <<todo, presetsView>>

-----------------------------------------------------------------------------
(* AddDeviceToAccount saves DeviceInfo.xml: the directory is made and the  *)
(* file truncated, then written.  One save of a device runs at a time.     *)
AddDevice(d) ==
  /\ d \notin adding
  /\ dev' = [dev EXCEPT ![d] = "torn"]
  /\ adding' = adding \cup {d}

(* The write goes to the open file, which a removal meanwhile has unlinked. *)
WriteDevice(d) ==
  /\ d \in adding
  /\ dev' = [dev EXCEPT ![d] = IF dev[d] = "torn" THEN "ok" ELSE dev[d]]
  /\ adding' = adding \ {d}

RemoveDevice(d) ==
  /\ dev[d] # "absent"
  /\ dev' = [dev EXCEPT ![d] = "absent"]
  /\ UNCHANGED adding

(* A crash ends every request; what the speakers keep survives it. *)
CrashAll ==
  /\ Crash
  /\ adding' = {}
  /\ rpc' = [r \in Readers |-> "idle"]
  /\ etag' = [r \in Readers |-> NoETag]
  /\ todo' = [r \in Readers |-> {}]
  /\ body' = [r \in Readers |-> EmptyBody]
  /\ UNCHANGED <<dev, presetsView, fullView>>

Fetch(r) ==
  StatPresets(r) \/ ServePresets(r) \/ StatAccount(r) \/ StatRecents(r) \/ ReadDir(r)
    \/ RenderPresets(r) \/ RenderRecents(r) \/ ServeFull(r)

DeviceStep(d) == AddDevice(d) \/ WriteDevice(d) \/ RemoveDevice(d)

ViewsNext ==
  \/ \E c \in Clients : ClientStep(c) /\ UNCHANGED <<deviceVars, fetchVars>>
  \/ \E r \in Readers : Fetch(r) /\ UNCHANGED <<storeVars, deviceVars>>
  \/ \E d \in Devices : DeviceStep(d) /\ UNCHANGED <<storeVars, fetchVars>>
  \/ CrashAll

ViewsSpec == ViewsInit /\ [][ViewsNext]_viewsVars

-----------------------------------------------------------------------------
(* Type invariant. *)
View == [readable : BOOLEAN, list : Seq(Item)]
Entry == [listed : BOOLEAN, presets : View, recents : View]
Body == [Devices -> Entry]
ETag == Nat \cup {NoETag}
ViewsTypeOK ==
  /\ dev \in [Devices -> {"absent", "torn", "ok"}]
  /\ adding \in SUBSET Devices
  /\ rpc \in [Readers -> {"idle", "presets", "statRecents", "dir", "device", "recents"}]
  /\ etag \in [Readers -> ETag]
  /\ todo \in [Readers -> SUBSET Devices]
  /\ body \in [Readers -> Body]
  /\ presetsView \in [Readers -> [etag : ETag, list : Seq(Item)]]
  /\ fullView \in [Readers -> [etag : ETag, body : Body]]

(* When a conditional GET of the presets would be answered 304, the body   *)
(* the speaker keeps is what the file holds.                               *)
PresetsViewFresh ==
  \A r \in Readers :
    presetsView[r].etag = file["presets"].mtime =>
      /\ file["presets"].readable
      /\ presetsView[r].list = file["presets"].list

(* The lists of presets and recents in a rendered account are the ones in  *)
(* the files.                                                              *)
UpToDate(b) ==
  \A d \in Devices :
    /\ b[d].presets.readable => b[d].presets = Shown("presets")
    /\ b[d].recents.readable => b[d].recents = Shown("recents")

(* When a conditional GET of the full account would be answered 304, a     *)
(* list of presets or recents that the speaker keeps for a device is what  *)
(* the file holds, although the two files were read at different times and *)
(* again for every device while others saved them.  A device may be kept   *)
(* without a list, when the file was being saved as it was read.           *)
FullListsFresh ==
  \A r \in Readers :
    fullView[r].etag = AccountETag => UpToDate(fullView[r].body)

(* When a conditional GET of the full account would be answered 304, the   *)
(* devices the speaker keeps are the devices of the account.               *)
FullViewHasTheDevices ==
  \A r \in Readers :
    fullView[r].etag = AccountETag =>
      \A d \in Devices \ adding : fullView[r].body[d].listed <=> dev[d] = "ok"
=============================================================================
