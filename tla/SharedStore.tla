---------------------------- MODULE SharedStore -----------------------------
(***************************************************************************)
(* Presets.xml and Recents.xml shared by the two services of a deployment. *)
(* The container starts the Go service and the older Python service on the *)
(* same data directory; what the Go router does not know is passed on to   *)
(* Python.  The Go service is MargeStore; this module adds the Python      *)
(* requests, which read, change and save the same files.                   *)
(*                                                                         *)
(* A Python worker does not await anything between reading and saving, but *)
(* gunicorn starts several workers, so that any two requests may overlap.  *)
(***************************************************************************)
EXTENDS MargeStore

CONSTANTS
  PyClients,   \* the requests that Python serves
  Anonymous    \* keys of the sources without an account

ASSUME SharedAssumption ==
  /\ PyClients \subseteq Clients
  /\ Anonymous \subseteq Keys

VARIABLE
  broken       \* history: the last save of a file failed after truncating it

sharedVars == <<storeVars, broken>>

SharedInit == StoreInit /\ broken = [k \in Kinds |-> FALSE]

(* Python reads the preset's source attribute without a default, and the   *)
(* Go service omits it from the presets it pads the list with.             *)
PyParses(presets) == \A i \in 1 .. Len(presets) : presets[i].key # NoKey

(* A content is found in the recents by source, location and account.  The *)
(* account that is missing in the file is None, the one of the source is   *)
(* "", and the two are not equal.                                          *)
PySameContent(recents, key, loc) ==
  IF key \in Anonymous THEN {} ELSE SameContent(recents, key, loc)

(* Number 0 would be taken for the last button, presets_list[-1]; speakers *)
(* number their buttons from 1, and the model leaves it at that.           *)
PyAccept(c) ==
  \/ \E r \in PresetRequests : r.num > 0 /\ Accept(c, "presets", r)
  \/ \E r \in RecentRequests : Accept(c, "recents", r)

(* ElementTree accepts nothing behind the root element. *)
PyReads(k) == file[k].readable /\ ~file[k].tail

(* An exception answers the request without a change: the file does not    *)
(* parse, the source is unknown, the list of presets has no such position, *)
(* or max() is applied to no recents at all.                               *)
PyRejected(c) ==
  LET list == file[req[c].kind].list
  IN  \/ ~PyReads(req[c].kind)
      \/ SourcesWithID(Sources, req[c].sid) = {}
      \/ req[c].kind = "presets" /\ (~PyParses(list) \/ req[c].num > Len(list))
      \/ req[c].kind = "recents" /\ list = <<>>

PyReject(c) ==
  /\ pc[c] = "read"
  /\ PyRejected(c)
  /\ Finish(c)
  /\ UNCHANGED <<file, clock, saved, raced, promised>>

(* Faulty variant: the number is taken for an index from 0. *)
PyReplacedFromZero(presets, n, preset) ==
  [presets EXCEPT ![IF n < Len(presets) THEN n + 1 ELSE 1] = preset]

(* presets_list[preset_number - 1]: the position must exist. *)
PyReplaced(presets, n, preset) == [presets EXCEPT ![n] = preset]

(* update_preset. *)
PyUpdatePreset(c) ==
  /\ pc[c] = "read"
  /\ req[c].kind = "presets"
  /\ ~PyRejected(c)
  /\ LET n == req[c].num
         preset == [id |-> n, key |-> MatchingKey(Sources, req[c].sid), loc |-> req[c].loc]
     IN  /\ draft' = [draft EXCEPT ![c] = PyReplaced(file["presets"].list, n, preset)]
         /\ result' = [result EXCEPT ![c] = preset]
  /\ pc' = [pc EXCEPT ![c] = "open"]
  /\ UNCHANGED <<file, clock, req, saved, stale, raced, promised>>

(* add_recent when the content is not found. *)
PyAddNewRecent(c) ==
  /\ pc[c] = "read"
  /\ req[c].kind = "recents"
  /\ ~PyRejected(c)
  /\ LET recents == file["recents"].list
         key == MatchingKey(Sources, req[c].sid)
         recent == NewRecent(recents, key, req[c].loc)
     IN  /\ PySameContent(recents, key, req[c].loc) = {}
         /\ draft' = [draft EXCEPT ![c] = Inserted(recents, recent)]
         /\ result' = [result EXCEPT ![c] = recent]
  /\ pc' = [pc EXCEPT ![c] = "open"]
  /\ UNCHANGED <<file, clock, req, saved, stale, raced, promised>>

(* add_recent when it is found: only its time changes, not its place. *)
PyTouchRecent(c) ==
  /\ pc[c] = "read"
  /\ req[c].kind = "recents"
  /\ ~PyRejected(c)
  /\ LET recents == file["recents"].list
         found == PySameContent(recents, MatchingKey(Sources, req[c].sid), req[c].loc)
     IN  /\ found # {}
         /\ draft' = [draft EXCEPT ![c] = recents]
         /\ result' = [result EXCEPT ![c] = recents[First(found)]]
  /\ pc' = [pc EXCEPT ![c] = "open"]
  /\ UNCHANGED <<file, clock, req, saved, stale, raced, promised>>

-----------------------------------------------------------------------------
(* What a service does of its own before it saves. *)
Prepare(c) ==
  IF c \in PyClients
  THEN PyReject(c) \/ PyUpdatePreset(c) \/ PyAddNewRecent(c) \/ PyTouchRecent(c)
  ELSE Reject(c) \/ UpdatePreset(c) \/ AddNewRecent(c) \/ TouchRecent(c)

Receive(c) ==
  IF c \in PyClients
  THEN PyAccept(c)
  ELSE \/ \E r \in PresetRequests : Accept(c, "presets", r)
       \/ \E r \in RecentRequests : Accept(c, "recents", r)

(* ElementTree.write opens the file, which truncates it, and writes it:    *)
(* the same two steps as os.WriteFile.                                     *)
Save(c) ==
  \/ Truncate(c) /\ UNCHANGED broken
  \/ Write(c) /\ broken' = [broken EXCEPT ![req[c].kind] = FALSE]

SaveAborted(c) ==
  /\ SaveFails(c)
  /\ broken' = [broken EXCEPT ![req[c].kind] = broken[req[c].kind] \/ pc[c] = "write"]

(* The container stops: both services and their requests are gone.  When   *)
(* only one service dies its requests end as in SaveAborted.               *)
CrashBoth ==
  /\ Crash
  /\ broken' = [k \in Kinds |-> broken[k] \/ \E c \in Clients : pc[c] = "write" /\ req[c].kind = k]

SharedNext ==
  \/ CrashBoth
  \/ \E c \in Clients :
       \/ (Receive(c) \/ Prepare(c)) /\ UNCHANGED broken
       \/ Save(c)
       \/ SaveAborted(c)

SharedSpec == SharedInit /\ [][SharedNext]_sharedVars

(* A request that has begun to run keeps running: goroutines and workers   *)
(* are scheduled, and no step waits for another request.                   *)
FairSharedSpec ==
  /\ SharedSpec
  /\ \A c \in Clients : WF_sharedVars((Prepare(c) /\ UNCHANGED broken) \/ Save(c))

-----------------------------------------------------------------------------
NoWish == [button |-> 0, content |-> NoLoc]

(* The account as its buttons' owner sees it. *)
Promise == INSTANCE Account WITH
  Contents <- Locs \cup {NoLoc},
  Nothing  <- NoWish,
  plays    <- [n \in Buttons |-> LocAt(saved["presets"], n)],
  wish     <- [c \in Clients |->
                 IF pc[c] # "idle" /\ req[c].kind = "presets" /\ req[c].num \in Buttons
                 THEN [button |-> req[c].num, content |-> req[c].loc] ELSE NoWish],
  readable <- file["presets"].readable,
  degraded <- raced["presets"]

(* Go and Python together implement the account's promise: as long as no   *)
(* two saves overlapped, every acknowledged update changed one button, at  *)
(* one moment, and every failed one none, through truncated files, failing *)
(* saves and crashes.                                                      *)
KeepsPromise == Promise!Spec

(* A truncated file is eventually readable again, unless the save that     *)
(* truncated it failed: however requests of the two services truncate the  *)
(* file under each other, the last of them writes it.  It is readable to   *)
(* both services, or to the Go service alone once saves have overlapped.   *)
TornHeals ==
  \A k \in Kinds :
    ~file[k].readable /\ file[k].mtime > 0
      ~> PyReads(k) \/ (file[k].readable /\ raced[k]) \/ broken[k]

(* As long as no two saves of a file overlapped, the Python service can    *)
(* parse whatever the Go service can: no write leaves a tail of the list   *)
(* that was there, through failing saves, crashes and lists of any length. *)
ParsedAlike ==
  \A k \in Kinds : file[k].readable /\ ~raced[k] => PyReads(k)

(* Two recents have the same id exactly when they are the same content,    *)
(* whichever service added them and however their requests overlap, except *)
(* that Python adds the content of a source without an account once more,  *)
(* under a new id.                                                         *)
SharedIDsIdentifyContent ==
  \A i, j \in 1 .. Len(file["recents"].list) :
    LET a == file["recents"].list[i]
        b == file["recents"].list[j]
    IN  /\ a.id = b.id => a.key = b.key /\ a.loc = b.loc
        /\ a.key = b.key /\ a.loc = b.loc /\ a.key \notin Anonymous => a.id = b.id

(* Every Presets.xml that the Go service saves can be read by Python.      *)
PythonReadsPresets ==
  file["presets"].readable => PyReads("presets") /\ PyParses(file["presets"].list)
=============================================================================
