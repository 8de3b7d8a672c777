----------------------------- MODULE MargeStore -----------------------------
(***************************************************************************)
(* One account's Presets.xml and Recents.xml under concurrent requests.    *)
(*                                                                         *)
(* A request runs on its own goroutine and takes no lock: it reads the     *)
(* file, computes the new list, and saves it with os.WriteFile, which      *)
(* truncates the file when it opens it and writes it afterwards.  Between  *)
(* two of these steps any other request may run, the disk may refuse and   *)
(* the server may die.  A file that is truncated, or missing since the     *)
(* account was created, does not parse: it is not readable.  What follows  *)
(* the root element, its tail, is not looked at by Go's parser.            *)
(*                                                                         *)
(* Sources.xml is only read by the server, so its content is a constant.   *)
(***************************************************************************)
EXTENDS MargeLists

CONSTANTS
  Clients,          \* requests that may be in flight at once
  PresetRequests,   \* [num, sid, loc]: bodies of "update preset"
  RecentRequests,   \* [num |-> 0, sid, loc]: bodies of "add recent"
  SourcesXML,       \* Sources.xml: a sequence of [id, key]
  InitialPresets,   \* lists that Presets.xml may hold at the start
  InitialRecents,   \* lists that Recents.xml may hold at the start
  Faults,           \* whether saving may fail and the server may crash
  SameMillisecond,  \* "save": truncating and writing may get the same mtime,
                    \* "saves": any two file changes may
  MaxClock          \* bound on the clock of the model

Kinds == {"presets", "recents"}
NoClient == "nobody"
SourceElement == [id : Nat, key : Keys]
Request == [num : Nat, sid : Nat, loc : Locs]

ASSUME StoreAssumption ==
  /\ NoKey \notin Keys /\ NoLoc \notin Locs /\ NoClient \notin Clients
  /\ PresetRequests \subseteq Request
  /\ RecentRequests \subseteq [num : {0}, sid : Nat, loc : Locs]
  /\ SourcesXML \in Seq(SourceElement)
  /\ InitialPresets \subseteq Seq(Item)
  /\ InitialRecents \subseteq Seq(Item)
  /\ Faults \in BOOLEAN
  /\ SameMillisecond \subseteq {"save", "saves"}
  /\ MaxClock \in Nat

VARIABLES
  file,     \* the two XML files: whether they parse, their list, whether
            \* there is a tail, whose save has emptied them, their mtime
  clock,    \* the time of the last file change, in milliseconds
  pc,       \* where each request is
  req,      \* the request's kind and body
  draft,    \* the list the request is about to save
  result,   \* the item its response will describe
  saved,    \* history: the list last written in full
  stale,    \* history: another request has saved since this one read
  raced,    \* history: a stale request has saved
  promised  \* history: what each button plays: as copied, then as acknowledged

storeVars == <<file, clock, pc, req, draft, result, saved, stale, raced, promised>>

Sources == GetConfiguredSources(SourcesXML)
Idle == [kind |-> "presets", num |-> 0, sid |-> 0, loc |-> NoLoc]
Buttons == {r.num : r \in PresetRequests} \ {0}

(* The file was emptied by this request, and nothing has changed since. *)
JustEmptied(c) ==
  LET f == file[req[c].kind] IN pc[c] = "write" /\ f.by = c /\ f.mtime = clock

(* The modification time, in milliseconds, that a request's change of its  *)
(* file gets: usually os.WriteFile takes less than one.                    *)
Now(c) ==
  {clock + 1} \cup
    {t \in {clock} : "saves" \in SameMillisecond \/ ("save" \in SameMillisecond /\ JustEmptied(c))}

(* A file that holds just a list, and one that is empty. *)
Holding(list, t) == [readable |-> TRUE, list |-> list, tail |-> FALSE, by |-> NoClient, mtime |-> t]
Emptied(c, t) == [readable |-> FALSE, list |-> <<>>, tail |-> FALSE, by |-> c, mtime |-> t]

(* What button n plays according to a list of presets. *)
LocAt(presets, n) == IF n <= Len(presets) THEN presets[n].loc ELSE NoLoc

Busy == {c \in Clients : pc[c] # "idle"}

(* Back to idle: the response, whatever it is, ends the request. *)
Finish(c) ==
  /\ pc' = [pc EXCEPT ![c] = "idle"]
  /\ req' = [req EXCEPT ![c] = Idle]
  /\ draft' = [draft EXCEPT ![c] = <<>>]
  /\ result' = [result EXCEPT ![c] = EmptyPreset]
  /\ stale' = [stale EXCEPT ![c] = FALSE]

-----------------------------------------------------------------------------
(* A file starts as it was copied from the speaker, or was never copied. *)
InitialFile(lists) ==
  {Holding(l, 1) : l \in lists} \cup {Emptied(NoClient, 0)}

StoreInit ==
  /\ file \in [Kinds -> InitialFile(InitialPresets) \cup InitialFile(InitialRecents)]
  /\ file["presets"] \in InitialFile(InitialPresets)
  /\ file["recents"] \in InitialFile(InitialRecents)
  /\ clock = 1
  /\ pc = [c \in Clients |-> "idle"]
  /\ req = [c \in Clients |-> Idle]
  /\ draft = [c \in Clients |-> <<>>]
  /\ result = [c \in Clients |-> EmptyPreset]
  /\ saved = [k \in Kinds |-> file[k].list]
  /\ stale = [c \in Clients |-> FALSE]
  /\ raced = [k \in Kinds |-> FALSE]
  /\ promised = [n \in Buttons |-> LocAt(file["presets"].list, n)]

(* A speaker sends a request.  A preset number that does not parse is      *)
(* answered 400 before anything happens, a stuttering step.  The bound     *)
(* leaves every accepted request the two clock ticks its save may take.    *)
Accept(c, kind, r) ==
  /\ pc[c] = "idle"
  /\ clock + 2 * (Cardinality(Busy) + 1) <= MaxClock
  /\ pc' = [pc EXCEPT ![c] = "read"]
  /\ req' = [req EXCEPT ![c] = [kind |-> kind, num |-> r.num, sid |-> r.sid, loc |-> r.loc]]
  /\ UNCHANGED <<file, clock, draft, result, saved, stale, raced, promised>>

(* Faulty variant: a file that does not parse is taken for an empty list. *)
RejectedUnlessTorn(c) ==
  \/ SourcesWithID(Sources, req[c].sid) = {}
  \/ req[c].kind = "presets" /\ req[c].num = 0

(* The request is answered 500 without touching a file: Presets.xml or     *)
(* Recents.xml does not parse, the body names no configured source (a body *)
(* that is not XML ends here too), or the preset number is not positive    *)
(* and indexing the list panics (middleware.Recoverer answers).            *)
Rejected(c) ==
  \/ ~file[req[c].kind].readable
  \/ SourcesWithID(Sources, req[c].sid) = {}
  \/ req[c].kind = "presets" /\ req[c].num = 0

Reject(c) ==
  /\ pc[c] = "read"
  /\ Rejected(c)
  /\ Finish(c)
  /\ UNCHANGED <<file, clock, saved, raced, promised>>

(* UpdatePreset, from reading the files to the list it will save. *)
UpdatePreset(c) ==
  /\ pc[c] = "read"
  /\ req[c].kind = "presets"
  /\ ~Rejected(c)
  /\ LET n == req[c].num
         preset == [id |-> n, key |-> MatchingKey(Sources, req[c].sid), loc |-> req[c].loc]
     IN  /\ draft' = [draft EXCEPT ![c] = UpdatedPresets(file["presets"].list, n, preset)]
         /\ result' = [result EXCEPT ![c] = preset]
  /\ pc' = [pc EXCEPT ![c] = "open"]
  /\ UNCHANGED <<file, clock, req, saved, stale, raced, promised>>

(* AddRecent when nothing in the list has the same content: a new recent,  *)
(* which the response then describes.                                      *)
AddNewRecent(c) ==
  /\ pc[c] = "read"
  /\ req[c].kind = "recents"
  /\ ~Rejected(c)
  /\ LET recents == file["recents"].list
         key == MatchingKey(Sources, req[c].sid)
         recent == NewRecent(recents, key, req[c].loc)
     IN  /\ SameContent(recents, key, req[c].loc) = {}
         /\ draft' = [draft EXCEPT ![c] = Inserted(recents, recent)]
         /\ result' = [result EXCEPT ![c] = recent]
  /\ pc' = [pc EXCEPT ![c] = "open"]
  /\ UNCHANGED <<file, clock, req, saved, stale, raced, promised>>

(* AddRecent when the content is already there, at position i: the list is *)
(* reordered, and the response is built from recentObj, which by then      *)
(* points at what was shifted into position i.                             *)
TouchRecent(c) ==
  /\ pc[c] = "read"
  /\ req[c].kind = "recents"
  /\ ~Rejected(c)
  /\ LET recents == file["recents"].list
         found == SameContent(recents, MatchingKey(Sources, req[c].sid), req[c].loc)
     IN  /\ found # {}
         /\ \E moved \in MovedToFront(recents, First(found)) :
              draft' = [draft EXCEPT ![c] = moved]
         /\ result' = [result EXCEPT ![c] = ShiftedInto(recents, First(found))]
  /\ pc' = [pc EXCEPT ![c] = "open"]
  /\ UNCHANGED <<file, clock, req, saved, stale, raced, promised>>

(* Faulty variant: an encoding error is noticed after the file was opened. *)
TruncateAndFail(c) ==
  /\ pc[c] = "open"
  /\ clock' = clock + 1
  /\ file' = [file EXCEPT ![req[c].kind] = Emptied(c, clock + 1)]
  /\ Finish(c)
  /\ UNCHANGED <<saved, raced, promised>>

(* Faulty variant: the file is opened without O_TRUNC. *)
OpenToOverwrite(c) ==
  /\ pc[c] = "open"
  /\ pc' = [pc EXCEPT ![c] = "write"]
  /\ UNCHANGED <<file, clock, req, draft, result, saved, stale, raced, promised>>

(* os.WriteFile opens the file with O_TRUNC: from here it does not parse. *)
Truncate(c) ==
  /\ pc[c] = "open"
  /\ \E t \in Now(c) :
       /\ clock' = t
       /\ file' = [file EXCEPT ![req[c].kind] = Emptied(c, t)]
  /\ pc' = [pc EXCEPT ![c] = "write"]
  /\ UNCHANGED <<req, draft, result, saved, stale, raced, promised>>

(* Whether a list written from offset 0 leaves a tail of what is there:    *)
(* that depends on the lengths, if another request wrote the file since it *)
(* was truncated.                                                          *)
Tails(k) == IF file[k].readable THEN BOOLEAN ELSE {FALSE}

(* ... and writes it, from offset 0.  Then the response goes out. *)
Write(c) ==
  /\ pc[c] = "write"
  /\ LET k == req[c].kind IN
     /\ \E t \in Now(c), tail \in Tails(k) :
          /\ clock' = t
          /\ file' = [file EXCEPT ![k] = [Holding(draft[c], t) EXCEPT !.tail = tail]]
     /\ saved' = [saved EXCEPT ![k] = draft[c]]
     /\ raced' = [raced EXCEPT ![k] = raced[k] \/ stale[c]]
     /\ stale' = [d \in Clients |->
                    IF d = c THEN FALSE
                    ELSE stale[d] \/ (pc[d] \in {"open", "write"} /\ req[d].kind = k)]
     /\ promised' = IF k = "presets" THEN [promised EXCEPT ![req[c].num] = req[c].loc] ELSE promised
  /\ pc' = [pc EXCEPT ![c] = "idle"]
  /\ req' = [req EXCEPT ![c] = Idle]
  /\ draft' = [draft EXCEPT ![c] = <<>>]
  /\ result' = [result EXCEPT ![c] = EmptyPreset]

(* The file cannot be opened, or was truncated and cannot be written: 500. *)
SaveFails(c) ==
  /\ Faults
  /\ pc[c] \in {"open", "write"}
  /\ Finish(c)
  /\ UNCHANGED <<file, clock, saved, raced, promised>>

(* The server dies and is restarted: files and clock stay, requests go. *)
Crash ==
  /\ Faults
  /\ Busy # {}
  /\ pc' = [c \in Clients |-> "idle"]
  /\ req' = [c \in Clients |-> Idle]
  /\ draft' = [c \in Clients |-> <<>>]
  /\ result' = [c \in Clients |-> EmptyPreset]
  /\ stale' = [c \in Clients |-> FALSE]
  /\ UNCHANGED <<file, clock, saved, raced, promised>>

ClientStep(c) ==
  \/ \E r \in PresetRequests : Accept(c, "presets", r)
  \/ \E r \in RecentRequests : Accept(c, "recents", r)
  \/ Reject(c)
  \/ UpdatePreset(c)
  \/ AddNewRecent(c)
  \/ TouchRecent(c)
  \/ Truncate(c)
  \/ Write(c)
  \/ SaveFails(c)

StoreNext == Crash \/ \E c \in Clients : ClientStep(c)

StoreSpec == StoreInit /\ [][StoreNext]_storeVars

-----------------------------------------------------------------------------
(* Type invariant. *)
TypeOK ==
  /\ file \in [Kinds -> [readable : BOOLEAN, list : Seq(Item), tail : BOOLEAN,
                         by : Clients \cup {NoClient}, mtime : Nat]]
  /\ clock \in Nat
  /\ pc \in [Clients -> {"idle", "read", "open", "write"}]
  /\ req \in [Clients -> [kind : Kinds, num : Nat, sid : Nat, loc : Locs \cup {NoLoc}]]
  /\ draft \in [Clients -> Seq(Item)]
  /\ result \in [Clients -> Item]
  /\ saved \in [Kinds -> Seq(Item)]
  /\ stale \in [Clients -> BOOLEAN]
  /\ raced \in [Kinds -> BOOLEAN]
  /\ promised \in [Buttons -> Locs \cup {NoLoc}]

(* Every position of a list of presets holds that button, or padding. *)
InPlace(presets) == \A i \in 1 .. Len(presets) : presets[i].id \in {NoID, i}

(* Button n is always found at position n of Presets.xml: UpdatePreset     *)
(* indexes the list by the number, GET renders the ids that are stored.    *)
ButtonsInPlace == InPlace(file["presets"].list)

(* As long as no two saves overlapped, a readable Presets.xml plays on     *)
(* every button what was copied from the speaker or acknowledged last:     *)
(* UpdatePreset keeps the other buttons, a request that fails or dies with *)
(* the server changes nothing, and a truncated file is never taken for an  *)
(* empty list and written back.                                            *)
PromisedPresets ==
  file["presets"].readable /\ ~raced["presets"] =>
    \A n \in Buttons : LocAt(file["presets"].list, n) = promised[n]

(* Recents.xml never holds more than MaxRecents entries, unless it was     *)
(* copied with more, whatever requests overlap: the move-to-front path     *)
(* does not cut the list, so it must not lengthen it.                      *)
Bounded(recents) ==
  \/ Len(recents) <= MaxRecents
  \/ \E l \in InitialRecents : Len(recents) <= Len(l)
RecentsBounded == Bounded(file["recents"].list)

(* Two recents have the same id exactly when they are the same content.    *)
Identified(recents) ==
  \A i, j \in 1 .. Len(recents) :
    recents[i].id = recents[j].id
      <=> (recents[i].key = recents[j].key /\ recents[i].loc = recents[j].loc)

(* A new recent never gets an id that another content of the list has, and *)
(* a content already listed never gets a second id, however adds, moves,   *)
(* cuts and overlapping saves alternate.                                   *)
RecentIDsIdentifyContent == Identified(file["recents"].list)

(* The response to "add recent" describes the content that was posted.     *)
RecentResponseIsPosted ==
  \A c \in Clients :
    pc[c] = "write" /\ req[c].kind = "recents" => result[c].loc = req[c].loc
=============================================================================
