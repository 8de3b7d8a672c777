------------------------- MODULE AccountViews_proofs -------------------------
(***************************************************************************)
(* Proofs about AccountViews: when no two saves share a millisecond, a 304 *)
(* never hides a change of a list that the speaker was given, although the *)
(* two changes that one save makes may share one.                          *)
(***************************************************************************)
EXTENDS AccountViews, MargeStore_proofs

(* The two files keep no time later than the clock, and no ETag is later   *)
(* than the clock either.                                                  *)
ETagsInPast ==
  /\ clock >= 1
  /\ \A k \in Kinds : file[k].mtime <= clock
  /\ \A r \in Readers : etag[r] <= clock /\ presetsView[r].etag <= clock /\ fullView[r].etag <= clock

(* A file that was emptied by a save is not readable. *)
EmptiedUnread == \A k \in Kinds : file[k].by \in Clients => ~file[k].readable

(* The lists of a full account rendered so far are the ones in the files,  *)
(* as long as none of them has changed since its ETag was taken.           *)
Rendering(r) ==
  /\ rpc[r] \notin {"device", "recents"} => body[r] = EmptyBody
  /\ rpc[r] = "recents" => todo[r] # {}
  /\ rpc[r] \in {"device", "recents"} /\ etag[r] = AccountETag => UpToDate(body[r])

(* The inductive invariant. *)
ViewsInv ==
  /\ ETagsInPast
  /\ EmptiedUnread
  /\ \A r \in Readers : Rendering(r)
  /\ PresetsViewFresh
  /\ FullListsFresh

(* The account's ETag is a time of one of its files. *)
LEMMA AccountETagFacts ==
  ASSUME TypeOK
  PROVE  /\ AccountETag \in Nat
         /\ \A k \in Kinds : file[k].mtime <= AccountETag /\ file[k].mtime \in Nat
  BY DEF TypeOK, AccountETag, Larger, SourcesETag, Kinds

(* A step of a request leaves the files alone, or changes one of them.  It *)
(* gives that file a time that no file and no ETag had before, or writes   *)
(* one that did not parse and leaves its time as it is.                    *)
FreshChange ==
  /\ clock' = clock + 1
  /\ \E k \in Kinds :
       /\ file'[k].mtime = clock'
       /\ \A j \in Kinds \ {k} : file'[j] = file[j]

FillChange ==
  /\ clock' = clock
  /\ \E k \in Kinds :
       /\ ~file[k].readable
       /\ file'[k].mtime = file[k].mtime
       /\ \A j \in Kinds \ {k} : file'[j] = file[j]

LEMMA FileChange ==
  ASSUME TypeOK, EmptiedUnread, "saves" \notin SameMillisecond, NEW c \in Clients, ClientStep(c)
  PROVE  /\ UNCHANGED <<file, clock>> \/ FreshChange \/ FillChange
         /\ EmptiedUnread'
<1>0. req[c].kind \in Kinds /\ DOMAIN file = Kinds /\ clock \in Nat /\ draft[c] \in Seq(Item)
  BY DEF TypeOK
<1>n. Now(c) \subseteq {clock, clock + 1} /\ (clock \in Now(c) => JustEmptied(c))
  BY <1>0 DEF Now
<1>1. CASE Truncate(c)
  <2>1. PICK t \in Now(c) :
          /\ clock' = t
          /\ file' = [file EXCEPT ![req[c].kind] = Emptied(c, t)]
    BY <1>1, TruncateFile
  <2>2. t = clock + 1
    BY <1>1, <1>n DEF Truncate, JustEmptied
  <2>3. ~Emptied(c, t).readable /\ Emptied(c, t).mtime = t
    BY DEF Emptied
  <2>4. FreshChange
    BY <1>0, <2>1, <2>2, <2>3 DEF FreshChange
  <2>5. EmptiedUnread'
    BY <1>0, <2>1, <2>3 DEF EmptiedUnread
  <2> QED
    BY <2>4, <2>5
<1>3. CASE Write(c)
  <2>1. PICK t \in Now(c), tail \in BOOLEAN :
          /\ clock' = t
          /\ file' = [file EXCEPT ![req[c].kind] = Written(draft[c], tail, t)]
    BY <1>3, WriteFile
  <2>2. Written(draft[c], tail, t).mtime = t /\ Written(draft[c], tail, t).by \notin Clients
    BY StoreAssumption DEF Written, Holding
  <2>3. EmptiedUnread'
    BY <1>0, <2>1, <2>2 DEF EmptiedUnread
  <2>4. CASE t = clock + 1
    BY <1>0, <2>1, <2>2, <2>3, <2>4 DEF FreshChange
  <2>5. CASE t = clock
    <3>1. JustEmptied(c)
      BY <1>n, <2>5
    <3>2. ~file[req[c].kind].readable /\ file[req[c].kind].mtime = clock
      BY <1>0, <3>1 DEF JustEmptied, EmptiedUnread
    <3> QED
      BY <1>0, <2>1, <2>2, <2>3, <2>5, <3>2 DEF FillChange
  <2> QED
    BY <1>n, <2>4, <2>5
<1>2. CASE ~(Truncate(c) \/ Write(c))
  <2>1. UNCHANGED <<file, clock>>
    BY <1>2 DEF ClientStep, Accept, Reject, UpdatePreset, AddNewRecent, TouchRecent, SaveFails
  <2> QED
    BY <2>1 DEF EmptiedUnread
<1> QED
  BY <1>1, <1>2, <1>3

-----------------------------------------------------------------------------
(* Types.                                                                  *)
LEMMA NothingListed ==
  /\ EmptyBody \in Body
  /\ \A d \in Devices : ~EmptyBody[d].presets.readable /\ ~EmptyBody[d].recents.readable
<1>1. NoEntry \in Entry /\ ~NoEntry.presets.readable /\ ~NoEntry.recents.readable
  <2>1. <<>> \in Seq(Item)
    OBVIOUS
  <2> QED
    BY <2>1 DEF NoEntry, Nothing, Entry, View
<1> QED
  BY <1>1 DEF EmptyBody, Body

LEMMA NothingType == Nothing \in View
<1>1. <<>> \in Seq(Item)
  OBVIOUS
<1> QED
  BY <1>1 DEF Nothing, View

LEMMA ShownType ==
  ASSUME TypeOK, NEW k \in Kinds
  PROVE  Shown(k) \in View
  BY DEF TypeOK, Shown, View

LEMMA ViewsTypeInit == ViewsInit => ViewsTypeOK
<1>1. <<>> \in Seq(Item)
  OBVIOUS
<1>2. NoETag \in ETag
  BY DEF ETag
<1> QED
  BY <1>1, <1>2, NothingListed DEF ViewsInit, ViewsTypeOK

(* A fetch that reads the recents has the device it reads them for. *)
ReadsForDevice == \A r \in Readers : rpc[r] = "recents" => todo[r] # {}

LEMMA ViewsTypeFetch ==
  ASSUME TypeOK, ViewsTypeOK, ReadsForDevice,
         NEW r \in Readers, Fetch(r), UNCHANGED <<storeVars, deviceVars>>
  PROVE  ViewsTypeOK' /\ ReadsForDevice'
<1>1. UNCHANGED <<dev, adding>>
  BY DEF deviceVars
<1>2. \A k \in Kinds : file[k].mtime \in Nat /\ file[k].list \in Seq(Item)
  BY DEF TypeOK
<1>3. "presets" \in Kinds /\ "recents" \in Kinds
  BY DEF Kinds
<1>4. NoETag \in ETag /\ \A e \in ETag : e \in Int
  BY DEF ETag, NoETag
<1>t. todo[r] # {} => First(todo[r]) \in Devices
  <2>1. todo[r] \in SUBSET Devices /\ todo[r] \in SUBSET Nat
    BY ViewsAssumption DEF ViewsTypeOK
  <2> QED
    BY <2>1, FirstInSet
(* The fetch is in another state than "recents" afterwards. *)
<1>r. ASSUME rpc'[r] # "recents", \A q \in Readers \ {r} : rpc'[q] = rpc[q] /\ todo'[q] = todo[q]
      PROVE  ReadsForDevice'
  BY <1>r DEF ReadsForDevice
<1>5. CASE StatPresets(r)
  <2>1. ViewsTypeOK'
    BY <1>1, <1>2, <1>3, <1>5 DEF StatPresets, ViewsTypeOK, ETag
  <2> QED
    BY <1>5, <1>r, <2>1 DEF StatPresets, ViewsTypeOK
<1>6. CASE ServePresets(r)
  <2>1. [etag |-> etag[r], list |-> file["presets"].list] \in [etag : ETag, list : Seq(Item)]
    BY <1>2, <1>3 DEF ViewsTypeOK
  <2>2. ViewsTypeOK'
    BY <1>1, <1>4, <1>6, <2>1 DEF ServePresets, ViewsTypeOK
  <2> QED
    BY <1>6, <1>r, <2>2 DEF ServePresets, ViewsTypeOK
<1>7. CASE StatAccount(r)
  <2>1. Larger(file["presets"].mtime, SourcesETag) \in Nat
    BY <1>2, <1>3 DEF Larger, SourcesETag
  <2>2. ViewsTypeOK'
    BY <1>1, <1>7, <2>1 DEF StatAccount, ViewsTypeOK, ETag
  <2> QED
    BY <1>7, <1>r, <2>2 DEF StatAccount, ViewsTypeOK
<1>8. CASE StatRecents(r)
  <2> DEFINE e == Larger(etag[r], file["recents"].mtime)
  <2>1. e \in ETag
    BY <1>2, <1>3 DEF Larger, ETag, ViewsTypeOK
  <2>2. PICK x \in {e, NoETag} : etag' = [etag EXCEPT ![r] = x]
    BY <1>8 DEF StatRecents
  <2> HIDE DEF e
  <2>3. etag' \in [Readers -> ETag]
    BY <1>4, <2>1, <2>2 DEF ViewsTypeOK
  <2>4. PICK y \in {"idle", "dir"} : rpc' = [rpc EXCEPT ![r] = y]
    BY <1>8 DEF StatRecents
  <2>5. rpc' \in [Readers -> {"idle", "presets", "statRecents", "dir", "device", "recents"}]
    BY <2>4 DEF ViewsTypeOK
  <2>6. UNCHANGED <<todo, body, presetsView, fullView>>
    BY <1>8 DEF StatRecents
  <2>7. ViewsTypeOK'
    BY <1>1, <2>3, <2>5, <2>6 DEF ViewsTypeOK
  <2> QED
    BY <1>r, <2>4, <2>6, <2>7 DEF ViewsTypeOK
<1>9. CASE ReadDir(r)
  <2>1. ViewsTypeOK'
    BY <1>1, <1>9 DEF ReadDir, ViewsTypeOK
  <2> QED
    BY <1>9, <1>r, <2>1 DEF ReadDir, ViewsTypeOK
<1>10. CASE RenderPresets(r)
  <2> DEFINE d == First(todo[r])
  <2>0. d \in Devices /\ rpc[r] = "device" /\ todo[r] # {} /\ UNCHANGED <<etag, presetsView, fullView>>
    BY <1>10, <1>t DEF RenderPresets
  <2>1. CASE InfoReadable(d)
    <3>1. /\ body' = [body EXCEPT ![r] = [body[r] EXCEPT ![d] = Entered(Shown("presets"), Nothing)]]
          /\ rpc' = [rpc EXCEPT ![r] = "recents"]
          /\ todo' = todo
      BY <1>10, <2>1 DEF RenderPresets, ViewsTypeOK
    <3>2. Entered(Shown("presets"), Nothing) \in Entry
      BY <1>3, ShownType, NothingType DEF Entered, Entry
    <3>3. body' \in [Readers -> Body]
      BY <2>0, <3>1, <3>2 DEF ViewsTypeOK, Body
    <3>4. ReadsForDevice'
      BY <2>0, <3>1 DEF ReadsForDevice, ViewsTypeOK
    <3> QED
      BY <1>1, <2>0, <3>1, <3>3, <3>4 DEF ViewsTypeOK
  <2>2. CASE ~InfoReadable(d)
    <3>1. /\ todo' = [todo EXCEPT ![r] = todo[r] \ {d}]
          /\ UNCHANGED <<body, rpc>>
      BY <1>10, <2>2 DEF RenderPresets
    <3>2. ViewsTypeOK'
      BY <1>1, <2>0, <3>1 DEF ViewsTypeOK
    <3> QED
      BY <1>r, <2>0, <3>1, <3>2 DEF ViewsTypeOK
  <2> QED
    BY <2>1, <2>2
<1>11. CASE RenderRecents(r)
  <2> DEFINE d == First(todo[r])
  <2>1. /\ rpc[r] = "recents" /\ UNCHANGED <<etag, presetsView, fullView>>
        /\ body' = [body EXCEPT ![r] = [body[r] EXCEPT ![d] = Entered(body[r][d].presets, Shown("recents"))]]
        /\ todo' = [todo EXCEPT ![r] = todo[r] \ {d}]
        /\ rpc' = [rpc EXCEPT ![r] = "device"]
    BY <1>11 DEF RenderRecents
  <2>2. d \in Devices
    BY <1>t, <2>1 DEF ReadsForDevice
  <2>3. body[r][d] \in Entry
    BY <2>2 DEF ViewsTypeOK, Body
  <2>4. Entered(body[r][d].presets, Shown("recents")) \in Entry
    BY <1>3, <2>3, ShownType DEF Entered, Entry
  <2>5. body' \in [Readers -> Body]
    BY <2>1, <2>2, <2>4 DEF ViewsTypeOK, Body
  <2>6. ViewsTypeOK'
    BY <1>1, <2>1, <2>5 DEF ViewsTypeOK
  <2> QED
    BY <1>r, <2>1, <2>6 DEF ViewsTypeOK
<1>12. CASE ServeFull(r)
  <2>1. [etag |-> etag[r], body |-> body[r]] \in [etag : ETag, body : Body]
    BY DEF ViewsTypeOK
  <2>2. ViewsTypeOK'
    BY <1>1, <1>4, <1>12, <2>1, NothingListed DEF ServeFull, ViewsTypeOK
  <2> QED
    BY <1>12, <1>r, <2>2 DEF ServeFull, ViewsTypeOK
<1> QED
  BY <1>5, <1>6, <1>7, <1>8, <1>9, <1>10, <1>11, <1>12 DEF Fetch

LEMMA ViewsTypeNext ==
  ASSUME TypeOK, ViewsTypeOK, ReadsForDevice, [ViewsNext]_viewsVars
  PROVE  ViewsTypeOK' /\ ReadsForDevice'
<1>1. CASE UNCHANGED <<deviceVars, fetchVars>>
  BY <1>1 DEF ViewsTypeOK, ReadsForDevice, deviceVars, fetchVars
<1>2. CASE \E r \in Readers : Fetch(r) /\ UNCHANGED <<storeVars, deviceVars>>
  BY <1>2, ViewsTypeFetch
<1>3. CASE \E d \in Devices : DeviceStep(d) /\ UNCHANGED <<storeVars, fetchVars>>
  BY <1>3 DEF DeviceStep, AddDevice, WriteDevice, RemoveDevice, ViewsTypeOK, ReadsForDevice, fetchVars
<1>4. CASE CrashAll
  <2>1. NoETag \in ETag
    BY DEF ETag
  <2> QED
    BY <1>4, <2>1, NothingListed DEF CrashAll, ViewsTypeOK, ReadsForDevice
<1> QED
  BY <1>1, <1>2, <1>3, <1>4 DEF ViewsNext, viewsVars

(* The composed system takes the steps of the store, or none. *)
LEMMA ViewsStoreSpec == ViewsSpec => StoreSpec
<1>1. ViewsInit => StoreInit
  BY DEF ViewsInit
<1>2. [ViewsNext]_viewsVars => [StoreNext]_storeVars
  BY DEF ViewsNext, CrashAll, StoreNext, viewsVars
<1> QED
  BY <1>1, <1>2, PTL DEF ViewsSpec, StoreSpec

(* Type correctness of the views, however fetches, saves and devices that  *)
(* come and go overlap: in particular every rendered account is one.       *)
THEOREM ViewsTypeCorrect == ViewsSpec => []ViewsTypeOK
<1>1. ViewsInit => ViewsTypeOK /\ ReadsForDevice
  BY ViewsTypeInit DEF ViewsInit, ReadsForDevice
<1>2. TypeOK /\ ViewsTypeOK /\ ReadsForDevice /\ [ViewsNext]_viewsVars => (ViewsTypeOK /\ ReadsForDevice)'
  BY ViewsTypeNext
<1> QED
  BY <1>1, <1>2, ViewsStoreSpec, StoreTypeCorrect, PTL DEF ViewsSpec

-----------------------------------------------------------------------------
(* Freshness.                                                              *)
LEMMA ViewsInvInit ==
  ASSUME ViewsInit
  PROVE  ViewsInv
<1>1. TypeOK
  BY InitType DEF ViewsInit
<1>2. clock = 1 /\ \A k \in Kinds : file[k].mtime <= 1 /\ file[k].mtime \in Nat
  <2>1. clock = 1 /\ \A k \in Kinds : file[k] \in InitialFile(InitialPresets) \cup InitialFile(InitialRecents)
    BY DEF ViewsInit, StoreInit
  <2>2. \A k \in Kinds : file[k].mtime <= 1
    BY <2>1 DEF InitialFile, Holding, Emptied
  <2> QED
    BY <1>1, <2>1, <2>2 DEF TypeOK
<1>3. ETagsInPast
  BY <1>2 DEF ETagsInPast, ViewsInit, NoETag
<1>4. \A r \in Readers : Rendering(r)
  BY DEF Rendering, ViewsInit
<1>5. PresetsViewFresh /\ FullListsFresh
  BY <1>1, <1>2, AccountETagFacts DEF PresetsViewFresh, FullListsFresh, ViewsInit, NoETag, Kinds
<1>6. EmptiedUnread
  <2>1. \A k \in Kinds : file[k] \in InitialFile(InitialPresets) \cup InitialFile(InitialRecents)
    BY DEF ViewsInit, StoreInit
  <2>2. \A k \in Kinds : file[k].by = NoClient
    BY <2>1 DEF InitialFile, Holding, Emptied
  <2> QED
    BY <2>2, StoreAssumption DEF EmptiedUnread
<1> QED
  BY <1>3, <1>4, <1>5, <1>6 DEF ViewsInv

(* Nothing the invariant speaks of but the steps of fetches has changed. *)
LEMMA ViewsInvUnchanged ==
  ASSUME ViewsInv, UNCHANGED <<file, clock, fetchVars>>
  PROVE  ViewsInv'
<1>1. AccountETag' = AccountETag /\ Shown("presets")' = Shown("presets") /\ Shown("recents")' = Shown("recents")
  BY DEF AccountETag, Larger, Shown
<1>2. UNCHANGED fetchVars
  OBVIOUS
<1>3. ETagsInPast' /\ EmptiedUnread' /\ PresetsViewFresh'
  BY <1>2 DEF ViewsInv, ETagsInPast, EmptiedUnread, PresetsViewFresh, fetchVars
<1>4. FullListsFresh'
  BY <1>1, <1>2 DEF ViewsInv, FullListsFresh, UpToDate, fetchVars
<1>5. \A r \in Readers : Rendering(r)'
  <2> TAKE r \in Readers
  <2>1. Rendering(r)
    BY DEF ViewsInv
  <2> QED
    BY <1>1, <1>2, <2>1 DEF Rendering, UpToDate, fetchVars
<1> QED
  BY <1>3, <1>4, <1>5 DEF ViewsInv

(* A file that gets a new time outdates every ETag given out before. *)
LEMMA ViewsInvFresh ==
  ASSUME TypeOK, TypeOK', ViewsTypeOK, ViewsInv, EmptiedUnread', FreshChange, UNCHANGED fetchVars
  PROVE  ViewsInv'
<1>1. PICK k \in Kinds : /\ clock' = clock + 1
                         /\ file'[k].mtime = clock'
                         /\ \A j \in Kinds \ {k} : file'[j] = file[j]
  BY DEF FreshChange
<1>2. clock \in Nat /\ AccountETag' \in Nat /\ AccountETag' > clock
  <2>1. AccountETag' \in Nat /\ file'[k].mtime <= AccountETag'
    <3>1. file'["presets"].mtime \in Nat /\ file'["recents"].mtime \in Nat
      BY DEF TypeOK, Kinds
    <3>2. /\ AccountETag' \in Nat
          /\ file'["presets"].mtime <= AccountETag' /\ file'["recents"].mtime <= AccountETag'
      BY <3>1 DEF AccountETag, Larger, SourcesETag
    <3>3. k = "presets" \/ k = "recents"
      BY DEF Kinds
    <3> QED
      BY <3>2, <3>3
  <2> QED
    BY <1>1, <2>1 DEF TypeOK
<1>3. \A r \in Readers : /\ etag[r] <= clock /\ presetsView[r].etag <= clock /\ fullView[r].etag <= clock
                         /\ etag[r] \in Int /\ presetsView[r].etag \in Int /\ fullView[r].etag \in Int
  BY DEF ViewsInv, ETagsInPast, ViewsTypeOK, ETag, NoETag
<1>4. ETagsInPast'
  <2>1. ASSUME NEW j \in Kinds
        PROVE  file'[j].mtime <= clock'
    <3>1. file[j].mtime <= clock /\ file[j].mtime \in Nat
      BY DEF ViewsInv, ETagsInPast, TypeOK
    <3> QED
      BY <1>1, <1>2, <3>1
  <2> QED
    BY <1>1, <1>2, <1>3, <2>1 DEF ViewsInv, ETagsInPast, fetchVars
<1>5. \A r \in Readers : Rendering(r)'
  BY <1>2, <1>3 DEF ViewsInv, Rendering, fetchVars
<1>6. FullListsFresh'
  BY <1>2, <1>3 DEF FullListsFresh, fetchVars
<1>7. PresetsViewFresh'
  <2>1. CASE k = "presets"
    BY <1>1, <1>2, <1>3, <2>1 DEF PresetsViewFresh, fetchVars
  <2>2. CASE k # "presets"
    <3>1. file'["presets"] = file["presets"]
      BY <1>1, <2>2 DEF Kinds
    <3> QED
      BY <3>1 DEF ViewsInv, PresetsViewFresh, fetchVars
  <2> QED
    BY <2>1, <2>2
<1> QED
  BY <1>4, <1>5, <1>6, <1>7 DEF ViewsInv

(* A list that is written at the time its file was emptied is in no body   *)
(* that was rendered under this ETag, and neither is an older one: whoever *)
(* has read the file since got nothing.                                    *)
LEMMA ViewsInvFill ==
  ASSUME TypeOK, ViewsInv, EmptiedUnread', FillChange, UNCHANGED fetchVars
  PROVE  ViewsInv'
<1>1. PICK k \in Kinds : /\ clock' = clock
                         /\ ~file[k].readable
                         /\ file'[k].mtime = file[k].mtime
                         /\ \A j \in Kinds \ {k} : file'[j] = file[j]
  BY DEF FillChange
<1>2. \A j \in Kinds : file'[j].mtime = file[j].mtime /\ (file[j].readable => Shown(j)' = Shown(j))
  BY <1>1 DEF Shown
<1>3. AccountETag' = AccountETag
  BY <1>2 DEF AccountETag, Larger, Kinds
<1>4. \A b : UpToDate(b) => UpToDate(b)'
  <2> SUFFICES ASSUME NEW b, UpToDate(b), NEW d \in Devices
               PROVE  /\ b[d].presets.readable => b[d].presets = Shown("presets")'
                      /\ b[d].recents.readable => b[d].recents = Shown("recents")'
    BY DEF UpToDate
  <2>1. \A j \in Kinds : Shown(j).readable = file[j].readable
    BY DEF Shown
  <2> QED
    BY <1>2, <2>1 DEF UpToDate, Kinds
<1>5. ETagsInPast'
  BY <1>1, <1>2 DEF ViewsInv, ETagsInPast, fetchVars
<1>6. \A r \in Readers : Rendering(r)'
  <2> TAKE r \in Readers
  <2>1. Rendering(r)
    BY DEF ViewsInv
  <2> QED
    BY <1>3, <1>4, <2>1 DEF Rendering, fetchVars
<1>7. FullListsFresh'
  BY <1>3, <1>4 DEF ViewsInv, FullListsFresh, fetchVars
<1>8. PresetsViewFresh'
  <2>1. file["presets"].readable => file'["presets"] = file["presets"]
    BY <1>1 DEF Kinds
  <2> QED
    BY <1>2, <2>1 DEF ViewsInv, PresetsViewFresh, fetchVars, Kinds
<1> QED
  BY <1>5, <1>6, <1>7, <1>8 DEF ViewsInv

(* A step of a fetch changes no file; it disturbs only its own reader. *)
LEMMA ViewsInvFetch ==
  ASSUME TypeOK, ViewsTypeOK, ViewsInv,
         NEW r \in Readers, Fetch(r), UNCHANGED <<storeVars, deviceVars>>
  PROVE  ViewsInv'
<1>1. /\ AccountETag' = AccountETag
      /\ \A k \in Kinds : Shown(k)' = Shown(k)
      /\ UNCHANGED <<file, clock, dev, adding>>
  BY DEF storeVars, deviceVars, AccountETag, Larger, Shown
<1>2. /\ AccountETag \in Nat /\ clock \in Nat /\ 1 <= clock
      /\ \A k \in Kinds : file[k].mtime \in Nat /\ file[k].mtime <= clock
      /\ AccountETag <= clock
  BY AccountETagFacts DEF ViewsInv, ETagsInPast, TypeOK, AccountETag, Larger, SourcesETag, Kinds
<1>3. "presets" \in Kinds /\ "recents" \in Kinds
  BY DEF Kinds
<1>4. NoETag \in ETag /\ NoETag <= clock /\ \A e \in ETag : e \in Int
  BY <1>2 DEF ETag, NoETag
<1>t. todo[r] # {} => First(todo[r]) \in Devices
  <2>1. todo[r] \in SUBSET Devices /\ todo[r] \in SUBSET Nat
    BY ViewsAssumption DEF ViewsTypeOK
  <2> QED
    BY <2>1, FirstInSet
<1>p. Rendering(r)
  BY DEF ViewsInv
<1>u. \A b : UpToDate(b)' <=> UpToDate(b)
  BY <1>1, <1>3 DEF UpToDate
(* Once the reader's own part holds, the invariant holds. *)
<1>s. ASSUME Rendering(r)',
             etag'[r] <= clock, presetsView'[r].etag <= clock, fullView'[r].etag <= clock,
             \A q \in Readers \ {r} :
               /\ rpc'[q] = rpc[q] /\ etag'[q] = etag[q] /\ todo'[q] = todo[q] /\ body'[q] = body[q]
               /\ presetsView'[q] = presetsView[q] /\ fullView'[q] = fullView[q],
             presetsView'[r].etag = file["presets"].mtime =>
               file["presets"].readable /\ presetsView'[r].list = file["presets"].list,
             fullView'[r].etag = AccountETag => UpToDate(fullView'[r].body)
      PROVE  ViewsInv'
  <2>1. ETagsInPast' /\ EmptiedUnread'
    BY <1>1, <1>s DEF ViewsInv, ETagsInPast, EmptiedUnread
  <2>2. \A q \in Readers : Rendering(q)'
    <3> TAKE q \in Readers
    <3>1. CASE q = r
      BY <1>s, <3>1
    <3>2. CASE q # r
      <4>1. Rendering(q)
        BY DEF ViewsInv
      <4>2. /\ rpc'[q] = rpc[q] /\ etag'[q] = etag[q] /\ todo'[q] = todo[q] /\ body'[q] = body[q]
        BY <1>s, <3>2
      <4> QED
        BY <1>1, <1>u, <4>1, <4>2 DEF Rendering
    <3> QED
      BY <3>1, <3>2
  <2>3. PresetsViewFresh'
    BY <1>1, <1>s DEF ViewsInv, PresetsViewFresh
  <2>4. FullListsFresh'
    <3> SUFFICES ASSUME NEW q \in Readers, fullView'[q].etag = AccountETag
                 PROVE  UpToDate(fullView'[q].body)
      BY <1>1, <1>u DEF FullListsFresh
    <3> QED
      BY <1>s DEF ViewsInv, FullListsFresh
  <2> QED
    BY <1>s, <2>1, <2>2, <2>3, <2>4 DEF ViewsInv
<1>v. /\ etag[r] <= clock /\ presetsView[r].etag <= clock /\ fullView[r].etag <= clock
      /\ presetsView[r].etag = file["presets"].mtime =>
           file["presets"].readable /\ presetsView[r].list = file["presets"].list
      /\ fullView[r].etag = AccountETag => UpToDate(fullView[r].body)
  BY DEF ViewsInv, ETagsInPast, PresetsViewFresh, FullListsFresh
<1>5. CASE StatPresets(r)
  <2>2. Rendering(r)'
    BY <1>5, <1>p DEF StatPresets, Rendering, ViewsTypeOK
  <2> QED
    BY <1>2, <1>3, <1>5, <1>s, <1>v, <2>2 DEF StatPresets, ViewsTypeOK
<1>6. CASE ServePresets(r)
  <2>2. Rendering(r)'
    BY <1>6, <1>p DEF ServePresets, Rendering, ViewsTypeOK
  <2>3. \/ presetsView'[r] = presetsView[r]
        \/ /\ file["presets"].readable
           /\ presetsView'[r] = [etag |-> etag[r], list |-> file["presets"].list]
    BY <1>6 DEF ServePresets, ViewsTypeOK
  <2>4. etag'[r] = NoETag /\ UNCHANGED <<todo, body, fullView>>
    BY <1>6 DEF ServePresets, ViewsTypeOK
  <2>5. \A q \in Readers \ {r} : rpc'[q] = rpc[q] /\ etag'[q] = etag[q] /\ presetsView'[q] = presetsView[q]
    BY <1>6 DEF ServePresets, ViewsTypeOK
  <2>6. presetsView'[r].etag <= clock
    BY <1>v, <2>3
  <2>7. presetsView'[r].etag = file["presets"].mtime =>
          file["presets"].readable /\ presetsView'[r].list = file["presets"].list
    BY <1>v, <2>3
  <2> QED
    BY <1>4, <1>s, <1>v, <2>2, <2>4, <2>5, <2>6, <2>7
<1>7. CASE StatAccount(r)
  <2>1. Larger(file["presets"].mtime, SourcesETag) \in Nat /\ Larger(file["presets"].mtime, SourcesETag) <= clock
    BY <1>2, <1>3 DEF Larger, SourcesETag
  <2>3. Rendering(r)'
    BY <1>7, <1>p DEF StatAccount, Rendering, ViewsTypeOK
  <2> QED
    BY <1>7, <1>s, <1>v, <2>1, <2>3 DEF StatAccount, ViewsTypeOK
<1>8. CASE StatRecents(r)
  <2> DEFINE e == Larger(etag[r], file["recents"].mtime)
  <2>1. e \in ETag /\ e <= clock
    BY <1>2, <1>3, <1>v DEF Larger, ETag, ViewsTypeOK
  <2>3. Rendering(r)'
    BY <1>8, <1>p DEF StatRecents, Rendering, ViewsTypeOK
  <2>4. etag'[r] \in {e, NoETag}
    BY <1>8 DEF StatRecents, ViewsTypeOK
  <2> QED
    BY <1>4, <1>8, <1>s, <1>v, <2>1, <2>3, <2>4 DEF StatRecents, ViewsTypeOK
<1>9. CASE ReadDir(r)
  <2>2. Rendering(r)'
    BY <1>9, <1>p, NothingListed DEF ReadDir, Rendering, ViewsTypeOK, UpToDate
  <2> QED
    BY <1>9, <1>s, <1>v, <2>2 DEF ReadDir, ViewsTypeOK
<1>10. CASE RenderPresets(r)
  <2> DEFINE d == First(todo[r])
  <2>0. d \in Devices /\ rpc[r] = "device" /\ UNCHANGED <<etag, presetsView, fullView>>
    BY <1>10, <1>t DEF RenderPresets
  <2>1. CASE InfoReadable(d)
    <3>1. /\ body' = [body EXCEPT ![r] = [body[r] EXCEPT ![d] = Entered(Shown("presets"), Nothing)]]
          /\ rpc' = [rpc EXCEPT ![r] = "recents"]
          /\ todo' = todo
          /\ todo[r] # {}
      BY <1>10, <2>1 DEF RenderPresets, ViewsTypeOK
    <3>2. Entered(Shown("presets"), Nothing) \in Entry
      BY <1>3, ShownType, NothingType DEF Entered, Entry
    <3>3. /\ body'[r][d] = Entered(Shown("presets"), Nothing)
          /\ \A x \in Devices \ {d} : body'[r][x] = body[r][x]
          /\ \A q \in Readers \ {r} : body'[q] = body[q]
          /\ body' \in [Readers -> Body]
      BY <2>0, <3>1, <3>2 DEF ViewsTypeOK, Body
    <3>5. Rendering(r)'
      <4>1. rpc'[r] = "recents" /\ todo'[r] # {} /\ etag'[r] = etag[r]
        BY <2>0, <3>1 DEF ViewsTypeOK
      <4>2. ASSUME etag[r] = AccountETag
            PROVE  UpToDate(body'[r])
        <5>1. UpToDate(body[r])
          BY <1>p, <2>0, <4>2 DEF Rendering
        <5>2. /\ body'[r][d].presets = Shown("presets")
              /\ ~body'[r][d].recents.readable
          BY <3>3 DEF Entered, Nothing
        <5> HIDE DEF d
        <5> QED
          BY <3>3, <5>1, <5>2 DEF UpToDate
      <4> QED
        BY <1>1, <1>u, <4>1, <4>2 DEF Rendering
    <3> QED
      BY <1>s, <1>v, <2>0, <3>1, <3>3, <3>5 DEF ViewsTypeOK
  <2>2. CASE ~InfoReadable(d)
    <3>1. /\ todo' = [todo EXCEPT ![r] = todo[r] \ {d}]
          /\ UNCHANGED <<body, rpc>>
      BY <1>10, <2>2 DEF RenderPresets
    <3>3. Rendering(r)'
      BY <1>1, <1>u, <1>p, <2>0, <3>1 DEF Rendering
    <3> QED
      BY <1>s, <1>v, <2>0, <3>1, <3>3 DEF ViewsTypeOK
  <2> QED
    BY <2>1, <2>2
<1>11. CASE RenderRecents(r)
  <2> DEFINE d == First(todo[r])
  <2>a. /\ rpc[r] = "recents" /\ UNCHANGED <<etag, presetsView, fullView>>
        /\ todo' = [todo EXCEPT ![r] = todo[r] \ {d}]
        /\ rpc' = [rpc EXCEPT ![r] = "device"]
    BY <1>11 DEF RenderRecents
  <2>b. d \in Devices
    BY <1>t, <1>p, <2>a DEF Rendering
  <2>c. body' = [body EXCEPT ![r] = [body[r] EXCEPT ![d] = Entered(body[r][d].presets, Shown("recents"))]]
    BY <1>11 DEF RenderRecents
  <2>0. /\ d \in Devices /\ rpc[r] = "recents" /\ UNCHANGED <<etag, presetsView, fullView>>
        /\ body' = [body EXCEPT ![r] = [body[r] EXCEPT ![d] = Entered(body[r][d].presets, Shown("recents"))]]
        /\ todo' = [todo EXCEPT ![r] = todo[r] \ {d}]
        /\ rpc' = [rpc EXCEPT ![r] = "device"]
    BY <2>a, <2>b, <2>c
  <2>1. Entered(body[r][d].presets, Shown("recents")) \in Entry
    <3>1. body[r][d] \in Entry
      BY <2>0 DEF ViewsTypeOK, Body
    <3> QED
      BY <1>3, <3>1, ShownType DEF Entered, Entry
  <2>2. /\ body'[r][d] = Entered(body[r][d].presets, Shown("recents"))
        /\ \A x \in Devices \ {d} : body'[r][x] = body[r][x]
        /\ \A q \in Readers \ {r} : body'[q] = body[q]
        /\ body' \in [Readers -> Body]
    BY <2>0, <2>1 DEF ViewsTypeOK, Body
  <2>4. Rendering(r)'
    <3>1. rpc'[r] = "device" /\ etag'[r] = etag[r]
      BY <2>0 DEF ViewsTypeOK
    <3>2. ASSUME etag[r] = AccountETag
          PROVE  UpToDate(body'[r])
      <4>1. UpToDate(body[r])
        BY <1>p, <2>0, <3>2 DEF Rendering
      <4>2. body'[r][d].presets = body[r][d].presets /\ body'[r][d].recents = Shown("recents")
        BY <2>2 DEF Entered
      <4> HIDE DEF d
      <4> QED
        BY <2>b, <2>2, <4>1, <4>2 DEF UpToDate
    <3> QED
      BY <1>1, <1>u, <3>1, <3>2 DEF Rendering
  <2> QED
    BY <1>s, <1>v, <2>0, <2>2, <2>4 DEF ViewsTypeOK
<1>12. CASE ServeFull(r)
  <2>1. /\ fullView'[r] = [etag |-> etag[r], body |-> body[r]]
        /\ rpc[r] = "device" /\ rpc'[r] = "idle" /\ etag'[r] = NoETag /\ body'[r] = EmptyBody
    BY <1>12 DEF ServeFull, ViewsTypeOK
  <2>3. Rendering(r)'
    BY <2>1 DEF Rendering
  <2>4. fullView'[r].etag = AccountETag => UpToDate(fullView'[r].body)
    BY <1>p, <2>1 DEF Rendering
  <2> QED
    BY <1>4, <1>12, <1>s, <1>v, <2>1, <2>3, <2>4 DEF ServeFull, ViewsTypeOK
<1> QED
  BY <1>5, <1>6, <1>7, <1>8, <1>9, <1>10, <1>11, <1>12 DEF Fetch

(* Nothing that the store does or that happens to devices is seen here. *)
LEMMA ViewsInvNext ==
  ASSUME TypeOK, TypeOK', ViewsTypeOK, ViewsInv, "saves" \notin SameMillisecond, [ViewsNext]_viewsVars
  PROVE  ViewsInv'
<1>1. ASSUME NEW c \in Clients, ClientStep(c), UNCHANGED <<deviceVars, fetchVars>>
      PROVE  ViewsInv'
  <2>1. EmptiedUnread
    BY DEF ViewsInv
  <2>2. EmptiedUnread' /\ (UNCHANGED <<file, clock>> \/ FreshChange \/ FillChange)
    BY <1>1, <2>1, FileChange
  <2>3. UNCHANGED fetchVars
    BY <1>1
  <2>4. CASE UNCHANGED <<file, clock>>
    BY <2>3, <2>4, ViewsInvUnchanged
  <2> QED
    BY <2>2, <2>3, <2>4, ViewsInvFresh, ViewsInvFill
<1>2. CASE \E r \in Readers : Fetch(r) /\ UNCHANGED <<storeVars, deviceVars>>
  BY <1>2, ViewsInvFetch
<1>f. ASSUME UNCHANGED <<file, clock, presetsView, fullView>>,
             \A r \in Readers : Rendering(r)', \A r \in Readers : etag'[r] <= clock
      PROVE  ViewsInv'
  <2>1. AccountETag' = AccountETag /\ Shown("presets")' = Shown("presets") /\ Shown("recents")' = Shown("recents")
    BY <1>f DEF AccountETag, Larger, Shown
  <2>2. ETagsInPast' /\ EmptiedUnread' /\ PresetsViewFresh'
    BY <1>f DEF ViewsInv, ETagsInPast, EmptiedUnread, PresetsViewFresh
  <2>3. FullListsFresh'
    BY <1>f, <2>1 DEF ViewsInv, FullListsFresh, UpToDate
  <2> QED
    BY <1>f, <2>2, <2>3 DEF ViewsInv
<1>3. CASE \E d \in Devices : DeviceStep(d) /\ UNCHANGED <<storeVars, fetchVars>>
  <2>1. UNCHANGED <<file, clock, fetchVars>>
    BY <1>3 DEF storeVars
  <2> QED
    BY <2>1, ViewsInvUnchanged
<1>4. CASE CrashAll
  <2>1. UNCHANGED <<file, clock, presetsView, fullView>>
    BY <1>4 DEF CrashAll, Crash
  <2>3. \A r \in Readers : Rendering(r)'
    BY <1>4 DEF CrashAll, Rendering
  <2>4. \A r \in Readers : etag'[r] <= clock
    BY <1>4 DEF CrashAll, NoETag, ViewsInv, ETagsInPast, TypeOK
  <2> QED
    BY <1>f, <2>1, <2>3, <2>4
<1>5. CASE UNCHANGED viewsVars
  <2>1. UNCHANGED <<file, clock, fetchVars>>
    BY <1>5 DEF viewsVars, storeVars
  <2> QED
    BY <2>1, ViewsInvUnchanged
<1> QED
  BY <1>1, <1>2, <1>3, <1>4, <1>5 DEF ViewsNext

(* The inductive invariant holds of every reachable state. *)
LEMMA ViewsInvariant ==
  ASSUME "saves" \notin SameMillisecond
  PROVE  ViewsSpec => []ViewsInv
<1>1. ViewsInit => ViewsInv
  BY ViewsInvInit
<1>2. TypeOK /\ TypeOK' /\ ViewsTypeOK /\ ViewsInv /\ [ViewsNext]_viewsVars => ViewsInv'
  BY ViewsInvNext
<1> QED
  BY <1>1, <1>2, ViewsStoreSpec, StoreTypeCorrect, ViewsTypeCorrect, PTL DEF ViewsSpec

(* A 304 for the presets is only sent while the file holds what the        *)
(* speaker keeps, if no two saves fall into the same millisecond.  The two *)
(* changes of one save may: a GET in between is an error, not a body.      *)
THEOREM PresetsNotModifiedIsFresh ==
  ASSUME "saves" \notin SameMillisecond
  PROVE  ViewsSpec => []PresetsViewFresh
<1>1. ViewsInv => PresetsViewFresh
  BY DEF ViewsInv
<1> QED
  BY <1>1, ViewsInvariant, PTL

(* A 304 for the full account is only sent while the two files hold the    *)
(* lists that the speaker keeps for its devices, under the same            *)
(* assumption; it may keep a device without a list that the file has.      *)
THEOREM FullNotModifiedIsFresh ==
  ASSUME "saves" \notin SameMillisecond
  PROVE  ViewsSpec => []FullListsFresh
<1>1. ViewsInv => FullListsFresh
  BY DEF ViewsInv
<1> QED
  BY <1>1, ViewsInvariant, PTL
=============================================================================
