# Verification of soundcork-go

soundcork-go replaces the cloud services of Bose SoundTouch speakers. Speakers
are pointed at it (migration), store presets and recents in it, fetch their
account from it, and report statistics to it. This directory holds TLA+ models
of the parts of `src/soundcork-go` that keep state, and of the Python requests
that share its files, the TLC runs that check
them on small instances, and TLAPS proofs of their main properties for every
value of the constants.

The Go server is one process, beside the older Python service in the same
container. Every HTTP request runs on its own goroutine; the
store is a tree of XML files that is read and rewritten without locks; only the
event log in memory has a mutex. That is why almost everything here is about
steps of two requests in an order nobody wrote a test for, about a crash or a
lost connection between two steps, and about a value that was read earlier than
it is used.

## Inventory

| Part | State | Operations | What is hard |
|---|---|---|---|
| Presets and recents (`datastore.go`, `marge.go`, `handlers_marge.go`) | `Presets.xml`, `Recents.xml`, (read-only) `Sources.xml` per account | UpdatePreset, AddRecent | read-modify-write without a lock, `os.WriteFile` truncates first, move-to-front aliases its own array, ids and lengths across many calls |
| Account and preset views (same files) | none of its own; speakers keep bodies and ETags | conditional GET of presets and of the full account; AddDevice, RemoveDevice | ETag taken before several files are read one after the other |
| Speaker migration (`setup.go`, `ssh.go`, `handlers_setup.go`) | the speaker's configuration file, its `.original`, what it booted with | MigrateSpeaker, BackupConfig | every SSH command may be lost before, during or after it runs; uploads empty the file first; overlapping jobs |
| Discovery and device registry (`main.go`, `datastore.go`, `handlers_setup.go`) | `DeviceInfo.xml` files, the `discovering` flag | background scan, scan from the web page, deletion | overlapping scans, identity by serial number or address, remove-before-save |
| Event log and statistics (`datastore.go`, `handlers_stats.go`, `handlers_events.go`) | statistics files, bounded list in memory | usage, error and support reports, GetDeviceEvents | bounded list cut over and over, failing saves, restart |
| Source ids | ids given to sources without one | GetConfiguredSources | given by position, not stored; collisions with ids in the file |
| Migration summary, remote services (`setup.go`, `handlers_setup.go`) | trigger files on the speaker | GetMigrationSummary, EnsureRemoteServices (a button, and the start of every migration) | probes made at different times, `/tmp` wiped by the reboot, errors that are ignored |
| Logging proxy (`proxy.go`, `main.go`) | two switches without a lock | `/proxy/*`, delegation of unknown paths to Python, redaction and logging; settings page | switches change under requests, logging a body replaces it |
| BMX/TuneIn (`bmx.go`, `handlers_bmx.go`) | none | playback of stations, podcasts, custom streams | remote answers that are empty, odd or never come |
| Python service (`src/soundcork`) | the same XML files | update_preset, add_recent, and the rest of the earlier implementation | shares files with the Go service without a lock, and its own rules of reading them |
| Media, health, web page, scripts | none | static content | I/O only |

Interactions: the views read what the store writes; `SaveDeviceInfo` and
`RemoveDevice` are used by account requests and by scans; the migration takes
the speaker's address from the registry (through the web page) and shares no
other state; the setup page reads the speaker that migrations write; the Go
router passes paths it does not know on to Python, which reads and saves the
same presets and recents; the event log shares nothing.

What makes each part correct: the store loses nothing that was acknowledged
except where saves really overlap, and its lists keep their shape; a 304 never
hides a change of a list; a migration never leaves a broken speaker in silence, never
boots something it did not plan and keeps the factory backup; a scan never
removes what it should keep and always ends; the page previews what a migration
does and calls persistent only what survives; the proxy logs a secret only where
redaction was off and changes no message it does not log; every request is
answered; the log shows exactly the last
events, each with its file.

## Modules

| Module | Models |
|---|---|
| `MargeLists` | the list algorithms of UpdatePreset and AddRecent and the numbering of sources, as operators |
| `MargeStore` | the two files under concurrent requests, failing saves, crashes |
| `AccountViews` | extends `MargeStore` by the conditional GETs and the devices of the account |
| `SharedStore` | extends `MargeStore` by the Python service on the same files |
| `Account` | abstract specification: what an account promises about its buttons |
| `SpeakerMigration` | migrations and backups of one speaker over lossy SSH |
| `SetupPage` | extends `SpeakerMigration` by EnsureRemoteServices and the summary |
| `Gateway` | requests passed on or answered from TuneIn, log switches |
| `EventLog` | reports, statistics files, bounded log |
| `DeviceRegistry` | scans, flag, device directories |
| `*_proofs` | theorems about the module of that name |
| `MC*` | instances for TLC |

"Faulty variant" definitions in the modules are mutations of the definition
that follows them: each stands for a plausible bug, and some run finds the
property it breaks. They are not part of any specification.

### MargeLists, MargeStore

A preset or recent is an `Item`: id, source key (type and account, always
compared together), location. Names, art, types and timestamps are carried by
the code without deciding anything and are left out. `Sources.xml` is a
constant because the server never saves it (`SaveConfiguredSources` is only
called by tests). `file[k]` says whether the file parses, its list, whether a tail
of an older content follows it, whose save has emptied it, and its modification
time in milliseconds. A request goes `read -> open -> write`:
reading and computing the new list is one step (the two files read are not
written by the same kind of request), `Truncate` is the `O_TRUNC` of
`os.WriteFile`, `Write` its write, which is a single system call and taken as
atomic. It starts at offset 0: if another request has written the file since this
one truncated it, the end of a longer list stays behind the shorter one (`Tails`;
the lengths are left open). Go's parser stops at the end of the root element and
does not notice. A request that finds a file that does not parse, an unknown source or a
preset number below 1 is answered 500 without changing anything (`Reject`; the
panic of an index -1 is recovered by the middleware).

`append([]Recent{*recentObj}, append(recents[:i], recents[i+1:]...)...)`
dereferences a pointer into the array that the inner append shifts, and Go does
not fix the order of the two: `MovedToFront` allows both outcomes.

`Now(c)` is the time a change gets. `SameMillisecond` says what may share one
millisecond, the resolution of the ETags: `"save"` the truncation and the write of
one `os.WriteFile` with nothing in between (`JustEmptied`), which is the usual
case, `"saves"` any two changes.

History variables: `saved`, `stale` and `raced` (whether a list computed from a
file that another request has replaced since was saved), `promised` (what each
button plays, as copied or last acknowledged).

### SharedStore, Account

The Python service does not `await` anything between reading and saving, but
`gunicorn_conf.py` starts a worker for every processor and one more, so that its
requests overlap each other as well as those of the Go service. Its rules differ
from the Go ones where the code does: `ET.parse` refuses a file with a tail
(`PyReads`), the position of a preset must exist (no
padding), a recent that is found keeps its place (though a comment speaks of
moving it to the front), a content without an account is never found (None
against ""), and no recents at all make `max()` fail. A failing Python request
changes nothing. Button number 0, which would replace the last preset, is not
asked for. `ElementTree.write` opens (truncates) and writes like `os.WriteFile`.
The death of one service alone is the failure of its saves; `CrashBoth` is the
end of the container. `broken` remembers that a save failed half-way.

`Account` has one atomic step per acknowledged update (`Grant`), one per failed
one (`Refuse`), and steps for a list that cannot be read for a while. The
refinement mapping `Promise` takes the button's content from the list saved
last, the wishes from the requests under way and `degraded` from `raced`: once
a save was based on a list another save had replaced, nothing is promised.

### AccountViews

A fetch looks up the modification times one file after the other, then reads the
directory, then for every device the presets and the recents again, with
requests and device changes in between. A list that does not parse at that moment
is left out of the full account without an error, while GET presets answers 500.
The speaker keeps body and ETag of its last 200. The ETag header that the POST handlers set before they save is not
used by a conditional GET and is left out. Source providers and software update
have constant bodies. `CrashAll` is the crash of the composed server.

### SpeakerMigration

A service URL is whose server it names and how many proxies are in front. A
remote file is absent, empty, partial, whole, or tailed: whole, and followed by the
end of a longer content over which it was written (`Over`: two uploads have both
emptied the file, and each `cat` writes from its own offset 0). `MayLose(command)` is the
error of `Run`/`UploadContent`; what the lost command did on the speaker is
chosen nondeterministically (nothing, partly, all). The read-only file system
is folded into the loss before a command runs. `alarm` records that some request
did not get "ok" since a configuration last arrived in full; `overlapped` that two
jobs ran at once; `good` that a backup of the factory configuration was completed.

### SetupPage

`attempt` counts the two attempts for each of the three places of the trigger
file; the first that works ends them, and a lost connection may still have made
the file. A migration plans only after them. The summary is made in the order
of the code (`.original`, the configuration, the places), one step for each
connection that decides something; `ls`, `base64` and the device's description
are left out. `warned` records that the log has the warning of a failed backup.

### Gateway

The switches are two variables stored one after the other and read one after
the other. `/proxy/` reads them once, the way to Python twice (request and
answer). Every message may carry a sensitive header; `clear` records one that
was logged in clear, `wasOff` and `wasLogging` what the switches have been since
the request began. A body is known by what decides: whether it is of a type
that is logged, whether its length is declared, whether it breaks off. TuneIn's
answer is a sequence of lines, each with its URL (or blank) and whether a
carriage return ends it (`Stations` are the URLs it may name). `Dispatch` models
chi: a known path with another method is answered 405, only unknown paths go to
Python; hence a POST to `/proxy/` is never passed on. `Silent` are remotes that never answer.

### DeviceRegistry

Names of directories (serial numbers, addresses, device ids) are numbers because
they are listed in order. A scan goes `search -> next -> live -> (remove) ->
open -> write -> next ...`. `Lookup` is the pass over `ListAllDevices`, which
keeps the first of the infos with the same key; only the serial number the scan
told counts. `AskSpeaker` is `GetLiveDeviceInfo`, called only without a serial
number; a speaker in `Silent` never answers, and `http.Get` has no timeout.
A file that is open while its directory is removed is written without effect.
Infos in other accounts (`Copied`) never change.

### EventLog

A report is saved (`SaveStats`), then logged (`AddDeviceEvent`, under the
mutex); a support upload is only logged. Stored files are named by nanosecond
and device and assumed distinct.

## Runs

| Run | Bounds | Shows |
|---|---|---|
| `store` | 2 Go requests and 1 Python request at once, 3 buttons, 3 contents, limit 3, clock up to 7 (three saves), failing saves, crashes | `TypeOK`, `ButtonsInPlace`, `PromisedPresets`, `RecentsBounded`, `ParsedAlike`, `SharedIDsIdentifyContent`, `TornHeals`, and the refinement `KeepsPromise`; in both orders of the move to the front |
| `views` | 1 request, 1 reader, 2 devices, clock up to 4 (one or two saves), truncation and write of a save in one millisecond or two | `ViewsTypeOK`, `PresetsViewFresh`, `FullListsFresh` |
| `migration` | 2 jobs at once, 1 request of the page, 2 services; every command but the test for the backup unreliable, crashes | `TypeOK`, `SetupTypeOK`, `TornConfigNeverSilent`, `BootsWhatWasAsked`, `GoodBackupKept`, `PersistentSurvives`, `FactoryKeptOrWarned`, `OriginalIsFactory`, `PreviewHonoured` |
| `events` | 5 reports, 2 handlers, limit 2 | `TypeOK`, `LogIsTheLastEvents`, `LoggedStatsAreStored` |
| `registry` | 3 scans, 2 at once, 1 speaker, 2 addresses, one copied info | `TypeOK`, `RecordedSpeakerKept`, `ScanIndicatorClears` |
| `gateway` | 1 request, 2 settings pages, 4 kinds of body, 3 answers of TuneIn | `TypeOK`, `ClearOnlyWhileOff`, `ForgedOnlyWhileLogging`, `PlaysAStream`, `RequestsAnswered` |
| `recent_response` | one request | violated, see findings |
| `devices_304` | as `views` | violated |
| `backup_replaced` | one job at a time, only the backup test unreliable | violated |
| `original_choice` | no faults | violated |
| `python_padding` | 1 Go and 1 Python request, no faults | violated |
| `address_entry` | no faults, the speaker also listed in another account | violated |

Why the bounds suffice for the interesting cases: two actors are needed for any
lost update and the protocols have no step that involves three; `store` has a
third so that the Python service meets two overlapping Go requests. Two overlapping
Python requests save as two overlapping Go requests do; the theorems allow any
number of both. Limits (2 or
3 instead of 10 and 100) are exceeded and the lists cut several times; the clock
lets two requests overlap and a third follow. In `migration` two jobs run one
after the other or overlap in every way, with the page's single request anywhere
among them: one summary has to be compared with one migration. In `gateway`
requests share nothing but the switches, so one request among two pages meets
every order of stores and reads. The proofs then remove the bounds for all of
the safety properties. `MaxClock`, `MaxJobs`, `MaxAsks`, `MaxReports` and
`MaxScans` are the only bounds that are not the code's; `Accept` keeps two clock
ticks in reserve for every request in flight so that the bound never stops a
save half-way.

`CHECK_DEADLOCK FALSE` is set where the bounded number of requests lets the
model come to rest: an idle server waits for the next request.

## Fairness

* `FairSharedSpec`: weak fairness of every request's own steps, of both
  services. Goroutines and workers are scheduled and none of the steps waits for
  another request. `TornHeals` excepts a file whose last save failed half-way,
  which the code does not repair, and accepts one that only Go can parse after
  saves that overlapped.
* `FairSpec` of `Gateway`: weak fairness of what the service and the remotes do
  about a request. No timeout bounds a remote, so `RequestsAnswered` is checked
  for `Silent = {}`; every remote answers, refuses or breaks the connection.
* `FairSpec` of `DeviceRegistry`: weak fairness of every scan's steps.
  Searching is bounded by the ten-second context; saves return. Asking a speaker
  is not bounded by anything, so `ScanIndicatorClears` is checked for
  `Silent = {}`.

No fairness is assumed of requests arriving, speakers, routers or crashes.

## Theorems

All proofs are in `*_proofs` and are checked by TLAPS down to the last leaf.
The assumptions are the named `ASSUME`s of the modules, which TLC evaluates, and
the hypotheses of single theorems named below, which the instances of the runs
satisfy. Every safety invariant that a passing run checks, its action property
and its refinement are theorems of the specification of that run.

* **MargeStore_proofs.** `StoreTypeCorrect`, `PresetButtonsStayInPlace`,
  `PresetsKeepTheirPromise`, `RecentsStayBounded`, `RecentIDsStayIdentifying`.
  None of the properties of a file is inductive alone, because what will be in
  the file is already in the drafts of the requests under way. `ListsIn(kind, L)`
  says that the file and every draft of that kind are in a set `L` of lists: its
  lemmas carry any such set through arriving, failing, saving and dying requests,
  and leave to each property what padding, moving, inserting and cutting do to a
  list. The promise needs in addition (`PresetsInv`) that a draft which is not
  stale was computed from the list saved last, and that an unreadable file leaves
  `saved` alone. Buttons and ids are proved for lists that were copied in that
  shape (`InitialInPlace`, `InitialIdentified`).
* **SharedStore_proofs.** A step of the shared store is a step of `MargeStore` or
  one in which Python computes (`SharedSteps`), so the invariants above are
  extended by the Python steps only: `SharedTypeCorrect`,
  `SharedButtonsStayInPlace`, `SharedPresetsKeepTheirPromise`,
  `SharedRecentsStayBounded`. `SharedRecentIDsIdentify` needs lists in which
  contents of sources without an account may occur twice. `PyNumbered` (requests
  that reach Python have positive numbers) is what makes Python replace the button
  that was meant. `BothServicesParse`: a file with a tail takes a request that
  writes a file which has become readable again since it was truncated, and such
  a request is stale (`TailInv`).
  `SharedStoreKeepsPromise` is the refinement of `Account`: accepting a request
  for a button is `Ask`, truncating `Hide`, writing `Grant` when the draft follows
  the list saved last and `Overlap` otherwise, failing `Refuse`, a crash `Die`,
  everything else, and all that concerns recents, a stutter. It assumes nothing
  of the lists. `TornFilesHaveAWriter` is the safety half of `TornHeals`.
* **AccountViews_proofs.** `ViewsTypeCorrect` (a fetch that reads recents always
  has the device it reads them for), `PresetsNotModifiedIsFresh`,
  `FullNotModifiedIsFresh`, for `"saves"` not in `SameMillisecond`: no two saves
  fall into one millisecond, the truncation and the write of one save may. The
  invariant says that every ETag held anywhere is in the past, that a list in a
  body in the making or kept is the one in the file as long as the files are not
  newer than the body's ETag, and that a file emptied by a save does not parse.
  Hence a list written at the time its file was emptied is new to everybody:
  whoever read the file under this ETag got no list. With two saves in one
  millisecond both are false, as TLC shows. The views implement `MargeStore`
  (`ViewsStoreSpec`).
* **SpeakerMigration_proofs.** `MigrationTypeCorrect`, `TornConfigIsReported`
  (any overlap; a tail only after an overlap, because the upload of a job that is
  alone finds the file empty: `BootInv`), `MigrationBootsItsPlan` and `GoodBackupStays` (for jobs that
  do not overlap; the last needs a reliable backup test, `"test"` not in
  `Unreliable`). The invariant follows a job that runs alone: after its upload
  the file is what it planned; once the backup is good, no job is between the
  test and the end of a backup.
* **SetupPage_proofs.** `SetupImplementsMigration`: with the page's requests
  hidden the system is `SpeakerMigration`, so its four theorems hold here too.
  `SetupTypeCorrect`; `PersistentMeansPersistent` (a summary that has seen a
  trigger file in a place that survives stays right, because nothing removes files
  there: `PersistInv`); `MigrationPlansAsPreviewed`, an action property
  (`PreviewInv`: the URLs shown are those of the choice and configuration shown);
  `FactoryIsKeptOrWarned` and `ShownOriginalIsFactory`, under the hypothesis of
  `GoodBackupStays` (`FactoryInv`: while no jobs have overlapped and no warning
  was given, the backup is missing or the factory configuration, and the latter
  once the configuration is another; a job about to copy found no backup, one past
  the backup has a factory one).
* **Gateway_proofs.** `GatewayTypeCorrect`, `ClearMeansOff`, `ForgedMeansLogging`,
  `PlaybackHasAStream`. `RedactInv` and `LogBodyInv` say
  that a switch a request has read, or that is stored now, agrees with what the
  history says it has been, however posts overlap. That the loop over TuneIn's lines (`NotBlankLines`, a
  recursive function) keeps exactly lines that are not blank is proved by
  induction on the lines read.
* **EventLog_proofs.** `EventLogTypeCorrect`, `LogShowsTheLastEvents`,
  `LoggedStatsStayStored`: a report about to be logged is support or stored.
* **DeviceRegistry_proofs.** `RegistryTypeCorrect`, `RecordedSpeakersStay`. The
  invariant `RegInv` says that infos made by scans have the same id and serial
  number, that an info found under a serial number has that serial number, and
  hence that what a scan has looked up is either its own serial number or no
  serial number at all; only the latter is ever removed.

Only model-checked: `TornHeals`, `ScanIndicatorClears` and `RequestsAnswered`,
because the prover handles neither fairness nor `ENABLED`. The induction theorems
of the library take an operator as a parameter, which the installed provers
cannot instantiate; where a proof needs induction over data it uses the minimum
of a set of naturals instead (`LeastNatural` for the first match and the largest
id, `SetInduction` for the loop over lines). The modules use no RECURSIVE
operator.

## Findings

1. `recent_response`: posting a recent that is already in the list, and not
   last, is answered with the recent that followed it (`marge.go:371`).
2. `devices_304`: the account's ETag ignores the devices, so adding or removing
   one is hidden by a 304 (`datastore.go:634`).
3. `backup_replaced`: a lost connection during `[ -f ... ]` is taken for a missing
   backup, and the factory configuration is overwritten (`setup.go:344`).
4. `original_choice`: "original" keeps the URL the speaker has *now*; after a
   first migration that is soundcork's (`setup.go:314`).
5. `address_entry`: the entry a speaker had under its address is never cleaned
   up, because the lookup compares ids and serial numbers only (`main.go:97`).
6. `python_padding`: the presets with which the Go service pads the list have no
   source, and the Python service cannot read the file any more
   (`marge.go:297`, `datastore.py:136`).

## Not modelled

* Health, media, the web page and the scripts (`favicon-gen` included): input
  and output without state that matters to another part.
* Of the Python service: the creation of accounts and devices, the views and
  `bmx.py`. The Go service has the same operations, which are modelled; the
  Python ones read the speaker over its own port and save whole files once.
* `SaveConfiguredSources`, which only tests call.
* Wording and decoration: names, art, logos, links, the case of the ETag header,
  the repair of a `/proxy/` URL that lost a slash.
* What overlap does, where nothing promises otherwise: a preset or recent lost to
  an overlapping save (`raced`), a file with a tail that only Go parses, a
  configuration with the tail of another, a pair of log switches nobody posted.
  These states are reached in the models and excepted by name in the properties.
* A device without its list in a full account that a 304 keeps for current: the
  truncation and the write of a save ordinarily share the millisecond that is the
  ETag (`datastore.go:613`), and a list that does not parse in between is left out
  without an error (`marge.go:217`). The `views` run reaches this; what it and the
  theorem say is that no *outdated* list is kept.
* Two sources with one id: writing the number that the first source was given into
  `Sources.xml` makes the next one get the same number (`datastore.go:525`). The
  file is constant here, and the instances have distinct ids.

## Plan

1. *(done)* store, views, migration, event log, registry, with proofs.
2. *(done)* source ids, the setup page, the Python service on the same files,
   the abstract account and its refinement, the gateway.
3. *(done)* the safety properties of the shared store, the setup page, the views
   and the gateway, and the refinement of `Account`, for every value of the
   constants.
4. Proofs still to be written: what does hold where a finding says that something
   does not (Python reads the presets as long as no button was padded; the
   response to a recent that was last in the list; the devices of a 304 while none
   comes or goes), and the safety halves of `ScanIndicatorClears` and
   `RequestsAnswered`.
