----------------------------- MODULE SetupPage ------------------------------
(***************************************************************************)
(* The setup page of a speaker beside its migrations: the trigger files    *)
(* that keep remote services (and with them SSH) enabled, the button that  *)
(* makes one, and the summary that the page shows before a migration.      *)
(*                                                                         *)
(* EnsureRemoteServices is also the first thing a migration does; whether  *)
(* it works is only logged.  The summary reads the speaker with one        *)
(* connection after the other, while migrations write and reboot it.       *)
(***************************************************************************)
EXTENDS SpeakerMigration, Sequences

CONSTANTS
  Locations,   \* the places of the trigger file, in order of preference
  Volatile,    \* those a reboot wipes: /tmp
  Before,      \* the sets of places that may have one at the start
  Button,      \* stands for the request of the page's button
  MaxAsks      \* bound on the page's requests

Places == {Locations[i] : i \in 1 .. Len(Locations)}

ASSUME SetupAssumption ==
  /\ Locations \in Seq(Places) /\ Len(Locations) > 0
  /\ Volatile \subseteq Places
  /\ Before \subseteq SUBSET Places
  /\ Button \notin Jobs
  /\ MaxAsks \in Nat

VARIABLES
  trigger,   \* the places that have a trigger file
  attempt,   \* EnsureRemoteServices: the attempt that is next, 0 outside
  page,      \* the summary being made: its step and what it has so far
  shown,     \* the last summary shown
  asks,      \* how many requests the page has sent
  warned     \* history: the log has a warning that a backup failed

pageVars == <<page, shown>>
setupVars == <<vars, trigger, attempt, pageVars, asks, warned>>

Attempts == 2 * Len(Locations)

(* Two attempts for every place: with the file system made writable first, *)
(* and without.                                                            *)
PlaceOf(n) == Locations[(n + 1) \div 2]

(* What a summary tells: for which choice, from which configuration (Absent *)
(* when it could not be read), the URLs a migration would upload, .original *)
(* and whether remote services survive a reboot.                            *)
NoSummary ==
  [choice |-> {}, cfg |-> Absent, urls |-> FactoryURLs, original |-> Absent, persistent |-> FALSE]

Idle == [step |-> "idle", place |-> 0, sum |-> NoSummary]

SetupInit ==
  /\ Init
  /\ trigger \in Before
  /\ attempt = [r \in Jobs \cup {Button} |-> 0]
  /\ page = Idle
  /\ shown = NoSummary
  /\ asks = 0
  /\ warned = FALSE

-----------------------------------------------------------------------------
(* The button. *)
PressButton ==
  /\ attempt[Button] = 0
  /\ asks < MaxAsks
  /\ asks' = asks + 1
  /\ attempt' = [attempt EXCEPT ![Button] = 1]
  /\ UNCHANGED <<trigger, pageVars>>

(* Faulty variant: the attempts do not end. *)
TouchAgain(r) ==
  /\ attempt[r] > 0
  /\ \E lost \in MayLose("touch") :
       /\ trigger' = IF lost THEN trigger ELSE trigger \cup {PlaceOf(attempt[r])}
       /\ attempt' = [attempt EXCEPT ![r] = IF lost THEN @ + 1 ELSE 0]
  /\ UNCHANGED <<pageVars, asks>>

(* One attempt.  The first that works ends EnsureRemoteServices, and so    *)
(* does the last that fails.  A failed one may have made the file, when    *)
(* only its answer was lost.                                               *)
Touch(r) ==
  /\ attempt[r] > 0
  /\ \E lost \in MayLose("touch") :
       IF lost
       THEN /\ trigger' \in {trigger, trigger \cup {PlaceOf(attempt[r])}}
            /\ attempt' = [attempt EXCEPT ![r] = IF @ < Attempts THEN @ + 1 ELSE 0]
       ELSE /\ trigger' = trigger \cup {PlaceOf(attempt[r])}
            /\ attempt' = [attempt EXCEPT ![r] = 0]
  /\ UNCHANGED <<pageVars, asks>>

-----------------------------------------------------------------------------
(* Faulty variant: the preview leaves out the proxy. *)
SummaryUnproxied(original, cfg) ==
  [s \in Services |->
     IF s \in original /\ Parses(cfg) THEN cfg.urls[s] ELSE Soundcork]

(* plannedCfg of the summary. *)
SummaryURLs(original, cfg) ==
  [s \in Services |->
     IF s \in original /\ Parses(cfg) THEN Proxied(cfg.urls[s]) ELSE Soundcork]

AskSummary ==
  /\ page.step = "idle"
  /\ asks < MaxAsks
  /\ asks' = asks + 1
  /\ \E original \in Choices :
       page' = [step |-> "original", place |-> 0, sum |-> [NoSummary EXCEPT !.choice = original]]
  /\ UNCHANGED <<trigger, attempt, shown>>

(* [ -f .original ] and cat .original: the file never goes away, so that   *)
(* both are one step.  An empty answer counts as none.  The error of cat   *)
(* is ignored: what arrived before the connection was lost is shown.       *)
Arrived(remote, lost) ==
  IF remote.state \in {"absent", "empty"} THEN {Absent}
  ELSE IF lost THEN {Absent, Partial} ELSE {remote}

SeeOriginal ==
  /\ page.step = "original"
  /\ \E lost \in MayLose("cat") : \E original \in Arrived(file.backup, lost) :
       page' = [step |-> "config", place |-> 0, sum |-> [page.sum EXCEPT !.original = original]]
  /\ UNCHANGED <<trigger, attempt, shown, asks>>

SeeConfig ==
  /\ page.step = "config"
  /\ \E lost \in MayLose("cat") :
       LET cfg == IF lost THEN Absent ELSE file.cfg
       IN  page' = [step |-> "probe", place |-> 1,
                    sum |-> [page.sum EXCEPT !.cfg = cfg, !.urls = SummaryURLs(page.sum.choice, cfg)]]
  /\ UNCHANGED <<trigger, attempt, shown, asks>>

(* Faulty variant: a trigger file is a trigger file. *)
PersistsAnywhere(place) == TRUE

(* RemoteServicesPersistent is set for every place but /tmp. *)
Persists(place) == place \notin Volatile

(* [ -e ] of place n; an error means that it is not there.  After the last *)
(* one the summary is shown.                                               *)
Probe(n) ==
  /\ page.step = "probe" /\ page.place = n
  /\ \E lost \in MayLose("probe") :
       LET found == Locations[n] \in trigger /\ ~lost
           sum == [page.sum EXCEPT !.persistent = @ \/ (found /\ Persists(Locations[n]))]
       IN  IF n < Len(Locations)
           THEN page' = [page EXCEPT !.place = n + 1, !.sum = sum] /\ UNCHANGED shown
           ELSE page' = Idle /\ shown' = sum
  /\ UNCHANGED <<trigger, attempt, asks>>

-----------------------------------------------------------------------------
(* A migration starts with EnsureRemoteServices and plans after it. *)
MigrationStep(j) ==
  \/ /\ \E original \in Choices : Accept(j, "migrate", original)
     /\ attempt' = [attempt EXCEPT ![j] = 1]
  \/ /\ \/ Accept(j, "backup", {})
        \/ attempt[j] = 0 /\ Plan(j)
        \/ TestBackup(j) \/ FetchConfig(j) \/ OpenBackup(j) \/ FillBackup(j)
        \/ OpenConfig(j) \/ FillConfig(j) \/ RebootFails(j)
     /\ UNCHANGED attempt

(* The copy on the speaker; that it failed is printed. *)
BackUp(j) ==
  /\ CopyBackup(j)
  /\ warned' = (warned \/ pc'[j] = "fetch")
  /\ UNCHANGED <<trigger, attempt, pageVars, asks>>

(* A reboot wipes the volatile places.  The page and the other jobs go on, *)
(* their next connection finds the speaker rebooted.                       *)
RebootSpeaker(j) ==
  /\ Reboot(j)
  /\ trigger' = trigger \ Volatile
  /\ UNCHANGED <<attempt, pageVars, asks, warned>>

CrashServer ==
  /\ Crash
  /\ attempt' = [r \in Jobs \cup {Button} |-> 0]
  /\ page' = Idle
  /\ UNCHANGED <<trigger, shown, asks, warned>>

PageStep ==
  \/ PressButton
  \/ AskSummary \/ SeeOriginal \/ SeeConfig
  \/ \E n \in 1 .. Len(Locations) : Probe(n)
  \/ \E r \in Jobs \cup {Button} : Touch(r)

SetupNext ==
  \/ PageStep /\ UNCHANGED <<vars, warned>>
  \/ \E j \in Jobs : MigrationStep(j) /\ UNCHANGED <<trigger, pageVars, asks, warned>>
  \/ \E j \in Jobs : BackUp(j) \/ RebootSpeaker(j)
  \/ CrashServer

SetupSpec == SetupInit /\ [][SetupNext]_setupVars

-----------------------------------------------------------------------------
(* Type invariant. *)
Summary ==
  [choice : SUBSET Services, cfg : RemoteFile, urls : URLs, original : RemoteFile, persistent : BOOLEAN]
SetupTypeOK ==
  /\ trigger \in SUBSET Places
  /\ attempt \in [Jobs \cup {Button} -> 0 .. Attempts]
  /\ page \in [step : {"idle", "original", "config", "probe"}, place : 0 .. Len(Locations), sum : Summary]
  /\ shown \in Summary
  /\ asks \in Nat
  /\ warned \in BOOLEAN

(* When the page says that remote services survive a reboot they do, until *)
(* the next summary and through all reboots in between, although its       *)
(* probes were made at different times.                                    *)
PersistentSurvives ==
  shown.persistent => trigger \ Volatile # {}

(* What a step that plans a migration owes to the summary shown. *)
PlansAsShown(j) ==
  pc[j] = "plan" /\ pc'[j] = "test" /\ choice[j] = shown.choice /\ file.cfg = shown.cfg
    => plan'[j] \in {shown.urls, SummaryURLs({}, file.cfg)}

(* A migration with the choice that was previewed, from the configuration  *)
(* that was previewed, plans the URLs that were previewed; or all of ours, *)
(* when its own reading of the configuration is lost.                      *)
PreviewHonoured == [][\A j \in Jobs : PlansAsShown(j)]_setupVars

(* As long as jobs do not overlap, the factory configuration is never lost *)
(* without a warning: if the configuration was replaced, .original holds   *)
(* the factory one, or the log says that a backup failed.                  *)
FactoryKeptOrWarned ==
  file.cfg # Factory /\ ~overlapped => file.backup = Factory \/ warned

(* The original configuration that the page shows is the factory one or a  *)
(* part of it, never one that a migration wrote; or else the log says that *)
(* a backup failed.                                                        *)
OriginalIsFactory ==
  shown.original.state # "absent" /\ ~overlapped => shown.original \in {Factory, Partial} \/ warned
=============================================================================
