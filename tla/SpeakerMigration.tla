-------------------------- MODULE SpeakerMigration --------------------------
(***************************************************************************)
(* Migrating one speaker over SSH: the setup manager reads the speaker's   *)
(* SoundTouchSdkPrivateCfg.xml, copies it to .original unless that exists, *)
(* uploads a new one and reboots the speaker.                              *)
(*                                                                         *)
(* Every command is a connection of its own.  One that is lost before the  *)
(* command runs, while it runs or before its answer arrives is an error to *)
(* the manager, which cannot tell the three apart.  An upload is "cat >":  *)
(* the file is empty from the moment the command starts until the content  *)
(* is through.  Several jobs for the same speaker may run at once, and two *)
(* uploads of the same file write it each from its beginning.              *)
(*                                                                         *)
(* The root file system is read-only until "rw" has run; a command that    *)
(* needs it writable may fail, which is the loss before the command runs.  *)
(***************************************************************************)
EXTENDS Naturals, FiniteSets

CONSTANTS
  Jobs,         \* requests for this speaker that may run at once
  Services,     \* marge, stats, sw_update, bmx
  Choices,      \* sets of services a migration may ask to leave "original"
  Unreliable,   \* commands whose connection may be lost, and "crash"
  MaxJobs       \* bound on the requests of a behaviour

Commands == {"cat", "test", "cp", "upload", "reboot", "touch", "probe"}

ASSUME MigrationAssumption ==
  /\ Choices \subseteq SUBSET Services
  /\ Unreliable \subseteq Commands \cup {"crash"}
  /\ MaxJobs \in Nat

VARIABLES
  file,        \* the configuration file and its .original on the speaker
  running,     \* the configuration file as the speaker found it when it booted
  pc,          \* where each job is
  kind,        \* whether the job migrates or only makes the backup
  choice,      \* the services the migration leaves original
  plan,        \* the service URLs the migration will upload
  held,        \* the configuration read back for the fallback backup
  accepted,    \* how many requests have been accepted
  overlapped,  \* history: two jobs have run at the same time
  alarm,       \* history: a request got no "ok" since a configuration arrived
  good,        \* history: a backup of the factory configuration was completed
  asked        \* history: plan and choice of the last migration that rebooted

jobVars == <<pc, kind, choice, plan, held>>
historyVars == <<accepted, overlapped, alarm, good, asked>>
vars == <<file, running, jobVars, historyVars>>

(* A service URL: whose server it finally names, and through how many      *)
(* "<proxy URL>/proxy/" prefixes.                                          *)
Upstream == [at |-> "upstream", hops |-> 0]
Soundcork == [at |-> "soundcork", hops |-> 0]
Proxied(url) == [at |-> url.at, hops |-> url.hops + 1]

FactoryURLs == [s \in Services |-> Upstream]

(* A remote file.  A partial one is not empty and does not parse.  One     *)
(* with a tail is whole, but followed by the end of a longer content; Go's *)
(* parser does not look there, what the speaker makes of it is unknown.    *)
Absent == [state |-> "absent", urls |-> FactoryURLs]
Empty == [state |-> "empty", urls |-> FactoryURLs]
Partial == [state |-> "partial", urls |-> FactoryURLs]
Whole(urls) == [state |-> "whole", urls |-> urls]
Tailed(urls) == [state |-> "tailed", urls |-> urls]
Factory == Whole(FactoryURLs)

(* xml.Unmarshal accepts the file. *)
Parses(remote) == remote.state \in {"whole", "tailed"}

(* What an upload of a content may leave in a file: the content alone, if  *)
(* the file is still empty; if another upload has written it since, a      *)
(* longer one leaves its tail.  Which is longer depends on the URLs.       *)
Over(old, content) ==
  IF old \in {Empty, content} \/ ~Parses(content)
  THEN {content}
  ELSE {content, Tailed(content.urls)}

Busy == {j \in Jobs : pc[j] # "idle"}

(* Whether the connection of a command is lost. *)
MayLose(command) == IF command \in Unreliable THEN BOOLEAN ELSE {FALSE}

(* The job is answered. *)
Finish(j, ok) ==
  /\ pc' = [pc EXCEPT ![j] = "idle"]
  /\ kind' = [kind EXCEPT ![j] = "backup"]
  /\ choice' = [choice EXCEPT ![j] = {}]
  /\ plan' = [plan EXCEPT ![j] = FactoryURLs]
  /\ held' = [held EXCEPT ![j] = Factory]
  /\ alarm' = (alarm \/ ~ok)

(* The job goes on. *)
Goto(j, step) ==
  /\ pc' = [pc EXCEPT ![j] = step]
  /\ UNCHANGED <<kind, choice, plan, held, alarm>>

-----------------------------------------------------------------------------
Init ==
  /\ file = [cfg |-> Factory, backup |-> Absent]
  /\ running = Factory
  /\ pc = [j \in Jobs |-> "idle"]
  /\ kind = [j \in Jobs |-> "backup"]
  /\ choice = [j \in Jobs |-> {}]
  /\ plan = [j \in Jobs |-> FactoryURLs]
  /\ held = [j \in Jobs |-> Factory]
  /\ accepted = 0
  /\ overlapped = FALSE
  /\ alarm = FALSE
  /\ good = FALSE
  /\ asked = [urls |-> FactoryURLs, choice |-> {}]

Accept(j, k, original) ==
  /\ pc[j] = "idle"
  /\ accepted < MaxJobs
  /\ accepted' = accepted + 1
  /\ overlapped' = (overlapped \/ Busy # {})
  /\ pc' = [pc EXCEPT ![j] = IF k = "migrate" THEN "plan" ELSE "test"]
  /\ kind' = [kind EXCEPT ![j] = k]
  /\ choice' = [choice EXCEPT ![j] = original]
  /\ UNCHANGED <<file, running, plan, held, alarm, good, asked>>

(* Faulty variant: only the URLs that were chosen are filled in. *)
PlannedChosenOnly(original, current, lost) ==
  [s \in original |->
     IF ~lost /\ Parses(current) THEN Proxied(current.urls[s]) ELSE Soundcork]

(* The URLs of a migration: the chosen services keep the URL the speaker   *)
(* has now, behind the proxy, provided the current file could be read and  *)
(* parsed; all the others get ours.                                        *)
PlannedURLs(original, current, lost) ==
  [s \in Services |->
     IF s \in original /\ ~lost /\ Parses(current) THEN Proxied(current.urls[s]) ELSE Soundcork]

Plan(j) ==
  /\ pc[j] = "plan"
  /\ \E lost \in MayLose("cat") :
       plan' = [plan EXCEPT ![j] = PlannedURLs(choice[j], file.cfg, lost)]
  /\ pc' = [pc EXCEPT ![j] = "test"]
  /\ UNCHANGED <<file, running, kind, choice, held, historyVars>>

(* Faulty variant: the backup is always made anew. *)
BackupNeverFound(lost) == FALSE

(* [ -f .original ]: any error means that there is no backup yet. *)
BackupFound(lost) == file.backup.state # "absent" /\ ~lost

TestBackup(j) ==
  /\ pc[j] = "test"
  /\ \E lost \in MayLose("test") :
       IF ~BackupFound(lost) THEN Goto(j, "copy")
       ELSE IF kind[j] = "migrate" THEN Goto(j, "openCfg")
       ELSE Finish(j, FALSE)                      \* "backup already exists"
  /\ UNCHANGED <<file, running, accepted, overlapped, good, asked>>

(* What follows the backup: a migration goes on whether or not it worked. *)
AfterBackup(j, ok) ==
  IF kind[j] = "migrate" THEN Goto(j, "openCfg") ELSE Finish(j, ok)

(* cp on the speaker; when it is lost, the target may be as it was, cut    *)
(* short or complete, and the fallback is tried.                           *)
CopyBackup(j) ==
  /\ pc[j] = "copy"
  /\ \E lost \in MayLose("cp") :
       IF lost
       THEN /\ \E f \in {file.backup, Empty, Partial, file.cfg} : file' = [file EXCEPT !.backup = f]
            /\ Goto(j, "fetch")
            /\ UNCHANGED good
       ELSE /\ file' = [file EXCEPT !.backup = file.cfg]
            /\ good' = (good \/ file.cfg = Factory)
            /\ AfterBackup(j, TRUE)
  /\ UNCHANGED <<running, accepted, overlapped, asked>>

(* The fallback: read the file here ... *)
FetchConfig(j) ==
  /\ pc[j] = "fetch"
  /\ \E lost \in MayLose("cat") :
       IF lost \/ file.cfg.state = "empty"
       THEN AfterBackup(j, FALSE)
       ELSE /\ held' = [held EXCEPT ![j] = file.cfg]
            /\ pc' = [pc EXCEPT ![j] = "openBackup"]
            /\ UNCHANGED <<kind, choice, plan, alarm>>
  /\ UNCHANGED <<file, running, accepted, overlapped, good, asked>>

(* ... and upload it again.  Both uploads start by emptying the file. *)
OpenBackup(j) ==
  /\ pc[j] = "openBackup"
  /\ \E lost \in MayLose("upload") :
       IF lost
       THEN AfterBackup(j, FALSE) /\ UNCHANGED file
       ELSE file' = [file EXCEPT !.backup = Empty] /\ Goto(j, "fillBackup")
  /\ UNCHANGED <<running, accepted, overlapped, good, asked>>

FillBackup(j) ==
  /\ pc[j] = "fillBackup"
  /\ \E lost \in MayLose("upload") :
       IF lost
       THEN /\ \E f \in {file.backup, Partial} \cup Over(file.backup, held[j]) :
                 file' = [file EXCEPT !.backup = f]
            /\ AfterBackup(j, FALSE)
            /\ UNCHANGED good
       ELSE /\ \E f \in Over(file.backup, held[j]) :
                 /\ file' = [file EXCEPT !.backup = f]
                 /\ good' = (good \/ f = Factory)
            /\ AfterBackup(j, TRUE)
  /\ UNCHANGED <<running, accepted, overlapped, asked>>

(* Faulty variant: an upload that cannot start goes unnoticed. *)
OpenConfigUnchecked(j) ==
  /\ pc[j] = "openCfg"
  /\ \E lost \in MayLose("upload") :
       IF lost
       THEN Goto(j, "reboot") /\ UNCHANGED file
       ELSE file' = [file EXCEPT !.cfg = Empty] /\ Goto(j, "fillCfg")
  /\ UNCHANGED <<running, accepted, overlapped, good, asked>>

(* The upload of the new configuration; an error ends the migration. *)
OpenConfig(j) ==
  /\ pc[j] = "openCfg"
  /\ \E lost \in MayLose("upload") :
       IF lost
       THEN Finish(j, FALSE) /\ UNCHANGED file
       ELSE file' = [file EXCEPT !.cfg = Empty] /\ Goto(j, "fillCfg")
  /\ UNCHANGED <<running, accepted, overlapped, good, asked>>

(* Faulty variant: an upload that was cut goes unnoticed. *)
FillConfigUnchecked(j) ==
  /\ pc[j] = "fillCfg"
  /\ \E lost \in MayLose("upload") :
       /\ \E f \in Over(file.cfg, Whole(plan[j])) \cup IF lost THEN {file.cfg, Partial} ELSE {} :
            file' = [file EXCEPT !.cfg = f]
       /\ Goto(j, "reboot")
  /\ UNCHANGED <<running, accepted, overlapped, good, asked>>

FillConfig(j) ==
  /\ pc[j] = "fillCfg"
  /\ \E lost \in MayLose("upload") :
       IF lost
       THEN /\ \E f \in {file.cfg, Partial} \cup Over(file.cfg, Whole(plan[j])) :
                 file' = [file EXCEPT !.cfg = f]
            /\ Finish(j, FALSE)
       ELSE /\ \E f \in Over(file.cfg, Whole(plan[j])) : file' = [file EXCEPT !.cfg = f]
            /\ pc' = [pc EXCEPT ![j] = "reboot"]
            /\ alarm' = FALSE
            /\ UNCHANGED <<kind, choice, plan, held>>
  /\ UNCHANGED <<running, accepted, overlapped, good, asked>>

(* The speaker reboots with the file it has.  Whatever is being uploaded   *)
(* at that moment stays cut, and that job sees an error; so does this one  *)
(* when the connection goes down before "reboot" has answered.             *)
Interrupted(j) ==
  CASE pc[j] = "fillCfg" -> "idle"
    [] pc[j] = "fillBackup" -> IF kind[j] = "migrate" THEN "openCfg" ELSE "idle"
    [] OTHER -> pc[j]

Reboot(j) ==
  /\ pc[j] = "reboot"
  /\ running' = file.cfg
  /\ asked' = [urls |-> plan[j], choice |-> choice[j]]
  /\ pc' = [i \in Jobs |-> IF i = j THEN "idle" ELSE Interrupted(i)]
  /\ kind' = [i \in Jobs |-> IF pc'[i] = "idle" THEN "backup" ELSE kind[i]]
  /\ choice' = [i \in Jobs |-> IF pc'[i] = "idle" THEN {} ELSE choice[i]]
  /\ plan' = [i \in Jobs |-> IF pc'[i] = "idle" THEN FactoryURLs ELSE plan[i]]
  /\ held' = [i \in Jobs |-> IF pc'[i] = "idle" THEN Factory ELSE held[i]]
  /\ \E lost \in MayLose("reboot") :
       alarm' = (alarm \/ lost \/ \E i \in Jobs \ {j} : pc[i] # "idle" /\ pc'[i] = "idle")
  /\ UNCHANGED <<file, accepted, overlapped, good>>

(* The command does not get through: the new file waits for a power cycle. *)
RebootFails(j) ==
  /\ pc[j] = "reboot"
  /\ "reboot" \in Unreliable
  /\ Finish(j, FALSE)
  /\ UNCHANGED <<file, running, accepted, overlapped, good, asked>>

(* The server dies: the jobs are gone, unanswered, the files stay. *)
Crash ==
  /\ "crash" \in Unreliable
  /\ Busy # {}
  /\ pc' = [j \in Jobs |-> "idle"]
  /\ kind' = [j \in Jobs |-> "backup"]
  /\ choice' = [j \in Jobs |-> {}]
  /\ plan' = [j \in Jobs |-> FactoryURLs]
  /\ held' = [j \in Jobs |-> Factory]
  /\ alarm' = TRUE
  /\ UNCHANGED <<file, running, accepted, overlapped, good, asked>>

JobStep(j) ==
  \/ Accept(j, "backup", {})
  \/ \E original \in Choices : Accept(j, "migrate", original)
  \/ Plan(j)
  \/ TestBackup(j)
  \/ CopyBackup(j)
  \/ FetchConfig(j)
  \/ OpenBackup(j)
  \/ FillBackup(j)
  \/ OpenConfig(j)
  \/ FillConfig(j)
  \/ Reboot(j)
  \/ RebootFails(j)

Next == Crash \/ \E j \in Jobs : JobStep(j)

Spec == Init /\ [][Next]_vars

-----------------------------------------------------------------------------
URL == [at : {"upstream", "soundcork"}, hops : Nat]
URLs == [Services -> URL]
RemoteFile == [state : {"absent", "empty", "partial", "whole", "tailed"}, urls : URLs]
Steps == {"idle", "plan", "test", "copy", "fetch", "openBackup", "fillBackup", "openCfg", "fillCfg", "reboot"}

(* Type invariant. *)
TypeOK ==
  /\ file \in [cfg : RemoteFile, backup : RemoteFile]
  /\ running \in RemoteFile
  /\ pc \in [Jobs -> Steps]
  /\ kind \in [Jobs -> {"migrate", "backup"}]
  /\ choice \in [Jobs -> SUBSET Services]
  /\ plan \in [Jobs -> URLs]
  /\ held \in [Jobs -> RemoteFile]
  /\ accepted \in Nat
  /\ overlapped \in BOOLEAN
  /\ alarm \in BOOLEAN
  /\ good \in BOOLEAN
  /\ asked \in [urls : URLs, choice : SUBSET Services]

(* A speaker is never left with a cut configuration file in silence:       *)
(* whatever is lost and whichever jobs overlap, the file parses, or some   *)
(* upload is still on its way, or a request was not answered "ok" since    *)
(* the last complete upload.  It has the tail of another configuration     *)
(* only if jobs have overlapped; then every request may be answered "ok".  *)
TornConfigNeverSilent ==
  \/ file.cfg.state = "whole"
  \/ file.cfg.state = "tailed" /\ overlapped
  \/ alarm
  \/ \E j \in Jobs : pc[j] = "fillCfg"

(* A migration reboots the speaker only with the configuration it planned, *)
(* uploaded in full, when no other job for the speaker ran at the time.    *)
BootsWhatWasAsked ==
  ~overlapped => running = Whole(asked.urls)

(* A completed backup of the factory configuration is never touched again: *)
(* MigrateSpeaker and BackupConfig copy the file only if .original does    *)
(* not exist, so a second migration cannot save the first one's URLs there.*)
GoodBackupKept ==
  good /\ ~overlapped => file.backup = Factory

(* A service for which the migration was asked to keep the original server *)
(* finally reaches that server.                                            *)
ChoiceHonoured ==
  \A s \in asked.choice : asked.urls[s].at = "upstream"
=============================================================================
