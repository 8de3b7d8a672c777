----------------------- MODULE SpeakerMigration_proofs -----------------------
(***************************************************************************)
(* Proofs about SpeakerMigration: type correctness, that an unusable       *)
(* configuration is never silent, that a migration boots what it planned,  *)
(* and, when the test for a backup is reliable, that a good backup stays.  *)
(***************************************************************************)
EXTENDS SpeakerMigration, TLAPS

LEMMA URLFacts ==
  /\ Upstream \in URL /\ Soundcork \in URL
  /\ FactoryURLs \in URLs
  /\ \A u \in URL : Proxied(u) \in URL
  BY DEF Upstream, Soundcork, Proxied, URL, FactoryURLs, URLs

LEMMA FileFacts ==
  /\ {Absent, Empty, Partial, Factory} \subseteq RemoteFile
  /\ \A u \in URLs : Whole(u) \in RemoteFile /\ Tailed(u) \in RemoteFile
  BY URLFacts DEF Absent, Empty, Partial, Factory, Whole, Tailed, RemoteFile

(* What an upload leaves: the content, perhaps with a tail. *)
LEMMA OverFacts ==
  ASSUME NEW old, NEW content \in RemoteFile
  PROVE  /\ Over(old, content) \subseteq {content, Tailed(content.urls)}
         /\ Over(old, content) \subseteq RemoteFile
         /\ old = Empty => Over(old, content) = {content}
<1>1. content.urls \in URLs
  BY DEF RemoteFile
<1>2. Over(old, content) \subseteq {content, Tailed(content.urls)}
  BY DEF Over
<1> QED
  BY <1>1, <1>2, FileFacts DEF Over


LEMMA LoseFacts == \A command : MayLose(command) \subseteq BOOLEAN
  BY DEF MayLose

(* What answering a job, and letting it go on, do to the types. *)
LEMMA FinishType ==
  ASSUME TypeOK, NEW j \in Jobs, NEW ok \in BOOLEAN, Finish(j, ok)
  PROVE  /\ pc' \in [Jobs -> Steps] /\ kind' \in [Jobs -> {"migrate", "backup"}]
         /\ choice' \in [Jobs -> SUBSET Services] /\ plan' \in [Jobs -> URLs]
         /\ held' \in [Jobs -> RemoteFile] /\ alarm' \in BOOLEAN
<1>1. pc' \in [Jobs -> Steps] /\ kind' \in [Jobs -> {"migrate", "backup"}]
  BY DEF TypeOK, Finish, Steps
<1>2. choice' \in [Jobs -> SUBSET Services]
  BY DEF TypeOK, Finish
<1>3. plan' \in [Jobs -> URLs] /\ held' \in [Jobs -> RemoteFile]
  BY URLFacts, FileFacts DEF TypeOK, Finish
<1>4. alarm' \in BOOLEAN
  BY DEF TypeOK, Finish
<1> QED
  BY <1>1, <1>2, <1>3, <1>4

LEMMA GotoType ==
  ASSUME TypeOK, NEW j \in Jobs, NEW step \in Steps, Goto(j, step)
  PROVE  /\ pc' \in [Jobs -> Steps] /\ kind' \in [Jobs -> {"migrate", "backup"}]
         /\ choice' \in [Jobs -> SUBSET Services] /\ plan' \in [Jobs -> URLs]
         /\ held' \in [Jobs -> RemoteFile] /\ alarm' \in BOOLEAN
  BY DEF TypeOK, Goto

LEMMA AfterBackupType ==
  ASSUME TypeOK, NEW j \in Jobs, NEW ok \in BOOLEAN, AfterBackup(j, ok)
  PROVE  /\ pc' \in [Jobs -> Steps] /\ kind' \in [Jobs -> {"migrate", "backup"}]
         /\ choice' \in [Jobs -> SUBSET Services] /\ plan' \in [Jobs -> URLs]
         /\ held' \in [Jobs -> RemoteFile] /\ alarm' \in BOOLEAN
<1>1. "openCfg" \in Steps
  BY DEF Steps
<1> QED
  BY <1>1, FinishType, GotoType DEF AfterBackup

LEMMA InitType == Init => TypeOK
<1> SUFFICES ASSUME Init PROVE TypeOK
  OBVIOUS
<1>1. file \in [cfg : RemoteFile, backup : RemoteFile] /\ running \in RemoteFile
  BY FileFacts DEF Init
<1>2. plan \in [Jobs -> URLs] /\ held \in [Jobs -> RemoteFile]
  BY FileFacts, URLFacts DEF Init
<1>3. asked \in [urls : URLs, choice : SUBSET Services]
  BY URLFacts DEF Init
<1> QED
  BY <1>1, <1>2, <1>3 DEF Init, TypeOK, Steps

LEMMA CrashType == ASSUME TypeOK, Crash PROVE TypeOK'
  BY URLFacts, FileFacts DEF TypeOK, Crash, Steps

LEMMA AcceptType ==
  ASSUME TypeOK, NEW j \in Jobs, NEW k \in {"migrate", "backup"},
         NEW original \in SUBSET Services, Accept(j, k, original)
  PROVE  TypeOK'
  BY DEF TypeOK, Accept, Steps

LEMMA RebootType ==
  ASSUME TypeOK, NEW j \in Jobs, Reboot(j)
  PROVE  TypeOK'
<1>1. pc' \in [Jobs -> Steps]
  BY DEF TypeOK, Reboot, Interrupted, Steps
<1>2. kind' \in [Jobs -> {"migrate", "backup"}] /\ choice' \in [Jobs -> SUBSET Services]
  BY DEF TypeOK, Reboot
<1>3. plan' \in [Jobs -> URLs] /\ held' \in [Jobs -> RemoteFile]
  BY URLFacts, FileFacts DEF TypeOK, Reboot
<1>4. alarm' \in BOOLEAN
  BY LoseFacts DEF TypeOK, Reboot
<1>5. running' \in RemoteFile /\ asked' \in [urls : URLs, choice : SUBSET Services]
  BY DEF TypeOK, Reboot
<1> QED
  BY <1>1, <1>2, <1>3, <1>4, <1>5 DEF TypeOK, Reboot

LEMMA StepType ==
  ASSUME TypeOK, NEW j \in Jobs, JobStep(j)
  PROVE  TypeOK'
<1> USE FileFacts, LoseFacts
<1>0. Steps = {"idle", "plan", "test", "copy", "fetch", "openBackup", "fillBackup", "openCfg", "fillCfg", "reboot"}
  BY DEF Steps
<1>1. CASE \E original \in Choices : Accept(j, "migrate", original)
  BY <1>1, AcceptType, MigrationAssumption
<1>2. CASE Accept(j, "backup", {})
  BY <1>2, AcceptType
<1>3. CASE Plan(j)
  <2>1. \A lost \in BOOLEAN : PlannedURLs(choice[j], file.cfg, lost) \in URLs
    BY URLFacts DEF PlannedURLs, URLs, TypeOK, RemoteFile
  <2>2. plan' \in [Jobs -> URLs]
    BY <1>3, <2>1 DEF Plan, TypeOK
  <2>3. pc' \in [Jobs -> Steps]
    BY <1>3, <1>0 DEF Plan, TypeOK
  <2> QED
    BY <1>3, <2>2, <2>3 DEF Plan, TypeOK, historyVars
<1>4. CASE TestBackup(j)
  <2>1. \/ Goto(j, "copy") \/ Goto(j, "openCfg") \/ Finish(j, FALSE)
    BY <1>4 DEF TestBackup
  <2> QED
    BY <1>4, <1>0, <2>1, FinishType, GotoType DEF TestBackup, TypeOK
<1>5. CASE CopyBackup(j)
  <2>1. file' \in [cfg : RemoteFile, backup : RemoteFile]
    <3>1. file.cfg \in RemoteFile /\ file.backup \in RemoteFile
      BY DEF TypeOK
    <3>2. \E f \in RemoteFile : file' = [file EXCEPT !.backup = f]
      BY <1>5, <3>1 DEF CopyBackup
    <3> QED
      BY <3>2 DEF TypeOK
  <2>2. good' \in BOOLEAN
    BY <1>5 DEF CopyBackup, TypeOK
  <2>3. Goto(j, "fetch") \/ AfterBackup(j, TRUE)
    BY <1>5 DEF CopyBackup
  <2> QED
    BY <1>5, <1>0, <2>1, <2>2, <2>3, GotoType, AfterBackupType DEF CopyBackup, TypeOK
<1>6. CASE FetchConfig(j)
  <2>1. CASE AfterBackup(j, FALSE)
    BY <1>6, <2>1, AfterBackupType DEF FetchConfig, TypeOK
  <2>2. CASE ~AfterBackup(j, FALSE)
    BY <1>6, <2>2, <1>0 DEF FetchConfig, TypeOK
  <2> QED
    BY <2>1, <2>2
<1>7. CASE OpenBackup(j)
  <2>1. file' \in [cfg : RemoteFile, backup : RemoteFile]
    BY <1>7 DEF OpenBackup, TypeOK
  <2>2. AfterBackup(j, FALSE) \/ Goto(j, "fillBackup")
    BY <1>7 DEF OpenBackup
  <2> QED
    BY <1>7, <1>0, <2>1, <2>2, GotoType, AfterBackupType DEF OpenBackup, TypeOK
<1>8. CASE FillBackup(j)
  <2>1. file' \in [cfg : RemoteFile, backup : RemoteFile]
    <3>1. held[j] \in RemoteFile /\ file.backup \in RemoteFile
      BY DEF TypeOK
    <3>2. \E f \in RemoteFile : file' = [file EXCEPT !.backup = f]
      BY <1>8, <3>1, OverFacts DEF FillBackup
    <3> QED
      BY <3>2 DEF TypeOK
  <2>2. good' \in BOOLEAN
    BY <1>8 DEF FillBackup, TypeOK
  <2>3. AfterBackup(j, FALSE) \/ AfterBackup(j, TRUE)
    BY <1>8 DEF FillBackup
  <2> QED
    BY <1>8, <2>1, <2>2, <2>3, AfterBackupType DEF FillBackup, TypeOK
<1>9. CASE OpenConfig(j)
  <2>1. file' \in [cfg : RemoteFile, backup : RemoteFile]
    BY <1>9 DEF OpenConfig, TypeOK
  <2>2. Finish(j, FALSE) \/ Goto(j, "fillCfg")
    BY <1>9 DEF OpenConfig
  <2> QED
    BY <1>9, <1>0, <2>1, <2>2, GotoType, FinishType DEF OpenConfig, TypeOK
<1>10. CASE FillConfig(j)
  <2>1. file' \in [cfg : RemoteFile, backup : RemoteFile]
    <3>1. plan[j] \in URLs /\ file.cfg \in RemoteFile
      BY DEF TypeOK
    <3>2. \E f \in RemoteFile : file' = [file EXCEPT !.cfg = f]
      BY <1>10, <3>1, OverFacts DEF FillConfig
    <3> QED
      BY <3>2 DEF TypeOK
  <2>2. CASE Finish(j, FALSE)
    BY <1>10, <2>1, <2>2, FinishType DEF FillConfig, TypeOK
  <2>3. CASE ~Finish(j, FALSE)
    BY <1>10, <1>0, <2>1, <2>3 DEF FillConfig, TypeOK
  <2> QED
    BY <2>2, <2>3
<1>11. CASE Reboot(j)
  BY <1>11, RebootType
<1>12. CASE RebootFails(j)
  BY <1>12, FinishType DEF RebootFails, TypeOK
<1> QED
  BY <1>1, <1>2, <1>3, <1>4, <1>5, <1>6, <1>7, <1>8, <1>9, <1>10, <1>11, <1>12 DEF JobStep

LEMMA NextType == TypeOK /\ [Next]_vars => TypeOK'
<1> SUFFICES ASSUME TypeOK, [Next]_vars PROVE TypeOK'
  OBVIOUS
<1>1. CASE UNCHANGED vars
  BY <1>1 DEF vars, jobVars, historyVars, TypeOK
<1>2. CASE Next
  BY <1>2, CrashType, StepType DEF Next
<1> QED
  BY <1>1, <1>2

(* Every job, file and URL of the setup manager keeps its type. *)
THEOREM MigrationTypeCorrect == Spec => []TypeOK
  BY InitType, NextType, PTL DEF Spec

-----------------------------------------------------------------------------
(* A file with a content that is whole. *)
LEMMA States ==
  /\ \A u : Whole(u).state = "whole" /\ Whole(u).urls = u /\ Tailed(u).state = "tailed"
  /\ Factory.state = "whole" /\ Empty.state = "empty" /\ Partial.state = "partial" /\ Absent.state = "absent"
  BY DEF Whole, Tailed, Factory, Empty, Partial, Absent

-----------------------------------------------------------------------------
(* The inductive invariants below speak of behaviours in which the jobs    *)
(* have come one after the other.                                          *)
Alone == \A i, j \in Jobs : pc[i] # "idle" /\ pc[j] # "idle" => i = j

(* A migration that uploads finds the file as it emptied it, and one that  *)
(* is about to reboot has its own file in place.                           *)
BootInv ==
  ~overlapped =>
    /\ Alone
    /\ running = Whole(asked.urls)
    /\ \A j \in Jobs : pc[j] = "fillCfg" => file.cfg = Empty
    /\ \A j \in Jobs : pc[j] = "reboot" => file.cfg = Whole(plan[j])

(* While a good backup exists, no job is on its way to write one. *)
BackupInv ==
  ~overlapped =>
    /\ Alone
    /\ good => /\ file.backup = Factory
               /\ \A j \in Jobs : pc[j] \notin {"copy", "fetch", "openBackup", "fillBackup"}

LEMMA AloneInit == Init => BootInv /\ BackupInv
  BY DEF Init, BootInv, BackupInv, Alone, Factory

(* When the jobs come one after the other, a step of one finds and leaves  *)
(* all the others idle.                                                    *)
LEMMA AloneStep ==
  ASSUME TypeOK, Alone, NEW j \in Jobs, JobStep(j), ~overlapped'
  PROVE  /\ ~overlapped
         /\ \A i \in Jobs \ {j} : pc[i] = "idle" /\ pc'[i] = "idle"
         /\ Alone'
<1>1. CASE \/ Accept(j, "backup", {}) \/ \E original \in Choices : Accept(j, "migrate", original)
  <2>1. ~overlapped /\ Busy = {} /\ \A i \in Jobs \ {j} : pc'[i] = pc[i]
    BY <1>1 DEF Accept, TypeOK
  <2> QED
    BY <2>1 DEF Busy, Alone
<1>2. CASE pc[j] # "idle" /\ overlapped' = overlapped /\ \A i \in Jobs \ {j} : pc[i] = "idle" => pc'[i] = "idle"
  BY <1>2 DEF Alone
<1>3. CASE Plan(j) \/ TestBackup(j)
  BY <1>3, <1>2 DEF Plan, TestBackup, Goto, Finish, historyVars, TypeOK
<1>4. CASE CopyBackup(j) \/ FetchConfig(j)
  BY <1>4, <1>2 DEF CopyBackup, FetchConfig, AfterBackup, Goto, Finish, TypeOK
<1>5. CASE OpenBackup(j) \/ FillBackup(j)
  BY <1>5, <1>2 DEF OpenBackup, FillBackup, AfterBackup, Goto, Finish, TypeOK
<1>6. CASE OpenConfig(j) \/ FillConfig(j)
  BY <1>6, <1>2 DEF OpenConfig, FillConfig, Goto, Finish, TypeOK
<1>7. CASE Reboot(j) \/ RebootFails(j)
  BY <1>7, <1>2 DEF Reboot, RebootFails, Interrupted, Finish, TypeOK
<1> QED
  BY <1>1, <1>3, <1>4, <1>5, <1>6, <1>7 DEF JobStep

LEMMA NextBoots ==
  ASSUME TypeOK, BootInv, [Next]_vars
  PROVE  BootInv'
<1>1. CASE UNCHANGED vars
  BY <1>1 DEF vars, jobVars, historyVars, BootInv, Alone
<1>2. CASE Crash
  BY <1>2 DEF Crash, BootInv, Alone
<1>3. ASSUME NEW j \in Jobs, JobStep(j) PROVE BootInv'
  <2> SUFFICES ASSUME ~overlapped' PROVE BootInv'
    BY DEF BootInv
  <2>0. ~overlapped
    BY <1>3 DEF JobStep, Accept, Plan, TestBackup, CopyBackup, FetchConfig, OpenBackup, FillBackup,
                OpenConfig, FillConfig, Reboot, RebootFails, historyVars, TypeOK
  <2>1. /\ Alone /\ running = Whole(asked.urls)
        /\ pc[j] = "fillCfg" => file.cfg = Empty
        /\ pc[j] = "reboot" => file.cfg = Whole(plan[j])
    BY <2>0 DEF BootInv
  <2>2. Alone' /\ \A i \in Jobs \ {j} : pc'[i] = "idle"
    BY <1>3, <2>1, AloneStep
  <2>3. CASE UNCHANGED <<running, asked>> /\ pc'[j] \notin {"fillCfg", "reboot"}
    BY <2>1, <2>2, <2>3 DEF BootInv
  <2>4. CASE \/ Accept(j, "backup", {}) \/ \E original \in Choices : Accept(j, "migrate", original)
             \/ Plan(j) \/ TestBackup(j)
    BY <2>4, <2>3 DEF Accept, Plan, TestBackup, Goto, Finish, historyVars, TypeOK
  <2>5. CASE CopyBackup(j) \/ FetchConfig(j)
    BY <2>5, <2>3 DEF CopyBackup, FetchConfig, AfterBackup, Goto, Finish, TypeOK
  <2>6. CASE OpenBackup(j) \/ FillBackup(j)
    BY <2>6, <2>3 DEF OpenBackup, FillBackup, AfterBackup, Goto, Finish, TypeOK
  <2>7. CASE RebootFails(j)
    BY <2>7, <2>3 DEF RebootFails, Goto, Finish, TypeOK
  <2>11. CASE OpenConfig(j)
    <3>1. CASE Finish(j, FALSE)
      BY <2>11, <3>1, <2>3 DEF OpenConfig, Finish, TypeOK
    <3>2. CASE file' = [file EXCEPT !.cfg = Empty] /\ Goto(j, "fillCfg")
      <4>1. file'.cfg = Empty /\ pc'[j] = "fillCfg" /\ UNCHANGED <<running, asked>>
        BY <2>11, <3>2 DEF OpenConfig, Goto, TypeOK
      <4> QED
        BY <4>1, <2>1, <2>2 DEF BootInv
    <3> QED
      BY <2>11, <3>1, <3>2 DEF OpenConfig
  <2>8. CASE FillConfig(j)
    <3>0. plan[j] \in URLs /\ Whole(plan[j]) \in RemoteFile /\ file.cfg = Empty
      BY <2>8, <2>1, FileFacts DEF FillConfig, TypeOK
    <3>1. CASE Finish(j, FALSE)
      BY <2>8, <3>1, <2>3 DEF FillConfig, Finish, TypeOK
    <3>2. CASE /\ \E f \in Over(file.cfg, Whole(plan[j])) : file' = [file EXCEPT !.cfg = f]
               /\ pc' = [pc EXCEPT ![j] = "reboot"] /\ UNCHANGED plan
      <4>1. file'.cfg = Whole(plan'[j]) /\ pc'[j] = "reboot"
        BY <3>0, <3>2, OverFacts DEF TypeOK
      <4>2. UNCHANGED <<running, asked>>
        BY <2>8 DEF FillConfig
      <4> QED
        BY <4>1, <4>2, <2>1, <2>2 DEF BootInv
    <3> QED
      BY <2>8, <3>1, <3>2 DEF FillConfig
  <2>9. CASE Reboot(j)
    <3>1. running' = Whole(asked'.urls) /\ pc'[j] = "idle"
      BY <2>9, <2>1 DEF Reboot
    <3> QED
      BY <3>1, <2>2 DEF BootInv
  <2> QED
    BY <1>3, <2>4, <2>5, <2>6, <2>7, <2>8, <2>9, <2>11 DEF JobStep
<1> QED
  BY <1>1, <1>2, <1>3 DEF Next

LEMMA BootInvHolds == Spec => []BootInv
<1>1. TypeOK /\ BootInv /\ [Next]_vars => BootInv'
  BY NextBoots
<1> QED
  BY <1>1, AloneInit, MigrationTypeCorrect, PTL DEF Spec

(* A migration that runs alone reboots the speaker only with the           *)
(* configuration it planned, uploaded in full, whatever connections fail.  *)
THEOREM MigrationBootsItsPlan == Spec => []BootsWhatWasAsked
<1>1. BootInv => BootsWhatWasAsked
  BY DEF BootInv, BootsWhatWasAsked
<1> QED
  BY <1>1, BootInvHolds, PTL

-----------------------------------------------------------------------------
(* Only OpenConfig and FillConfig write the configuration file. *)
LEMMA NextNotSilent ==
  ASSUME TypeOK, BootInv, TornConfigNeverSilent, [Next]_vars
  PROVE  TornConfigNeverSilent'
<1> DEFINE Filling(j) == pc[j] = "fillCfg"
<1>1. CASE UNCHANGED vars
  BY <1>1 DEF vars, jobVars, historyVars, TornConfigNeverSilent
<1>2. CASE Crash
  BY <1>2 DEF Crash, TornConfigNeverSilent
<1>3. ASSUME NEW j \in Jobs, JobStep(j) PROVE TornConfigNeverSilent'
  <2>1. CASE /\ pc[j] # "fillCfg" /\ file'.cfg = file.cfg
             /\ \A i \in Jobs \ {j} : pc'[i] = pc[i]
             /\ alarm => alarm'
             /\ overlapped => overlapped'
    BY <2>1 DEF TornConfigNeverSilent
  <2>2. CASE \/ Accept(j, "backup", {}) \/ \E original \in Choices : Accept(j, "migrate", original)
             \/ Plan(j) \/ TestBackup(j)
    BY <2>2, <2>1 DEF Accept, Plan, TestBackup, Goto, Finish, historyVars, TypeOK
  <2>3. CASE CopyBackup(j) \/ FetchConfig(j)
    BY <2>3, <2>1 DEF CopyBackup, FetchConfig, AfterBackup, Goto, Finish, TypeOK
  <2>4. CASE OpenBackup(j) \/ FillBackup(j)
    BY <2>4, <2>1 DEF OpenBackup, FillBackup, AfterBackup, Goto, Finish, TypeOK
  <2>5. CASE OpenConfig(j)
    <3>1. CASE Finish(j, FALSE) /\ UNCHANGED file
      BY <3>1, <2>1, <2>5 DEF OpenConfig, Finish, TypeOK
    <3>2. CASE Goto(j, "fillCfg")
      <4>1. pc'[j] = "fillCfg"
        BY <3>2 DEF Goto, TypeOK
      <4> QED
        BY <4>1 DEF TornConfigNeverSilent
    <3> QED
      BY <2>5, <3>1, <3>2 DEF OpenConfig
  <2>6. CASE FillConfig(j)
    <3>1. CASE Finish(j, FALSE)
      BY <3>1 DEF Finish, TornConfigNeverSilent
    <3>2. CASE \E f \in Over(file.cfg, Whole(plan[j])) : file' = [file EXCEPT !.cfg = f]
      <4>1. Whole(plan[j]) \in RemoteFile /\ Whole(plan[j]).urls = plan[j]
        BY FileFacts, States DEF TypeOK
      <4>2. file'.cfg \in Over(file.cfg, Whole(plan[j]))
        BY <3>2 DEF TypeOK
      <4>3. overlapped' = overlapped /\ (overlapped \/ file.cfg = Empty)
        BY <2>6 DEF FillConfig, BootInv
      <4>4. CASE file.cfg = Empty
        BY <4>1, <4>2, <4>4, OverFacts, States DEF TornConfigNeverSilent
      <4>5. CASE overlapped
        BY <4>1, <4>2, <4>3, <4>5, OverFacts, States DEF TornConfigNeverSilent
      <4> QED
        BY <4>3, <4>4, <4>5
    <3> QED
      BY <2>6, <3>1, <3>2 DEF FillConfig
  <2>7. CASE Reboot(j)
    <3>1. CASE \E i \in Jobs \ {j} : Filling(i)
      <4>1. PICK i \in Jobs \ {j} : Filling(i)
        BY <3>1
      <4>2. pc[i] # "idle" /\ pc'[i] = "idle"
        BY <2>7, <4>1 DEF Reboot, Interrupted
      <4>3. alarm'
        BY <2>7, <4>2 DEF Reboot
      <4> QED
        BY <4>3 DEF TornConfigNeverSilent
    <3>2. CASE ~ \E i \in Jobs \ {j} : Filling(i)
      <4>1. ~ \E i \in Jobs : Filling(i)
        BY <2>7, <3>2 DEF Reboot
      <4>2. (alarm => alarm') /\ UNCHANGED <<file, overlapped>>
        BY <2>7 DEF Reboot
      <4> QED
        BY <4>1, <4>2 DEF TornConfigNeverSilent
    <3> QED
      BY <3>1, <3>2
  <2>8. CASE RebootFails(j)
    BY <2>8 DEF RebootFails, Finish, TornConfigNeverSilent
  <2> QED
    BY <1>3, <2>2, <2>3, <2>4, <2>5, <2>6, <2>7, <2>8 DEF JobStep
<1> QED
  BY <1>1, <1>2, <1>3 DEF Next

(* Whatever connections are lost and whichever jobs overlap, UploadContent *)
(* never leaves a cut configuration file behind that nobody was told of,   *)
(* nor one with the tail of another, unless jobs have overlapped.          *)
THEOREM TornConfigIsReported == Spec => []TornConfigNeverSilent
<1>1. Init => TornConfigNeverSilent
  BY States DEF Init, TornConfigNeverSilent
<1>2. TypeOK /\ BootInv /\ TornConfigNeverSilent /\ [Next]_vars => TornConfigNeverSilent'
  BY NextNotSilent
<1> QED
  BY <1>1, <1>2, BootInvHolds, MigrationTypeCorrect, PTL DEF Spec

-----------------------------------------------------------------------------

LEMMA NextKeepsBackup ==
  ASSUME TypeOK, BackupInv, [Next]_vars, "test" \notin Unreliable
  PROVE  BackupInv'
<1>1. CASE UNCHANGED vars
  BY <1>1 DEF vars, jobVars, historyVars, BackupInv, Alone
<1>2. CASE Crash
  BY <1>2 DEF Crash, BackupInv, Alone
<1>3. ASSUME NEW j \in Jobs, JobStep(j) PROVE BackupInv'
  <2> DEFINE Backing == {"copy", "fetch", "openBackup", "fillBackup"}
  <2> SUFFICES ASSUME ~overlapped' PROVE BackupInv'
    BY DEF BackupInv
  <2>0. ~overlapped
    BY <1>3 DEF JobStep, Accept, Plan, TestBackup, CopyBackup, FetchConfig, OpenBackup, FillBackup,
                OpenConfig, FillConfig, Reboot, RebootFails, historyVars, TypeOK
  <2>1. Alone /\ (good => file.backup = Factory /\ pc[j] \notin Backing)
    BY <2>0 DEF BackupInv
  <2>2. Alone' /\ \A i \in Jobs \ {j} : pc'[i] = "idle"
    BY <1>3, <2>1, AloneStep
  <2>3. CASE good' => file'.backup = Factory /\ pc'[j] \notin Backing
    BY <2>2, <2>3 DEF BackupInv
  <2>4. CASE \/ Accept(j, "backup", {})
             \/ \E original \in Choices : Accept(j, "migrate", original)
             \/ Plan(j)
    BY <2>4, <2>3, <2>1 DEF Accept, Plan, historyVars, TypeOK
  <2>5. CASE TestBackup(j)
    <3>1. good => BackupFound(FALSE)
      BY <2>1, States DEF BackupFound
    <3>2. MayLose("test") = {FALSE}
      BY DEF MayLose
    <3>3. good => Goto(j, "openCfg") \/ Finish(j, FALSE)
      BY <2>5, <3>1, <3>2 DEF TestBackup
    <3>4. good => pc'[j] \notin Backing
      BY <3>3 DEF Goto, Finish, TypeOK
    <3> QED
      BY <2>5, <3>4, <2>1, <2>3 DEF TestBackup
  <2>6. CASE CopyBackup(j)
    <3>1. ~good
      BY <2>6, <2>1 DEF CopyBackup
    <3>2. CASE good'
      <4>1. file' = [file EXCEPT !.backup = file.cfg] /\ file.cfg = Factory /\ AfterBackup(j, TRUE)
        BY <2>6, <3>1, <3>2 DEF CopyBackup
      <4>2. file'.backup = Factory
        BY <4>1 DEF TypeOK
      <4>3. pc'[j] \notin Backing
        BY <4>1 DEF AfterBackup, Goto, Finish, TypeOK
      <4> QED
        BY <4>2, <4>3, <2>3
    <3> QED
      BY <3>2, <2>3
  <2>7. CASE FetchConfig(j) \/ OpenBackup(j)
    <3>1. pc[j] \in Backing /\ good' = good
      BY <2>7 DEF FetchConfig, OpenBackup
    <3> QED
      BY <3>1, <2>1, <2>3
  <2>8. CASE FillBackup(j)
    <3>1. ~good
      BY <2>8, <2>1 DEF FillBackup
    <3>2. CASE good'
      <4>1. file' = [file EXCEPT !.backup = Factory] /\ AfterBackup(j, TRUE)
        BY <2>8, <3>1, <3>2 DEF FillBackup
      <4>2. file'.backup = Factory
        BY <4>1 DEF TypeOK
      <4>3. pc'[j] \notin Backing
        BY <4>1 DEF AfterBackup, Goto, Finish, TypeOK
      <4> QED
        BY <4>2, <4>3, <2>3
    <3> QED
      BY <3>2, <2>3
  <2>9. CASE OpenConfig(j) \/ FillConfig(j)
    BY <2>9, <2>1, <2>3 DEF OpenConfig, FillConfig, Goto, Finish, TypeOK
  <2>10. CASE Reboot(j) \/ RebootFails(j)
    BY <2>10, <2>1, <2>3 DEF Reboot, RebootFails, Finish, TypeOK
  <2> QED
    BY <1>3, <2>4, <2>5, <2>6, <2>7, <2>8, <2>9, <2>10 DEF JobStep
<1> QED
  BY <1>1, <1>2, <1>3 DEF Next

(* When the test for .original never loses its answer and jobs come one    *)
(* after the other, a completed backup of the factory configuration is     *)
(* never replaced.                                                         *)
THEOREM GoodBackupStays ==
  ASSUME "test" \notin Unreliable
  PROVE  Spec => []GoodBackupKept
<1>1. Init => BackupInv
  BY AloneInit
<1>2. TypeOK /\ BackupInv /\ [Next]_vars => BackupInv'
  BY NextKeepsBackup
<1>3. BackupInv => GoodBackupKept
  BY DEF BackupInv, GoodBackupKept
<1> QED
  BY <1>1, <1>2, <1>3, MigrationTypeCorrect, PTL DEF Spec
=============================================================================
