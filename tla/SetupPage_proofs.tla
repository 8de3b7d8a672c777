-------------------------- MODULE SetupPage_proofs ---------------------------
(***************************************************************************)
(* Proofs about SetupPage: it implements SpeakerMigration, so that what is *)
(* proved there holds here too; type correctness; what the summary says    *)
(* about remote services, about the planned URLs and about .original; and  *)
(* that the factory configuration is not lost without a warning.           *)
(***************************************************************************)
EXTENDS SetupPage, SpeakerMigration_proofs

-----------------------------------------------------------------------------
(* Every step is a step of one migration, a crash of the server or one     *)
(* that leaves the speaker's files and the jobs alone.                     *)
LEMMA StepsOfMigration ==
  ASSUME SetupNext
  PROVE  \/ UNCHANGED vars /\ PageStep /\ UNCHANGED warned
         \/ \E j \in Jobs : JobStep(j)
         \/ Crash
<1>1. ASSUME NEW j \in Jobs, MigrationStep(j) PROVE JobStep(j)
  BY <1>1 DEF MigrationStep, JobStep
<1>2. ASSUME NEW j \in Jobs, BackUp(j) \/ RebootSpeaker(j) PROVE JobStep(j)
  BY <1>2 DEF BackUp, RebootSpeaker, JobStep
<1> QED
  BY <1>1, <1>2 DEF SetupNext, CrashServer

LEMMA SetupStepIsNext == [SetupNext]_setupVars => [Next]_vars
  BY StepsOfMigration DEF setupVars, Next

(* The setup page, its button and the trigger files change nothing about   *)
(* how a speaker is migrated: every behaviour of SetupPage is one of       *)
(* SpeakerMigration.                                                       *)
THEOREM SetupImplementsMigration == SetupSpec => Spec
<1>1. SetupInit => Init
  BY DEF SetupInit
<1> QED
  BY <1>1, SetupStepIsNext, PTL DEF SetupSpec, Spec

(* Type correctness of the migrations beside the page. *)
THEOREM SetupMigrationTypeCorrect == SetupSpec => []TypeOK
  BY SetupImplementsMigration, MigrationTypeCorrect, PTL

(* Beside the page too, no cut configuration file is left in silence. *)
THEOREM SetupTornConfigIsReported == SetupSpec => []TornConfigNeverSilent
  BY SetupImplementsMigration, TornConfigIsReported, PTL

(* Beside the page too, a lone migration boots what it planned. *)
THEOREM SetupBootsItsPlan == SetupSpec => []BootsWhatWasAsked
  BY SetupImplementsMigration, MigrationBootsItsPlan, PTL

(* Beside the page too, a good backup is never replaced. *)
THEOREM SetupGoodBackupStays ==
  ASSUME "test" \notin Unreliable
  PROVE  SetupSpec => []GoodBackupKept
  BY SetupImplementsMigration, GoodBackupStays, PTL

-----------------------------------------------------------------------------
(* Type correctness of the page. *)
PageType == [step : {"idle", "original", "config", "probe"}, place : 0 .. Len(Locations), sum : Summary]

LEMMA LocationFacts ==
  /\ Len(Locations) \in Nat \ {0}
  /\ \A n \in 1 .. Len(Locations) : Locations[n] \in Places
  /\ Attempts \in Nat \ {0}
  /\ \A n \in 1 .. Attempts : PlaceOf(n) \in Places
<1>1. Len(Locations) \in Nat \ {0}
  BY SetupAssumption
<1>2. \A n \in 1 .. Len(Locations) : Locations[n] \in Places
  BY DEF Places
<1>3. Attempts \in Nat \ {0}
  BY <1>1 DEF Attempts
<1>4. \A n \in 1 .. Attempts : (n + 1) \div 2 \in 1 .. Len(Locations)
  BY <1>1 DEF Attempts
<1> QED
  BY <1>1, <1>2, <1>3, <1>4 DEF PlaceOf

LEMMA SummaryFacts ==
  /\ NoSummary \in Summary /\ Idle \in PageType
  /\ \A c \in SUBSET Services : [NoSummary EXCEPT !.choice = c] \in Summary
  /\ \A c \in SUBSET Services, f \in RemoteFile : SummaryURLs(c, f) \in URLs
  /\ \A s \in Summary, f \in RemoteFile : [s EXCEPT !.original = f] \in Summary
  /\ \A s \in Summary, f \in RemoteFile, u \in URLs : [s EXCEPT !.cfg = f, !.urls = u] \in Summary
  /\ \A s \in Summary, b \in BOOLEAN : [s EXCEPT !.persistent = b] \in Summary
<1>1. NoSummary \in Summary
  BY FileFacts, URLFacts DEF NoSummary, Summary
<1>2. Idle \in PageType
  BY <1>1, LocationFacts DEF Idle, PageType
<1>3. ASSUME NEW c \in SUBSET Services PROVE [NoSummary EXCEPT !.choice = c] \in Summary
  BY <1>1 DEF Summary
<1>4. ASSUME NEW c \in SUBSET Services, NEW f \in RemoteFile PROVE SummaryURLs(c, f) \in URLs
  BY URLFacts DEF SummaryURLs, URLs, RemoteFile
<1>5. ASSUME NEW s \in Summary, NEW f \in RemoteFile PROVE [s EXCEPT !.original = f] \in Summary
  BY DEF Summary
<1>6. ASSUME NEW s \in Summary, NEW f \in RemoteFile, NEW u \in URLs
      PROVE  [s EXCEPT !.cfg = f, !.urls = u] \in Summary
  BY DEF Summary
<1>7. ASSUME NEW s \in Summary, NEW b \in BOOLEAN PROVE [s EXCEPT !.persistent = b] \in Summary
  BY DEF Summary
<1> QED
  BY <1>1, <1>2, <1>3, <1>4, <1>5, <1>6, <1>7

LEMMA SetupInitType == SetupInit => SetupTypeOK
<1> SUFFICES ASSUME SetupInit PROVE SetupTypeOK
  OBVIOUS
<1>1. trigger \in SUBSET Places
  BY SetupAssumption DEF SetupInit
<1>2. attempt \in [Jobs \cup {Button} -> 0 .. Attempts]
  BY LocationFacts DEF SetupInit
<1>3. page \in PageType /\ shown \in Summary
  BY SummaryFacts DEF SetupInit
<1> QED
  BY <1>1, <1>2, <1>3 DEF SetupInit, SetupTypeOK, PageType

LEMMA TouchType ==
  ASSUME SetupTypeOK, NEW r \in Jobs \cup {Button}, Touch(r)
  PROVE  trigger \subseteq trigger' /\ trigger' \in SUBSET Places /\ attempt' \in [Jobs \cup {Button} -> 0 .. Attempts]
<1>1. attempt[r] \in 1 .. Attempts
  BY LocationFacts DEF Touch, SetupTypeOK
<1>2. PlaceOf(attempt[r]) \in Places
  BY <1>1, LocationFacts
<1>3. trigger' \in {trigger, trigger \cup {PlaceOf(attempt[r])}}
  BY DEF Touch
<1>4. attempt' \in [Jobs \cup {Button} -> 0 .. Attempts]
  <2>1. \E n \in 0 .. Attempts : attempt' = [attempt EXCEPT ![r] = n]
    BY <1>1, LocationFacts DEF Touch
  <2> QED
    BY <2>1 DEF SetupTypeOK
<1> QED
  BY <1>2, <1>3, <1>4 DEF SetupTypeOK

LEMMA PageStepType ==
  ASSUME TypeOK, SetupTypeOK, PageStep, UNCHANGED warned
  PROVE  SetupTypeOK'
<1> USE LocationFacts
<1>0. page.sum \in Summary /\ page \in PageType /\ file.cfg \in RemoteFile /\ file.backup \in RemoteFile
  BY DEF SetupTypeOK, PageType, TypeOK
<1>1. CASE PressButton
  <2>1. attempt' \in [Jobs \cup {Button} -> 0 .. Attempts]
    BY <1>1 DEF PressButton, SetupTypeOK
  <2> QED
    BY <1>1, <2>1 DEF PressButton, pageVars, SetupTypeOK
<1>2. CASE AskSummary
  <2>1. PICK original \in Choices :
          page' = [step |-> "original", place |-> 0, sum |-> [NoSummary EXCEPT !.choice = original]]
    BY <1>2 DEF AskSummary
  <2>2. [NoSummary EXCEPT !.choice = original] \in Summary
    BY SummaryFacts, MigrationAssumption
  <2>3. page' \in PageType
    BY <2>1, <2>2 DEF PageType
  <2> QED
    BY <1>2, <2>3 DEF AskSummary, SetupTypeOK, PageType
<1>3. CASE SeeOriginal
  <2>1. \A lost \in BOOLEAN : Arrived(file.backup, lost) \subseteq RemoteFile
    BY <1>0, FileFacts DEF Arrived
  <2>2. PICK original \in RemoteFile :
          page' = [step |-> "config", place |-> 0, sum |-> [page.sum EXCEPT !.original = original]]
    BY <1>3, <2>1, LoseFacts DEF SeeOriginal
  <2>3. [page.sum EXCEPT !.original = original] \in Summary
    BY <1>0, SummaryFacts
  <2>4. page' \in PageType
    BY <2>2, <2>3 DEF PageType
  <2> QED
    BY <1>3, <2>4 DEF SeeOriginal, SetupTypeOK, PageType
<1>4. CASE SeeConfig
  <2>1. PICK cfg \in RemoteFile :
          page' = [step |-> "probe", place |-> 1,
                   sum |-> [page.sum EXCEPT !.cfg = cfg, !.urls = SummaryURLs(page.sum.choice, cfg)]]
    BY <1>0, <1>4, FileFacts DEF SeeConfig
  <2>2. SummaryURLs(page.sum.choice, cfg) \in URLs
    BY <1>0, SummaryFacts DEF Summary
  <2>3. [page.sum EXCEPT !.cfg = cfg, !.urls = SummaryURLs(page.sum.choice, cfg)] \in Summary
    BY <1>0, <2>2, SummaryFacts
  <2>4. page' \in PageType
    BY <2>1, <2>3 DEF PageType
  <2> QED
    BY <1>4, <2>4 DEF SeeConfig, SetupTypeOK, PageType
<1>5. ASSUME NEW n \in 1 .. Len(Locations), Probe(n) PROVE SetupTypeOK'
  <2>1. PICK b \in BOOLEAN :
          LET sum == [page.sum EXCEPT !.persistent = b]
          IN  IF n < Len(Locations)
              THEN page' = [page EXCEPT !.place = n + 1, !.sum = sum] /\ UNCHANGED shown
              ELSE page' = Idle /\ shown' = sum
    BY <1>0, <1>5 DEF Probe, Summary
  <2>2. [page.sum EXCEPT !.persistent = b] \in Summary
    BY <1>0, SummaryFacts
  <2>3. Idle \in PageType
    BY SummaryFacts
  <2>4. page' \in PageType /\ shown' \in Summary
    <3>1. CASE n < Len(Locations)
      <4>1. page' = [page EXCEPT !.place = n + 1, !.sum = [page.sum EXCEPT !.persistent = b]] /\ shown' = shown
        BY <2>1, <3>1
      <4>2. n + 1 \in 0 .. Len(Locations)
        BY <3>1
      <4> QED
        BY <1>0, <2>2, <4>1, <4>2 DEF PageType, SetupTypeOK
    <3> QED
      BY <2>1, <2>2, <2>3, <3>1
  <2> QED
    BY <1>5, <2>4 DEF Probe, SetupTypeOK, PageType
<1>6. ASSUME NEW r \in Jobs \cup {Button}, Touch(r) PROVE SetupTypeOK'
  BY <1>6, TouchType DEF Touch, pageVars, SetupTypeOK
<1> QED
  BY <1>1, <1>2, <1>3, <1>4, <1>5, <1>6 DEF PageStep

LEMMA SetupNextType ==
  ASSUME TypeOK, SetupTypeOK, [SetupNext]_setupVars
  PROVE  SetupTypeOK'
<1>1. CASE UNCHANGED setupVars
  BY <1>1 DEF setupVars, pageVars, SetupTypeOK
<1>2. CASE PageStep /\ UNCHANGED <<vars, warned>>
  BY <1>2, PageStepType
<1>3. ASSUME NEW j \in Jobs, MigrationStep(j) /\ UNCHANGED <<trigger, pageVars, asks, warned>> PROVE SetupTypeOK'
  <2>1. attempt' \in [Jobs \cup {Button} -> 0 .. Attempts]
    BY <1>3, LocationFacts DEF MigrationStep, SetupTypeOK
  <2> QED
    BY <1>3, <2>1 DEF pageVars, SetupTypeOK
<1>4. ASSUME NEW j \in Jobs, BackUp(j) \/ RebootSpeaker(j) PROVE SetupTypeOK'
  <2>1. warned' \in BOOLEAN /\ trigger' \in SUBSET Places
    BY <1>4 DEF BackUp, RebootSpeaker, SetupTypeOK
  <2> QED
    BY <1>4, <2>1 DEF BackUp, RebootSpeaker, pageVars, SetupTypeOK
<1>5. CASE CrashServer
  <2>1. page' \in PageType
    BY <1>5, SummaryFacts DEF CrashServer
  <2> QED
    BY <1>5, <2>1, LocationFacts DEF CrashServer, SetupTypeOK, PageType
<1> QED
  BY <1>1, <1>2, <1>3, <1>4, <1>5 DEF SetupNext

(* Trigger files, attempts and summaries keep their types: the attempts of *)
(* EnsureRemoteServices and the probes of the summary stay in bounds.      *)
THEOREM SetupTypeCorrect == SetupSpec => []SetupTypeOK
<1>1. TypeOK /\ SetupTypeOK /\ [SetupNext]_setupVars => SetupTypeOK'
  BY SetupNextType
<1> QED
  BY <1>1, SetupInitType, SetupMigrationTypeCorrect, PTL DEF SetupSpec

-----------------------------------------------------------------------------
(* What the page says about remote services.  A place that was found stays *)
(* until a reboot, and after it unless it is volatile.                     *)
PersistInv == page.sum.persistent \/ shown.persistent => trigger \ Volatile # {}

LEMMA NoSummaryFields == NoSummary.persistent = FALSE /\ NoSummary.original = Absent /\ NoSummary.cfg = Absent
  BY DEF NoSummary

LEMMA SetupNextPersists ==
  ASSUME SetupTypeOK, PersistInv, [SetupNext]_setupVars
  PROVE  PersistInv'
<1>1. CASE /\ page'.sum.persistent \/ shown'.persistent => page.sum.persistent \/ shown.persistent
           /\ trigger \ Volatile \subseteq trigger' \ Volatile
  BY <1>1 DEF PersistInv
<1>2. CASE UNCHANGED <<trigger, pageVars>>
  BY <1>1, <1>2 DEF pageVars
<1>3. CASE PageStep
  <2>1. CASE PressButton
    BY <1>2, <2>1 DEF PressButton
  <2>2. CASE AskSummary
    BY <1>1, <2>2, NoSummaryFields DEF AskSummary, NoSummary
  <2>3. CASE SeeOriginal \/ SeeConfig
    <3>1. page'.sum.persistent = page.sum.persistent
      <4>1. page.sum \in Summary
        BY DEF SetupTypeOK
      <4>2. CASE SeeOriginal
        <5>1. PICK f : page' = [step |-> "config", place |-> 0, sum |-> [page.sum EXCEPT !.original = f]]
          BY <4>2 DEF SeeOriginal
        <5>2. page'.sum = [page.sum EXCEPT !.original = f]
          BY <5>1
        <5> QED
          BY <4>1, <5>2 DEF Summary
      <4>3. CASE SeeConfig
        <5>1. PICK f : page' = [step |-> "probe", place |-> 1,
                                sum |-> [page.sum EXCEPT !.cfg = f, !.urls = SummaryURLs(page.sum.choice, f)]]
          BY <4>3 DEF SeeConfig
        <5>2. page'.sum = [page.sum EXCEPT !.cfg = f, !.urls = SummaryURLs(page.sum.choice, f)]
          BY <5>1
        <5> QED
          BY <4>1, <5>2 DEF Summary
      <4> QED
        BY <2>3, <4>2, <4>3
    <3> QED
      BY <1>1, <2>3, <3>1 DEF SeeOriginal, SeeConfig
  <2>4. ASSUME NEW n \in 1 .. Len(Locations), Probe(n) PROVE PersistInv'
    <3>1. CASE Locations[n] \in trigger \ Volatile
      BY <2>4, <3>1 DEF Probe, PersistInv
    <3>2. CASE Locations[n] \notin trigger \ Volatile
      <4>1. PICK lost \in MayLose("probe") :
              LET found == Locations[n] \in trigger /\ ~lost
                  sum == [page.sum EXCEPT !.persistent = @ \/ (found /\ Persists(Locations[n]))]
              IN  IF n < Len(Locations)
                  THEN page' = [page EXCEPT !.place = n + 1, !.sum = sum] /\ UNCHANGED shown
                  ELSE page' = Idle /\ shown' = sum
        BY <2>4 DEF Probe
      <4> DEFINE b == page.sum.persistent \/ (Locations[n] \in trigger /\ ~lost /\ Persists(Locations[n]))
      <4> DEFINE sum == [page.sum EXCEPT !.persistent = b]
      <4>2. b => page.sum.persistent
        BY <3>2 DEF Persists
      <4>3. sum.persistent = b
        BY DEF SetupTypeOK, Summary
      <4>4. \/ page' = [page EXCEPT !.place = n + 1, !.sum = sum] /\ UNCHANGED shown
            \/ page' = Idle /\ shown' = sum
        BY <4>1
      <4> HIDE DEF sum, b
      <4>5. \/ page'.sum = sum /\ UNCHANGED shown
            \/ page'.sum = NoSummary /\ shown' = sum
        <5>1. page \in PageType
          BY DEF SetupTypeOK, PageType
        <5>2. [page EXCEPT !.place = n + 1, !.sum = sum].sum = sum
          BY <5>1 DEF PageType
        <5>3. Idle.sum = NoSummary
          BY DEF Idle
        <5> QED
          BY <4>4, <5>2, <5>3
      <4>6. page'.sum.persistent \/ shown'.persistent => page.sum.persistent \/ shown.persistent
        BY <4>2, <4>3, <4>5, NoSummaryFields
      <4> QED
        BY <1>1, <2>4, <4>6 DEF Probe
    <3> QED
      BY <3>1, <3>2
  <2>5. ASSUME NEW r \in Jobs \cup {Button}, Touch(r) PROVE PersistInv'
    BY <1>1, <2>5, TouchType DEF Touch, pageVars
  <2> QED
    BY <1>3, <2>1, <2>2, <2>3, <2>4, <2>5 DEF PageStep
<1>4. ASSUME NEW j \in Jobs, RebootSpeaker(j) PROVE PersistInv'
  BY <1>1, <1>4 DEF RebootSpeaker, pageVars
<1>5. ASSUME NEW j \in Jobs, BackUp(j) PROVE PersistInv'
  BY <1>2, <1>5 DEF BackUp
<1>6. CASE CrashServer
  <2>1. page'.sum = NoSummary
    BY <1>6 DEF CrashServer, Idle
  <2> QED
    BY <1>1, <1>6, <2>1, NoSummaryFields DEF CrashServer
<1>7. CASE UNCHANGED setupVars
  BY <1>2, <1>7 DEF setupVars
<1> QED
  BY <1>2, <1>3, <1>4, <1>5, <1>6, <1>7 DEF SetupNext

(* However the probes of a summary fall between reboots and touches: when  *)
(* the page says that remote services survive a reboot, they do.           *)
THEOREM PersistentMeansPersistent == SetupSpec => []PersistentSurvives
<1>1. SetupInit => PersistInv
  BY NoSummaryFields DEF SetupInit, Idle, PersistInv
<1>2. SetupTypeOK /\ PersistInv /\ [SetupNext]_setupVars => PersistInv'
  BY SetupNextPersists
<1>3. PersistInv => PersistentSurvives
  BY DEF PersistInv, PersistentSurvives
<1> QED
  BY <1>1, <1>2, <1>3, SetupTypeCorrect, PTL DEF SetupSpec

-----------------------------------------------------------------------------
(* What the page previews: the URLs that a migration would plan from the   *)
(* configuration shown.                                                    *)
Previews(sum) == sum.urls = SummaryURLs(sum.choice, sum.cfg)

PreviewInv ==
  /\ file.cfg.state # "absent"
  /\ page.step = "probe" => Previews(page.sum)
  /\ shown.cfg.state # "absent" => Previews(shown)

(* No command removes the configuration file. *)
LEMMA ConfigStays ==
  ASSUME TypeOK, file.cfg.state # "absent", [Next]_vars
  PROVE  file'.cfg.state # "absent"
<1>1. CASE file'.cfg = file.cfg
  BY <1>1
<1>2. CASE Crash \/ UNCHANGED vars
  BY <1>1, <1>2 DEF Crash, vars
<1>3. ASSUME NEW j \in Jobs, JobStep(j) PROVE file'.cfg.state # "absent"
  <2>1. CASE \/ Accept(j, "backup", {}) \/ \E original \in Choices : Accept(j, "migrate", original)
             \/ Plan(j) \/ TestBackup(j) \/ FetchConfig(j) \/ Reboot(j) \/ RebootFails(j)
    BY <1>1, <2>1 DEF Accept, Plan, TestBackup, FetchConfig, Reboot, RebootFails
  <2>2. CASE CopyBackup(j) \/ OpenBackup(j) \/ FillBackup(j)
    <3>1. file' = file \/ \E f : file' = [file EXCEPT !.backup = f]
      BY <2>2 DEF CopyBackup, OpenBackup, FillBackup
    <3> QED
      BY <1>1, <3>1 DEF TypeOK
  <2>3. CASE OpenConfig(j) \/ FillConfig(j)
    <3>0. Whole(plan[j]) \in RemoteFile /\ Whole(plan[j]).urls = plan[j]
      BY FileFacts, States DEF TypeOK
    <3>a. Over(file.cfg, Whole(plan[j])) \subseteq {Whole(plan[j]), Tailed(plan[j])}
      BY <3>0, OverFacts
    <3>1. file' = file \/ \E f \in {file.cfg, Empty, Partial, Whole(plan[j]), Tailed(plan[j])} :
                              file' = [file EXCEPT !.cfg = f]
      <4>1. CASE OpenConfig(j)
        BY <4>1 DEF OpenConfig
      <4>2. CASE FillConfig(j)
        <5>1. \E f \in {file.cfg, Partial} \cup Over(file.cfg, Whole(plan[j])) :
                 file' = [file EXCEPT !.cfg = f]
          BY <4>2 DEF FillConfig
        <5> QED
          BY <5>1, <3>a
      <4> QED
        BY <2>3, <4>1, <4>2
    <3>2. file'.cfg \in {file.cfg, Empty, Partial, Whole(plan[j]), Tailed(plan[j])}
      BY <3>1 DEF TypeOK
    <3> QED
      BY <3>2, States
  <2> QED
    BY <1>3, <2>1, <2>2, <2>3 DEF JobStep
<1> QED
  BY <1>2, <1>3 DEF Next

LEMMA SetupNextPreviews ==
  ASSUME TypeOK, SetupTypeOK, PreviewInv, [SetupNext]_setupVars
  PROVE  PreviewInv'
<1>0. file'.cfg.state # "absent"
  BY ConfigStays, SetupStepIsNext DEF PreviewInv
<1>1. CASE UNCHANGED pageVars
  BY <1>0, <1>1 DEF pageVars, PreviewInv
<1>2. CASE page'.step # "probe" /\ shown' = shown
  BY <1>0, <1>2 DEF PreviewInv
<1>3. CASE PageStep
  <2>1. CASE PressButton \/ \E r \in Jobs \cup {Button} : Touch(r)
    BY <1>1, <2>1 DEF PressButton, Touch
  <2>2. CASE AskSummary \/ SeeOriginal
    BY <1>2, <2>2 DEF AskSummary, SeeOriginal
  <2>3. CASE SeeConfig
    <3>1. PICK f : page' = [step |-> "probe", place |-> 1,
                            sum |-> [page.sum EXCEPT !.cfg = f, !.urls = SummaryURLs(page.sum.choice, f)]]
      BY <2>3 DEF SeeConfig
    <3>2. page'.sum = [page.sum EXCEPT !.cfg = f, !.urls = SummaryURLs(page.sum.choice, f)]
      BY <3>1
    <3>3. page.sum \in Summary
      BY DEF SetupTypeOK
    <3>4. page'.sum.cfg = f /\ page'.sum.choice = page.sum.choice /\ page'.sum.urls = SummaryURLs(page.sum.choice, f)
      BY <3>2, <3>3 DEF Summary
    <3>5. Previews(page'.sum)
      BY <3>4 DEF Previews
    <3> QED
      BY <1>0, <2>3, <3>5 DEF SeeConfig, PreviewInv, Previews
  <2>4. ASSUME NEW n \in 1 .. Len(Locations), Probe(n) PROVE PreviewInv'
    <3>1. PICK b :
            LET sum == [page.sum EXCEPT !.persistent = b]
            IN  IF n < Len(Locations)
                THEN page' = [page EXCEPT !.place = n + 1, !.sum = sum] /\ UNCHANGED shown
                ELSE page' = Idle /\ shown' = sum
      BY <2>4 DEF Probe
    <3> DEFINE sum == [page.sum EXCEPT !.persistent = b]
    <3>2. sum.urls = page.sum.urls /\ sum.choice = page.sum.choice /\ sum.cfg = page.sum.cfg
      BY DEF SetupTypeOK, Summary
    <3>3. Previews(page.sum)
      BY <2>4 DEF Probe, PreviewInv
    <3>4. Previews(sum)
      BY <3>2, <3>3 DEF Previews
    <3>5. \/ page' = [page EXCEPT !.place = n + 1, !.sum = sum] /\ UNCHANGED shown
          \/ page' = Idle /\ shown' = sum
      BY <3>1
    <3> HIDE DEF sum
    <3>6. page \in PageType
      BY DEF SetupTypeOK, PageType
    <3>7. CASE page' = [page EXCEPT !.place = n + 1, !.sum = sum] /\ UNCHANGED shown
      <4>1. page'.sum = sum
        BY <3>6, <3>7 DEF PageType
      <4> QED
        BY <1>0, <3>4, <3>7, <4>1 DEF PreviewInv, Previews
    <3>8. CASE page' = Idle /\ shown' = sum
      <4>1. page'.step # "probe"
        BY <3>8 DEF Idle
      <4> QED
        BY <1>0, <3>4, <3>8, <4>1 DEF PreviewInv, Previews
    <3> QED
      BY <3>5, <3>7, <3>8
  <2> QED
    BY <1>3, <2>1, <2>2, <2>3, <2>4 DEF PageStep
<1>4. ASSUME NEW j \in Jobs, BackUp(j) \/ RebootSpeaker(j) PROVE PreviewInv'
  BY <1>1, <1>4 DEF BackUp, RebootSpeaker
<1>5. CASE CrashServer
  BY <1>2, <1>5 DEF CrashServer, Idle
<1>6. CASE UNCHANGED setupVars
  BY <1>1, <1>6 DEF setupVars
<1> QED
  BY <1>1, <1>3, <1>4, <1>5, <1>6 DEF SetupNext

(* Only Plan goes from the step "plan" to the next. *)
LEMMA OnlyPlanPlans ==
  ASSUME TypeOK, [Next]_vars, NEW j \in Jobs, pc[j] = "plan", pc'[j] = "test"
  PROVE  Plan(j)
<1>1. CASE UNCHANGED vars
  BY <1>1 DEF vars, jobVars
<1>2. CASE Crash
  BY <1>2 DEF Crash
<1>3. ASSUME NEW i \in Jobs \ {j}, JobStep(i) PROVE FALSE
  <2>1. CASE Accept(i, "backup", {}) \/ \E original \in Choices : Accept(i, "migrate", original)
    BY <2>1 DEF Accept, TypeOK
  <2>2. CASE Plan(i) \/ TestBackup(i) \/ CopyBackup(i) \/ FetchConfig(i)
    BY <2>2 DEF Plan, TestBackup, CopyBackup, FetchConfig, AfterBackup, Goto, Finish, TypeOK
  <2>3. CASE OpenBackup(i) \/ FillBackup(i) \/ OpenConfig(i) \/ FillConfig(i)
    BY <2>3 DEF OpenBackup, FillBackup, OpenConfig, FillConfig, AfterBackup, Goto, Finish, TypeOK
  <2>4. CASE Reboot(i) \/ RebootFails(i)
    BY <2>4 DEF Reboot, RebootFails, Interrupted, Finish, TypeOK
  <2> QED
    BY <1>3, <2>1, <2>2, <2>3, <2>4 DEF JobStep
<1>4. CASE JobStep(j)
  BY <1>4 DEF JobStep, Accept, TestBackup, CopyBackup, FetchConfig, OpenBackup, FillBackup, OpenConfig,
              FillConfig, Reboot, RebootFails
<1> QED
  BY <1>1, <1>2, <1>3, <1>4 DEF Next

LEMMA SetupPlansAsShown ==
  ASSUME TypeOK, PreviewInv, [SetupNext]_setupVars, NEW j \in Jobs
  PROVE  PlansAsShown(j)
<1> SUFFICES ASSUME pc[j] = "plan", pc'[j] = "test", choice[j] = shown.choice, file.cfg = shown.cfg
             PROVE  plan'[j] \in {shown.urls, SummaryURLs({}, file.cfg)}
  BY DEF PlansAsShown
<1>1. Plan(j)
  BY OnlyPlanPlans, SetupStepIsNext
<1>2. PICK lost \in BOOLEAN : plan'[j] = PlannedURLs(choice[j], file.cfg, lost)
  BY <1>1, LoseFacts DEF Plan, TypeOK
<1>3. shown.urls = SummaryURLs(choice[j], file.cfg)
  BY DEF PreviewInv, Previews
<1>4. CASE lost
  BY <1>2, <1>4 DEF PlannedURLs, SummaryURLs
<1>5. CASE ~lost
  BY <1>2, <1>3, <1>5 DEF PlannedURLs, SummaryURLs
<1> QED
  BY <1>4, <1>5

(* A migration with the choice and from the configuration that the summary *)
(* was made for plans the URLs that the summary showed, or all of ours     *)
(* when its own reading of the configuration is lost.                      *)
THEOREM MigrationPlansAsPreviewed == SetupSpec => PreviewHonoured
<1>1. SetupInit => PreviewInv
  BY States, NoSummaryFields DEF SetupInit, Init, Idle, PreviewInv
<1>2. TypeOK /\ SetupTypeOK /\ PreviewInv /\ [SetupNext]_setupVars => PreviewInv'
  BY SetupNextPreviews
<1>3. TypeOK /\ PreviewInv /\ [SetupNext]_setupVars => [\A j \in Jobs : PlansAsShown(j)]_setupVars
  BY SetupPlansAsShown
<1> QED
  BY <1>1, <1>2, <1>3, SetupMigrationTypeCorrect, SetupTypeCorrect, PTL DEF SetupSpec, PreviewHonoured

-----------------------------------------------------------------------------
(* The factory configuration.  As long as no backup has failed and jobs    *)
(* have come one after the other: a job copies the configuration only      *)
(* while there is no backup, and then that configuration is the factory    *)
(* one; only after it does a job touch the configuration.                  *)
BackedUp == {"openCfg", "fillCfg", "reboot"}

KeepInv ==
  /\ file.backup \in {Absent, Factory}
  /\ file.cfg # Factory => file.backup = Factory
  /\ \A j \in Jobs :
       /\ pc[j] \notin {"fetch", "openBackup", "fillBackup"}
       /\ pc[j] = "copy" => file.backup = Absent
       /\ pc[j] \in BackedUp => file.backup = Factory

OriginalSeen == {page.sum.original, shown.original} \subseteq {Absent, Factory, Partial}

FactoryInv == ~overlapped /\ ~warned => Alone /\ KeepInv /\ OriginalSeen

(* A job's step, when the others are and stay idle. *)
LEMMA StepKeeps ==
  ASSUME TypeOK, KeepInv, NEW j \in Jobs, JobStep(j),
         \A i \in Jobs \ {j} : pc'[i] = "idle", pc'[j] # "fetch", "test" \notin Unreliable
  PROVE  KeepInv'
<1>0. file.cfg \in RemoteFile /\ file.backup \in RemoteFile /\ Absent # Factory
  BY States DEF TypeOK
<1>1. CASE UNCHANGED file /\ pc'[j] \notin {"openBackup", "fillBackup", "copy"} \cup BackedUp
  BY <1>1 DEF KeepInv, BackedUp
<1>2. CASE pc[j] \in {"fetch", "openBackup", "fillBackup"}
  BY <1>2 DEF KeepInv
<1>3. CASE \/ Accept(j, "backup", {}) \/ \E original \in Choices : Accept(j, "migrate", original)
           \/ Plan(j) \/ Reboot(j) \/ RebootFails(j)
  BY <1>1, <1>3 DEF Accept, Plan, Reboot, RebootFails, Finish, TypeOK, BackedUp
<1>4. CASE TestBackup(j)
  <2>1. MayLose("test") = {FALSE}
    BY DEF MayLose
  <2>2. UNCHANGED file
    BY <1>4 DEF TestBackup
  <2>3. CASE file.backup = Absent
    <3>1. ~BackupFound(FALSE)
      BY <2>3, States DEF BackupFound
    <3>2. pc'[j] = "copy"
      BY <1>4, <2>1, <3>1 DEF TestBackup, Goto, TypeOK
    <3> QED
      BY <2>2, <2>3, <3>2 DEF KeepInv, BackedUp
  <2>4. CASE file.backup = Factory
    <3>1. BackupFound(FALSE)
      BY <2>4, States DEF BackupFound
    <3>2. pc'[j] \in {"openCfg", "idle"}
      BY <1>4, <2>1, <3>1 DEF TestBackup, Goto, Finish, TypeOK
    <3> QED
      BY <2>2, <2>4, <3>2 DEF KeepInv, BackedUp
  <2> QED
    BY <2>3, <2>4 DEF KeepInv
<1>5. CASE CopyBackup(j)
  <2>1. ~Goto(j, "fetch")
    BY DEF Goto, TypeOK
  <2>2. file' = [file EXCEPT !.backup = file.cfg] /\ AfterBackup(j, TRUE)
    BY <1>5, <2>1 DEF CopyBackup
  <2>3. file.cfg = Factory
    BY <1>5, <1>0 DEF CopyBackup, KeepInv
  <2>4. file'.backup = Factory
    BY <2>2, <2>3 DEF TypeOK
  <2>5. pc'[j] \in {"openCfg", "idle"}
    BY <2>2 DEF AfterBackup, Goto, Finish, TypeOK
  <2> QED
    BY <2>4, <2>5 DEF KeepInv, BackedUp
<1>6. CASE FetchConfig(j) \/ OpenBackup(j) \/ FillBackup(j)
  BY <1>2, <1>6 DEF FetchConfig, OpenBackup, FillBackup
<1>7. CASE OpenConfig(j) \/ FillConfig(j)
  <2>1. file.backup = Factory
    BY <1>7 DEF OpenConfig, FillConfig, KeepInv, BackedUp
  <2>2. file' = file \/ \E f : file' = [file EXCEPT !.cfg = f]
    BY <1>7 DEF OpenConfig, FillConfig
  <2>3. file'.backup = Factory
    BY <2>1, <2>2 DEF TypeOK
  <2>4. pc'[j] \in {"fillCfg", "reboot", "idle"}
    BY <1>7 DEF OpenConfig, FillConfig, Goto, Finish, TypeOK
  <2> QED
    BY <2>3, <2>4 DEF KeepInv, BackedUp
<1> QED
  BY <1>3, <1>4, <1>5, <1>6, <1>7 DEF JobStep

(* What a page step may see as .original. *)
LEMMA PageSeesOriginal ==
  ASSUME SetupTypeOK, KeepInv, OriginalSeen, PageStep
  PROVE  OriginalSeen'
<1>1. CASE UNCHANGED pageVars
  BY <1>1 DEF pageVars, OriginalSeen
<1>2. CASE PressButton \/ \E r \in Jobs \cup {Button} : Touch(r)
  BY <1>1, <1>2 DEF PressButton, Touch
<1>3. CASE AskSummary
  <2>1. page'.sum.original = Absent
    BY <1>3 DEF AskSummary, NoSummary
  <2> QED
    BY <1>3, <2>1 DEF AskSummary, OriginalSeen
<1>4. CASE SeeOriginal
  <2>0. PICK lost \in MayLose("cat") : \E f \in Arrived(file.backup, lost) :
          page' = [step |-> "config", place |-> 0, sum |-> [page.sum EXCEPT !.original = f]]
    BY <1>4 DEF SeeOriginal
  <2>1. PICK f \in Arrived(file.backup, lost) :
          page' = [step |-> "config", place |-> 0, sum |-> [page.sum EXCEPT !.original = f]]
    BY <2>0
  <2>2. f \in {Absent, Factory, Partial}
    BY <2>1 DEF Arrived, KeepInv
  <2>3. page'.sum = [page.sum EXCEPT !.original = f]
    BY <2>1
  <2>4. page'.sum.original = f
    BY <2>3 DEF SetupTypeOK, Summary
  <2> QED
    BY <1>4, <2>2, <2>4 DEF SeeOriginal, OriginalSeen
<1>5. CASE SeeConfig
  <2>1. PICK f : page' = [step |-> "probe", place |-> 1,
                          sum |-> [page.sum EXCEPT !.cfg = f, !.urls = SummaryURLs(page.sum.choice, f)]]
    BY <1>5 DEF SeeConfig
  <2>2. page'.sum = [page.sum EXCEPT !.cfg = f, !.urls = SummaryURLs(page.sum.choice, f)]
    BY <2>1
  <2>3. page'.sum.original = page.sum.original
    BY <2>2 DEF SetupTypeOK, Summary
  <2> QED
    BY <1>5, <2>3 DEF SeeConfig, OriginalSeen
<1>6. ASSUME NEW n \in 1 .. Len(Locations), Probe(n) PROVE OriginalSeen'
  <2>1. PICK b :
          LET sum == [page.sum EXCEPT !.persistent = b]
          IN  IF n < Len(Locations)
              THEN page' = [page EXCEPT !.place = n + 1, !.sum = sum] /\ UNCHANGED shown
              ELSE page' = Idle /\ shown' = sum
    BY <1>6 DEF Probe
  <2> DEFINE sum == [page.sum EXCEPT !.persistent = b]
  <2>2. sum.original = page.sum.original
    BY DEF SetupTypeOK, Summary
  <2>3. \/ page' = [page EXCEPT !.place = n + 1, !.sum = sum] /\ UNCHANGED shown
        \/ page' = Idle /\ shown' = sum
    BY <2>1
  <2> HIDE DEF sum
  <2>4. page \in PageType
    BY DEF SetupTypeOK, PageType
  <2>5. [page EXCEPT !.place = n + 1, !.sum = sum].sum = sum
    BY <2>4 DEF PageType
  <2>6. Idle.sum = NoSummary
    BY DEF Idle
  <2> QED
    BY <2>2, <2>3, <2>5, <2>6, NoSummaryFields DEF OriginalSeen
<1> QED
  BY <1>2, <1>3, <1>4, <1>5, <1>6 DEF PageStep

LEMMA SetupNextFactory ==
  ASSUME TypeOK, SetupTypeOK, FactoryInv, [SetupNext]_setupVars, "test" \notin Unreliable
  PROVE  FactoryInv'
<1> SUFFICES ASSUME ~overlapped', ~warned' PROVE Alone' /\ KeepInv' /\ OriginalSeen'
  BY DEF FactoryInv
<1>1. CASE UNCHANGED setupVars
  BY <1>1 DEF setupVars, pageVars, vars, jobVars, historyVars, FactoryInv, Alone, KeepInv, OriginalSeen
<1>2. CASE PageStep /\ UNCHANGED <<vars, warned>>
  <2>1. Alone /\ KeepInv /\ OriginalSeen
    BY <1>2 DEF vars, historyVars, FactoryInv
  <2>2. Alone' /\ KeepInv'
    BY <1>2, <2>1 DEF vars, jobVars, Alone, KeepInv
  <2> QED
    BY <1>2, <2>1, <2>2, PageSeesOriginal
<1>3. ASSUME NEW j \in Jobs, JobStep(j), UNCHANGED pageVars, ~warned, pc'[j] # "fetch"
      PROVE  Alone' /\ KeepInv' /\ OriginalSeen'
  <2>1. ~overlapped
    BY <1>3 DEF JobStep, Accept, Plan, TestBackup, CopyBackup, FetchConfig, OpenBackup, FillBackup,
                OpenConfig, FillConfig, Reboot, RebootFails, historyVars, TypeOK
  <2>2. Alone /\ KeepInv /\ OriginalSeen
    BY <1>3, <2>1 DEF FactoryInv
  <2>3. Alone' /\ \A i \in Jobs \ {j} : pc'[i] = "idle"
    BY <1>3, <2>2, AloneStep
  <2>4. KeepInv'
    BY <1>3, <2>2, <2>3, StepKeeps
  <2> QED
    BY <1>3, <2>2, <2>3, <2>4 DEF pageVars, OriginalSeen
<1>4. ASSUME NEW j \in Jobs, MigrationStep(j), UNCHANGED <<trigger, pageVars, asks, warned>>
      PROVE  Alone' /\ KeepInv' /\ OriginalSeen'
  <2>1. JobStep(j)
    BY <1>4 DEF MigrationStep, JobStep
  <2>2. pc'[j] # "fetch"
    BY <1>4 DEF MigrationStep, Accept, Plan, TestBackup, FetchConfig, OpenBackup, FillBackup, OpenConfig,
                FillConfig, RebootFails, AfterBackup, Goto, Finish, TypeOK
  <2> QED
    BY <1>3, <1>4, <2>1, <2>2
<1>5. ASSUME NEW j \in Jobs, BackUp(j) PROVE Alone' /\ KeepInv' /\ OriginalSeen'
  BY <1>3, <1>5 DEF BackUp, JobStep
<1>6. ASSUME NEW j \in Jobs, RebootSpeaker(j) PROVE Alone' /\ KeepInv' /\ OriginalSeen'
  <2>1. pc'[j] # "fetch"
    BY <1>6 DEF RebootSpeaker, Reboot
  <2> QED
    BY <1>3, <1>6, <2>1 DEF RebootSpeaker, JobStep
<1>7. CASE CrashServer
  <2>1. Alone /\ KeepInv /\ OriginalSeen
    BY <1>7 DEF CrashServer, Crash, FactoryInv
  <2>2. Alone' /\ KeepInv'
    BY <1>7, <2>1 DEF CrashServer, Crash, Alone, KeepInv, BackedUp
  <2>3. page'.sum = NoSummary
    BY <1>7 DEF CrashServer, Idle
  <2> QED
    BY <1>7, <2>1, <2>2, <2>3, NoSummaryFields DEF CrashServer, OriginalSeen
<1> QED
  BY <1>1, <1>2, <1>4, <1>5, <1>6, <1>7 DEF SetupNext

LEMMA FactoryInvHolds ==
  ASSUME "test" \notin Unreliable
  PROVE  SetupSpec => []FactoryInv
<1>1. SetupInit => FactoryInv
  BY NoSummaryFields DEF SetupInit, Init, Idle, FactoryInv, Alone, KeepInv, BackedUp, OriginalSeen
<1>2. TypeOK /\ SetupTypeOK /\ FactoryInv /\ [SetupNext]_setupVars => FactoryInv'
  BY SetupNextFactory
<1> QED
  BY <1>1, <1>2, SetupMigrationTypeCorrect, SetupTypeCorrect, PTL DEF SetupSpec

(* When the test for .original never loses its answer and jobs come one    *)
(* after the other, a replaced configuration has left the factory one in   *)
(* .original, or the log has a warning.                                    *)
THEOREM FactoryIsKeptOrWarned ==
  ASSUME "test" \notin Unreliable
  PROVE  SetupSpec => []FactoryKeptOrWarned
<1>1. FactoryInv => FactoryKeptOrWarned
  BY DEF FactoryInv, KeepInv, FactoryKeptOrWarned
<1> QED
  BY <1>1, FactoryInvHolds, PTL

(* Under the same assumption, what the page shows as the original          *)
(* configuration is never one that a migration wrote, or the log has a     *)
(* warning.                                                                *)
THEOREM ShownOriginalIsFactory ==
  ASSUME "test" \notin Unreliable
  PROVE  SetupSpec => []OriginalIsFactory
<1>1. FactoryInv => OriginalIsFactory
  BY States DEF FactoryInv, OriginalSeen, OriginalIsFactory
<1> QED
  BY <1>1, FactoryInvHolds, PTL
=============================================================================
