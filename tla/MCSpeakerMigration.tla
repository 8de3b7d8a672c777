---- MODULE MCSpeakerMigration ----
(* Instances of SpeakerMigration for TLC. *)
EXTENDS SpeakerMigration

MCServices == {"marge", "bmx"}
MCChoices == {{}, {"bmx"}, {"marge", "bmx"}}
====
