---- MODULE MCEventLog ----
(* Instance of EventLog for TLC. *)
EXTENDS EventLog

MCHandlers == {"h1", "h2"}
MCDevices == {"spk"}
====
