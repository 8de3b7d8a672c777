------------------------------ MODULE EventLog ------------------------------
(***************************************************************************)
(* The device event log.  A speaker posts usage and error statistics and   *)
(* support uploads.  The statistics are stored as a file of their own      *)
(* before the event is logged; a support upload is only logged.  The log   *)
(* is in memory, one list per device, and is cut to its last MaxEvents.    *)
(*                                                                         *)
(* A stored file is named after the time in nanoseconds and the device.    *)
(* Two reports of a device are taken to arrive at different nanoseconds,   *)
(* so every report has a file of its own.                                  *)
(***************************************************************************)
EXTENDS Naturals, Sequences

CONSTANTS
  Handlers,    \* requests that may be in flight at once
  Devices,     \* device ids
  MaxEvents,   \* events kept per device: 100
  MaxReports   \* bound on the reports of a behaviour

NoDevice == ""   \* the id of a report that names no device

ASSUME EventLogAssumption ==
  /\ NoDevice \notin Devices
  /\ MaxEvents \in Nat \ {0}
  /\ MaxReports \in Nat

VARIABLES
  pc,        \* where each request is
  report,    \* the report of the request
  stored,    \* the reports that have a file under stats/
  log,       \* deviceEvents: the events kept in memory, by device
  posted,    \* reports so far, which numbers them
  recorded   \* history: every event logged since the server started

vars == <<pc, report, stored, log, posted, recorded>>

Logs == Devices \cup {NoDevice}
Kinds == {"usage", "error", "support"}
Report == [n : Nat, kind : Kinds, dev : Logs]
NoReport == [n |-> 0, kind |-> "support", dev |-> NoDevice]

-----------------------------------------------------------------------------
Init ==
  /\ pc = [h \in Handlers |-> "idle"]
  /\ report = [h \in Handlers |-> NoReport]
  /\ stored = {}
  /\ log = [d \in Logs |-> <<>>]
  /\ posted = 0
  /\ recorded = [d \in Logs |-> <<>>]

(* Statistics that parse neither as XML nor as JSON are answered 400 and   *)
(* change nothing; a support upload that does not parse is logged without  *)
(* a device, like any report that names none.                              *)
Post(h, kind, d) ==
  /\ pc[h] = "idle"
  /\ posted < MaxReports
  /\ posted' = posted + 1
  /\ report' = [report EXCEPT ![h] = [n |-> posted', kind |-> kind, dev |-> d]]
  /\ pc' = [pc EXCEPT ![h] = IF kind = "support" THEN "log" ELSE "save"]
  /\ UNCHANGED <<stored, log, recorded>>

(* Faulty variant: of the report only the number is saved. *)
SaveNumberOnly(h) ==
  /\ pc[h] = "save"
  /\ stored' = stored \cup {[n |-> report[h].n]}
  /\ pc' = [pc EXCEPT ![h] = "log"]
  /\ UNCHANGED <<report, log, posted, recorded>>

(* SaveUsageStats, SaveErrorStats. *)
SaveStats(h) ==
  /\ pc[h] = "save"
  /\ stored' = stored \cup {report[h]}
  /\ pc' = [pc EXCEPT ![h] = "log"]
  /\ UNCHANGED <<report, log, posted, recorded>>

(* Faulty variant: the handler goes on after a failed write. *)
SaveFailsAndLogs(h) ==
  /\ pc[h] = "save"
  /\ pc' = [pc EXCEPT ![h] = "log"]
  /\ UNCHANGED <<report, stored, log, posted, recorded>>

(* The file cannot be written: answered 500, nothing is logged. *)
SaveFails(h) ==
  /\ pc[h] = "save"
  /\ pc' = [pc EXCEPT ![h] = "idle"]
  /\ report' = [report EXCEPT ![h] = NoReport]
  /\ UNCHANGED <<stored, log, posted, recorded>>

(* Faulty variant: the first MaxEvents are kept. *)
KeepFirst(events) ==
  [i \in 1 .. (IF Len(events) > MaxEvents THEN MaxEvents ELSE Len(events)) |-> events[i]]

(* The last MaxEvents of a list of events. *)
KeepLast(events) ==
  LET cut == IF Len(events) > MaxEvents THEN Len(events) - MaxEvents ELSE 0
  IN  [i \in 1 .. Len(events) - cut |-> events[cut + i]]

(* AddDeviceEvent, under the lock; then the request is answered. *)
AddDeviceEvent(h) ==
  /\ pc[h] = "log"
  /\ LET d == report[h].dev
     IN  /\ log' = [log EXCEPT ![d] = KeepLast(Append(log[d], report[h]))]
         /\ recorded' = [recorded EXCEPT ![d] = Append(recorded[d], report[h])]
  /\ pc' = [pc EXCEPT ![h] = "idle"]
  /\ report' = [report EXCEPT ![h] = NoReport]
  /\ UNCHANGED <<stored, posted>>

(* The server dies and starts again: the files stay, the log is empty. *)
Restart ==
  /\ pc' = [h \in Handlers |-> "idle"]
  /\ report' = [h \in Handlers |-> NoReport]
  /\ log' = [d \in Logs |-> <<>>]
  /\ recorded' = [d \in Logs |-> <<>>]
  /\ UNCHANGED <<stored, posted>>

Handle(h) ==
  \/ \E kind \in Kinds, d \in Logs : Post(h, kind, d)
  \/ SaveStats(h)
  \/ SaveFails(h)
  \/ AddDeviceEvent(h)

Next == Restart \/ \E h \in Handlers : Handle(h)

Spec == Init /\ [][Next]_vars

(* GetDeviceEvents returns a copy of the list, also for a device unknown.  *)
GetDeviceEvents(d) == IF d \in Logs THEN log[d] ELSE <<>>

-----------------------------------------------------------------------------
(* Type invariant. *)
TypeOK ==
  /\ pc \in [Handlers -> {"idle", "save", "log"}]
  /\ report \in [Handlers -> Report]
  /\ stored \in SUBSET Report
  /\ log \in [Logs -> Seq(Report)]
  /\ posted \in Nat
  /\ recorded \in [Logs -> Seq(Report)]

(* What a reader of the log is shown are exactly the last MaxEvents events *)
(* of the device since the start, in the order they were logged: cutting   *)
(* an already cut list over and over neither loses nor repeats an event.   *)
LogIsTheLastEvents ==
  \A d \in Logs :
    LET shown == GetDeviceEvents(d)
        missing == Len(recorded[d]) - Len(shown)
    IN  /\ Len(shown) = IF Len(recorded[d]) < MaxEvents THEN Len(recorded[d]) ELSE MaxEvents
        /\ \A i \in 1 .. Len(shown) : shown[i] = recorded[d][missing + i]

(* Usage and error events in the log have their statistics file: it is     *)
(* written first, and a failed write or a restart in between leaves no     *)
(* event behind.                                                           *)
LoggedStatsAreStored ==
  \A d \in Logs : \A i \in 1 .. Len(log[d]) : log[d][i].kind # "support" => log[d][i] \in stored
=============================================================================
