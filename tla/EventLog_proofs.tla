--------------------------- MODULE EventLog_proofs ---------------------------
(***************************************************************************)
(* Proofs about EventLog: the list kept in memory is always the last       *)
(* MaxEvents of everything that was logged, and statistics are on disk     *)
(* before they are in the log.                                             *)
(***************************************************************************)
EXTENDS EventLog, TLAPS

(* KeepLast cuts a list to its last MaxEvents elements. *)
LEMMA KeepLastFacts ==
  ASSUME NEW S, NEW s \in Seq(S)
  PROVE  /\ KeepLast(s) \in Seq(S)
         /\ Len(KeepLast(s)) = IF Len(s) > MaxEvents THEN MaxEvents ELSE Len(s)
         /\ \A i \in 1 .. Len(KeepLast(s)) :
              /\ KeepLast(s)[i] = s[Len(s) - Len(KeepLast(s)) + i]
              /\ Len(s) - Len(KeepLast(s)) + i \in 1 .. Len(s)
<1> DEFINE cut == IF Len(s) > MaxEvents THEN Len(s) - MaxEvents ELSE 0
           kept == [i \in 1 .. Len(s) - cut |-> s[cut + i]]
<1>1. Len(s) \in Nat /\ cut \in Nat /\ cut <= Len(s) /\ MaxEvents \in Nat
  BY EventLogAssumption
<1>2. KeepLast(s) = kept
  BY DEF KeepLast
<1>3. \A i \in 1 .. Len(s) - cut : cut + i \in 1 .. Len(s) /\ s[cut + i] \in S
  BY <1>1
<1> HIDE DEF cut
<1>4. kept \in Seq(S) /\ Len(kept) = Len(s) - cut
  BY <1>1, <1>3
<1>5. \A i \in 1 .. Len(kept) : kept[i] = s[cut + i]
  BY <1>4
<1>6. Len(s) - Len(kept) = cut
  BY <1>1, <1>4
<1>7. Len(kept) = IF Len(s) > MaxEvents THEN MaxEvents ELSE Len(s)
  BY <1>1, <1>4 DEF cut
<1> HIDE DEF kept
<1> QED
  BY <1>1, <1>2, <1>3, <1>4, <1>5, <1>6, <1>7

LEMMA InitType == Init => TypeOK
<1>1. <<>> \in Seq(Report) /\ NoReport \in Report
  BY DEF Report, NoReport, Kinds, Logs
<1> QED
  BY <1>1 DEF Init, TypeOK

LEMMA NextType == TypeOK /\ [Next]_vars => TypeOK'
<1> SUFFICES ASSUME TypeOK, [Next]_vars PROVE TypeOK'
  OBVIOUS
<1>0. <<>> \in Seq(Report) /\ NoReport \in Report
  BY DEF Report, NoReport, Kinds, Logs
<1>1. CASE UNCHANGED vars
  BY <1>1 DEF vars, TypeOK
<1>2. CASE Restart
  BY <1>0, <1>2 DEF Restart, TypeOK
<1>3. ASSUME NEW h \in Handlers, NEW kind \in Kinds, NEW d \in Logs, Post(h, kind, d) PROVE TypeOK'
  <2>1. posted' \in Nat /\ [n |-> posted', kind |-> kind, dev |-> d] \in Report
    BY <1>3 DEF Post, TypeOK, Report
  <2> QED
    BY <1>3, <2>1 DEF Post, TypeOK
<1>4. ASSUME NEW h \in Handlers, SaveStats(h) \/ SaveFails(h) PROVE TypeOK'
  BY <1>0, <1>4 DEF SaveStats, SaveFails, TypeOK
<1>5. ASSUME NEW h \in Handlers, AddDeviceEvent(h) PROVE TypeOK'
  <2>1. report[h] \in Report /\ report[h].dev \in Logs
    BY DEF TypeOK, Report
  <2>2. Append(log[report[h].dev], report[h]) \in Seq(Report)
    BY <2>1 DEF TypeOK
  <2>3. KeepLast(Append(log[report[h].dev], report[h])) \in Seq(Report)
    BY <2>2, KeepLastFacts
  <2>4. Append(recorded[report[h].dev], report[h]) \in Seq(Report)
    BY <2>1 DEF TypeOK
  <2> QED
    BY <1>0, <1>5, <2>1, <2>3, <2>4 DEF AddDeviceEvent, TypeOK
<1> QED
  BY <1>1, <1>2, <1>3, <1>4, <1>5 DEF Next, Handle

(* The requests, the files and the lists of events keep their types. *)
THEOREM EventLogTypeCorrect == Spec => []TypeOK
  BY InitType, NextType, PTL DEF Spec

-----------------------------------------------------------------------------
LEMMA NextLast ==
  ASSUME TypeOK, LogIsTheLastEvents, [Next]_vars
  PROVE  LogIsTheLastEvents'
<1>1. CASE UNCHANGED <<log, recorded>>
  BY <1>1 DEF LogIsTheLastEvents, GetDeviceEvents
<1>2. CASE Restart
  BY <1>2, EventLogAssumption DEF Restart, LogIsTheLastEvents, GetDeviceEvents
<1>3. ASSUME NEW h \in Handlers, AddDeviceEvent(h) PROVE LogIsTheLastEvents'
  <2> DEFINE d == report[h].dev
             longer == Append(log[d], report[h])
             all == Append(recorded[d], report[h])
  <2>1. report[h] \in Report /\ d \in Logs /\ log[d] \in Seq(Report) /\ recorded[d] \in Seq(Report)
    BY DEF TypeOK, Report
  <2>2. log' = [log EXCEPT ![d] = KeepLast(longer)] /\ recorded' = [recorded EXCEPT ![d] = all]
    BY <1>3 DEF AddDeviceEvent
  <2>3. \A e \in Logs : log'[e] = (IF e = d THEN KeepLast(longer) ELSE log[e])
                     /\ recorded'[e] = (IF e = d THEN all ELSE recorded[e])
    BY <2>1, <2>2 DEF TypeOK
  <2>4. /\ Len(log[d]) = IF Len(recorded[d]) < MaxEvents THEN Len(recorded[d]) ELSE MaxEvents
        /\ \A i \in 1 .. Len(log[d]) : log[d][i] = recorded[d][Len(recorded[d]) - Len(log[d]) + i]
    BY <2>1 DEF LogIsTheLastEvents, GetDeviceEvents
  <2>5. /\ longer \in Seq(Report) /\ Len(longer) = Len(log[d]) + 1
        /\ \A i \in 1 .. Len(longer) : longer[i] = IF i <= Len(log[d]) THEN log[d][i] ELSE report[h]
    BY <2>1
  <2>6. /\ all \in Seq(Report) /\ Len(all) = Len(recorded[d]) + 1
        /\ \A i \in 1 .. Len(all) : all[i] = IF i <= Len(recorded[d]) THEN recorded[d][i] ELSE report[h]
    BY <2>1
  <2>7. /\ Len(KeepLast(longer)) = IF Len(longer) > MaxEvents THEN MaxEvents ELSE Len(longer)
        /\ \A i \in 1 .. Len(KeepLast(longer)) :
             /\ KeepLast(longer)[i] = longer[Len(longer) - Len(KeepLast(longer)) + i]
             /\ Len(longer) - Len(KeepLast(longer)) + i \in 1 .. Len(longer)
    BY <2>5, KeepLastFacts
  <2>8. Len(log[d]) \in Nat /\ Len(recorded[d]) \in Nat /\ MaxEvents \in Nat \ {0}
    BY <2>1, EventLogAssumption
  <2> HIDE DEF d, longer, all
  <2>9. Len(KeepLast(longer)) = IF Len(all) < MaxEvents THEN Len(all) ELSE MaxEvents
    BY <2>4, <2>5, <2>6, <2>7, <2>8
  <2>10. ASSUME NEW i \in 1 .. Len(KeepLast(longer))
         PROVE  KeepLast(longer)[i] = all[Len(all) - Len(KeepLast(longer)) + i]
    <3> DEFINE a == Len(log[d])
               r == Len(recorded[d])
               q == Len(KeepLast(longer))
               k == a + 1 - q + i
               m == r + 1 - q + i
    <3>1. /\ a \in Nat /\ r \in Nat /\ q \in Nat /\ i \in 1 .. q
          /\ a <= r /\ q <= a + 1 /\ Len(longer) = a + 1 /\ Len(all) = r + 1
      BY <2>4, <2>5, <2>6, <2>7, <2>8
    <3>2. KeepLast(longer)[i] = longer[k]
      <4>1. Len(longer) - Len(KeepLast(longer)) + i = k
        BY <3>1
      <4> HIDE DEF k
      <4> QED
        BY <2>7, <4>1
    <3>3. \A x \in 1 .. a : log[d][x] = recorded[d][r - a + x]
      BY <2>4
    <3>4. \A x \in 1 .. a + 1 : longer[x] = IF x <= a THEN log[d][x] ELSE report[h]
      BY <2>5
    <3>5. \A x \in 1 .. r + 1 : all[x] = IF x <= r THEN recorded[d][x] ELSE report[h]
      BY <2>6
    <3>6. all[Len(all) - Len(KeepLast(longer)) + i] = all[m]
      BY <3>1
    <3> HIDE DEF a, r, q
    <3>7. k \in 1 .. a + 1 /\ m \in 1 .. r + 1 /\ m = r - a + k
      BY <3>1
    <3> HIDE DEF k, m
    <3>8. CASE k <= a
      <4>1. k \in 1 .. a /\ m <= r
        BY <3>1, <3>7, <3>8
      <4>2. longer[k] = recorded[d][m]
        BY <4>1, <3>3, <3>4, <3>7, <3>8
      <4> QED
        BY <4>1, <4>2, <3>2, <3>5, <3>6, <3>7
    <3>9. CASE ~(k <= a)
      <4>1. ~(m <= r)
        BY <3>1, <3>7, <3>9
      <4> QED
        BY <4>1, <3>2, <3>4, <3>5, <3>6, <3>7, <3>9
    <3> QED
      BY <3>8, <3>9
  <2> SUFFICES ASSUME NEW e \in Logs
               PROVE  /\ Len(log'[e]) = IF Len(recorded'[e]) < MaxEvents THEN Len(recorded'[e]) ELSE MaxEvents
                      /\ \A i \in 1 .. Len(log'[e]) :
                           log'[e][i] = recorded'[e][Len(recorded'[e]) - Len(log'[e]) + i]
    BY DEF LogIsTheLastEvents, GetDeviceEvents
  <2>11. CASE e = d
    <3>1. log'[e] = KeepLast(longer) /\ recorded'[e] = all
      BY <2>3, <2>11
    <3> QED
      BY <2>9, <2>10, <3>1
  <2>12. CASE e # d
    <3>1. log'[e] = log[e] /\ recorded'[e] = recorded[e]
      BY <2>3, <2>12
    <3> QED
      BY <3>1 DEF LogIsTheLastEvents, GetDeviceEvents
  <2> QED
    BY <2>11, <2>12
<1> QED
  BY <1>1, <1>2, <1>3 DEF Next, Handle, Post, SaveStats, SaveFails, vars

(* GetDeviceEvents shows exactly the last MaxEvents events of a device, in *)
(* order, for every MaxEvents: AddDeviceEvent cuts an already cut list.    *)
THEOREM LogShowsTheLastEvents == Spec => []LogIsTheLastEvents
<1>1. Init => LogIsTheLastEvents
  BY EventLogAssumption DEF Init, LogIsTheLastEvents, GetDeviceEvents
<1>2. TypeOK /\ LogIsTheLastEvents /\ [Next]_vars => LogIsTheLastEvents'
  BY NextLast
<1> QED
  BY <1>1, <1>2, EventLogTypeCorrect, PTL DEF Spec

-----------------------------------------------------------------------------
(* A request that is about to log statistics has stored them. *)
StoredInv ==
  /\ \A h \in Handlers : pc[h] = "log" /\ report[h].kind # "support" => report[h] \in stored
  /\ LoggedStatsAreStored

LEMMA NextStored ==
  ASSUME TypeOK, StoredInv, [Next]_vars
  PROVE  StoredInv'
<1>1. CASE UNCHANGED vars
  BY <1>1 DEF vars, StoredInv, LoggedStatsAreStored
<1>2. CASE Restart
  BY <1>2 DEF Restart, StoredInv, LoggedStatsAreStored
<1>3. ASSUME NEW h \in Handlers, NEW kind \in Kinds, NEW d \in Logs, Post(h, kind, d) PROVE StoredInv'
  <2>1. LoggedStatsAreStored'
    BY <1>3 DEF Post, StoredInv, LoggedStatsAreStored
  <2>2. pc'[h] = "log" => report'[h].kind = "support"
    BY <1>3 DEF Post, TypeOK
  <2>3. \A g \in Handlers \ {h} : pc'[g] = pc[g] /\ report'[g] = report[g]
    BY <1>3 DEF Post, TypeOK
  <2>4. stored' = stored
    BY <1>3 DEF Post
  <2> QED
    BY <2>1, <2>2, <2>3, <2>4 DEF StoredInv
<1>4. ASSUME NEW h \in Handlers, SaveStats(h) PROVE StoredInv'
  <2>1. LoggedStatsAreStored'
    BY <1>4 DEF SaveStats, StoredInv, LoggedStatsAreStored
  <2>2. report' = report /\ report[h] \in stored' /\ stored \subseteq stored'
    BY <1>4 DEF SaveStats
  <2>3. \A g \in Handlers \ {h} : pc'[g] = pc[g]
    BY <1>4 DEF SaveStats, TypeOK
  <2> QED
    BY <2>1, <2>2, <2>3 DEF StoredInv
<1>5. ASSUME NEW h \in Handlers, SaveFails(h) PROVE StoredInv'
  <2>1. LoggedStatsAreStored'
    BY <1>5 DEF SaveFails, StoredInv, LoggedStatsAreStored
  <2>2. stored' = stored /\ pc'[h] = "idle" /\ \A g \in Handlers \ {h} : pc'[g] = pc[g] /\ report'[g] = report[g]
    BY <1>5 DEF SaveFails, TypeOK
  <2> QED
    BY <2>1, <2>2 DEF StoredInv
<1>6. ASSUME NEW h \in Handlers, AddDeviceEvent(h) PROVE StoredInv'
  <2> DEFINE d == report[h].dev
             longer == Append(log[d], report[h])
  <2>1. report[h] \in Report /\ d \in Logs /\ log[d] \in Seq(Report)
    BY DEF TypeOK, Report
  <2>2. longer \in Seq(Report) /\ \A i \in 1 .. Len(longer) : longer[i].kind # "support" => longer[i] \in stored
    <3>1. report[h].kind # "support" => report[h] \in stored
      BY <1>6 DEF AddDeviceEvent, StoredInv
    <3>2. \A i \in 1 .. Len(log[d]) : log[d][i].kind # "support" => log[d][i] \in stored
      BY <2>1 DEF StoredInv, LoggedStatsAreStored
    <3>3. /\ longer \in Seq(Report) /\ Len(longer) = Len(log[d]) + 1
          /\ \A i \in 1 .. Len(longer) : longer[i] = IF i <= Len(log[d]) THEN log[d][i] ELSE report[h]
      BY <2>1
    <3>4. Len(log[d]) \in Nat
      BY <2>1
    <3> HIDE DEF longer, d
    <3> QED
      BY <3>1, <3>2, <3>3, <3>4
  <2> HIDE DEF longer
  <2>3. \A i \in 1 .. Len(KeepLast(longer)) : KeepLast(longer)[i].kind # "support" => KeepLast(longer)[i] \in stored
    BY <2>2, KeepLastFacts
  <2>4. \A e \in Logs : log'[e] = IF e = d THEN KeepLast(longer) ELSE log[e]
    BY <1>6, <2>1 DEF AddDeviceEvent, TypeOK, longer
  <2>5. stored' = stored /\ pc'[h] = "idle" /\ \A g \in Handlers \ {h} : pc'[g] = pc[g] /\ report'[g] = report[g]
    BY <1>6 DEF AddDeviceEvent, TypeOK
  <2>6. LoggedStatsAreStored'
    BY <2>3, <2>4, <2>5 DEF StoredInv, LoggedStatsAreStored
  <2> QED
    BY <2>5, <2>6 DEF StoredInv
<1> QED
  BY <1>1, <1>2, <1>3, <1>4, <1>5, <1>6 DEF Next, Handle

(* Statistics that a speaker's event log shows are on disk: the handlers   *)
(* save before they log, and a failed save or a restart logs nothing.      *)
THEOREM LoggedStatsStayStored == Spec => []LoggedStatsAreStored
<1>1. Init => StoredInv
  BY DEF Init, StoredInv, LoggedStatsAreStored
<1>2. TypeOK /\ StoredInv /\ [Next]_vars => StoredInv'
  BY NextStored
<1>3. StoredInv => LoggedStatsAreStored
  BY DEF StoredInv
<1> QED
  BY <1>1, <1>2, <1>3, EventLogTypeCorrect, PTL DEF Spec
=============================================================================
