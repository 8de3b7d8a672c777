------------------------------ MODULE Gateway -------------------------------
(***************************************************************************)
(* The Go service as a gateway: requests that it passes on to a speaker's  *)
(* original servers (paths under /proxy) or to the Python service (every   *)
(* path it does not know), with what it logs of them, and the playback     *)
(* requests that it answers from TuneIn.                                   *)
(*                                                                         *)
(* The two switches of the log are plain fields that the web page sets one *)
(* after the other, without a lock, while requests are on their way.       *)
(* Requests share nothing else.                                            *)
(***************************************************************************)
EXTENDS Naturals, Sequences, FiniteSets

CONSTANTS
  Requests,     \* requests that may be in flight at once
  Admins,       \* web pages that may post settings at once
  Bodies,       \* bodies that are passed on
  Stations,     \* addresses of streams that TuneIn knows
  StreamLists,  \* answers of TuneIn's Tune.ashx: sequences of lines
  Silent        \* remote servers that accept a connection and never answer

Remotes == {"upstream", "python", "tunein"}
Body == [text : BOOLEAN, declared : BOOLEAN, cut : BOOLEAN]
WholeBody == [text |-> TRUE, declared |-> TRUE, cut |-> FALSE]
Address == Stations \cup {"custom", ""}
Line == [url : Address, cr : BOOLEAN]
Settings == [redact : BOOLEAN, logBody : BOOLEAN]

ASSUME GatewayAssumption ==
  /\ Bodies \subseteq Body /\ WholeBody \in Bodies
  /\ StreamLists \subseteq Seq(Line)
  /\ Silent \subseteq Remotes

VARIABLES
  settings,   \* proxyRedact and proxyLogBody
  posting,    \* the settings a page has posted, and how far they are stored
  pc,         \* where each request is
  kind,       \* its handler
  lp,         \* the logging switches it read
  body,       \* the body being passed on
  answer,     \* what it was answered
  clear,      \* history: a sensitive header of it was logged in clear
  wasOff,     \* history: redaction was off at some moment of it
  wasLogging  \* history: body logging was on at some moment of it

settingVars == <<settings, posting>>
requestVars == <<pc, kind, lp, body, answer>>
seenVars == <<clear, wasOff, wasLogging>>
gatewayVars == <<settingVars, requestVars, seenVars>>

-----------------------------------------------------------------------------
(* The methods of the routes that matter here.  A path that has none goes  *)
(* to Python; a method that the path does not have is answered 405.        *)
Routes ==
  [proxy |-> {"GET"}, services |-> {"GET"}, station |-> {"GET"}, episode |-> {"GET"},
   episodes |-> {"GET"}, orion |-> {"POST"}]

(* Faulty variant: there is no route for the other paths. *)
DispatchByPath(method, path) ==
  IF path \notin DOMAIN Routes \/ method \in Routes[path] THEN path ELSE "notAllowed"

Dispatch(method, path) ==
  IF path \notin DOMAIN Routes THEN "python"
  ELSE IF method \in Routes[path] THEN path ELSE "notAllowed"

(* Whom a handler has to ask. *)
RemoteOf(k) ==
  CASE k = "proxy" -> "upstream"
    [] k = "python" -> "python"
    [] OTHER -> "tunein"

NoLine == [url |-> "", cr |-> FALSE]
Answer == [status : Nat, forged : BOOLEAN, audio : Line, streams : Seq(Address)]
NoAnswer == [status |-> 0, forged |-> FALSE, audio |-> NoLine, streams |-> <<>>]
Plain(status) == [NoAnswer EXCEPT !.status = status]

Stored == [step |-> "idle", want |-> [redact |-> TRUE, logBody |-> FALSE]]

Finish(r, a) ==
  /\ pc' = [pc EXCEPT ![r] = "idle"]
  /\ answer' = [answer EXCEPT ![r] = a]
  /\ body' = [body EXCEPT ![r] = WholeBody]
  /\ UNCHANGED <<kind, lp>>

Goto(r, step) ==
  /\ pc' = [pc EXCEPT ![r] = step]
  /\ UNCHANGED <<kind, lp, body, answer>>

Init ==
  /\ settings \in Settings
  /\ posting = [a \in Admins |-> Stored]
  /\ pc = [r \in Requests |-> "idle"]
  /\ kind = [r \in Requests |-> "python"]
  /\ lp = [r \in Requests |-> settings]
  /\ body = [r \in Requests |-> WholeBody]
  /\ answer = [r \in Requests |-> NoAnswer]
  /\ clear = [r \in Requests |-> FALSE]
  /\ wasOff = [r \in Requests |-> FALSE]
  /\ wasLogging = [r \in Requests |-> FALSE]

-----------------------------------------------------------------------------
(* handleUpdateProxySettings: two assignments. *)
Post(a, want) ==
  /\ posting[a].step = "idle"
  /\ posting' = [posting EXCEPT ![a] = [step |-> "redact", want |-> want]]
  /\ UNCHANGED <<settings, requestVars, seenVars>>

(* Every request in flight sees the switches change. *)
Store(changed) ==
  /\ settings' = changed
  /\ wasOff' = [r \in Requests |-> wasOff[r] \/ (pc[r] # "idle" /\ ~changed.redact)]
  /\ wasLogging' = [r \in Requests |-> wasLogging[r] \/ (pc[r] # "idle" /\ changed.logBody)]
  /\ UNCHANGED <<requestVars, clear>>

StoreRedact(a) ==
  /\ posting[a].step = "redact"
  /\ Store([settings EXCEPT !.redact = posting[a].want.redact])
  /\ posting' = [posting EXCEPT ![a].step = "logBody"]

StoreLogBody(a) ==
  /\ posting[a].step = "logBody"
  /\ Store([settings EXCEPT !.logBody = posting[a].want.logBody])
  /\ posting' = [posting EXCEPT ![a] = Stored]

-----------------------------------------------------------------------------
(* A request arrives and is dispatched.                                    *)
Arrive(r, method, path, b) ==
  LET k == Dispatch(method, path) IN
  /\ pc[r] = "idle"
  /\ kind' = [kind EXCEPT ![r] = k]
  /\ k \in {"proxy", "python"} \/ b = WholeBody      \* the others look at none
  /\ body' = [body EXCEPT ![r] = b]
  /\ answer' = [answer EXCEPT ![r] = NoAnswer]
  /\ clear' = [clear EXCEPT ![r] = FALSE]
  /\ wasOff' = [wasOff EXCEPT ![r] = ~settings.redact]
  /\ wasLogging' = [wasLogging EXCEPT ![r] = settings.logBody]
  /\ pc' = [pc EXCEPT ![r] = CASE k \in {"proxy", "python"} -> "readRedact"
                               [] k \in {"station", "episode"} -> "describe"
                               [] OTHER -> "local"]
  /\ UNCHANGED <<lp, settingVars>>

(* chi answers for a path that has no such method. *)
MethodNotAllowed(r) ==
  /\ pc[r] = "local"
  /\ kind[r] = "notAllowed"
  /\ Finish(r, Plain(405))
  /\ UNCHANGED <<settingVars, seenVars>>

(* The list of services is a file that may be missing. *)
BMXRegistry(r) ==
  /\ pc[r] = "local"
  /\ kind[r] = "services"
  /\ \E status \in {200, 500} : Finish(r, Plain(status))
  /\ UNCHANGED <<settingVars, seenVars>>

(* The page of a podcast: its name may not decode. *)
TuneInPodcastInfo(r) ==
  /\ pc[r] = "local"
  /\ kind[r] = "episodes"
  /\ \E status \in {200, 500} : Finish(r, Plain(status))
  /\ UNCHANGED <<settingVars, seenVars>>

(* A custom stream is played as it is given, even without a URL; what does *)
(* not decode is refused.                                                  *)
PlayCustomStream(r) ==
  /\ pc[r] = "local"
  /\ kind[r] = "orion"
  /\ \/ Finish(r, Plain(500))
     \/ \E url \in {"custom", ""} :
          Finish(r, [status |-> 200, forged |-> FALSE,
                     audio |-> [url |-> url, cr |-> FALSE], streams |-> <<url>>])
  /\ UNCHANGED <<settingVars, seenVars>>

(* A path without a URL, or with one that does not parse. *)
BadTarget(r) ==
  /\ pc[r] = "readRedact"
  /\ kind[r] = "proxy"
  /\ Finish(r, Plain(400))
  /\ UNCHANGED <<settingVars, seenVars>>

(* Faulty variant: the logging proxy is made once, at the start. *)
ReadRedactOnce(r) ==
  /\ pc[r] \in {"readRedact", "rereadRedact"}
  /\ pc' = [pc EXCEPT ![r] = IF @ = "readRedact" THEN "readLogBody" ELSE "rereadLogBody"]
  /\ UNCHANGED <<kind, lp, body, answer, settingVars, seenVars>>

(* NewLoggingProxy(target, redact), and then LogBody. *)
ReadRedact(r) ==
  /\ pc[r] \in {"readRedact", "rereadRedact"}
  /\ lp' = [lp EXCEPT ![r].redact = settings.redact]
  /\ pc' = [pc EXCEPT ![r] = IF @ = "readRedact" THEN "readLogBody" ELSE "rereadLogBody"]
  /\ UNCHANGED <<kind, body, answer, settingVars, seenVars>>

ReadLogBody(r) ==
  /\ pc[r] \in {"readLogBody", "rereadLogBody"}
  /\ lp' = [lp EXCEPT ![r].logBody = settings.logBody]
  /\ pc' = [pc EXCEPT ![r] = IF @ = "readLogBody" THEN "director" ELSE "modify"]
  /\ UNCHANGED <<kind, body, answer, settingVars, seenVars>>

(* Faulty variant: every body is read ahead. *)
ReadAheadAlways(b, log) == TRUE

(* shouldLogBody, and LogBody: the whole body is read, and replaced by     *)
(* what could be read; an error is ignored.                                *)
ReadAhead(b, log) == log.logBody /\ b.text

(* What a body that was cut looks like to the other side: with its length  *)
(* declared the rest is missed, and without it the end is, unless the body *)
(* was read ahead.                                                         *)
Forged(b, log) == b.cut /\ ~b.declared /\ ReadAhead(b, log)
Broken(b, log) == b.cut /\ ~Forged(b, log)

(* The headers go to the log; every message passed on may have a sensitive *)
(* one.                                                                    *)
Logged(r) == clear' = [clear EXCEPT ![r] = clear[r] \/ ~lp[r].redact]

(* The director logs the request and the transport sends it; a body that   *)
(* breaks off ends the request.                                            *)
Director(r) ==
  /\ pc[r] = "director"
  /\ Logged(r)
  /\ IF Broken(body[r], lp[r])
     THEN Finish(r, Plain(502))
     ELSE /\ pc' = [pc EXCEPT ![r] = "await"]
          /\ answer' = [answer EXCEPT ![r].forged = Forged(body[r], lp[r])]
          /\ UNCHANGED <<kind, lp, body>>
  /\ UNCHANGED <<settingVars, wasOff, wasLogging>>

(* The remote answers: /proxy/ goes on with the switches it has, the way   *)
(* to Python reads them again.                                             *)
Reply(r, b) ==
  /\ pc[r] = "await"
  /\ RemoteOf(kind[r]) \notin Silent
  /\ body' = [body EXCEPT ![r] = b]
  /\ pc' = [pc EXCEPT ![r] = IF kind[r] = "proxy" THEN "modify" ELSE "rereadRedact"]
  /\ UNCHANGED <<kind, lp, answer, settingVars, seenVars>>

(* Any remote may be unreachable or break the connection. *)
Unreachable(r) ==
  /\ pc[r] \in {"await", "describe", "stream"}
  /\ RemoteOf(kind[r]) \notin Silent
  /\ Finish(r, Plain(IF pc[r] = "await" THEN 502 ELSE 500))
  /\ UNCHANGED <<settingVars, seenVars>>

(* ModifyResponse logs the answer, and its body is copied to the client: a *)
(* broken one aborts the connection.                                       *)
ModifyResponse(r) ==
  /\ pc[r] = "modify"
  /\ Logged(r)
  /\ IF Broken(body[r], lp[r])
     THEN Finish(r, Plain(0))
     ELSE Finish(r, [NoAnswer EXCEPT !.status = 200,
                                     !.forged = answer[r].forged \/ Forged(body[r], lp[r])])
  /\ UNCHANGED <<settingVars, wasOff, wasLogging>>

-----------------------------------------------------------------------------
(* TuneInPlayback and TuneInPlaybackPodcast: describe.ashx first; what it  *)
(* answers must be XML, whatever the status.                               *)
Describe(r) ==
  /\ pc[r] = "describe"
  /\ "tunein" \notin Silent
  /\ \/ Goto(r, "stream")
     \/ Finish(r, Plain(500))
  /\ UNCHANGED <<settingVars, seenVars>>

Text(line) == line.url
NotBlank(line) == line.url # ""

(* Faulty variant: blank lines are kept. *)
StreamURLsWithBlanks(lines) == [i \in 1 .. Len(lines) |-> Text(lines[i])]

(* The loop over the lines, which keeps those that are not blank. *)
NotBlankLines(lines) ==
  LET kept[i \in 0 .. Len(lines)] ==
        IF i = 0 THEN <<>>
        ELSE IF NotBlank(lines[i]) THEN Append(kept[i - 1], lines[i]) ELSE kept[i - 1]
  IN  kept[Len(lines)]

(* They are trimmed. *)
StreamURLs(lines) ==
  LET urls == NotBlankLines(lines) IN [i \in 1 .. Len(urls) |-> Text(urls[i])]

(* The first line of the trimmed text, untrimmed itself: a carriage return *)
(* stays at its end, unless it is the last line too.                       *)
FirstLine(lines) ==
  LET urls == NotBlankLines(lines)
  IN  IF Len(urls) > 1 THEN urls[1] ELSE [urls[1] EXCEPT !.cr = FALSE]

(* Faulty variant: without a stream the whole is tried again. *)
TuneUntilFound(r, lines) ==
  /\ pc[r] = "stream"
  /\ "tunein" \notin Silent
  /\ IF \E i \in 1 .. Len(lines) : NotBlank(lines[i])
     THEN Finish(r, [status |-> 200, forged |-> FALSE,
                     audio |-> FirstLine(lines), streams |-> StreamURLs(lines)])
     ELSE Goto(r, "describe")
  /\ UNCHANGED <<settingVars, seenVars>>

(* Tune.ashx: one stream per line, or none at all. *)
Tune(r, lines) ==
  /\ pc[r] = "stream"
  /\ "tunein" \notin Silent
  /\ IF \E i \in 1 .. Len(lines) : NotBlank(lines[i])
     THEN Finish(r, [status |-> 200, forged |-> FALSE,
                     audio |-> FirstLine(lines), streams |-> StreamURLs(lines)])
     ELSE Finish(r, Plain(500))
  /\ UNCHANGED <<settingVars, seenVars>>

-----------------------------------------------------------------------------
(* What the service and the remotes do about a request. *)
Serve(r) ==
  \/ MethodNotAllowed(r) \/ BMXRegistry(r) \/ TuneInPodcastInfo(r) \/ PlayCustomStream(r)
  \/ BadTarget(r) \/ ReadRedact(r) \/ ReadLogBody(r)
  \/ Director(r) \/ ModifyResponse(r)
  \/ Unreachable(r) \/ Describe(r)
  \/ \E b \in Bodies : Reply(r, b)
  \/ \E lines \in StreamLists : Tune(r, lines)

Methods == {"GET", "POST"}
Paths == DOMAIN Routes \cup {"unknown"}

Next ==
  \/ \E r \in Requests : Serve(r)
  \/ \E r \in Requests, m \in Methods, p \in Paths, b \in Bodies : Arrive(r, m, p, b)
  \/ \E a \in Admins : StoreRedact(a) \/ StoreLogBody(a) \/ \E want \in Settings : Post(a, want)

Spec == Init /\ [][Next]_gatewayVars

(* Goroutines are scheduled, and remotes that are not silent answer or     *)
(* close the connection.                                                   *)
FairSpec == Spec /\ \A r \in Requests : WF_gatewayVars(Serve(r))

-----------------------------------------------------------------------------
(* Type invariant. *)
Handlers == DOMAIN Routes \cup {"python", "notAllowed"}
Steps == {"idle", "local", "readRedact", "readLogBody", "director", "await", "rereadRedact",
          "rereadLogBody", "modify", "describe", "stream"}
TypeOK ==
  /\ settings \in Settings
  /\ posting \in [Admins -> [step : {"idle", "redact", "logBody"}, want : Settings]]
  /\ pc \in [Requests -> Steps]
  /\ kind \in [Requests -> Handlers]
  /\ lp \in [Requests -> Settings]
  /\ body \in [Requests -> Body]
  /\ answer \in [Requests -> Answer]
  /\ clear \in [Requests -> BOOLEAN]
  /\ wasOff \in [Requests -> BOOLEAN]
  /\ wasLogging \in [Requests -> BOOLEAN]

(* A sensitive header is logged in clear only if redaction was off at some *)
(* moment while the request was served: neither the switches that /proxy/  *)
(* keeps from its beginning nor settings stored in between leak those of a *)
(* request that came after redaction had been switched on.                 *)
ClearOnlyWhileOff ==
  \A r \in Requests : clear[r] => wasOff[r]

(* A body that broke off is taken for complete only if body logging was on *)
(* at some moment while the request was served: passing on a message does  *)
(* not change it, unless it is logged.                                     *)
ForgedOnlyWhileLogging ==
  \A r \in Requests : answer[r].forged => wasLogging[r]

(* A playback answer from TuneIn has streams, none of them blank, and the  *)
(* one the speaker starts with is the first of them (up to a carriage      *)
(* return).                                                                *)
PlaysAStream ==
  \A r \in Requests :
    kind[r] \in {"station", "episode"} /\ answer[r].status = 200 =>
      /\ answer[r].streams # <<>>
      /\ \A i \in 1 .. Len(answer[r].streams) : answer[r].streams[i] # ""
      /\ answer[r].audio.url = answer[r].streams[1]

(* Every request is answered, if no remote server stays silent: there is   *)
(* no timeout that would end the wait.                                     *)
RequestsAnswered ==
  \A r \in Requests : pc[r] # "idle" ~> pc[r] = "idle"
=============================================================================
