--------------------------- MODULE Gateway_proofs ---------------------------
(***************************************************************************)
(* Proofs about Gateway: type correctness, what reaches the log and what a *)
(* logged body becomes, that a playback answer starts with its first       *)
(* stream, and that the switches end up as they were posted.               *)
(***************************************************************************)
EXTENDS Gateway, NaturalsInduction, WellFoundedInduction, TLAPS

-----------------------------------------------------------------------------
(* A function on 1 .. m is a sequence of length m. *)
LEMMA FunctionIsSeq ==
  ASSUME NEW S, NEW m \in Nat, NEW f, f \in [1 .. m -> S]
  PROVE  f \in Seq(S) /\ Len(f) = m
  BY SMT

(* Induction for a set of numbers, from the well-founded order on Nat. *)
LEMMA SetInduction ==
  ASSUME NEW S, 0 \in S, \A n \in Nat : n \in S => n + 1 \in S
  PROVE  Nat \subseteq S
<1> DEFINE Less == {ss \in Nat \X Nat : ss[1] < ss[2]}
<1> DEFINE Missing == Nat \ S
<1>1. IsWellFoundedOn(Less, Nat)
  BY NatLessThanWellFounded, Zenon DEF OpToRel
<1>2. \A i, j \in Nat : <<j, i>> \in Less <=> j < i
  OBVIOUS
<1> HIDE DEF Less
<1>3. SUFFICES ASSUME Missing # {} PROVE FALSE
  OBVIOUS
<1>4. Missing \in SUBSET Nat
  OBVIOUS
<1>5. \E i \in Missing : \A j \in Missing : ~(<<j, i>> \in Less)
  BY <1>1, <1>3, <1>4, WFMin
<1>6. PICK i \in Missing : \A j \in Missing : ~(<<j, i>> \in Less)
  BY <1>5
<1>7. i \in Nat /\ i \notin S /\ i # 0
  BY <1>6
<1>8. i - 1 \in Nat /\ i - 1 < i /\ (i - 1) + 1 = i
  BY <1>7
<1>9. i - 1 \in Missing
  BY <1>7, <1>8
<1>10. <<i - 1, i>> \in Less
  BY <1>2, <1>7, <1>8
<1> QED
  BY <1>6, <1>9, <1>10

(* The loop of TuneInPlayback, as a function of the number of lines it has *)
(* looked at.                                                              *)
Loop(lines, kept, n) ==
  kept = [i \in 0 .. n |->
            IF i = 0 THEN <<>>
            ELSE IF NotBlank(lines[i]) THEN Append(kept[i - 1], lines[i]) ELSE kept[i - 1]]

(* What the loop has kept: lines, none of them blank, and some if there is *)
(* one that is not.                                                        *)
KeptSoFar(lines, q, n) ==
  /\ q \in Seq(Line)
  /\ \A i \in 1 .. Len(q) : NotBlank(q[i])
  /\ (\E i \in 1 .. n : NotBlank(lines[i])) => q # <<>>

LEMMA KeptStep ==
  ASSUME NEW lines \in Seq(Line), NEW n \in Nat, n < Len(lines), NEW q, KeptSoFar(lines, q, n)
  PROVE  KeptSoFar(lines, IF NotBlank(lines[n + 1]) THEN Append(q, lines[n + 1]) ELSE q, n + 1)
<1>1. lines[n + 1] \in Line /\ q \in Seq(Line)
  BY DEF KeptSoFar
<1>2. CASE NotBlank(lines[n + 1])
  <2> DEFINE p == Append(q, lines[n + 1])
  <2>1. p \in Seq(Line) /\ Len(p) = Len(q) + 1 /\ p[Len(q) + 1] = lines[n + 1]
    BY <1>1
  <2>2. \A i \in 1 .. Len(q) : p[i] = q[i]
    BY <1>1
  <2>3. \A i \in 1 .. Len(p) : NotBlank(p[i])
    BY <1>1, <1>2, <2>1, <2>2 DEF KeptSoFar
  <2>4. p # <<>>
    BY <1>1, <2>1
  <2> QED
    BY <1>2, <2>1, <2>3, <2>4 DEF KeptSoFar
<1>3. CASE ~NotBlank(lines[n + 1])
  <2>1. \A i \in 1 .. n + 1 : i \in 1 .. n \/ i = n + 1
    OBVIOUS
  <2>2. (\E i \in 1 .. n + 1 : NotBlank(lines[i])) => \E i \in 1 .. n : NotBlank(lines[i])
    BY <1>3, <2>1
  <2> QED
    BY <1>3, <2>2 DEF KeptSoFar
<1> QED
  BY <1>2, <1>3

(* The loop has a result, by induction on the lines it looks at. *)
LEMMA LoopExists ==
  ASSUME NEW lines \in Seq(Line)
  PROVE  \E kept : Loop(lines, kept, Len(lines))
<1> DEFINE S == {n \in Nat : n <= Len(lines) => \E kept : Loop(lines, kept, n)}
<1>1. 0 \in S
  <2> DEFINE k == [i \in 0 .. 0 |-> <<>>]
  <2>1. Loop(lines, k, 0)
    BY DEF Loop
  <2> QED
    BY <2>1
<1>2. ASSUME NEW n \in Nat, n \in S PROVE n + 1 \in S
  <2> SUFFICES ASSUME n + 1 <= Len(lines) PROVE \E kept : Loop(lines, kept, n + 1)
    BY <1>2
  <2>1. PICK kept : Loop(lines, kept, n)
    BY <1>2
  <2> DEFINE more == [i \in 0 .. n + 1 |->
                        IF i <= n THEN kept[i]
                        ELSE IF NotBlank(lines[i]) THEN Append(kept[i - 1], lines[i]) ELSE kept[i - 1]]
  <2>2. \A i \in 0 .. n : more[i] = kept[i]
    OBVIOUS
  <2>3. \A i \in 0 .. n + 1 : more[i] =
          IF i = 0 THEN <<>>
          ELSE IF NotBlank(lines[i]) THEN Append(more[i - 1], lines[i]) ELSE more[i - 1]
    <3> TAKE i \in 0 .. n + 1
    <3>1. CASE i = 0
      BY <2>1, <2>2, <3>1 DEF Loop
    <3>2. CASE i \in 1 .. n
      <4>1. i - 1 \in 0 .. n /\ i \in 0 .. n /\ i # 0
        BY <3>2
      <4>2. kept[i] = IF NotBlank(lines[i]) THEN Append(kept[i - 1], lines[i]) ELSE kept[i - 1]
        BY <2>1, <4>1 DEF Loop
      <4>3. more[i] = kept[i] /\ more[i - 1] = kept[i - 1]
        BY <2>2, <4>1
      <4> QED
        BY <4>1, <4>2, <4>3
    <3>3. CASE i = n + 1
      <4>1. i - 1 \in 0 .. n /\ ~(i <= n)
        BY <3>3
      <4>2. more[i - 1] = kept[i - 1]
        BY <2>2, <4>1
      <4> QED
        BY <3>3, <4>1, <4>2
    <3> QED
      BY <3>1, <3>2, <3>3
  <2>4. DOMAIN more = 0 .. n + 1 /\ more = [i \in 0 .. n + 1 |-> more[i]]
    OBVIOUS
  <2> HIDE DEF more
  <2>5. Loop(lines, more, n + 1)
    BY <2>3, <2>4 DEF Loop
  <2> QED
    BY <2>5
<1> HIDE DEF S
<1>3. Nat \subseteq S
  BY <1>1, <1>2, SetInduction
<1>4. Len(lines) \in S
  BY <1>3
<1> QED
  BY <1>4 DEF S

(* The lines that TuneInPlayback keeps. *)
LEMMA NotBlankLinesFacts ==
  ASSUME NEW lines \in Seq(Line)
  PROVE  KeptSoFar(lines, NotBlankLines(lines), Len(lines))
<1> DEFINE N == Len(lines)
<1> DEFINE kept == CHOOSE k : Loop(lines, k, N)
<1>1. NotBlankLines(lines) = kept[N]
  BY DEF NotBlankLines, Loop
<1>2. Loop(lines, kept, N)
  BY LoopExists
<1> HIDE DEF kept
<1>3. N \in Nat
  OBVIOUS
<1> DEFINE S == {n \in Nat : n <= N => KeptSoFar(lines, kept[n], n)}
<1>4. 0 \in S
  <2>1. kept[0] = <<>>
    BY <1>2, <1>3 DEF Loop
  <2>2. Len(<<>>) = 0 /\ 1 .. 0 = {} /\ <<>> \in Seq(Line)
    OBVIOUS
  <2>3. KeptSoFar(lines, <<>>, 0)
    BY <2>2 DEF KeptSoFar
  <2> QED
    BY <2>1, <2>3
<1>5. ASSUME NEW n \in Nat, n \in S PROVE n + 1 \in S
  <2> SUFFICES ASSUME n + 1 <= N PROVE KeptSoFar(lines, kept[n + 1], n + 1)
    OBVIOUS
  <2>1. KeptSoFar(lines, kept[n], n) /\ n < N
    BY <1>3, <1>5
  <2>2. n + 1 \in 0 .. N /\ n + 1 # 0 /\ (n + 1) - 1 = n
    BY <1>3
  <2>3. kept[n + 1] = IF NotBlank(lines[n + 1]) THEN Append(kept[n], lines[n + 1]) ELSE kept[n]
    BY <1>2, <2>2 DEF Loop
  <2> QED
    BY <2>1, <2>3, KeptStep
<1> HIDE DEF S
<1>6. N \in S
  BY <1>3, <1>4, <1>5, SetInduction
<1> QED
  BY <1>1, <1>6 DEF S

(* What a playback answer is made of. *)
LEMMA StreamFacts ==
  ASSUME NEW lines \in Seq(Line), \E i \in 1 .. Len(lines) : NotBlank(lines[i])
  PROVE  /\ FirstLine(lines) \in Line
         /\ StreamURLs(lines) \in Seq(Address)
         /\ StreamURLs(lines) # <<>>
         /\ \A i \in 1 .. Len(StreamURLs(lines)) : StreamURLs(lines)[i] # ""
         /\ FirstLine(lines).url = StreamURLs(lines)[1]
<1> DEFINE q == NotBlankLines(lines)
<1>1. q \in Seq(Line) /\ q # <<>> /\ \A i \in 1 .. Len(q) : NotBlank(q[i])
  BY NotBlankLinesFacts DEF KeptSoFar
<1>2. FirstLine(lines) = IF Len(q) > 1 THEN q[1] ELSE [q[1] EXCEPT !.cr = FALSE]
  BY DEF FirstLine
<1>3. StreamURLs(lines) = [i \in 1 .. Len(q) |-> q[i].url]
  BY DEF StreamURLs, Text
<1> HIDE DEF q
<1>4. Len(q) \in Nat /\ Len(q) >= 1 /\ q[1] \in Line
  BY <1>1
<1>5. \A i \in 1 .. Len(q) : q[i].url \in Address /\ q[i].url # ""
  <2>1. \A l \in Line : l.url \in Address
    BY DEF Line
  <2>2. \A i \in 1 .. Len(q) : q[i] \in Line
    BY <1>1
  <2> QED
    BY <1>1, <2>1, <2>2 DEF NotBlank
<1>6. FirstLine(lines) \in Line /\ FirstLine(lines).url = q[1].url
  BY <1>2, <1>4 DEF Line
<1>7. StreamURLs(lines) \in Seq(Address) /\ Len(StreamURLs(lines)) = Len(q)
  <2>1. StreamURLs(lines) \in [1 .. Len(q) -> Address]
    BY <1>3, <1>5
  <2> QED
    BY <1>4, <2>1, FunctionIsSeq
<1>8. 1 \in 1 .. Len(q) /\ StreamURLs(lines)[1] = q[1].url
  BY <1>3, <1>4
<1>9. \A i \in 1 .. Len(q) : StreamURLs(lines)[i] = q[i].url
  BY <1>3
<1>10. StreamURLs(lines) # <<>>
  BY <1>4, <1>7
<1> QED
  BY <1>5, <1>6, <1>7, <1>8, <1>9, <1>10

-----------------------------------------------------------------------------
(* The type invariant in parts: what the pages, the requests and the       *)
(* history variables hold.                                                 *)
PostingType == [step : {"idle", "redact", "logBody"}, want : Settings]

SettingsType == settings \in Settings /\ posting \in [Admins -> PostingType]

RequestsType ==
  /\ pc \in [Requests -> Steps] /\ kind \in [Requests -> Handlers] /\ lp \in [Requests -> Settings]
  /\ body \in [Requests -> Body] /\ answer \in [Requests -> Answer]

SeenType ==
  clear \in [Requests -> BOOLEAN] /\ wasOff \in [Requests -> BOOLEAN] /\ wasLogging \in [Requests -> BOOLEAN]

LEMMA TypeParts == TypeOK <=> SettingsType /\ RequestsType /\ SeenType
  BY DEF TypeOK, SettingsType, RequestsType, SeenType, PostingType

LEMMA TypePartsNext == TypeOK' <=> SettingsType' /\ RequestsType' /\ SeenType'
  BY DEF TypeOK, SettingsType, RequestsType, SeenType, PostingType

LEMMA StepNames ==
  /\ Steps = {"idle", "local", "readRedact", "readLogBody", "director", "await", "rereadRedact",
              "rereadLogBody", "modify", "describe", "stream"}
  BY DEF Steps

LEMMA PlainAnswers ==
  /\ NoAnswer \in Answer
  /\ \A n \in Nat : Plain(n) \in Answer /\ Plain(n).status = n /\ Plain(n).forged = FALSE
<1>1. <<>> \in Seq(Address)
  OBVIOUS
<1> QED
  BY <1>1 DEF NoAnswer, Answer, NoLine, Line, Address, Plain

LEMMA ForgedAnswers ==
  /\ \A a \in Answer, b \in BOOLEAN : [a EXCEPT !.forged = b] \in Answer
  /\ \A b \in BOOLEAN : [NoAnswer EXCEPT !.status = 200, !.forged = b] \in Answer
<1>1. <<>> \in Seq(Address)
  OBVIOUS
<1>2. ASSUME NEW a \in Answer, NEW b \in BOOLEAN PROVE [a EXCEPT !.forged = b] \in Answer
  <2> DEFINE c == [a EXCEPT !.forged = b]
  <2>1. a.status \in Nat /\ a.audio \in Line /\ a.streams \in Seq(Address)
    BY DEF Answer
  <2>2. c = [status |-> a.status, forged |-> b, audio |-> a.audio, streams |-> a.streams]
    BY DEF Answer
  <2> HIDE DEF c
  <2>3. c \in Answer
    BY <2>1, <2>2 DEF Answer
  <2> QED
    BY <2>3 DEF c
<1>3. ASSUME NEW b \in BOOLEAN PROVE [NoAnswer EXCEPT !.status = 200, !.forged = b] \in Answer
  <2>1. Plain(200) \in Answer /\ [Plain(200) EXCEPT !.forged = b] = [NoAnswer EXCEPT !.status = 200, !.forged = b]
    BY PlainAnswers DEF Plain, NoAnswer
  <2> QED
    BY <1>2, <2>1
<1> QED
  BY <1>2, <1>3

(* An answer that plays something. *)
Playing(l, q) == [status |-> 200, forged |-> FALSE, audio |-> l, streams |-> q]

LEMMA PlayingAnswers ==
  ASSUME NEW l \in Line, NEW q \in Seq(Address)
  PROVE  /\ Playing(l, q) \in Answer
         /\ Playing(l, q).forged = FALSE /\ Playing(l, q).audio = l /\ Playing(l, q).streams = q
<1>1. DOMAIN Playing(l, q) = {"status", "forged", "audio", "streams"}
  BY DEF Playing
<1>2. /\ Playing(l, q).status = 200 /\ Playing(l, q).forged = FALSE
      /\ Playing(l, q).audio = l /\ Playing(l, q).streams = q
  BY DEF Playing
<1>3. Playing(l, q) \in Answer
  BY DEF Playing, Answer
<1> QED
  BY <1>2, <1>3

LEMMA CustomLines ==
  \A url \in {"custom", ""} : [url |-> url, cr |-> FALSE] \in Line /\ <<url>> \in Seq(Address)
<1>1. "custom" \in Address /\ "" \in Address
  BY DEF Address
<1>2. \A u \in Address : [url |-> u, cr |-> FALSE] \in Line
  BY DEF Line
<1>3. \A u \in Address : <<u>> \in Seq(Address)
  OBVIOUS
<1> QED
  BY <1>1, <1>2, <1>3

LEMMA BodyFacts == WholeBody \in Body /\ Bodies \subseteq Body
  BY GatewayAssumption

LEMMA HandlerFacts ==
  \A m \in Methods, p \in Paths : Dispatch(m, p) \in Handlers
  BY DEF Dispatch, Handlers, Methods, Paths, Routes

LEMMA FinishRequests ==
  ASSUME RequestsType, NEW r \in Requests, NEW a \in Answer, Finish(r, a)
  PROVE  RequestsType'
  BY StepNames, BodyFacts DEF RequestsType, Finish

LEMMA ForgedType == \A b \in Body, log \in Settings : Forged(b, log) \in BOOLEAN
  BY DEF Forged, ReadAhead, Body, Settings

LEMMA ServeRequests ==
  ASSUME TypeOK, NEW r \in Requests, Serve(r)
  PROVE  RequestsType'
<1> USE StepNames
<1>0. RequestsType
  BY TypeParts
<1>1. CASE MethodNotAllowed(r) \/ BMXRegistry(r) \/ TuneInPodcastInfo(r) \/ BadTarget(r)
  <2>1. \E n \in Nat : Finish(r, Plain(n))
    BY <1>1 DEF MethodNotAllowed, BMXRegistry, TuneInPodcastInfo, BadTarget
  <2> QED
    BY <1>0, <2>1, PlainAnswers, FinishRequests
<1>2. CASE PlayCustomStream(r)
  <2>1. \A url \in {"custom", ""} : [url |-> url, cr |-> FALSE] \in Line /\ <<url>> \in Seq(Address)
    BY CustomLines
  <2>2. CASE Finish(r, Plain(500))
    BY <1>0, <2>2, PlainAnswers, FinishRequests
  <2>3. CASE \E url \in {"custom", ""} : Finish(r, Playing([url |-> url, cr |-> FALSE], <<url>>))
    <3>1. PICK url \in {"custom", ""} : Finish(r, Playing([url |-> url, cr |-> FALSE], <<url>>))
      BY <2>3
    <3>2. Playing([url |-> url, cr |-> FALSE], <<url>>) \in Answer
      BY <2>1, PlayingAnswers
    <3> QED
      BY <1>0, <3>1, <3>2, FinishRequests
  <2> QED
    BY <1>2, <2>2, <2>3 DEF PlayCustomStream, Playing
<1>3. CASE ReadRedact(r)
  <2>1. lp' \in [Requests -> Settings]
    BY <1>0, <1>3 DEF ReadRedact, TypeOK, Settings
  <2> QED
    BY <1>0, <1>3, <2>1 DEF ReadRedact, RequestsType
<1>4. CASE ReadLogBody(r)
  <2>1. lp' \in [Requests -> Settings]
    BY <1>0, <1>4 DEF ReadLogBody, TypeOK, Settings
  <2> QED
    BY <1>0, <1>4, <2>1 DEF ReadLogBody, RequestsType
<1>5. CASE Director(r)
  <2>1. CASE Finish(r, Plain(502))
    BY <1>0, <2>1, PlainAnswers, FinishRequests
  <2>2. CASE ~Finish(r, Plain(502))
    <3>1. answer[r] \in Answer /\ Forged(body[r], lp[r]) \in BOOLEAN
      BY <1>0, ForgedType DEF RequestsType
    <3>2. answer' = [answer EXCEPT ![r] = [answer[r] EXCEPT !.forged = Forged(body[r], lp[r])]]
      BY <1>5, <2>2 DEF Director
    <3>3. [answer[r] EXCEPT !.forged = Forged(body[r], lp[r])] \in Answer
      BY <3>1, ForgedAnswers
    <3>4. answer' \in [Requests -> Answer]
      BY <1>0, <3>2, <3>3 DEF RequestsType
    <3> QED
      BY <1>0, <1>5, <2>2, <3>4 DEF Director, RequestsType
  <2> QED
    BY <2>1, <2>2
<1>6. CASE ModifyResponse(r)
  <2>1. answer[r].forged \in BOOLEAN /\ Forged(body[r], lp[r]) \in BOOLEAN
    BY <1>0, ForgedType DEF RequestsType, Answer
  <2>2. (answer[r].forged \/ Forged(body[r], lp[r])) \in BOOLEAN
    BY <2>1
  <2>3. CASE Finish(r, Plain(0))
    BY <1>0, <2>3, PlainAnswers, FinishRequests
  <2>4. CASE ~Finish(r, Plain(0))
    BY <1>0, <1>6, <2>2, <2>4, ForgedAnswers, FinishRequests DEF ModifyResponse
  <2> QED
    BY <2>3, <2>4
<1>7. CASE Unreachable(r)
  <2>1. \E n \in Nat : Finish(r, Plain(n))
    BY <1>7 DEF Unreachable
  <2> QED
    BY <1>0, <2>1, PlainAnswers, FinishRequests
<1>8. CASE Describe(r)
  <2>1. CASE Goto(r, "stream")
    BY <1>0, <2>1 DEF Goto, RequestsType
  <2> QED
    BY <1>0, <1>8, <2>1, PlainAnswers, FinishRequests DEF Describe
<1>9. CASE \E b \in Bodies : Reply(r, b)
  BY <1>0, <1>9, BodyFacts DEF Reply, RequestsType
<1>10. CASE \E lines \in StreamLists : Tune(r, lines)
  <2>1. PICK lines \in StreamLists : Tune(r, lines)
    BY <1>10
  <2>2. lines \in Seq(Line)
    BY GatewayAssumption
  <2>3. CASE Finish(r, Plain(500))
    BY <1>0, <2>3, PlainAnswers, FinishRequests
  <2>4. CASE /\ \E i \in 1 .. Len(lines) : NotBlank(lines[i])
             /\ Finish(r, Playing(FirstLine(lines), StreamURLs(lines)))
    <3>1. FirstLine(lines) \in Line /\ StreamURLs(lines) \in Seq(Address)
      BY <2>2, <2>4, StreamFacts
    <3> QED
      BY <1>0, <2>4, <3>1, PlayingAnswers, FinishRequests
  <2> QED
    BY <2>1, <2>3, <2>4 DEF Tune, Playing
<1> QED
  BY <1>1, <1>2, <1>3, <1>4, <1>5, <1>6, <1>7, <1>8, <1>9, <1>10 DEF Serve

(* A request only reads the settings, and marks at most that a header of   *)
(* it was logged.                                                          *)
LEMMA ServeFrame ==
  ASSUME NEW r \in Requests, Serve(r)
  PROVE  /\ UNCHANGED <<settingVars, wasOff, wasLogging>>
         /\ clear' = clear \/ (pc[r] \in {"director", "modify"} /\ Logged(r))
  BY DEF Serve, MethodNotAllowed, BMXRegistry, TuneInPodcastInfo, PlayCustomStream, BadTarget, ReadRedact,
         ReadLogBody, Director, ModifyResponse, Unreachable, Describe, Reply, Tune, seenVars

LEMMA ServeType ==
  ASSUME TypeOK, NEW r \in Requests, Serve(r)
  PROVE  TypeOK'
<1>1. SettingsType'
  BY ServeFrame, TypeParts DEF SettingsType, settingVars
<1>2. SeenType'
  <2>1. SeenType
    BY TypeParts
  <2>2. CASE clear' = clear
    BY <2>1, <2>2, ServeFrame DEF SeenType
  <2>3. CASE Logged(r)
    <3>1. clear' \in [Requests -> BOOLEAN]
      BY <2>1, <2>3, Zenon DEF Logged, SeenType
    <3> QED
      BY <2>1, <3>1, ServeFrame DEF SeenType
  <2> QED
    BY <2>2, <2>3, ServeFrame
<1> QED
  BY <1>1, <1>2, ServeRequests, TypePartsNext

LEMMA ArriveType ==
  ASSUME TypeOK, NEW r \in Requests, NEW m \in Methods, NEW p \in Paths, NEW b \in Bodies, Arrive(r, m, p, b)
  PROVE  TypeOK'
<1>0. SettingsType /\ RequestsType /\ SeenType
  BY TypeParts
<1>1. SettingsType'
  BY <1>0 DEF Arrive, SettingsType, settingVars
<1>2. kind' \in [Requests -> Handlers] /\ pc' \in [Requests -> Steps]
  BY <1>0, HandlerFacts, StepNames DEF Arrive, RequestsType
<1>3. body' \in [Requests -> Body] /\ answer' \in [Requests -> Answer] /\ lp' \in [Requests -> Settings]
  BY <1>0, BodyFacts, PlainAnswers DEF Arrive, RequestsType
<1>4. clear' \in [Requests -> BOOLEAN]
  BY <1>0 DEF Arrive, SeenType
<1>5. wasOff' \in [Requests -> BOOLEAN] /\ wasLogging' \in [Requests -> BOOLEAN]
  <2>1. (~settings.redact) \in BOOLEAN /\ settings.logBody \in BOOLEAN
    BY <1>0 DEF SettingsType, Settings
  <2> QED
    BY <1>0, <2>1 DEF Arrive, SeenType
<1> QED
  BY <1>1, <1>2, <1>3, <1>4, <1>5, TypePartsNext DEF RequestsType, SeenType

LEMMA StoreType ==
  ASSUME TypeOK, NEW changed \in Settings, Store(changed), NEW p \in [Admins -> PostingType], posting' = p
  PROVE  TypeOK'
<1>0. SettingsType /\ RequestsType /\ SeenType
  BY TypeParts
<1>1. SettingsType' /\ RequestsType'
  BY <1>0 DEF Store, SettingsType, RequestsType, requestVars
<1>2. wasOff' \in [Requests -> BOOLEAN] /\ wasLogging' \in [Requests -> BOOLEAN]
  BY Zenon DEF Store
<1>3. SeenType'
  BY <1>0, <1>2 DEF Store, SeenType
<1> QED
  BY <1>1, <1>3, TypePartsNext

LEMMA StoredType == Stored \in PostingType
  BY DEF Stored, PostingType, Settings

LEMMA AdminType ==
  ASSUME TypeOK, NEW a \in Admins,
         StoreRedact(a) \/ StoreLogBody(a) \/ \E want \in Settings : Post(a, want)
  PROVE  TypeOK'
<1>0. SettingsType
  BY TypeParts
<1>1. posting[a] \in PostingType /\ posting[a].want \in Settings /\ settings \in Settings
  BY <1>0 DEF SettingsType, PostingType
<1>2. CASE StoreRedact(a)
  <2>1. [settings EXCEPT !.redact = posting[a].want.redact] \in Settings
    BY <1>1 DEF Settings
  <2>2. [posting EXCEPT ![a].step = "logBody"] \in [Admins -> PostingType]
    BY <1>0 DEF SettingsType, PostingType
  <2> QED
    BY <1>2, <2>1, <2>2, StoreType DEF StoreRedact
<1>3. CASE StoreLogBody(a)
  <2>1. [settings EXCEPT !.logBody = posting[a].want.logBody] \in Settings
    BY <1>1 DEF Settings
  <2>2. [posting EXCEPT ![a] = Stored] \in [Admins -> PostingType]
    BY <1>0, StoredType DEF SettingsType
  <2> QED
    BY <1>3, <2>1, <2>2, StoreType DEF StoreLogBody
<1>4. CASE \E want \in Settings : Post(a, want)
  <2>1. PICK want \in Settings : Post(a, want)
    BY <1>4
  <2>2. posting' \in [Admins -> PostingType]
    BY <1>0, <2>1 DEF Post, SettingsType, PostingType
  <2>4. SettingsType'
    BY <1>0, <2>1, <2>2 DEF Post, SettingsType
  <2>5. RequestsType' /\ SeenType'
    BY <2>1, TypeParts DEF Post, RequestsType, SeenType, requestVars, seenVars
  <2> QED
    BY <2>4, <2>5, TypePartsNext
<1> QED
  BY <1>2, <1>3, <1>4

LEMMA InitType == Init => TypeOK
<1> SUFFICES ASSUME Init PROVE TypeOK
  OBVIOUS
<1>1. SettingsType
  BY StoredType DEF Init, SettingsType
<1>2. RequestsType
  BY StepNames, BodyFacts, PlainAnswers DEF Init, RequestsType, Handlers
<1>3. SeenType
  BY DEF Init, SeenType
<1> QED
  BY <1>1, <1>2, <1>3, TypeParts

LEMMA NextType == TypeOK /\ [Next]_gatewayVars => TypeOK'
<1> SUFFICES ASSUME TypeOK, [Next]_gatewayVars PROVE TypeOK'
  OBVIOUS
<1>1. CASE UNCHANGED gatewayVars
  BY <1>1 DEF gatewayVars, settingVars, requestVars, seenVars, TypeOK
<1>2. CASE Next
  BY <1>2, ServeType, ArriveType, AdminType DEF Next
<1> QED
  BY <1>1, <1>2

(* Switches, requests and answers of the gateway keep their types. *)
THEOREM GatewayTypeCorrect == Spec => []TypeOK
  BY InitType, NextType, PTL DEF Spec

-----------------------------------------------------------------------------
(* The inductive invariants.  A request has kept nothing from before: the  *)
(* switches it uses it has read itself, so whoever set them so did it      *)
(* before or while the request was served.                                 *)
Passing == {"readRedact", "readLogBody", "director", "await", "rereadRedact", "rereadLogBody", "modify"}

PassedOn == \A r \in Requests : pc[r] \in Passing => kind[r] \in {"proxy", "python"}

RedactInv ==
  \A r \in Requests :
    /\ pc[r] # "idle" /\ ~settings.redact => wasOff[r]
    /\ pc[r] \in Passing \ {"readRedact"} /\ ~lp[r].redact => wasOff[r]
    /\ clear[r] => wasOff[r]

LogBodyInv ==
  \A r \in Requests :
    /\ pc[r] # "idle" /\ settings.logBody => wasLogging[r]
    /\ pc[r] \in Passing \ {"readRedact", "readLogBody"} /\ lp[r].logBody => wasLogging[r]
    /\ answer[r].forged => wasLogging[r]

(* What a step of a request does to its place, and to the other requests. *)
LEMMA ServePlace ==
  ASSUME TypeOK, NEW r \in Requests, Serve(r)
  PROVE  /\ pc[r] # "idle" /\ kind' = kind
         /\ \A q \in Requests \ {r} : pc'[q] = pc[q] /\ lp'[q] = lp[q] /\ answer'[q] = answer[q]
         /\ pc'[r] \in Passing => pc[r] \in Passing
         /\ pc[r] = "readRedact" => pc'[r] \in {"idle", "readLogBody"}
         /\ pc'[r] \in Passing \ {"readRedact", "readLogBody"} => pc[r] # "readRedact"
<1> USE DEF Passing
<1>1. CASE Goto(r, "stream") /\ pc[r] = "describe"
  BY <1>1 DEF Goto, TypeOK
<1>2. CASE pc[r] # "idle" /\ \E a : Finish(r, a)
  BY <1>2 DEF Finish, TypeOK
<1>3. CASE MethodNotAllowed(r) \/ BMXRegistry(r) \/ TuneInPodcastInfo(r) \/ PlayCustomStream(r)
  BY <1>3, <1>2 DEF MethodNotAllowed, BMXRegistry, TuneInPodcastInfo, PlayCustomStream
<1>4. CASE BadTarget(r) \/ Unreachable(r) \/ ModifyResponse(r)
  BY <1>4, <1>2 DEF BadTarget, Unreachable, ModifyResponse
<1>5. CASE ReadRedact(r) \/ ReadLogBody(r) \/ \E b \in Bodies : Reply(r, b)
  BY <1>5 DEF ReadRedact, ReadLogBody, Reply, TypeOK
<1>6. CASE Director(r)
  BY <1>6, <1>2 DEF Director, TypeOK
<1>7. CASE Describe(r) \/ \E lines \in StreamLists : Tune(r, lines)
  BY <1>7, <1>1, <1>2 DEF Describe, Tune
<1> QED
  BY <1>3, <1>4, <1>5, <1>6, <1>7 DEF Serve

LEMMA NextPassedOn ==
  ASSUME TypeOK, PassedOn, [Next]_gatewayVars
  PROVE  PassedOn'
<1>1. CASE UNCHANGED gatewayVars
  BY <1>1 DEF gatewayVars, requestVars, PassedOn
<1>2. ASSUME NEW r \in Requests, Serve(r) PROVE PassedOn'
  BY <1>2, ServePlace DEF PassedOn
<1>3. ASSUME NEW r \in Requests, NEW m \in Methods, NEW p \in Paths, NEW b \in Bodies, Arrive(r, m, p, b)
      PROVE  PassedOn'
  <2> DEFINE k == Dispatch(m, p)
  <2>1. kind' = [kind EXCEPT ![r] = k] /\ pc'[r] = CASE k \in {"proxy", "python"} -> "readRedact"
                                                     [] k \in {"station", "episode"} -> "describe"
                                                     [] OTHER -> "local"
    BY <1>3 DEF Arrive, TypeOK
  <2> HIDE DEF k
  <2>2. pc'[r] \in Passing => kind'[r] \in {"proxy", "python"}
    BY <2>1 DEF Passing, TypeOK
  <2>3. \A q \in Requests \ {r} : pc'[q] = pc[q] /\ kind'[q] = kind[q]
    BY <1>3 DEF Arrive, TypeOK
  <2> QED
    BY <2>2, <2>3 DEF PassedOn
<1>4. ASSUME NEW a \in Admins, StoreRedact(a) \/ StoreLogBody(a) \/ \E want \in Settings : Post(a, want)
      PROVE  PassedOn'
  BY <1>4 DEF StoreRedact, StoreLogBody, Store, Post, requestVars, PassedOn
<1> QED
  BY <1>1, <1>2, <1>3, <1>4 DEF Next

(* The switches that a request has read, and what it has logged with them. *)
LEMMA ServeRedact ==
  ASSUME TypeOK, RedactInv, NEW r \in Requests, Serve(r)
  PROVE  RedactInv'
<1>1. settings' = settings /\ wasOff' = wasOff
  BY ServeFrame DEF settingVars
<1>2. pc[r] # "idle" /\ \A q \in Requests \ {r} : pc'[q] = pc[q] /\ lp'[q] = lp[q] /\ clear'[q] = clear[q]
  <2>1. \A q \in Requests \ {r} : clear'[q] = clear[q]
    BY ServeFrame DEF Logged, TypeOK
  <2> QED
    BY <2>1, ServePlace
<1>3. pc'[r] \in Passing \ {"readRedact"} /\ ~lp'[r].redact => wasOff[r]
  <2>1. CASE ReadRedact(r)
    <3>1. lp'[r].redact = settings.redact
      BY <2>1 DEF ReadRedact, TypeOK, Settings
    <3> QED
      BY <1>2, <3>1 DEF RedactInv
  <2>2. CASE ~ReadRedact(r)
    <3>1. lp'[r].redact = lp[r].redact
      <4>1. CASE ReadLogBody(r)
        BY <4>1 DEF ReadLogBody, TypeOK, Settings
      <4>2. CASE ~ReadLogBody(r)
        BY <2>2, <4>2 DEF Serve, MethodNotAllowed, BMXRegistry, TuneInPodcastInfo, PlayCustomStream, BadTarget,
                          Director, ModifyResponse, Unreachable, Describe, Reply, Tune, Finish, Goto
      <4> QED
        BY <4>1, <4>2
    <3>2. pc[r] = "readRedact" => pc'[r] = "idle"
      BY <2>2 DEF Serve, MethodNotAllowed, BMXRegistry, TuneInPodcastInfo, PlayCustomStream, BadTarget,
                  ReadLogBody, Director, ModifyResponse, Unreachable, Describe, Reply, Tune, Finish, TypeOK
    <3>3. "idle" \notin Passing
      BY DEF Passing
    <3> QED
      BY <3>1, <3>2, <3>3, ServePlace DEF RedactInv
  <2> QED
    BY <2>1, <2>2
<1>4. clear'[r] => wasOff[r]
  <2>1. CASE clear' = clear
    BY <2>1 DEF RedactInv
  <2>2. CASE pc[r] \in {"director", "modify"} /\ Logged(r)
    <3>1. clear'[r] = (clear[r] \/ ~lp[r].redact)
      BY <2>2 DEF Logged, TypeOK
    <3>2. ~lp[r].redact => wasOff[r]
      BY <2>2 DEF RedactInv, Passing
    <3> QED
      BY <3>1, <3>2 DEF RedactInv
  <2> QED
    BY <2>1, <2>2, ServeFrame
<1>5. ~settings.redact => wasOff[r]
  BY <1>2 DEF RedactInv
<1> QED
  BY <1>1, <1>2, <1>3, <1>4, <1>5 DEF RedactInv

(* A page that stores its settings is seen by every request in flight. *)
LEMMA StoreSeen ==
  ASSUME TypeOK, NEW changed \in Settings, Store(changed)
  PROVE  /\ RedactInv => RedactInv'
         /\ LogBodyInv => LogBodyInv'
<1>1. /\ settings' = changed
      /\ pc' = pc /\ lp' = lp /\ answer' = answer /\ clear' = clear
  BY DEF Store, requestVars
<1>2. \A r \in Requests : /\ wasOff'[r] = (wasOff[r] \/ (pc[r] # "idle" /\ ~changed.redact))
                          /\ wasLogging'[r] = (wasLogging[r] \/ (pc[r] # "idle" /\ changed.logBody))
  BY DEF Store
<1> QED
  BY <1>1, <1>2 DEF RedactInv, LogBodyInv

LEMMA AdminSeen ==
  ASSUME TypeOK, NEW a \in Admins,
         StoreRedact(a) \/ StoreLogBody(a) \/ \E want \in Settings : Post(a, want)
  PROVE  /\ RedactInv => RedactInv'
         /\ LogBodyInv => LogBodyInv'
<1>1. posting[a].want \in Settings /\ settings \in Settings
  BY DEF TypeOK
<1>2. /\ [settings EXCEPT !.redact = posting[a].want.redact] \in Settings
      /\ [settings EXCEPT !.logBody = posting[a].want.logBody] \in Settings
  BY <1>1 DEF Settings
<1>3. CASE StoreRedact(a) \/ StoreLogBody(a)
  BY <1>2, <1>3, StoreSeen DEF StoreRedact, StoreLogBody
<1>4. CASE \E want \in Settings : Post(a, want)
  BY <1>4 DEF Post, requestVars, seenVars, RedactInv, LogBodyInv
<1> QED
  BY <1>3, <1>4

LEMMA ArriveSeen ==
  ASSUME TypeOK, NEW r \in Requests, NEW m \in Methods, NEW p \in Paths, NEW b \in Bodies, Arrive(r, m, p, b)
  PROVE  /\ RedactInv => RedactInv'
         /\ LogBodyInv => LogBodyInv'
<1>1. settings' = settings /\ lp' = lp
  BY DEF Arrive, settingVars
<1>2. \A q \in Requests \ {r} : /\ pc'[q] = pc[q] /\ answer'[q] = answer[q] /\ clear'[q] = clear[q]
                                /\ wasOff'[q] = wasOff[q] /\ wasLogging'[q] = wasLogging[q]
  BY DEF Arrive, TypeOK
<1>3. pc'[r] \in {"readRedact", "describe", "local"}
  BY DEF Arrive, TypeOK
<1>4. wasOff'[r] = ~settings.redact /\ wasLogging'[r] = settings.logBody /\ clear'[r] = FALSE
  BY DEF Arrive, TypeOK
<1>5. answer'[r].forged = FALSE
  BY DEF Arrive, TypeOK, NoAnswer
<1> QED
  BY <1>1, <1>2, <1>3, <1>4, <1>5 DEF RedactInv, LogBodyInv, Passing

LEMMA NextRedact ==
  ASSUME TypeOK, RedactInv, [Next]_gatewayVars
  PROVE  RedactInv'
<1>1. CASE UNCHANGED gatewayVars
  BY <1>1 DEF gatewayVars, settingVars, requestVars, seenVars, RedactInv
<1> QED
  BY <1>1, ServeRedact, ArriveSeen, AdminSeen DEF Next

(* However settings are posted while requests are on their way, a          *)
(* sensitive header is logged in clear only for a request during which     *)
(* redaction was off at some moment.                                       *)
THEOREM ClearMeansOff == Spec => []ClearOnlyWhileOff
<1>1. Init => RedactInv
  BY DEF Init, RedactInv, Passing
<1>2. TypeOK /\ RedactInv /\ [Next]_gatewayVars => RedactInv'
  BY NextRedact
<1>3. RedactInv => ClearOnlyWhileOff
  BY DEF RedactInv, ClearOnlyWhileOff
<1> QED
  BY <1>1, <1>2, <1>3, GatewayTypeCorrect, PTL DEF Spec

(* A request that has been sent was not forged unless its body was logged; *)
(* every answer that is not from a passed on body is not forged.           *)
LEMMA FinishLog ==
  ASSUME TypeOK, LogBodyInv, NEW r \in Requests, NEW a \in Answer, Finish(r, a),
         a.forged => wasLogging[r], UNCHANGED <<settings, wasLogging>>
  PROVE  LogBodyInv'
<1>1. pc'[r] = "idle" /\ answer'[r] = a
  BY DEF Finish, TypeOK
<1>2. \A q \in Requests \ {r} : pc'[q] = pc[q] /\ lp'[q] = lp[q] /\ answer'[q] = answer[q]
  BY DEF Finish, TypeOK
<1> QED
  BY <1>1, <1>2 DEF LogBodyInv, Passing

(* A step that answers nothing. *)
LEMMA GoOnLog ==
  ASSUME TypeOK, LogBodyInv, NEW r \in Requests, Serve(r), answer' = answer, lp' = lp, pc[r] # "readLogBody"
  PROVE  LogBodyInv'
<1>1. settings' = settings /\ wasLogging' = wasLogging
  BY ServeFrame DEF settingVars
<1>2. pc'[r] \in Passing \ {"readRedact", "readLogBody"} =>
        pc[r] \in Passing \ {"readRedact", "readLogBody"}
  BY ServePlace
<1> QED
  BY <1>1, <1>2, ServePlace DEF LogBodyInv

LEMMA ServeLogBody ==
  ASSUME TypeOK, LogBodyInv, NEW r \in Requests, Serve(r)
  PROVE  LogBodyInv'
<1>0. settings' = settings /\ wasLogging' = wasLogging
  BY ServeFrame DEF settingVars
<1>1. CASE \E n \in Nat : Finish(r, Plain(n))
  BY <1>0, <1>1, PlainAnswers, FinishLog
<1>2. CASE \E l \in Line, q \in Seq(Address) : Finish(r, Playing(l, q))
  BY <1>0, <1>2, PlayingAnswers, FinishLog
<1>3. CASE MethodNotAllowed(r) \/ BMXRegistry(r) \/ TuneInPodcastInfo(r) \/ BadTarget(r) \/ Unreachable(r)
  BY <1>1, <1>3 DEF MethodNotAllowed, BMXRegistry, TuneInPodcastInfo, BadTarget, Unreachable
<1>4. CASE PlayCustomStream(r)
  <2>1. CASE \E url \in {"custom", ""} : Finish(r, Playing([url |-> url, cr |-> FALSE], <<url>>))
    <3>1. PICK url \in {"custom", ""} : Finish(r, Playing([url |-> url, cr |-> FALSE], <<url>>))
      BY <2>1
    <3>2. [url |-> url, cr |-> FALSE] \in Line /\ <<url>> \in Seq(Address)
      BY CustomLines
    <3> QED
      BY <1>2, <3>1, <3>2
  <2>2. CASE Finish(r, Plain(500))
    BY <1>1, <2>2
  <2> QED
    BY <1>4, <2>1, <2>2 DEF PlayCustomStream, Playing
<1>5. CASE ReadRedact(r)
  <2>1. pc'[r] \in {"readLogBody", "rereadLogBody"} /\ lp'[r].logBody = lp[r].logBody /\ answer' = answer
    BY <1>5 DEF ReadRedact, TypeOK, Settings
  <2>2. pc'[r] = "rereadLogBody" => pc[r] = "rereadRedact"
    BY <1>5 DEF ReadRedact, TypeOK
  <2> QED
    BY <1>0, <2>1, <2>2, ServePlace DEF LogBodyInv, Passing
<1>6. CASE ReadLogBody(r)
  <2>1. lp'[r].logBody = settings.logBody /\ answer' = answer
    BY <1>6 DEF ReadLogBody, TypeOK, Settings
  <2>2. settings.logBody => wasLogging[r]
    BY ServePlace DEF LogBodyInv
  <2> QED
    BY <1>0, <2>1, <2>2, ServePlace DEF LogBodyInv
<1>7. CASE Director(r) /\ ~Finish(r, Plain(502))
  <2>1. Forged(body[r], lp[r]) => wasLogging[r]
    BY <1>7 DEF Director, Forged, ReadAhead, LogBodyInv, Passing
  <2>2. answer'[r].forged = Forged(body[r], lp[r]) /\ pc'[r] = "await" /\ lp' = lp
    BY <1>7 DEF Director, TypeOK, Answer
  <2>3. lp[r].logBody => wasLogging[r]
    BY <1>7 DEF Director, LogBodyInv, Passing
  <2> QED
    BY <1>0, <2>1, <2>2, <2>3, ServePlace DEF LogBodyInv
<1>8. CASE ModifyResponse(r) /\ ~Finish(r, Plain(0))
  <2> DEFINE forged == answer[r].forged \/ Forged(body[r], lp[r])
  <2> DEFINE a == [NoAnswer EXCEPT !.status = 200, !.forged = forged]
  <2>1. Forged(body[r], lp[r]) => wasLogging[r]
    BY <1>8 DEF ModifyResponse, Forged, ReadAhead, LogBodyInv, Passing
  <2>2. forged => wasLogging[r]
    BY <2>1 DEF LogBodyInv
  <2>3. Finish(r, a)
    BY <1>8 DEF ModifyResponse
  <2>4. forged \in BOOLEAN
    BY ForgedType DEF TypeOK, Answer
  <2> HIDE DEF forged
  <2>5. a \in Answer /\ a.forged = forged
    BY <2>4, ForgedAnswers DEF NoAnswer
  <2> HIDE DEF a
  <2> QED
    BY <1>0, <2>2, <2>3, <2>5, FinishLog
<1>9. CASE Describe(r)
  <2>1. CASE Goto(r, "stream")
    BY <1>9, <2>1, GoOnLog DEF Describe, Goto
  <2> QED
    BY <1>1, <1>9, <2>1 DEF Describe
<1>10. CASE \E b \in Bodies : Reply(r, b)
  BY <1>10, GoOnLog DEF Reply
<1>11. CASE \E lines \in StreamLists : Tune(r, lines)
  <2>1. PICK lines \in StreamLists : Tune(r, lines)
    BY <1>11
  <2>2. lines \in Seq(Line)
    BY GatewayAssumption
  <2>3. ASSUME \E i \in 1 .. Len(lines) : NotBlank(lines[i]), Finish(r, Playing(FirstLine(lines), StreamURLs(lines)))
        PROVE  LogBodyInv'
    <3>1. FirstLine(lines) \in Line /\ StreamURLs(lines) \in Seq(Address)
      BY <2>2, <2>3, StreamFacts
    <3> QED
      BY <1>2, <2>3, <3>1
  <2> QED
    BY <1>1, <2>1, <2>3 DEF Tune, Playing
<1> QED
  BY <1>1, <1>3, <1>4, <1>5, <1>6, <1>7, <1>8, <1>9, <1>10, <1>11 DEF Serve

LEMMA NextLogBody ==
  ASSUME TypeOK, LogBodyInv, [Next]_gatewayVars
  PROVE  LogBodyInv'
<1>1. CASE UNCHANGED gatewayVars
  BY <1>1 DEF gatewayVars, settingVars, requestVars, seenVars, LogBodyInv
<1> QED
  BY <1>1, ServeLogBody, ArriveSeen, AdminSeen DEF Next

(* A body that broke off is passed on as a complete one only for a request *)
(* during which body logging was on at some moment.                        *)
THEOREM ForgedMeansLogging == Spec => []ForgedOnlyWhileLogging
<1>1. Init => LogBodyInv
  BY DEF Init, LogBodyInv, Passing, NoAnswer
<1>2. TypeOK /\ LogBodyInv /\ [Next]_gatewayVars => LogBodyInv'
  BY NextLogBody
<1>3. LogBodyInv => ForgedOnlyWhileLogging
  BY DEF LogBodyInv, ForgedOnlyWhileLogging
<1> QED
  BY <1>1, <1>2, <1>3, GatewayTypeCorrect, PTL DEF Spec

-----------------------------------------------------------------------------
(* A 200 for a station or an episode comes from Tune alone: passing on has *)
(* other handlers.                                                         *)
Plays(k, a) ==
  k \in {"station", "episode"} /\ a.status = 200 =>
    /\ a.streams # <<>>
    /\ \A i \in 1 .. Len(a.streams) : a.streams[i] # ""
    /\ a.audio.url = a.streams[1]

LEMMA PlaysFolded ==
  /\ PlaysAStream <=> \A r \in Requests : Plays(kind[r], answer[r])
  /\ PlaysAStream' <=> \A r \in Requests : Plays(kind'[r], answer'[r])
  BY DEF PlaysAStream, Plays

LEMMA OthersPlay ==
  /\ \A k, a : k \notin {"station", "episode"} => Plays(k, a)
  /\ \A k, n : n \in Nat \ {200} => Plays(k, Plain(n))
  /\ \A k : Plays(k, NoAnswer)
<1>1. \A k, a : k \notin {"station", "episode"} => Plays(k, a)
  BY DEF Plays
<1>2. \A k, n : n \in Nat \ {200} => Plays(k, Plain(n))
  BY PlainAnswers DEF Plays
<1>3. NoAnswer.status # 200
  BY DEF NoAnswer
<1>4. \A k : Plays(k, NoAnswer)
  BY <1>3 DEF Plays
<1> QED
  BY <1>1, <1>2, <1>4

LEMMA ServePlays ==
  ASSUME TypeOK, PassedOn, PlaysAStream, NEW r \in Requests, Serve(r)
  PROVE  PlaysAStream'
<1>0. kind' = kind /\ \A q \in Requests \ {r} : answer'[q] = answer[q]
  BY ServePlace
<1> SUFFICES Plays(kind[r], answer'[r])
  BY <1>0, PlaysFolded
<1>1. CASE kind[r] \notin {"station", "episode"}
  BY <1>1, OthersPlay
<1>2. CASE answer' = answer
  BY <1>2, PlaysFolded
<1>3. ASSUME NEW a, Finish(r, a) PROVE answer'[r] = a
  BY <1>3 DEF Finish, TypeOK
<1>4. CASE MethodNotAllowed(r) \/ BMXRegistry(r) \/ TuneInPodcastInfo(r) \/ BadTarget(r) \/ PlayCustomStream(r)
  BY <1>1, <1>4 DEF MethodNotAllowed, BMXRegistry, TuneInPodcastInfo, BadTarget, PlayCustomStream
<1>5. CASE Unreachable(r)
  <2>1. \E n \in Nat \ {200} : Finish(r, Plain(n))
    BY <1>5 DEF Unreachable
  <2> QED
    BY <1>3, <2>1, OthersPlay
<1>6. CASE Director(r) \/ ModifyResponse(r)
  BY <1>1, <1>6 DEF Director, ModifyResponse, PassedOn, Passing
<1>7. CASE ReadRedact(r) \/ ReadLogBody(r) \/ \E b \in Bodies : Reply(r, b)
  BY <1>2, <1>7 DEF ReadRedact, ReadLogBody, Reply
<1>8. CASE Describe(r)
  <2>1. answer' = answer \/ Finish(r, Plain(500))
    BY <1>8 DEF Describe, Goto
  <2> QED
    BY <1>2, <1>3, <2>1, OthersPlay
<1>9. CASE \E lines \in StreamLists : Tune(r, lines)
  <2>1. PICK lines \in StreamLists : Tune(r, lines)
    BY <1>9
  <2>2. lines \in Seq(Line)
    BY GatewayAssumption
  <2> DEFINE q == StreamURLs(lines)
  <2> DEFINE l == FirstLine(lines)
  <2>3. CASE Finish(r, Plain(500))
    BY <1>3, <2>3, OthersPlay
  <2>4. CASE (\E i \in 1 .. Len(lines) : NotBlank(lines[i])) /\ Finish(r, Playing(l, q))
    <3>1. /\ q \in Seq(Address) /\ l \in Line
          /\ q # <<>> /\ (\A i \in 1 .. Len(q) : q[i] # "") /\ l.url = q[1]
      BY <2>2, <2>4, StreamFacts
    <3>2. answer'[r] = Playing(l, q)
      BY <1>3, <2>4
    <3> HIDE DEF q, l
    <3>3. Playing(l, q).audio = l /\ Playing(l, q).streams = q
      BY <3>1, PlayingAnswers
    <3>4. ASSUME NEW a, a.audio = l, a.streams = q PROVE Plays(kind[r], a)
      <4>1. a.streams # <<>> /\ a.audio.url = a.streams[1]
        BY <3>1, <3>4
      <4>2. \A i \in 1 .. Len(a.streams) : a.streams[i] # ""
        BY <3>1, <3>4
      <4> QED
        BY <4>1, <4>2 DEF Plays
    <3> QED
      BY <3>2, <3>3, <3>4
  <2> QED
    BY <2>1, <2>3, <2>4 DEF Tune, Playing
<1> QED
  BY <1>4, <1>5, <1>6, <1>7, <1>8, <1>9 DEF Serve

LEMMA NextPlays ==
  ASSUME TypeOK, PassedOn, PlaysAStream, [Next]_gatewayVars
  PROVE  PlaysAStream'
<1>1. CASE answer' = answer /\ kind' = kind
  BY <1>1, PlaysFolded
<1>2. ASSUME NEW r \in Requests, NEW m \in Methods, NEW p \in Paths, NEW b \in Bodies, Arrive(r, m, p, b)
      PROVE  PlaysAStream'
  <2>1. answer'[r] = NoAnswer
    BY <1>2 DEF Arrive, TypeOK
  <2>2. \A q \in Requests \ {r} : answer'[q] = answer[q] /\ kind'[q] = kind[q]
    BY <1>2 DEF Arrive, TypeOK
  <2> QED
    BY <2>1, <2>2, OthersPlay, PlaysFolded
<1>3. ASSUME NEW a \in Admins, StoreRedact(a) \/ StoreLogBody(a) \/ \E want \in Settings : Post(a, want)
      PROVE  PlaysAStream'
  BY <1>1, <1>3 DEF StoreRedact, StoreLogBody, Store, Post, requestVars
<1>4. CASE UNCHANGED gatewayVars
  BY <1>1, <1>4 DEF gatewayVars, requestVars
<1> QED
  BY <1>2, <1>3, <1>4, ServePlays DEF Next

(* For every text that TuneIn may answer with: a playback answer has       *)
(* streams, none of them blank, and starts with the first.                 *)
THEOREM PlaybackHasAStream == Spec => []PlaysAStream
<1>1. Init => PassedOn /\ PlaysAStream
  BY OthersPlay, PlaysFolded DEF Init, PassedOn, Passing
<1>2. TypeOK /\ PassedOn /\ [Next]_gatewayVars => PassedOn'
  BY NextPassedOn
<1>3. TypeOK /\ PassedOn /\ PlaysAStream /\ [Next]_gatewayVars => PlaysAStream'
  BY NextPlays
<1> QED
  BY <1>1, <1>2, <1>3, GatewayTypeCorrect, PTL DEF Spec

=============================================================================
