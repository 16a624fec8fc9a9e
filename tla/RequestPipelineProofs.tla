------------------------ MODULE RequestPipelineProofs ------------------------
(***************************************************************************)
(* Proofs about RequestPipeline: its types, that no request is lost or     *)
(* taken for another, that file requests are closed in their order, that   *)
(* the worker has ended when shutdown writes, and that the pipeline        *)
(* implements RequestReply; for every set of requests of any kinds.        *)
(***************************************************************************)
EXTENDS RequestPipeline, SequenceTheorems, TLAPS

(***************************************************************************)
(* The inductive invariant                                                 *)
(***************************************************************************)

\* No request stands twice in s.
Distinct(s) == \A i, j \in DOMAIN s : s[i] = s[j] => i = j

\* Request x stands in s, and y further back.
Precedes(s, x, y) == \E i, j \in DOMAIN s : i < j /\ s[i] = x /\ s[j] = y

\* The file requests in hand, the next to be answered first.  Taking a task
\* and finishing it change only where in the line the worker stands.
Line(w) == IF w = NoRequest THEN <<>> ELSE <<w>>
FileLine == completed \o (Line(atWork) \o tasks)

\* The file line keeps the order in which the requests were enqueued, and
\* holds each once; what a stop threw away is not in it any more.
LineInv ==
  /\ Distinct(FileLine) /\ Distinct(order)
  /\ Range(FileLine) \cup stranded \subseteq Range(order)
  /\ Range(order) \subseteq received
  /\ stranded \cap Range(FileLine) = {}
  /\ main = "enqueue" => subject \notin Range(order)
  /\ main = "register" => subject \in Range(FileLine)
  /\ \A x, y \in Requests : Precedes(FileLine, x, y) => Precedes(order, x, y)

\* Each map holds requests of its kind, and all that are still open; what has
\* just been submitted is registered next.  A process that is registered and
\* does not run any more has failed in QProcess::start.
MapsInv ==
  /\ subject # NoRequest =>
       /\ Kind[subject] = (IF main = "start" THEN "Process" ELSE "File")
       /\ subject \in actionToMessageMap \ (fileRequests \cup processRequests)
  /\ \A r \in Range(order) \cup fileRequests : Kind[r] = "File"
  /\ \A r \in processRequests \cup runningProcesses : Kind[r] = "Process"
  /\ runningProcesses \subseteq processRequests \cup {subject}
  /\ \A r \in processRequests : r \in runningProcesses \/ child[r] = "stillborn"
  /\ main = "start" => subject \in runningProcesses \/ child[subject] = "stillborn"
  /\ fileRequests \cup processRequests \subseteq actionToMessageMap
  /\ Range(FileLine) \subseteq fileRequests \cup {subject}
  /\ \A r \in actionToMessageMap :
       /\ Kind[r] = "File" =>
            r = subject \/ r \in fileRequests \cap (Range(FileLine) \cup stranded)
       /\ Kind[r] = "Process" => r = subject \/ r \in processRequests
       /\ Kind[r] \in {"File", "Process", "Unknown"}

\* FileAnswersInOrder, without the places in the order.
ClosedInOrder ==
  \A x, y \in Requests :
    (Precedes(order, x, y) /\ y \notin actionToMessageMap) =>
      x \notin actionToMessageMap \/ x \in stranded

\* The worker does not go back into the job queue, and ends for good.
StopInv ==
  /\ main = "awaitRunning" => worker # "submitted"
  /\ WorkerEndsBeforeWrite

IInv == TypeOK /\ LineInv /\ MapsInv /\ ClosedInOrder /\ StopInv

(***************************************************************************)
(* Lines: sequences in which an element is added at the end and taken from *)
(* the front                                                               *)
(***************************************************************************)

\* Taking the front of a line and putting it back gives the line.
LEMMA FrontAndRest ==
  ASSUME NEW S, NEW s \in Seq(S), s # <<>>
  PROVE  s = <<Head(s)>> \o Tail(s)
<1>1. Head(s) \in S /\ Tail(s) \in Seq(S) /\ Len(Tail(s)) = Len(s) - 1
      /\ \A i \in 1..Len(Tail(s)) : Tail(s)[i] = s[i + 1]
  BY HeadTailProperties
<1>2. <<Head(s)>> \in Seq(S) /\ Len(<<Head(s)>>) = 1 /\ <<Head(s)>>[1] = s[1]
  BY <1>1
<1>3. Len(s) \in Nat \ {0}
  BY EmptySeq
<1> DEFINE t == <<Head(s)>> \o Tail(s)
<1>4. t \in Seq(S) /\ Len(t) = Len(s)
      /\ \A i \in 1..Len(s) : t[i] = IF i <= 1 THEN <<Head(s)>>[i] ELSE Tail(s)[i - 1]
  BY <1>1, <1>2, <1>3, ConcatProperties
<1>5. \A i \in 1..Len(s) : t[i] = s[i]
  BY <1>1, <1>2, <1>3, <1>4
<1> HIDE DEF t
<1>6. s = t
  BY <1>4, <1>5, SeqEqual
<1> QED BY <1>6 DEF t

\* What is put in front of a line is its head, and the line its tail.
LEMMA PushFront ==
  ASSUME NEW S, NEW e \in S, NEW s \in Seq(S)
  PROVE  /\ <<e>> \o s # <<>>
         /\ Head(<<e>> \o s) = e /\ Tail(<<e>> \o s) = s
<1> DEFINE t == <<e>> \o s
<1>1. /\ Len(s) \in Nat /\ <<e>> \in Seq(S) /\ Len(<<e>>) = 1
      /\ <<e>>[1] = e
  BY LenProperties
<1>2. /\ t \in Seq(S) /\ Len(t) = Len(s) + 1
      /\ \A i \in 1..(Len(s) + 1) : t[i] = IF i <= 1 THEN <<e>>[i] ELSE s[i - 1]
  BY <1>1, ConcatProperties
<1> HIDE DEF t
<1>3. t # <<>> /\ Head(t) = t[1]
  BY <1>1, <1>2, EmptySeq
<1>4. Tail(t) \in Seq(S) /\ Len(Tail(t)) = Len(s)
      /\ \A i \in 1..Len(s) : Tail(t)[i] = t[i + 1]
  BY <1>1, <1>2, <1>3, HeadTailProperties
<1>5. \A i \in 1..Len(s) : t[i + 1] = s[i]
  BY <1>1, <1>2
<1>6. Tail(t) = s
  BY <1>4, <1>5, SeqEqual
<1> QED BY <1>1, <1>2, <1>3, <1>6 DEF t

\* What is in a line after one more has joined it, and who stands before whom.
LEMMA JoinLine ==
  ASSUME NEW S, NEW s \in Seq(S), NEW e \in S
  PROVE  /\ Append(s, e) \in Seq(S)
         /\ Range(Append(s, e)) = Range(s) \cup {e}
         /\ \A x, y : Precedes(Append(s, e), x, y) <=>
              Precedes(s, x, y) \/ (x \in Range(s) /\ y = e)
         /\ Distinct(s) /\ e \notin Range(s) => Distinct(Append(s, e))
<1> DEFINE t == Append(s, e)
<1>1. Len(s) \in Nat /\ DOMAIN s = 1..Len(s) /\ s \in [1..Len(s) -> S]
  BY LenProperties
<1>2. /\ t \in Seq(S) /\ Len(t) = Len(s) + 1
      /\ \A i \in 1..Len(s) : t[i] = s[i]
      /\ t[Len(s) + 1] = e
  BY AppendProperties
<1>3. DOMAIN t = 1..(Len(s) + 1)
  BY <1>2, LenProperties
<1> HIDE DEF t
<1>4. Range(t) = Range(s) \cup {e}
  BY <1>1, <1>2, <1>3 DEF Range
<1>5. ASSUME NEW x, NEW y
      PROVE  Precedes(t, x, y) <=> Precedes(s, x, y) \/ (x \in Range(s) /\ y = e)
  <2>1. ASSUME Precedes(t, x, y)
        PROVE  Precedes(s, x, y) \/ (x \in Range(s) /\ y = e)
    BY <1>1, <1>2, <1>3, <2>1 DEF Precedes, Range
  <2>2. ASSUME Precedes(s, x, y)
        PROVE  Precedes(t, x, y)
    BY <1>1, <1>2, <1>3, <2>2 DEF Precedes
  <2>3. ASSUME x \in Range(s), y = e
        PROVE  Precedes(t, x, y)
    <3>1. PICK i \in 1..Len(s) : s[i] = x
      BY <1>1, <2>3 DEF Range
    <3> QED BY <1>1, <1>2, <1>3, <2>3, <3>1 DEF Precedes
  <2> QED BY <2>1, <2>2, <2>3
<1>6. ASSUME Distinct(s), e \notin Range(s)
      PROVE  Distinct(t)
  BY <1>1, <1>2, <1>3, <1>6 DEF Distinct, Range
<1> QED BY <1>2, <1>4, <1>5, <1>6 DEF t

\* What is in a line after its front has left, and who stood behind it.
LEMMA LeaveLine ==
  ASSUME NEW S, NEW s \in Seq(S), s # <<>>
  PROVE  /\ Tail(s) \in Seq(S) /\ Head(s) \in S
         /\ Range(s) = Range(Tail(s)) \cup {Head(s)}
         /\ \A x, y : Precedes(Tail(s), x, y) => Precedes(s, x, y)
         /\ \A y \in Range(Tail(s)) : Precedes(s, Head(s), y)
         /\ Distinct(s) => Distinct(Tail(s)) /\ Head(s) \notin Range(Tail(s))
<1> DEFINE t == Tail(s)
<1>1. /\ Len(s) \in Nat \ {0} /\ DOMAIN s = 1..Len(s) /\ Head(s) = s[1]
      /\ Head(s) \in S
  BY LenProperties, EmptySeq, HeadTailProperties
<1>2. /\ t \in Seq(S) /\ Len(t) = Len(s) - 1
      /\ \A i \in 1..(Len(s) - 1) : t[i] = s[i + 1]
  BY HeadTailProperties
<1>3. DOMAIN t = 1..(Len(s) - 1)
  BY <1>2, LenProperties
<1> HIDE DEF t
<1>4. Range(s) = Range(t) \cup {Head(s)}
  <2>1. Range(t) \cup {Head(s)} \subseteq Range(s)
    BY <1>1, <1>2, <1>3 DEF Range
  <2>2. ASSUME NEW i \in 1..Len(s), i # 1
        PROVE  s[i] \in Range(t)
    <3>1. i - 1 \in DOMAIN t /\ t[i - 1] = s[i]
      BY <1>1, <1>2, <1>3, <2>2
    <3> QED BY <3>1 DEF Range
  <2> QED BY <1>1, <2>1, <2>2 DEF Range
<1>5. ASSUME NEW x, NEW y, Precedes(t, x, y)
      PROVE  Precedes(s, x, y)
  <2>1. PICK i, j \in DOMAIN t : i < j /\ t[i] = x /\ t[j] = y
    BY <1>5 DEF Precedes
  <2>2. i + 1 \in DOMAIN s /\ j + 1 \in DOMAIN s /\ i + 1 < j + 1
        /\ s[i + 1] = x /\ s[j + 1] = y
    BY <1>1, <1>2, <1>3, <2>1
  <2> QED BY <2>2 DEF Precedes
<1>6. ASSUME NEW y \in Range(t)
      PROVE  Precedes(s, Head(s), y)
  <2>1. PICK j \in DOMAIN t : t[j] = y
    BY DEF Range
  <2>2. 1 \in DOMAIN s /\ j + 1 \in DOMAIN s /\ 1 < j + 1 /\ s[j + 1] = y
    BY <1>1, <1>2, <1>3, <2>1
  <2> QED BY <1>1, <2>2 DEF Precedes
<1>7. ASSUME Distinct(s)
      PROVE  Distinct(t) /\ Head(s) \notin Range(t)
  <2>1. \A i \in DOMAIN t : i + 1 \in DOMAIN s /\ t[i] = s[i + 1] /\ i + 1 # 1
                             /\ i \in Int
    BY <1>1, <1>2, <1>3
  <2>2. 1 \in DOMAIN s
    BY <1>1
  <2> QED BY <1>1, <1>7, <2>1, <2>2 DEF Distinct, Range
<1> QED BY <1>1, <1>2, <1>4, <1>5, <1>6, <1>7 DEF t

\* A line that loses its end: who is left, and who stood before whom.
LEMMA CutLine ==
  ASSUME NEW S, NEW s \in Seq(S), NEW t \in Seq(S)
  PROVE  /\ Range(s \o t) = Range(s) \cup Range(t)
         /\ \A x, y : Precedes(s, x, y) => Precedes(s \o t, x, y)
         /\ Distinct(s \o t) => Distinct(s) /\ Range(s) \cap Range(t) = {}
<1> DEFINE u == s \o t
<1>1. /\ Len(s) \in Nat /\ DOMAIN s = 1..Len(s)
      /\ Len(t) \in Nat /\ DOMAIN t = 1..Len(t)
  BY LenProperties
<1>2. /\ u \in Seq(S) /\ Len(u) = Len(s) + Len(t)
      /\ \A i \in 1..(Len(s) + Len(t)) :
           u[i] = IF i <= Len(s) THEN s[i] ELSE t[i - Len(s)]
  BY ConcatProperties
<1>3. DOMAIN u = 1..(Len(s) + Len(t))
  BY <1>2, LenProperties
<1> HIDE DEF u
<1>4. \A i \in DOMAIN s : i \in DOMAIN u /\ u[i] = s[i] /\ i \in Int
  BY <1>1, <1>2, <1>3
<1>5. \A i \in DOMAIN t : /\ Len(s) + i \in DOMAIN u /\ u[Len(s) + i] = t[i]
                           /\ Len(s) + i \notin DOMAIN s
  BY <1>1, <1>2, <1>3
<1>6. \A x, y : Precedes(s, x, y) => Precedes(u, x, y)
  BY <1>4 DEF Precedes
<1>7. ASSUME Distinct(u)
      PROVE  Distinct(s) /\ Range(s) \cap Range(t) = {}
  BY <1>4, <1>5, <1>7 DEF Distinct, Range
<1>8. Range(u) = Range(s) \cup Range(t)
  BY RangeConcatenation DEF u
<1> QED BY <1>6, <1>7, <1>8 DEF u

\* In a line that holds each request once, nobody stands before and behind
\* another; who stands in it at all is in it.
LEMMA OneWay ==
  ASSUME NEW S, NEW s \in Seq(S), NEW x, NEW y, Precedes(s, x, y)
  PROVE  /\ x \in Range(s) /\ y \in Range(s)
         /\ Distinct(s) => x # y /\ ~Precedes(s, y, x)
<1>1. DOMAIN s = 1..Len(s) /\ Len(s) \in Nat
  BY LenProperties
<1> QED BY <1>1 DEF Precedes, Range, Distinct

(***************************************************************************)
(* The file line                                                           *)
(***************************************************************************)

\* The file line is made of requests, and InHand is what stands in it.
LEMMA FileLineType ==
  ASSUME TypeOK
  PROVE  /\ Line(atWork) \in Seq(Requests)
         /\ Line(atWork) \o tasks \in Seq(Requests)
         /\ FileLine \in Seq(Requests)
         /\ Range(FileLine) = Range(completed) \cup Range(Line(atWork)) \cup Range(tasks)
         /\ InHand \subseteq Range(FileLine) \cup {NoRequest}
         /\ Range(FileLine) \subseteq InHand
<1>1. Line(atWork) \in Seq(Requests)
      /\ Range(Line(atWork)) = IF atWork = NoRequest THEN {} ELSE {atWork}
  BY DEF TypeOK, Line, Range
<1>2. tasks \in Seq(Requests) /\ completed \in Seq(Requests)
  BY DEF TypeOK
<1> DEFINE rest == Line(atWork) \o tasks
<1>3. rest \in Seq(Requests)
      /\ Range(rest) = Range(Line(atWork)) \cup Range(tasks)
  BY <1>1, <1>2, ConcatProperties, RangeConcatenation
<1>4. FileLine = completed \o rest
  BY DEF FileLine
<1> HIDE DEF rest
<1>5. FileLine \in Seq(Requests) /\ Range(FileLine) = Range(completed) \cup Range(rest)
  BY <1>2, <1>3, <1>4, ConcatProperties, RangeConcatenation
<1> QED BY <1>1, <1>3, <1>5 DEF InHand, rest

\* A step that touches none of the line's parts leaves the line.
LEMMA LineStays ==
  ASSUME UNCHANGED <<completed, atWork, tasks>>
  PROVE  FileLine' = FileLine
  BY DEF FileLine, Line

\* A task that is taken moves within the line.
LEMMA TakeKeepsLine ==
  ASSUME TypeOK, takeTask
  PROVE  FileLine' = FileLine /\ atWork' \in Requests /\ tasks' \in Seq(Requests)
<1>1. tasks \in Seq(Requests) /\ tasks # <<>> /\ atWork = NoRequest
  BY DEF TypeOK, takeTask
<1>2. Head(tasks) \in Requests /\ Tail(tasks) \in Seq(Requests)
      /\ tasks = <<Head(tasks)>> \o Tail(tasks)
  BY <1>1, HeadTailProperties, FrontAndRest
<1>3. Line(atWork) \o tasks = tasks
  BY <1>1, ConcatEmptySeq DEF Line
<1>4. Line(atWork)' \o tasks' = <<Head(tasks)>> \o Tail(tasks)
  BY <1>2, PipelineAssumption DEF takeTask, Line
<1> QED BY <1>2, <1>3, <1>4 DEF FileLine, takeTask

\* So does a task that is finished.
LEMMA FinishKeepsLine ==
  ASSUME TypeOK, finishTask
  PROVE  FileLine' = FileLine /\ completed' \in Seq(Requests)
<1>1. atWork \in Requests /\ atWork # NoRequest
      /\ tasks \in Seq(Requests) /\ completed \in Seq(Requests)
  BY PipelineAssumption DEF TypeOK, finishTask
<1>2. completed' = completed \o <<atWork>> /\ completed' \in Seq(Requests)
  BY <1>1, AppendIsConcat, AppendProperties DEF finishTask
<1>3. Line(atWork) = <<atWork>> /\ <<atWork>> \in Seq(Requests)
  BY <1>1 DEF Line
<1>4. Line(atWork)' \o tasks' = tasks
  BY <1>1, ConcatEmptySeq DEF finishTask, Line
<1>5. FileLine' = (completed \o <<atWork>>) \o tasks
  BY <1>2, <1>4 DEF FileLine
<1>6. (completed \o <<atWork>>) \o tasks = completed \o (<<atWork>> \o tasks)
  BY <1>1, <1>3, ConcatAssociative
<1> QED BY <1>2, <1>3, <1>5, <1>6 DEF FileLine

\* A request that is enqueued joins the line at its end.
LEMMA EnqueueJoinsLine ==
  ASSUME TypeOK, enqueueTask
  PROVE  FileLine' = Append(FileLine, subject) /\ tasks' \in Seq(Requests)
<1>1. subject \in Requests /\ tasks \in Seq(Requests) /\ completed \in Seq(Requests)
  BY PipelineAssumption DEF TypeOK, enqueueTask
<1>2. tasks' = tasks \o <<subject>> /\ tasks' \in Seq(Requests)
      /\ <<subject>> \in Seq(Requests)
  BY <1>1, AppendIsConcat, AppendProperties DEF enqueueTask
<1>3. Line(atWork) \in Seq(Requests) /\ Line(atWork) \o tasks \in Seq(Requests)
      /\ FileLine \in Seq(Requests)
  BY FileLineType
<1>4. Line(atWork)' = Line(atWork)
  BY DEF enqueueTask, Line
<1>5. FileLine' = completed \o (Line(atWork) \o (tasks \o <<subject>>))
  BY <1>2, <1>4 DEF FileLine, enqueueTask
<1>6. Line(atWork) \o (tasks \o <<subject>>) = (Line(atWork) \o tasks) \o <<subject>>
  BY <1>1, <1>2, <1>3, ConcatAssociative
<1>7. completed \o ((Line(atWork) \o tasks) \o <<subject>>) = FileLine \o <<subject>>
  BY <1>1, <1>2, <1>3, ConcatAssociative DEF FileLine
<1>8. Append(FileLine, subject) = FileLine \o <<subject>>
  BY <1>1, <1>3, AppendIsConcat
<1> QED BY <1>2, <1>5, <1>6, <1>7, <1>8

\* A signal that is delivered takes the request at its front out of the line.
LEMMA DeliverLeavesLine ==
  ASSUME TypeOK, NEW answer \in Answers, onFileRequestCompleted(answer)
  PROVE  /\ FileLine # <<>> /\ Head(FileLine) = Head(completed)
         /\ FileLine' = Tail(FileLine) /\ completed' \in Seq(Requests)
<1> DEFINE rest == Line(atWork) \o tasks
<1>1. completed \in Seq(Requests) /\ completed # <<>> /\ rest \in Seq(Requests)
  BY FileLineType DEF TypeOK, onFileRequestCompleted
<1>2. completed' = Tail(completed) /\ rest' = rest
  BY DEF onFileRequestCompleted, Line
<1>3. Head(completed) \in Requests /\ Tail(completed) \in Seq(Requests)
      /\ <<Head(completed)>> \in Seq(Requests)
      /\ completed = <<Head(completed)>> \o Tail(completed)
  BY <1>1, FrontAndRest, HeadTailProperties
<1> HIDE DEF rest
<1>4. FileLine = <<Head(completed)>> \o (Tail(completed) \o rest)
  BY <1>1, <1>3, ConcatAssociative DEF FileLine, rest
<1> DEFINE after == Tail(completed) \o rest
<1>5. after \in Seq(Requests)
  BY <1>1, <1>3, ConcatProperties
<1>6. FileLine' = after
  BY <1>2 DEF FileLine, rest
<1> HIDE DEF after
<1>7. Head(<<Head(completed)>> \o after) = Head(completed)
      /\ Tail(<<Head(completed)>> \o after) = after
      /\ <<Head(completed)>> \o after # <<>>
  BY <1>3, <1>5, PushFront
<1> QED BY <1>2, <1>3, <1>4, <1>6, <1>7 DEF after


(***************************************************************************)
(* The first state, and steps that leave the line as it is                 *)
(***************************************************************************)

\* Nothing precedes anything in an empty line.
LEMMA EmptyLine ==
  /\ Distinct(<<>>) /\ Range(<<>>) = {}
  /\ \A x, y : ~Precedes(<<>>, x, y)
  BY DEF Distinct, Range, Precedes

LEMMA InitIInv == Init => IInv
<1> SUFFICES ASSUME Init PROVE IInv
  OBVIOUS
<1> USE PipelineAssumption DEF Init
<1>1. TypeOK
  <2>1. child \in [Requests -> ChildStates]
    BY DEF ChildStates
  <2>2. answers \in [Requests -> Answers \cup {NoAnswer}]
    OBVIOUS
  <2>3. <<>> \in Seq(Requests)
    OBVIOUS
  <2> QED BY <2>1, <2>2, <2>3 DEF TypeOK, MainStates, WorkerStates
<1>2. FileLine = <<>>
  <2>1. <<>> \in Seq(Requests)
    OBVIOUS
  <2> QED BY <2>1, ConcatEmptySeq DEF FileLine, Line
<1>3. LineInv
  BY <1>2, EmptyLine DEF LineInv
<1>4. MapsInv
  BY <1>2, EmptyLine DEF MapsInv
<1>5. ClosedInOrder
  BY EmptyLine DEF ClosedInOrder
<1>6. StopInv
  BY DEF StopInv, WorkerEndsBeforeWrite
<1> QED BY <1>1, <1>3, <1>4, <1>5, <1>6 DEF IInv

\* A step that leaves the line, the maps and the history keeps what is said
\* of them.
LEMMA QuietStep ==
  ASSUME IInv, FileLine' = FileLine,
         UNCHANGED <<subject, received, mapVars, historyVars>>,
         \A r \in Requests : child[r] = "stillborn" => child'[r] = "stillborn",
         main' = main \/ {main, main'} \cap {"enqueue", "register", "start"} = {}
  PROVE  LineInv' /\ MapsInv' /\ ClosedInOrder'
<1> USE DEF IInv, mapVars, historyVars
<1>1. LineInv'
  BY DEF LineInv
<1>2. MapsInv'
  <2>1. processRequests \subseteq Requests
    BY DEF TypeOK
  <2>2. main = "start" => subject \in Requests
    BY DEF TypeOK
  <2>3. main' = "start" <=> main = "start"
    OBVIOUS
  <2> QED BY <2>1, <2>2, <2>3 DEF MapsInv
<1>3. ClosedInOrder'
  BY DEF ClosedInOrder
<1> QED BY <1>1, <1>2, <1>3

\* What the worker does by itself only moves it along the line.
LEMMA WorkerStep ==
  ASSUME IInv, Worker
  PROVE  IInv'
<1> USE DEF IInv, workerVars, mainVars, mapVars, historyVars
<1>1. UNCHANGED <<mainVars, mapVars, child, answers, historyVars>>
  BY DEF Worker, startWorker, takeTask, finishTask, stopWorker, leaveService, endJob
<1>2. FileLine' = FileLine
  <2>1. CASE takeTask
    BY <2>1, TakeKeepsLine
  <2>2. CASE finishTask
    BY <2>2, FinishKeepsLine
  <2>3. CASE startWorker \/ stopWorker \/ leaveService \/ endJob
    BY <2>3, LineStays DEF startWorker, stopWorker, leaveService, endJob
  <2> QED BY <2>1, <2>2, <2>3 DEF Worker
<1>3. LineInv' /\ MapsInv' /\ ClosedInOrder'
  BY <1>1, <1>2, QuietStep
<1>4. TypeOK'
  <2>1. CASE takeTask
    BY <1>1, <2>1, TakeKeepsLine, PipelineAssumption DEF TypeOK, takeTask, WorkerStates
  <2>2. CASE finishTask
    BY <1>1, <2>2, FinishKeepsLine DEF TypeOK, finishTask, WorkerStates
  <2>3. CASE startWorker \/ stopWorker \/ leaveService \/ endJob
    BY <1>1, <2>3 DEF TypeOK, WorkerStates, startWorker, stopWorker, leaveService, endJob
  <2> QED BY <2>1, <2>2, <2>3 DEF Worker
<1>5. StopInv'
  BY <1>1 DEF StopInv, WorkerEndsBeforeWrite, Worker, startWorker, takeTask,
              finishTask, stopWorker, leaveService, endJob
<1> QED BY <1>3, <1>4, <1>5

\* The way through a shutdown but for clearTasks, and what only stops the
\* loop or hangs up.
LEMMA StopStep ==
  ASSUME IInv,
         \/ signalStop \/ joinService \/ awaitWaiting \/ awaitRunning
         \/ \E opened \in BOOLEAN : writeFiles(opened)
         \/ onSignal \/ onStopped
         \/ \E r \in Requests : handlerGone(r) \/ onProcessStarted(r)
  PROVE  IInv'
<1> USE DEF IInv, workerVars, mainVars, mapVars, historyVars,
            signalStop, joinService, awaitWaiting, awaitRunning, writeFiles,
            onSignal, onStopped, handlerGone, onProcessStarted
<1>1. /\ UNCHANGED <<subject, received, mapVars, worker, atWork, tasks, completed,
                     answers, historyVars>>
      /\ main' = main \/ {main, main'} \cap {"enqueue", "register", "start"} = {}
  OBVIOUS
<1>5. \A r \in Requests : child[r] = "stillborn" => child'[r] = "stillborn"
  BY DEF TypeOK
<1>2. LineInv' /\ MapsInv' /\ ClosedInOrder'
  BY <1>1, <1>5, LineStays, QuietStep
<1>3. TypeOK'
  BY <1>1 DEF TypeOK, MainStates, ChildStates
<1>4. StopInv'
  BY DEF StopInv, WorkerEndsBeforeWrite, workerRunning, TypeOK, WorkerStates
<1> QED BY <1>2, <1>3, <1>4

(***************************************************************************)
(* Steps that change the maps or the line                                  *)
(***************************************************************************)

\* What an answer changes.
LEMMA ResolvedType ==
  ASSUME TypeOK, NEW messages, NEW r \in Requests, NEW answer \in Answers,
         actionResolved(messages, r, answer)
  PROVE  /\ actionToMessageMap' = messages \ {r}
         /\ answers' \in [Requests -> Answers \cup {NoAnswer}]
         /\ main' # main => main' = "signalStop" /\ Kind[r] = "Stop"
  BY DEF actionResolved, TypeOK

\* A request that arrives is in no map and in no line yet.
LEMMA ResolveStep ==
  ASSUME IInv, NEW r \in Requests, Resolve(r)
  PROVE  IInv'
<1> USE DEF IInv, workerVars, historyVars, Receive, Registered
<1>1. /\ main = "loop" /\ r \notin received /\ received' = received \cup {r}
      /\ UNCHANGED <<handlers, written, workerVars, historyVars, fileRequests>>
  BY DEF Resolve, ResolveDirectly, ResolveFile, ResolveProcess, ResolveUnknown
<1>2. FileLine' = FileLine
  BY <1>1, LineStays
<1>3. subject = NoRequest /\ r # NoRequest
  BY <1>1, PipelineAssumption DEF TypeOK
<1>4. r \notin actionToMessageMap \cup fileRequests \cup processRequests
                 \cup runningProcesses \cup Range(order) \cup Range(FileLine)
                 \cup stranded
  BY <1>1 DEF TypeOK, LineInv
<1>5. ClosedInOrder' /\ StopInv'
  <2>1. actionToMessageMap' \ {r} = actionToMessageMap \ {r}
    BY ResolvedType
       DEF Resolve, ResolveDirectly, ResolveFile, ResolveProcess, ResolveUnknown
  <2>2. order \in Seq(Requests)
    BY DEF TypeOK
  <2>3. \A x, y \in Requests : Precedes(order, x, y) => x # r /\ y # r
    BY <1>4, <2>2, OneWay
  <2>4. ClosedInOrder'
    BY <1>1, <2>1, <2>3 DEF ClosedInOrder
  <2>5. main' \notin {"awaitRunning", "write"}
    BY <1>1, ResolvedType
       DEF Resolve, ResolveDirectly, ResolveFile, ResolveProcess, ResolveUnknown
  <2> QED BY <1>1, <2>4, <2>5 DEF StopInv, WorkerEndsBeforeWrite
<1>6. ASSUME NEW answer \in Answers, ResolveDirectly(r, answer)
      PROVE  TypeOK' /\ LineInv' /\ MapsInv'
  <2>1. /\ actionToMessageMap' = actionToMessageMap
        /\ answers' \in [Requests -> Answers \cup {NoAnswer}]
        /\ main' \in {"loop", "signalStop"}
        /\ UNCHANGED <<subject, processRequests, runningProcesses, child>>
    BY <1>1, <1>4, <1>6, ResolvedType DEF ResolveDirectly
  <2>2. TypeOK'
    BY <1>1, <2>1 DEF TypeOK, MainStates
  <2>3. LineInv'
    BY <1>1, <1>2, <2>1 DEF LineInv
  <2>4. MapsInv'
    BY <1>1, <1>2, <2>1 DEF MapsInv
  <2> QED BY <2>2, <2>3, <2>4
<1>7. ASSUME ResolveFile(r)
      PROVE  TypeOK' /\ LineInv' /\ MapsInv'
  <2>1. TypeOK'
    BY <1>1, <1>3, <1>7 DEF ResolveFile, TypeOK, MainStates
  <2>2. LineInv'
    BY <1>1, <1>2, <1>4, <1>7 DEF ResolveFile, LineInv
  <2>3. NoRequest \notin Range(FileLine) \cup actionToMessageMap \cup runningProcesses
    BY PipelineAssumption DEF TypeOK, LineInv
  <2>4. MapsInv'
    BY <1>1, <1>2, <1>3, <1>4, <1>7, <2>3 DEF ResolveFile, MapsInv
  <2> QED BY <2>1, <2>2, <2>4
<1>8. ASSUME ResolveProcess(r)
      PROVE  TypeOK' /\ LineInv' /\ MapsInv'
  <2>1. TypeOK'
    BY <1>1, <1>3, <1>8 DEF ResolveProcess, TypeOK, MainStates, ChildStates
  <2>2. LineInv'
    BY <1>1, <1>2, <1>8 DEF ResolveProcess, LineInv
  <2>3. NoRequest \notin Range(FileLine) \cup runningProcesses \cup actionToMessageMap
    BY PipelineAssumption DEF TypeOK, LineInv
  <2>4. \A p \in Requests \ {r} : child'[p] = child[p]
    BY <1>8 DEF ResolveProcess, TypeOK
  <2>5. processRequests \subseteq Requests \ {r}
    BY <1>4 DEF TypeOK
  <2>6. MapsInv'
    BY <1>1, <1>2, <1>3, <1>4, <1>8, <2>3, <2>4, <2>5 DEF ResolveProcess, MapsInv
  <2> QED BY <2>1, <2>2, <2>6
<1>9. ASSUME ResolveUnknown(r)
      PROVE  TypeOK' /\ LineInv' /\ MapsInv'
  <2>1. TypeOK'
    BY <1>1, <1>9 DEF ResolveUnknown, TypeOK
  <2>2. LineInv'
    BY <1>1, <1>2, <1>9 DEF ResolveUnknown, LineInv
  <2>3. MapsInv'
    BY <1>1, <1>2, <1>3, <1>4, <1>9 DEF ResolveUnknown, MapsInv
  <2> QED BY <2>1, <2>2, <2>3
<1> QED BY <1>5, <1>6, <1>7, <1>8, <1>9 DEF Resolve

\* A request joins the line behind all that were enqueued before.
LEMMA EnqueueStep ==
  ASSUME IInv, enqueueTask
  PROVE  IInv'
<1> USE DEF IInv
<1>1. /\ main = "enqueue" /\ main' = "register" /\ order' = Append(order, subject)
      /\ UNCHANGED <<subject, received, handlers, written, mapVars, worker, atWork,
                     stopFlag, completed, child, answers, stranded>>
      /\ subject \in Requests /\ subject # NoRequest
  BY PipelineAssumption DEF enqueueTask, TypeOK
<1>2. FileLine' = Append(FileLine, subject) /\ tasks' \in Seq(Requests)
  BY EnqueueJoinsLine
<1>3. FileLine \in Seq(Requests) /\ order \in Seq(Requests)
  BY FileLineType DEF TypeOK
<1>4. subject \notin Range(order) /\ subject \notin Range(FileLine) /\ subject \in received
      /\ subject \notin stranded /\ subject \in actionToMessageMap \ fileRequests
      /\ Kind[subject] = "File"
  BY <1>1 DEF LineInv, MapsInv, TypeOK
<1>5. /\ order' \in Seq(Requests) /\ Distinct(order')
      /\ Range(order') = Range(order) \cup {subject}
      /\ \A x, y : Precedes(order', x, y) <=>
           Precedes(order, x, y) \/ (x \in Range(order) /\ y = subject)
  BY <1>1, <1>3, <1>4, JoinLine DEF LineInv
<1>6. /\ Distinct(FileLine')
      /\ Range(FileLine') = Range(FileLine) \cup {subject}
      /\ \A x, y : Precedes(FileLine', x, y) <=>
           Precedes(FileLine, x, y) \/ (x \in Range(FileLine) /\ y = subject)
  BY <1>1, <1>2, <1>3, <1>4, JoinLine DEF LineInv
<1>7. TypeOK'
  BY <1>1, <1>2, <1>5 DEF TypeOK, MainStates, mapVars
<1>8. LineInv'
  BY <1>1, <1>4, <1>5, <1>6 DEF LineInv
<1>9. MapsInv'
  BY <1>1, <1>4, <1>5, <1>6 DEF MapsInv, mapVars
<1>10. ClosedInOrder'
  BY <1>1, <1>4, <1>5 DEF ClosedInOrder, mapVars
<1>11. StopInv'
  BY <1>1 DEF StopInv, WorkerEndsBeforeWrite
<1> QED BY <1>7, <1>8, <1>9, <1>10, <1>11

\* The request that is registered is in the line already.
LEMMA InsertStep ==
  ASSUME IInv, insertFileRequest
  PROVE  IInv'
<1> USE DEF IInv, insertFileRequest, workerVars, historyVars
<1>1. subject \in Requests /\ subject # NoRequest /\ subject \in Range(FileLine)
  BY PipelineAssumption DEF TypeOK, LineInv
<1>2. FileLine' = FileLine
  BY LineStays
<1>3. TypeOK'
  BY <1>1 DEF TypeOK, MainStates, MapsInv
<1>4. LineInv'
  BY <1>2 DEF LineInv
<1>5. MapsInv'
  BY <1>1, <1>2 DEF MapsInv
<1>6. ClosedInOrder' /\ StopInv'
  BY DEF ClosedInOrder, StopInv, WorkerEndsBeforeWrite
<1> QED BY <1>3, <1>4, <1>5, <1>6

\* What start() has left running, or has failed, is registered.
LEMMA InsertProcessStep ==
  ASSUME IInv, insertProcessRequest
  PROVE  IInv'
<1> USE DEF IInv, insertProcessRequest, workerVars, historyVars
<1>1. subject \in Requests /\ subject # NoRequest
  BY PipelineAssumption DEF TypeOK
<1>2. FileLine' = FileLine
  BY LineStays
<1>3. subject \notin Range(FileLine) \cup fileRequests
  BY <1>1 DEF LineInv, MapsInv
<1>4. TypeOK'
  BY <1>1 DEF TypeOK, MainStates, MapsInv
<1>5. LineInv'
  BY <1>2 DEF LineInv
<1>6. MapsInv'
  BY <1>1, <1>2, <1>3 DEF MapsInv
<1>7. ClosedInOrder' /\ StopInv'
  BY DEF ClosedInOrder, StopInv, WorkerEndsBeforeWrite
<1> QED BY <1>4, <1>5, <1>6, <1>7

\* A process that fails in start() is found by nobody.
LEMMA FailInStartStep ==
  ASSUME IInv, failInStart
  PROVE  IInv'
<1> USE DEF IInv, workerVars, historyVars
<1>1. subject \in Requests /\ subject # NoRequest /\ subject \notin processRequests
  BY PipelineAssumption DEF failInStart, TypeOK, MapsInv
<1>2. /\ main = "start" /\ child' = [child EXCEPT ![subject] = "stillborn"]
      /\ runningProcesses' = runningProcesses \ {subject}
      /\ UNCHANGED <<main, subject, received, handlers, written, actionToMessageMap,
                     fileRequests, processRequests, answers, workerVars, historyVars>>
  BY <1>1 DEF failInStart, processCompleted
<1>3. FileLine' = FileLine
  BY <1>2, LineStays
<1>4. TypeOK'
  BY <1>1, <1>2 DEF TypeOK, ChildStates
<1>5. LineInv'
  BY <1>2, <1>3 DEF LineInv
<1>6. child'[subject] = "stillborn" /\ \A p \in Requests \ {subject} : child'[p] = child[p]
  BY <1>1, <1>2 DEF TypeOK
<1>7. processRequests \subseteq Requests \ {subject}
  BY <1>1 DEF TypeOK
<1>8. MapsInv'
  BY <1>1, <1>2, <1>3, <1>6, <1>7 DEF MapsInv
<1>9. ClosedInOrder' /\ StopInv'
  BY <1>2 DEF ClosedInOrder, StopInv, WorkerEndsBeforeWrite
<1> QED BY <1>4, <1>5, <1>8, <1>9

\* The signal that is delivered is of a request that is registered, and the
\* first of those still in the line.
LEMMA DeliverStep ==
  ASSUME IInv, NEW answer \in Answers, onFileRequestCompleted(answer)
  PROVE  IInv'
<1> USE DEF IInv
<1> DEFINE r == Head(completed)
<1>1. /\ main = "loop" /\ completed # <<>>
      /\ fileRequests' = fileRequests \ {r}
      /\ UNCHANGED <<subject, received, handlers, written, processRequests,
                     runningProcesses, worker, atWork, tasks, stopFlag, child,
                     historyVars>>
      /\ r \in fileRequests => actionResolved(actionToMessageMap, r, answer)
  BY DEF onFileRequestCompleted
<1>2. /\ FileLine # <<>> /\ Head(FileLine) = r
      /\ FileLine' = Tail(FileLine) /\ completed' \in Seq(Requests)
  BY DeliverLeavesLine
<1>3. FileLine \in Seq(Requests) /\ order \in Seq(Requests)
  BY FileLineType DEF TypeOK
<1>4. /\ r \in Requests /\ Range(FileLine) = Range(FileLine') \cup {r}
      /\ \A x, y : Precedes(FileLine', x, y) => Precedes(FileLine, x, y)
      /\ \A y \in Range(FileLine') : Precedes(FileLine, r, y)
      /\ Distinct(FileLine') /\ r \notin Range(FileLine')
      /\ Range(FileLine') \subseteq Requests
  BY <1>2, <1>3, LeaveLine, RangeOfSeq DEF LineInv
<1> HIDE DEF r
<1>5. subject = NoRequest
  BY <1>1 DEF TypeOK
<1>6. r \in fileRequests /\ Kind[r] = "File" /\ r \notin processRequests
      /\ r \notin stranded
  BY <1>4, <1>5, PipelineAssumption DEF MapsInv, LineInv
<1>7. /\ actionToMessageMap' = actionToMessageMap \ {r} /\ main' = "loop"
      /\ answers' \in [Requests -> Answers \cup {NoAnswer}]
  BY <1>1, <1>4, <1>6, ResolvedType
<1>8. TypeOK'
  BY <1>1, <1>2, <1>7 DEF TypeOK, historyVars
<1>9. LineInv'
  BY <1>1, <1>4, <1>7 DEF LineInv, historyVars
<1>10. MapsInv'
  BY <1>1, <1>4, <1>5, <1>6, <1>7 DEF MapsInv, historyVars
<1>11. ClosedInOrder'
  <2>1. ASSUME NEW x \in Requests, Precedes(order, x, r)
        PROVE  x \notin actionToMessageMap \/ x \in stranded
    <3>1. x \in Range(order) /\ x # r /\ ~Precedes(order, r, x)
      BY <1>3, <2>1, OneWay DEF LineInv
    <3>2. x \notin Range(FileLine')
      BY <1>4, <3>1 DEF LineInv
    <3> QED BY <1>4, <1>5, <3>1, <3>2, PipelineAssumption DEF MapsInv
  <2> QED BY <1>1, <1>7, <2>1 DEF ClosedInOrder, historyVars
<1>12. StopInv'
  BY <1>1, <1>7 DEF StopInv, WorkerEndsBeforeWrite
<1> QED BY <1>8, <1>9, <1>10, <1>11, <1>12

\* A process that ends is answered, and is no file request.
LEMMA ProcessSignalStep ==
  ASSUME IInv, NEW r \in Requests,
         onErrorOccurred(r) \/ \E answer \in Answers : onFinished(r, answer)
  PROVE  IInv'
<1> USE DEF IInv, workerVars, historyVars
<1>1. "error" \in Answers
  BY DEF Answers
<1>2. PICK answer \in Answers : processCompleted(r, answer) /\ main = "loop" /\ UNCHANGED subject
  BY <1>1 DEF onErrorOccurred, onFinished
<1>3. /\ main = "loop" /\ runningProcesses' = runningProcesses \ {r}
      /\ UNCHANGED <<subject, received, handlers, written, fileRequests, workerVars,
                     historyVars>>
      /\ \/ /\ r \in processRequests /\ processRequests' = processRequests \ {r}
            /\ actionResolved(actionToMessageMap, r, answer)
         \/ /\ r \notin runningProcesses
            /\ UNCHANGED <<processRequests, actionToMessageMap, answers, main>>
  <2>1. subject = NoRequest /\ r # NoRequest
    BY <1>2, PipelineAssumption DEF TypeOK
  <2> QED BY <1>2, <2>1 DEF processCompleted, MapsInv
<1>4. /\ child' \in [Requests -> ChildStates]
      /\ \A p \in Requests : child[p] = "stillborn" => child'[p] = "stillborn"
  BY DEF TypeOK, ChildStates, onErrorOccurred, onFinished
<1>5. FileLine' = FileLine
  BY <1>3, LineStays
<1>6. subject = NoRequest
  BY <1>3 DEF TypeOK
<1>7. CASE r \in processRequests /\ processRequests' = processRequests \ {r}
           /\ actionResolved(actionToMessageMap, r, answer)
  <2>1. Kind[r] = "Process" /\ r \notin fileRequests /\ r \notin Range(order)
    BY <1>7 DEF MapsInv
  <2>2. /\ actionToMessageMap' = actionToMessageMap \ {r} /\ main' = "loop"
        /\ answers' \in [Requests -> Answers \cup {NoAnswer}]
    BY <1>3, <1>7, <2>1, ResolvedType
  <2>3. TypeOK'
    BY <1>3, <1>4, <1>7, <2>2 DEF TypeOK
  <2>4. LineInv'
    BY <1>3, <1>5, <2>2 DEF LineInv
  <2>5. MapsInv'
    <3>1. processRequests \subseteq Requests
      BY DEF TypeOK
    <3> QED BY <1>3, <1>4, <1>5, <1>6, <1>7, <2>1, <2>2, <3>1 DEF MapsInv
  <2>6. \A x, y \in Requests : Precedes(order, x, y) => y # r
    BY <2>1, OneWay DEF TypeOK
  <2>7. ClosedInOrder' /\ StopInv'
    BY <1>3, <2>2, <2>6 DEF ClosedInOrder, StopInv, WorkerEndsBeforeWrite
  <2> QED BY <2>3, <2>4, <2>5, <2>7
<1>8. CASE r \notin runningProcesses
           /\ UNCHANGED <<processRequests, actionToMessageMap, answers, main>>
  <2>1. runningProcesses' = runningProcesses
    BY <1>3, <1>8
  <2>2. TypeOK'
    BY <1>3, <1>4, <1>8, <2>1 DEF TypeOK
  <2>3. LineInv' /\ MapsInv' /\ ClosedInOrder'
    BY <1>3, <1>4, <1>5, <1>8, <2>1, QuietStep DEF mapVars
  <2>4. StopInv'
    BY <1>3, <1>8 DEF StopInv, WorkerEndsBeforeWrite
  <2> QED BY <2>2, <2>3, <2>4
<1> QED BY <1>3, <1>7, <1>8

\* The stop takes the end of the line, and remembers it.
LEMMA ClearStep ==
  ASSUME IInv, clearTasks
  PROVE  IInv'
<1> USE DEF IInv
<1>1. /\ main = "clearTasks" /\ main' = "awaitWaiting" /\ tasks' = <<>>
      /\ stranded' = stranded \cup Range(tasks)
      /\ UNCHANGED <<subject, received, handlers, written, mapVars, worker, atWork,
                     stopFlag, completed, child, answers, order>>
  BY DEF clearTasks
<1> DEFINE front == completed \o Line(atWork)
<1>2. completed \in Seq(Requests) /\ Line(atWork) \in Seq(Requests)
      /\ tasks \in Seq(Requests) /\ order \in Seq(Requests)
  BY FileLineType DEF TypeOK
<1>3. front \in Seq(Requests) /\ FileLine = front \o tasks
  BY <1>2, ConcatProperties, ConcatAssociative DEF FileLine
<1>4. FileLine' = front
  <2>1. Line(atWork)' \o tasks' = Line(atWork)
    BY <1>1, <1>2, ConcatEmptySeq DEF Line
  <2> QED BY <1>1, <2>1 DEF FileLine
<1> HIDE DEF front
<1>5. /\ Range(FileLine) = Range(FileLine') \cup Range(tasks)
      /\ \A x, y : Precedes(FileLine', x, y) => Precedes(FileLine, x, y)
      /\ Distinct(FileLine') /\ Range(FileLine') \cap Range(tasks) = {}
      /\ Range(tasks) \subseteq Requests
  BY <1>2, <1>3, <1>4, CutLine, RangeOfSeq DEF LineInv
<1>6. TypeOK'
  <2>1. <<>> \in Seq(Requests)
    OBVIOUS
  <2> QED BY <1>1, <1>5, <2>1 DEF TypeOK, MainStates, mapVars
<1>7. LineInv'
  BY <1>1, <1>5 DEF LineInv
<1>8. MapsInv'
  BY <1>1, <1>5 DEF MapsInv, mapVars
<1>9. ClosedInOrder' /\ StopInv'
  BY <1>1 DEF ClosedInOrder, StopInv, WorkerEndsBeforeWrite, mapVars
<1> QED BY <1>6, <1>7, <1>8, <1>9

\* Every step keeps the invariant.
LEMMA NextIInv == IInv /\ [Next]_vars => IInv'
<1> SUFFICES ASSUME IInv, [Next]_vars
             PROVE  IInv'
  OBVIOUS
<1>1. CASE UNCHANGED vars
  BY <1>1 DEF vars, mainVars, mapVars, workerVars, historyVars, IInv, TypeOK,
              LineInv, MapsInv, ClosedInOrder, StopInv, WorkerEndsBeforeWrite,
              FileLine, Line
<1>2. CASE MainHandler
  BY <1>2, EnqueueStep, InsertStep, InsertProcessStep, StopStep, ClearStep
     DEF MainHandler, Shutdown
<1>3. ASSUME NEW r \in Requests, Child(r)
      PROVE  IInv'
  BY <1>3, StopStep, ProcessSignalStep DEF Child
<1> QED
  BY <1>1, <1>2, <1>3, ResolveStep, FailInStartStep, DeliverStep, StopStep, WorkerStep
     DEF Next

LEMMA SpecIInv == Spec => []IInv
  BY InitIInv, NextIInv, PTL DEF Spec

(***************************************************************************)
(* Invariants                                                              *)
(***************************************************************************)

\* The types of RequestPipeline hold in every reachable state.
THEOREM PipelineTypeCorrect == Spec => []TypeOK
<1>1. IInv => TypeOK
  BY DEF IInv
<1> QED BY <1>1, SpecIInv, PTL

\* The event loop finds registered what it hears of: every file task that is
\* completed, however early, and every process that still ran when
\* QProcess::start returned.
THEOREM NothingIsUnexpected == Spec => []NothingUnexpected
<1>1. IInv => NothingUnexpected
  BY FileLineType DEF IInv, MapsInv, NothingUnexpected
<1> QED BY <1>1, SpecIInv, PTL

\* Every open request is on its way to an answer, unless a stop threw it away,
\* nobody knows its action, or its process failed in QProcess::start.
THEOREM RequestsStayOnTheirWay == Spec => []RequestsOnTheirWay
<1>1. IInv => RequestsOnTheirWay
  BY FileLineType DEF IInv, MapsInv, RequestsOnTheirWay
<1> QED BY <1>1, SpecIInv, PTL

\* File requests are closed in the order in which they were enqueued.
THEOREM FileAnswersKeepOrder == Spec => []FileAnswersInOrder
<1>1. IInv => FileAnswersInOrder
  <2> SUFFICES ASSUME IInv, NEW i \in DOMAIN order, NEW j \in DOMAIN order,
                      i < j, order[j] \notin actionToMessageMap
               PROVE  order[i] \notin actionToMessageMap \/ order[i] \in stranded
    BY DEF FileAnswersInOrder
  <2>1. order \in Seq(Requests) /\ DOMAIN order = 1..Len(order)
    BY LenProperties DEF IInv, TypeOK
  <2>2. order[i] \in Requests /\ order[j] \in Requests
    BY <2>1, ElementOfSeq
  <2>3. Precedes(order, order[i], order[j])
    BY DEF Precedes
  <2> QED BY <2>2, <2>3 DEF IInv, ClosedInOrder
<1> QED BY <1>1, SpecIInv, PTL

\* Shutdown writes the managers' files only when the worker has ended.
THEOREM WorkerHasEnded == Spec => []WorkerEndsBeforeWrite
<1>1. IInv => WorkerEndsBeforeWrite
  BY DEF IInv, StopInv
<1> QED BY <1>1, SpecIInv, PTL

(***************************************************************************)
(* The promise to clients: each step is one of RequestReply, or a stutter  *)
(***************************************************************************)

\* What a client sees depends on two variables.
LEMMA StatusStays ==
  ASSUME UNCHANGED <<received, actionToMessageMap>>
  PROVE  Status' = Status
  BY DEF Status

\* An answer to a request that has arrived and is registered, or to one that
\* arrives in this step, is an Answer or a Drop of the promise.
LEMMA AnswerIsPromised ==
  ASSUME TypeOK, NEW r \in Requests, NEW answer \in Answers,
         actionResolved(actionToMessageMap \cup {r}, r, answer),
         r \notin received \/ r \in actionToMessageMap,
         received' = received \cup {r}, UNCHANGED handlers
  PROVE  Promise!Next
<1>1. actionToMessageMap' = actionToMessageMap \ {r}
  BY DEF actionResolved
<1>2. Status[r] # "closed" /\ Status' = [Status EXCEPT ![r] = "closed"]
  BY <1>1 DEF Status, TypeOK
<1>3. CASE r \in handlers
  BY <1>2, <1>3 DEF actionResolved, Promise!Answer, Promise!Next
<1>4. CASE r \notin handlers
  BY <1>2, <1>4 DEF actionResolved, Promise!Drop, Promise!Next
<1> QED BY <1>3, <1>4

\* An answer to a request that is not registered any more changes nothing.
LEMMA SignalIsPromised ==
  ASSUME TypeOK, NEW r \in Requests, NEW answer \in Answers,
         actionResolved(actionToMessageMap, r, answer),
         UNCHANGED <<received, handlers>>
  PROVE  [Promise!Next]_Promise!vars
<1>1. CASE r \in actionToMessageMap
  <2>1. actionToMessageMap \cup {r} = actionToMessageMap /\ received' = received \cup {r}
    BY <1>1 DEF TypeOK
  <2> QED BY <1>1, <2>1, AnswerIsPromised
<1>2. CASE r \notin actionToMessageMap
  <2>1. UNCHANGED <<actionToMessageMap, answers>>
    BY <1>2 DEF actionResolved
  <2> QED BY <2>1, StatusStays DEF Promise!vars
<1> QED BY <1>1, <1>2

\* A request that arrives is received, or answered at once.
LEMMA ResolveIsPromised ==
  ASSUME TypeOK, NEW r \in Requests, Resolve(r)
  PROVE  Promise!Next
<1>1. r \notin received /\ received' = received \cup {r} /\ UNCHANGED handlers
  BY DEF Resolve, ResolveDirectly, ResolveFile, ResolveProcess, ResolveUnknown, Receive
<1>2. CASE \E answer \in Answers : ResolveDirectly(r, answer)
  BY <1>1, <1>2, AnswerIsPromised DEF ResolveDirectly, Registered
<1>3. CASE actionToMessageMap' = actionToMessageMap \cup {r} /\ UNCHANGED answers
  <2>1. Status[r] = "new" /\ Status' = [Status EXCEPT ![r] = "open"]
    BY <1>1, <1>3 DEF Status
  <2> QED BY <1>1, <1>3, <2>1 DEF Promise!Receive, Promise!Next
<1> QED
  BY <1>2, <1>3 DEF Resolve, ResolveFile, ResolveProcess, ResolveUnknown, Registered

LEMMA NextIsPromised ==
  ASSUME TypeOK, [Next]_vars
  PROVE  [Promise!Next]_Promise!vars
<1> USE DEF mainVars, mapVars, workerVars, historyVars
<1>1. CASE UNCHANGED <<received, handlers, actionToMessageMap, answers>>
  BY <1>1, StatusStays DEF Promise!vars
<1>2. ASSUME NEW answer \in Answers, onFileRequestCompleted(answer)
      PROVE  [Promise!Next]_Promise!vars
  <2>1. Head(completed) \in Requests
    BY <1>2, HeadTailProperties DEF TypeOK, onFileRequestCompleted
  <2>2. CASE Head(completed) \in fileRequests
    BY <1>2, <2>1, <2>2, SignalIsPromised DEF onFileRequestCompleted
  <2>3. CASE Head(completed) \notin fileRequests
    BY <1>1, <1>2, <2>3 DEF onFileRequestCompleted
  <2> QED BY <2>2, <2>3
<1>3. ASSUME NEW r \in Requests, NEW answer \in Answers, processCompleted(r, answer)
      PROVE  [Promise!Next]_Promise!vars
  BY <1>1, <1>3, SignalIsPromised DEF processCompleted
<1>4. ASSUME NEW r \in Requests, Child(r)
      PROVE  [Promise!Next]_Promise!vars
  <2>1. "error" \in Answers
    BY DEF Answers
  <2> QED BY <1>1, <1>3, <1>4, <2>1
          DEF Child, onErrorOccurred, onFinished, onProcessStarted
<1>9. CASE failInStart
  <2>1. "error" \in Answers
    BY DEF Answers
  <2>2. subject \in Requests
    BY <1>9 DEF failInStart, TypeOK
  <2> QED BY <1>3, <1>9, <2>1, <2>2 DEF failInStart
<1>5. ASSUME NEW r \in Requests, handlerGone(r)
      PROVE  [Promise!Next]_Promise!vars
  <2>1. Promise!Disconnect(r)
    BY <1>5, StatusStays DEF handlerGone, Promise!Disconnect
  <2> QED BY <2>1 DEF Promise!Next
<1>6. CASE MainHandler
  BY <1>1, <1>6
     DEF MainHandler, Shutdown, enqueueTask, insertFileRequest,
         insertProcessRequest, signalStop,
         joinService, clearTasks, awaitWaiting, awaitRunning, writeFiles
<1>7. CASE Worker
  BY <1>1, <1>7 DEF Worker, startWorker, takeTask, finishTask, stopWorker,
                    leaveService, endJob
<1>8. CASE onSignal \/ onStopped \/ UNCHANGED vars
  BY <1>1, <1>8 DEF onSignal, onStopped, vars
<1> QED BY <1>2, <1>4, <1>5, <1>6, <1>7, <1>8, <1>9, ResolveIsPromised DEF Next

\* The pipeline implements RequestReply: a request is answered at most once,
\* dropped only when its client has gone, and never answered after that.
THEOREM PipelineKeepsPromise == Spec => KeepsPromise
<1>1. Init => Promise!Init
  BY DEF Init, Promise!Init, Status
<1>2. TypeOK /\ [Next]_vars => [Promise!Next]_Promise!vars
  BY NextIsPromised
<1> QED BY <1>1, <1>2, PipelineTypeCorrect, PTL DEF Spec, KeepsPromise, Promise!Spec

=============================================================================
