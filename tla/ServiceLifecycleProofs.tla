------------------------ MODULE ServiceLifecycleProofs ------------------------
(***************************************************************************)
(* Proofs about ServiceLifecycle: its types, that the server ends by       *)
(* itself only after its data are safe, that readiness is not reported too *)
(* early, and that no service is forgotten when they are counted off; for  *)
(* every order of signals, any number of shutdowns and every width of the  *)
(* counter that four services do not overflow.                             *)
(***************************************************************************)
EXTENDS ServiceLifecycle, SequenceTheorems, TLAPS

(***************************************************************************)
(* The inductive invariant                                                 *)
(***************************************************************************)

\* The main thread has seen to this signal of s.
Handled(s, signal) == signal \in emitted[s] \ Range(events[s])

\* No signal waits twice, and none behind finished.
InOrder(q) ==
  /\ \A i, j \in DOMAIN q : q[i] = q[j] => i = j
  /\ \A i \in DOMAIN q : q[i] = "finished" => i = Len(q)

\* What waits, and what a service has posted when it finishes.
SignalsInv ==
  \A s \in Services :
    /\ InOrder(events[s])
    /\ "finished" \in emitted[s] =>
         s \in told /\ {"started", "ready"} \subseteq emitted[s]
    /\ Handled(s, "finished") => Range(events[s]) = {}

\* Nothing is told to stop but by a shutdown, and the event loop goes on only
\* after one has written the files; so whatever finishes is handled after that.
ExitInv ==
  /\ main = "loop" /\ told # {} => written
  /\ stopTimer => written
  /\ written => Over("file") /\ Over("mailer")
  /\ main = "exit0" => stopTimer

\* A flag is set by the signal it stands for.
ReadyInv ==
  /\ \A s \in Services : isReady[s] => "ready" \in emitted[s]
  /\ ReadinessIsRight

\* The services that were counted and are not yet counted off.
Counted(s) == IF Handled(s, "started") /\ ~Handled(s, "finished") THEN 1 ELSE 0

\* Unless the server ends with an error, the unsigned counter never wraps: it
\* is the number of services whose start was handled and whose end was not
\* (application.cpp:83, 91).
CountIsExact ==
  main # "exit1" =>
    nStartedServices = Counted("publicHttp") + Counted("privateHttp")
                         + Counted("file") + Counted("mailer")

\* Once the end of all services was handled the timer is set that ends the
\* server, in whatever order their signals came (application.cpp:100).
NoneForgotten ==
  (main # "exit1" /\ \A s \in Services : Handled(s, "finished")) => stopTimer

IInv == TypeOK /\ SignalsInv /\ ExitInv /\ ReadyInv /\ CountIsExact /\ NoneForgotten

(***************************************************************************)
(* Queues of signals                                                       *)
(***************************************************************************)

\* A signal that is posted waits at the end.
LEMMA PostedSignal ==
  ASSUME NEW q \in Seq(Signals), NEW signal \in Signals
  PROVE  /\ Append(q, signal) \in Seq(Signals)
         /\ Range(Append(q, signal)) = Range(q) \cup {signal}
         /\ (InOrder(q) /\ signal \notin Range(q) /\ "finished" \notin Range(q))
              => InOrder(Append(q, signal))
<1> DEFINE t == Append(q, signal)
<1>1. Len(q) \in Nat /\ DOMAIN q = 1..Len(q)
  BY LenProperties
<1>2. /\ t \in Seq(Signals) /\ Len(t) = Len(q) + 1
      /\ \A i \in 1..Len(q) : t[i] = q[i]
      /\ t[Len(q) + 1] = signal
  BY AppendProperties
<1>3. DOMAIN t = 1..(Len(q) + 1)
  BY <1>2, LenProperties
<1> HIDE DEF t
<1>4. Range(t) = Range(q) \cup {signal}
  BY <1>1, <1>2, <1>3 DEF Range
<1>5. ASSUME InOrder(q), signal \notin Range(q), "finished" \notin Range(q)
      PROVE  InOrder(t)
  BY <1>1, <1>2, <1>3, <1>5 DEF InOrder, Range
<1> QED BY <1>2, <1>4, <1>5 DEF t

\* A signal that is handled was the first; finished is the last.
LEMMA TakenSignal ==
  ASSUME NEW q \in Seq(Signals), q # <<>>
  PROVE  /\ Head(q) \in Range(q) /\ Tail(q) \in Seq(Signals)
         /\ Range(q) = Range(Tail(q)) \cup {Head(q)}
         /\ InOrder(q) => /\ InOrder(Tail(q)) /\ Head(q) \notin Range(Tail(q))
                          /\ Head(q) = "finished" => Range(Tail(q)) = {}
<1> DEFINE t == Tail(q)
<1>1. Len(q) \in Nat \ {0} /\ DOMAIN q = 1..Len(q) /\ Head(q) = q[1]
  BY LenProperties, EmptySeq, HeadTailProperties
<1>2. /\ t \in Seq(Signals) /\ Len(t) = Len(q) - 1
      /\ \A i \in 1..(Len(q) - 1) : t[i] = q[i + 1]
  BY HeadTailProperties
<1>3. DOMAIN t = 1..(Len(q) - 1)
  BY <1>2, LenProperties
<1> HIDE DEF t
<1>4. Head(q) \in Range(q) /\ Range(t) \cup {Head(q)} \subseteq Range(q)
  BY <1>1, <1>2, <1>3 DEF Range
<1>5. ASSUME NEW i \in 1..Len(q), i # 1
      PROVE  q[i] \in Range(t)
  <2>1. i - 1 \in DOMAIN t /\ t[i - 1] = q[i]
    BY <1>1, <1>2, <1>3, <1>5
  <2> QED BY <2>1 DEF Range
<1>6. Range(q) = Range(t) \cup {Head(q)}
  BY <1>1, <1>4, <1>5 DEF Range
<1>7. ASSUME InOrder(q)
      PROVE  /\ InOrder(t) /\ Head(q) \notin Range(t)
             /\ Head(q) = "finished" => Range(t) = {}
  <2>1. \A i \in DOMAIN t : i + 1 \in DOMAIN q /\ i + 1 # 1 /\ q[i + 1] = t[i]
    BY <1>1, <1>2, <1>3
  <2>2. InOrder(t)
    <3>1. ASSUME NEW i \in DOMAIN t, NEW j \in DOMAIN t, t[i] = t[j]
          PROVE  i = j
      <4>1. i + 1 = j + 1
        BY <1>7, <2>1, <3>1 DEF InOrder
      <4> QED BY <1>1, <1>3, <4>1
    <3>2. ASSUME NEW i \in DOMAIN t, t[i] = "finished"
          PROVE  i = Len(t)
      <4>1. i + 1 = Len(q)
        BY <1>7, <2>1, <3>2 DEF InOrder
      <4> QED BY <1>1, <1>2, <1>3, <4>1
    <3> QED BY <3>1, <3>2 DEF InOrder
  <2>3. Head(q) \notin Range(t)
    <3>1. ASSUME NEW i \in DOMAIN t, t[i] = Head(q)
          PROVE  FALSE
      <4>1. i + 1 = 1
        BY <1>1, <1>7, <2>1, <3>1 DEF InOrder
      <4> QED BY <1>1, <1>3, <4>1
    <3> QED BY <3>1 DEF Range
  <2>4. ASSUME Head(q) = "finished"
        PROVE  Range(t) = {}
    <3>1. Len(q) = 1
      BY <1>1, <1>7, <2>4 DEF InOrder
    <3> QED BY <1>3, <3>1 DEF Range
  <2> QED BY <2>2, <2>3, <2>4
<1> QED BY <1>2, <1>4, <1>6, <1>7 DEF t

(***************************************************************************)
(* The invariant is inductive                                              *)
(***************************************************************************)

LEMMA InitInv == Init => IInv
<1> SUFFICES ASSUME Init PROVE IInv
  OBVIOUS
<1> USE DEF Init, Services, HttpServices
<1>1. TypeOK
  <2>1. \A s \in Services : Range(events[s]) \subseteq emitted[s]
    BY DEF Range
  <2>2. events \in [Services -> Seq(Signals)]
    BY EmptySeq
  <2>3. nStartedServices \in 0..(CountLimit - 1) /\ nShutdowns \in 0..MaxShutdowns
    BY LifecycleAssumption
  <2> QED BY <2>1, <2>2, <2>3 DEF TypeOK, MainStates
<1>2. SignalsInv
  BY DEF SignalsInv, InOrder, Handled
<1>3. ExitInv
  BY DEF ExitInv
<1>4. ReadyInv
  BY DEF ReadyInv, ReadinessIsRight
<1>5. CountIsExact
  BY DEF CountIsExact, Counted, Handled
<1>6. NoneForgotten
  BY DEF NoneForgotten, Handled
<1> QED BY <1>1, <1>2, <1>3, <1>4, <1>5, <1>6 DEF IInv

\* Main thread and services together: what neither posts nor handles a signal
\* keeps the count, and the invariant if the main thread's own part holds.
LEMMA NoSignal ==
  ASSUME IInv,
         UNCHANGED <<emitted, events, isReady, nStartedServices, stopTimer, printed>>,
         main # "exit1", main' \in MainStates, told \subseteq told', told' \subseteq Services,
         written' \in BOOLEAN, nShutdowns' \in 0..MaxShutdowns, ExitInv'
  PROVE  IInv'
<1>1. TypeOK'
  BY DEF IInv, TypeOK
<1>2. SignalsInv'
  BY DEF IInv, SignalsInv, Handled
<1>3. ReadyInv'
  BY DEF IInv, ReadyInv, ReadinessIsRight
<1>4. CountIsExact'
  BY DEF IInv, CountIsExact, Counted, Handled
<1>5. NoneForgotten'
  BY DEF IInv, NoneForgotten, Handled
<1> QED BY <1>1, <1>2, <1>3, <1>4, <1>5 DEF IInv

\* A service posts a signal it may post.
LEMMA PostKeeps ==
  ASSUME IInv, NEW s \in Services, NEW signal \in Signals, Post(s, signal), ~Over(s),
         signal = "finished" => s \in told /\ {"started", "ready"} \subseteq emitted[s],
         UNCHANGED <<told, isReady, nStartedServices, main, stopTimer, nShutdowns,
                     printed, written>>
  PROVE  IInv'
<1> DEFINE q == Append(events[s], signal)
<1>1. /\ emitted \in [Services -> SUBSET Signals] /\ events \in [Services -> Seq(Signals)]
      /\ \A x \in Services : Range(events[x]) \subseteq emitted[x]
  BY DEF IInv, TypeOK
<1>2. /\ q \in Seq(Signals) /\ Range(q) = Range(events[s]) \cup {signal}
      /\ InOrder(q)
  <2>1. "finished" \notin emitted[s] /\ signal \notin emitted[s]
    BY DEF Over, Post
  <2> QED BY <1>1, <2>1, PostedSignal DEF IInv, SignalsInv
<1>3. /\ emitted' = [emitted EXCEPT ![s] = @ \cup {signal}]
      /\ events' = [events EXCEPT ![s] = q]
      /\ signal \notin emitted[s]
  BY DEF Post
<1> HIDE DEF q
<1>4. \A x \in Services : /\ emitted'[x] = IF x = s THEN emitted[s] \cup {signal} ELSE emitted[x]
                          /\ events'[x] = IF x = s THEN q ELSE events[x]
  BY <1>1, <1>3
<1>5. \A x \in Services, y \in Signals : Handled(x, y)' <=> Handled(x, y)
  BY <1>1, <1>2, <1>3, <1>4 DEF Handled
<1>6. TypeOK'
  <2>1. \A x \in Services : Range(events'[x]) \subseteq emitted'[x]
    BY <1>1, <1>2, <1>4
  <2>2. emitted' \in [Services -> SUBSET Signals] /\ events' \in [Services -> Seq(Signals)]
    BY <1>1, <1>2, <1>3
  <2> QED BY <2>1, <2>2 DEF IInv, TypeOK
<1>7. SignalsInv'
  BY <1>2, <1>4, <1>5 DEF IInv, SignalsInv, Signals, Over, Handled
<1>8. ExitInv'
  BY <1>4 DEF IInv, ExitInv, Over, Services
<1>9. ReadyInv'
  BY <1>4 DEF IInv, ReadyInv, ReadinessIsRight
<1>10. CountIsExact'
  BY <1>5 DEF IInv, CountIsExact, Counted, Services, HttpServices, Signals
<1>11. NoneForgotten'
  BY <1>5 DEF IInv, NoneForgotten, Signals
<1> QED BY <1>6, <1>7, <1>8, <1>9, <1>10, <1>11 DEF IInv

\* The counter as long as it does not leave its width.
LEMMA CountUpAndDown ==
  ASSUME NEW n \in 0..4
  PROVE  /\ n + 1 < CountLimit => (n + 1) % CountLimit = n + 1
         /\ n > 0 => (n + CountLimit - 1) % CountLimit = n - 1
         /\ (n + CountLimit - 1) % CountLimit \in 0..(CountLimit - 1)
<1>1. CountLimit \in Nat /\ CountLimit > 4
  BY LifecycleAssumption
<1> QED BY <1>1

\* The event loop handles a signal.
LEMMA HandleKeeps ==
  ASSUME IInv, NEW s \in Services, Handle(s)
  PROVE  IInv'
<1> DEFINE h == Head(events[s])
           q == Tail(events[s])
<1>1. /\ emitted \in [Services -> SUBSET Signals] /\ events \in [Services -> Seq(Signals)]
      /\ \A x \in Services : Range(events[x]) \subseteq emitted[x]
      /\ events[s] # <<>> /\ main = "loop"
  BY DEF IInv, TypeOK, Handle
<1>2. /\ h \in Range(events[s]) /\ q \in Seq(Signals)
      /\ Range(events[s]) = Range(q) \cup {h}
      /\ InOrder(q) /\ h \notin Range(q) /\ (h = "finished" => Range(q) = {})
  BY <1>1, TakenSignal DEF IInv, SignalsInv
<1>3. /\ events' = [events EXCEPT ![s] = q] /\ UNCHANGED <<emitted, told, nShutdowns, written>>
      /\ IF Prints(s, h) THEN printReadiness(isReady') ELSE UNCHANGED printed
      /\ \/ h = "started" /\ serviceStarted(s)
         \/ h = "ready" /\ serviceReady(s)
         \/ h = "finished" /\ serviceFinished(s)
         \/ h = "failed" /\ serviceFailed(s)
  BY DEF Handle
<1> HIDE DEF h, q
<1>4. h \in emitted[s] /\ h \in Signals /\ ~Handled(s, h)
  BY <1>1, <1>2 DEF Handled
<1>5. \A x \in Services : events'[x] = IF x = s THEN q ELSE events[x]
  BY <1>1, <1>3
<1>6. \A x \in Services, y \in Signals : Handled(x, y)' <=> Handled(x, y) \/ (x = s /\ y = h)
  BY <1>1, <1>2, <1>3, <1>4, <1>5 DEF Handled
<1>7. SignalsInv'
  <2>1. ~Handled(s, "finished")
    BY <1>2 DEF IInv, SignalsInv
  <2> QED BY <1>2, <1>3, <1>5, <1>6, <2>1 DEF IInv, SignalsInv, Signals
<1>8. \A x \in Services : Counted(x) \in {0, 1} /\ Counted(x)' \in {0, 1}
  BY DEF Counted
<1>9. \A x \in Services \ {s} : Counted(x)' = Counted(x)
  BY <1>6 DEF Counted, Signals
<1>10. nStartedServices = Counted("publicHttp") + Counted("privateHttp")
                            + Counted("file") + Counted("mailer")
       /\ nStartedServices \in 0..4
  BY <1>1, <1>8 DEF IInv, CountIsExact, Services, HttpServices
<1>11. \A x \in Services : Range(events'[x]) \subseteq emitted'[x]
  BY <1>1, <1>2, <1>3, <1>5
<1>12. events' \in [Services -> Seq(Signals)]
  BY <1>1, <1>2, <1>3
<1>13. isReady \in [Services -> BOOLEAN] /\ stopTimer \in BOOLEAN /\ printed \in BOOLEAN
       /\ nStartedServices \in 0..(CountLimit - 1)
  BY DEF IInv, TypeOK
<1>14. /\ printed' \in BOOLEAN
       /\ printed' => printed \/ \A x \in Services : isReady'[x]
  BY <1>3, <1>13 DEF printReadiness
<1>15. CountLimit \in Nat /\ CountLimit > 4
  BY LifecycleAssumption
<1>16. ASSUME isReady' \in [Services -> BOOLEAN], nStartedServices' \in 0..(CountLimit - 1),
              main' \in MainStates, stopTimer' \in BOOLEAN
       PROVE  TypeOK'
  <2>1. emitted' = emitted /\ told' = told /\ written' = written /\ nShutdowns' = nShutdowns
    BY <1>3
  <2>2. /\ emitted' \in [Services -> SUBSET Signals] /\ told' \subseteq Services
        /\ written' \in BOOLEAN /\ nShutdowns' \in 0..MaxShutdowns
    BY <2>1 DEF IInv, TypeOK
  <2> QED BY <1>11, <1>12, <1>14, <1>16, <2>2 DEF TypeOK
<1>17. ASSUME \A x \in Services : isReady'[x] => isReady[x] \/ (x = s /\ h = "ready")
       PROVE  ReadyInv'
  BY <1>3, <1>4, <1>14, <1>17 DEF IInv, ReadyInv, ReadinessIsRight
<1>18. ASSUME main' \in {"loop", "exit1"}, stopTimer' => stopTimer \/ h = "finished"
       PROVE  ExitInv'
  <2>1. h = "finished" => written
    BY <1>1, <1>4 DEF IInv, SignalsInv, ExitInv
  <2> QED BY <1>1, <1>3, <1>18, <2>1 DEF IInv, ExitInv, Over
<1>19. CASE h = "started"
  <2>1. /\ nStartedServices' = (nStartedServices + 1) % CountLimit
        /\ UNCHANGED <<isReady, main, stopTimer>>
    BY <1>3, <1>19 DEF serviceStarted
  <2>2. Counted(s) = 0 /\ Counted(s)' = 1
    <3>1. ~Handled(s, "finished")
      BY <1>2 DEF IInv, SignalsInv
    <3> QED BY <1>4, <1>6, <1>19, <3>1 DEF Counted, Signals
  <2>3. nStartedServices < 4
    BY <1>8, <1>10, <2>2 DEF Services, HttpServices
  <2>4. nStartedServices' = nStartedServices + 1
    BY <1>10, <1>15, <2>1, <2>3, CountUpAndDown
  <2>5. CountIsExact'
    BY <1>8, <1>9, <1>10, <2>2, <2>4 DEF CountIsExact, Services, HttpServices
  <2>6. NoneForgotten'
    BY <1>6, <1>19, <2>1 DEF IInv, NoneForgotten, Signals
  <2>7. TypeOK'
    BY <1>1, <1>10, <1>13, <1>15, <1>16, <2>1, <2>3, <2>4 DEF MainStates
  <2> QED BY <1>1, <1>7, <1>17, <1>18, <2>1, <2>5, <2>6, <2>7 DEF IInv
<1>20. CASE h = "ready"
  <2>1. /\ isReady' = [isReady EXCEPT ![s] = TRUE]
        /\ UNCHANGED <<nStartedServices, main, stopTimer>>
    BY <1>3, <1>20 DEF serviceReady
  <2>2. Counted(s)' = Counted(s)
    BY <1>6, <1>20 DEF Counted, Signals
  <2>3. CountIsExact'
    BY <1>9, <1>10, <2>1, <2>2 DEF CountIsExact, Services, HttpServices
  <2>4. NoneForgotten'
    BY <1>6, <1>20, <2>1 DEF IInv, NoneForgotten, Signals
  <2>5. TypeOK'
    BY <1>1, <1>13, <1>16, <2>1 DEF MainStates
  <2>6. ReadyInv'
    BY <1>13, <1>17, <1>20, <2>1
  <2> QED BY <1>1, <1>7, <1>18, <2>1, <2>3, <2>4, <2>5, <2>6 DEF IInv
<1>21. CASE h = "finished"
  <2>1. /\ isReady' = [isReady EXCEPT ![s] = FALSE]
        /\ nStartedServices' = (nStartedServices + CountLimit - 1) % CountLimit
        /\ stopTimer' = (stopTimer \/ nStartedServices' = 0)
        /\ UNCHANGED main
    BY <1>3, <1>21 DEF serviceFinished
  <2>2. Counted(s) = 1 /\ Counted(s)' = 0
    <3>1. "started" \in emitted[s]
      BY <1>4, <1>21 DEF IInv, SignalsInv
    <3>2. Handled(s, "started") /\ ~Handled(s, "finished")
      BY <1>2, <1>4, <1>21, <3>1 DEF Handled
    <3> QED BY <1>6, <1>21, <3>2 DEF Counted, Signals
  <2>3. nStartedServices > 0
    BY <1>8, <1>10, <2>2 DEF Services, HttpServices
  <2>4. nStartedServices' = nStartedServices - 1
    BY <1>10, <2>1, <2>3, CountUpAndDown
  <2>5. CountIsExact'
    BY <1>8, <1>9, <1>10, <2>2, <2>4 DEF CountIsExact, Services, HttpServices
  <2>6. ASSUME \A x \in Services : Handled(x, "finished")'
        PROVE  stopTimer'
    <3>1. \A x \in Services : Counted(x)' = 0
      BY <2>6 DEF Counted
    <3>2. main' # "exit1"
      BY <1>1, <2>1
    <3>3. nStartedServices' = 0
      BY <2>5, <3>1, <3>2 DEF CountIsExact, Services, HttpServices
    <3> QED BY <2>1, <3>3
  <2>7. NoneForgotten'
    BY <2>6 DEF NoneForgotten
  <2>8. TypeOK'
    BY <1>1, <1>10, <1>13, <1>15, <1>16, <2>1, <2>3, <2>4 DEF MainStates
  <2>9. ReadyInv'
    BY <1>13, <1>17, <2>1
  <2> QED BY <1>1, <1>7, <1>18, <1>21, <2>1, <2>5, <2>7, <2>8, <2>9 DEF IInv
<1>22. CASE h = "failed"
  <2>1. /\ nStartedServices' = (nStartedServices + CountLimit - 1) % CountLimit
        /\ main' = "exit1" /\ UNCHANGED <<isReady, stopTimer>>
    BY <1>3, <1>22 DEF serviceFailed
  <2>2. TypeOK'
    BY <1>10, <1>13, <1>16, <2>1, CountUpAndDown DEF MainStates
  <2>3. CountIsExact' /\ NoneForgotten'
    BY <2>1 DEF CountIsExact, NoneForgotten
  <2> QED BY <1>7, <1>17, <1>18, <2>1, <2>2, <2>3 DEF IInv
<1> QED BY <1>3, <1>19, <1>20, <1>21, <1>22

LEMMA StepInv ==
  ASSUME IInv, [Next]_vars
  PROVE  IInv'
<1>1. ASSUME NEW s \in Services, NEW signal \in {"started", "ready"}, Announce(s, signal)
      PROVE  IInv'
  BY <1>1, PostKeeps DEF Announce, Signals
<1>2. ASSUME NEW s \in Services, Finish(s)
      PROVE  IInv'
  BY <1>2, PostKeeps DEF Finish, Signals
<1>3. ASSUME NEW s \in Services, FailService(s)
      PROVE  IInv'
  BY <1>3, PostKeeps DEF FailService, Signals
<1>4. ASSUME NEW s \in Services, Handle(s)
      PROVE  IInv'
  BY <1>4, HandleKeeps
<1>5. told \subseteq Services /\ written \in BOOLEAN /\ nShutdowns \in 0..MaxShutdowns
      /\ MaxShutdowns \in Nat /\ ExitInv
  BY LifecycleAssumption DEF IInv, TypeOK
<1>6. CASE BeginShutdown
  <2>1. ExitInv'
    BY <1>5, <1>6 DEF BeginShutdown, ExitInv, Over
  <2>2. nShutdowns' \in 0..MaxShutdowns
    BY <1>5, <1>6 DEF BeginShutdown
  <2> QED BY <1>5, <1>6, <2>1, <2>2, NoSignal DEF BeginShutdown, MainStates, Services
<1>7. CASE FileStopped
  <2>1. ExitInv'
    BY <1>5, <1>7 DEF FileStopped, ExitInv, Over
  <2> QED BY <1>5, <1>7, <2>1, NoSignal DEF FileStopped, MainStates, Services
<1>8. CASE MailerStopped
  <2>1. ExitInv'
    BY <1>5, <1>8 DEF MailerStopped, ExitInv, Over
  <2> QED BY <1>5, <1>8, <2>1, NoSignal DEF MailerStopped, MainStates
<1>9. CASE StopHttp
  <2>1. ExitInv'
    BY <1>5, <1>9 DEF StopHttp, ExitInv, Over
  <2> QED BY <1>5, <1>9, <2>1, NoSignal DEF StopHttp, MainStates, Services
<1>10. CASE JobsOver
  <2>1. ExitInv'
    BY <1>5, <1>10 DEF JobsOver, ExitInv, Over
  <2> QED BY <1>5, <1>10, <2>1, NoSignal DEF JobsOver, MainStates
<1>11. CASE Stopped
  <2>1. ExitInv'
    BY <1>5, <1>11 DEF Stopped, ExitInv, Over
  <2> QED BY <1>5, <1>11, <2>1, NoSignal DEF Stopped, MainStates
<1>12. CASE FailWrite
  <2>1. ExitInv'
    BY <1>5, <1>12 DEF FailWrite, ExitInv, Over
  <2> QED BY <1>5, <1>12, <2>1, NoSignal DEF FailWrite, MainStates
<1>13. CASE UNCHANGED vars
  BY <1>13 DEF vars, IInv, TypeOK, SignalsInv, ExitInv, ReadyInv, ReadinessIsRight,
               CountIsExact, NoneForgotten, Counted, Handled, Over
<1> QED BY <1>1, <1>2, <1>3, <1>4, <1>6, <1>7, <1>8, <1>9, <1>10, <1>11, <1>12, <1>13
        DEF Next, Service, Shutdown

THEOREM Inductive == Spec => []IInv
<1>1. Init => IInv
  BY InitInv
<1>2. IInv /\ [Next]_vars => IInv'
  BY StepInv
<1> QED BY <1>1, <1>2, PTL DEF Spec

(***************************************************************************)
(* The theorems                                                            *)
(***************************************************************************)

\* Every variable has its type, and an event is one its service has posted.
THEOREM LifecycleTypeCorrect == Spec => []TypeOK
<1>1. IInv => TypeOK
  BY DEF IInv
<1> QED BY <1>1, Inductive, PTL

\* The server ends by itself only when the managers' files are written and both
\* jobs are over, also when it is stopped while its services are starting.
THEOREM ExitIsOrderly == Spec => []OrderlyExit
<1>1. IInv => OrderlyExit
  BY DEF IInv, ExitInv, OrderlyExit
<1> QED BY <1>1, Inductive, PTL

\* The readiness message, which cloud_start.sh waits for, is in the log only
\* after all four services have said that they are ready.
THEOREM ReadinessIsTrue == Spec => []ReadinessIsRight
<1>1. IInv => ReadinessIsRight
  BY DEF IInv, ReadyInv
<1> QED BY <1>1, Inductive, PTL

\* The unsigned count of services never wraps below zero unless the server ends
\* with an error, and the last service to finish sets the timer that ends the
\* server: what a shutdown waits for comes (its eventual end is left to TLC).
THEOREM LastServiceEndsServer == Spec => [](CountIsExact /\ NoneForgotten)
<1>1. IInv => CountIsExact /\ NoneForgotten
  BY DEF IInv
<1> QED BY <1>1, Inductive, PTL

=============================================================================
