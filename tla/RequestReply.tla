---------------------------- MODULE RequestReply ----------------------------
(***************************************************************************)
(* What the server promises each client of its HTTP interface: a request   *)
(* is answered at most once, a client that is still connected is never     *)
(* passed over when its request is closed, and nothing is answered after   *)
(* that.  RequestPipeline implements it.                                   *)
(***************************************************************************)
CONSTANTS Requests, Answers, NoAnswer

VARIABLES
  status,     \* "new" until it reaches the server, then "open", then "closed"
  answers,    \* the answer each request was given
  connected   \* the requests whose client still waits for an answer

vars == <<status, answers, connected>>

Init ==
  /\ status = [r \in Requests |-> "new"]
  /\ answers = [r \in Requests |-> NoAnswer]
  /\ connected = Requests

Receive(r) ==
  /\ status[r] = "new"
  /\ status' = [status EXCEPT ![r] = "open"]
  /\ UNCHANGED <<answers, connected>>

\* A request may also be answered in the step that receives it.
Answer(r, a) ==
  /\ status[r] # "closed" /\ r \in connected
  /\ status' = [status EXCEPT ![r] = "closed"]
  /\ answers' = [answers EXCEPT ![r] = a]
  /\ UNCHANGED connected

Drop(r) ==
  /\ status[r] # "closed" /\ r \notin connected
  /\ status' = [status EXCEPT ![r] = "closed"]
  /\ UNCHANGED <<answers, connected>>

Disconnect(r) ==
  /\ connected' = connected \ {r}
  /\ UNCHANGED <<status, answers>>

Next ==
  \E r \in Requests :
    \/ Receive(r)
    \/ \E a \in Answers : Answer(r, a)
    \/ Drop(r)
    \/ Disconnect(r)

Spec == Init /\ [][Next]_vars

=============================================================================
