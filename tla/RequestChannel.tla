--------------------------- MODULE RequestChannel ---------------------------
(***************************************************************************)
(* One requester and one responder over UDP, as lemonbeat._message._send   *)
(* uses it.  Every request is sent from a socket of its own: it is bound   *)
(* to a fresh port, and closed when the answer was read or the timeout     *)
(* elapsed.  An answer therefore reaches the requester only if it answers  *)
(* the request that is being waited for; the answer to an earlier request  *)
(* finds a closed port.                                                    *)
(*                                                                         *)
(* Requests stay in order (a single radio hop), but any of them may be     *)
(* lost, delivered twice, or delivered after the requester stopped waiting.*)
(***************************************************************************)
EXTENDS Naturals, Sequences

CONSTANTS
  MaxInFlight,   \* bound: requests that are under way at the same time
  Duplication,   \* TRUE: the network may deliver a request more than once
  NoReply        \* nothing has arrived on the open socket

ASSUME MaxInFlightAssumption == MaxInFlight \in Nat
ASSUME DuplicationAssumption == Duplication \in BOOLEAN

VARIABLES
  queue,         \* the requests under way, oldest first; .live: its socket is open
  reply          \* what has arrived on the socket that is open

channelVars == <<queue, reply>>

ChannelInit == queue = <<>> /\ reply = NoReply

\* Faulty: one socket is kept for all requests.
KeptOpen(q) == q

\* The requests once the requester closed its socket.
Closed(q) == [i \in DOMAIN q |-> [q[i] EXCEPT !.live = FALSE]]

\* _send up to sendto: the previous socket is closed, a new one is opened and
\* the request is put on its way, or is lost.
SendRequest(m) ==
  /\ reply' = NoReply
  /\ \/ Len(queue) < MaxInFlight /\ queue' = Append(Closed(queue), m)
     \/ queue' = Closed(queue)

\* _send after it returned or raised: the `with' statement closes the socket.
CloseSocket == queue' = Closed(queue) /\ reply' = NoReply

Incoming(type) == queue # <<>> /\ Head(queue).type = type

\* The request at the head reaches the responder; a copy may follow it.
TakeIncoming ==
  \/ queue' = Tail(queue)
  \/ Duplication /\ queue' = <<[Head(queue) EXCEPT !.live = FALSE]>> \o Tail(queue)

\* The responder handles the request at the head and answers it with report;
\* the answer is lost, late, or finds the socket that is waiting for it.
Respond(report) ==
  /\ TakeIncoming
  /\ \/ Head(queue).live /\ reply' = report
     \/ UNCHANGED reply

\* The responder handles the request at the head and sends no answer.
Ignore == TakeIncoming /\ UNCHANGED reply
=============================================================================
