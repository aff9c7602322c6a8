-------------------------- MODULE ReportQueuesProofs --------------------------
(***************************************************************************)
(* Proofs about ReportQueues, for any listener threads, devices and        *)
(* reports, and any number of queues and request threads.  TypeOK and      *)
(* SingleRequest need each other: a request that was answered finds the    *)
(* queue that it prints because no other one can have taken it away.       *)
(***************************************************************************)
EXTENDS ReportQueues, TLAPS, FiniteSetTheorems

-----------------------------------------------------------------------------
(* Where the threads are *)

ListenerStates ==
  {Idle}
  \cup [at : {"lock", "continue"}, report : Reports, queue : {NoQueue}, start_request : {FALSE}]
  \cup [at : {"put"}, report : Reports, queue : Queues, start_request : BOOLEAN]
  \cup [at : {"start"}, report : Reports, queue : Queues, start_request : {TRUE}]

RequestStates ==
  {NoRequest}
  \cup [at : {"requesting"}, device : Devices, queue : {NoQueue}]
  \cup [at : {"printing"}, device : Devices, queue : Queues]

\* What the type of a listener thread says of it.
LEMMA ListenerFacts ==
  ASSUME NEW x \in ListenerStates
  PROVE  /\ x.at # "idle" => x.report \in Reports /\ Sender[x.report] \in Devices
         /\ x.at = "idle" => x = Idle
         /\ x.at \in {"idle", "lock", "continue"} => x.start_request = FALSE /\ x.queue = NoQueue
         /\ x.at \in {"put", "start"} => x.queue \in Queues
         /\ x.at = "start" => x.start_request = TRUE
         /\ x.start_request \in BOOLEAN
<1>1. CASE x = Idle
  BY <1>1 DEF Idle
<1>2. CASE x \in [at : {"lock", "continue"}, report : Reports, queue : {NoQueue}, start_request : {FALSE}]
  BY <1>2, SenderAssumption
<1>3. CASE x \in [at : {"put"}, report : Reports, queue : Queues, start_request : BOOLEAN]
  BY <1>3, SenderAssumption
<1>4. CASE x \in [at : {"start"}, report : Reports, queue : Queues, start_request : {TRUE}]
  BY <1>4, SenderAssumption
<1> QED
  BY <1>1, <1>2, <1>3, <1>4 DEF ListenerStates

\* A listener thread at another place.
LEMMA ListenerAt ==
  ASSUME NEW x \in ListenerStates, NEW p
  PROVE  [x EXCEPT !.at = p] =
           [at |-> p, report |-> x.report, queue |-> x.queue, start_request |-> x.start_request]
<1>1. PICK a, r, k, b : x = [at |-> a, report |-> r, queue |-> k, start_request |-> b]
  <2>1. CASE x = Idle
    BY <2>1 DEF Idle
  <2>2. CASE x \in [at : {"lock", "continue"}, report : Reports, queue : {NoQueue}, start_request : {FALSE}]
    BY <2>2
  <2>3. CASE x \in [at : {"put"}, report : Reports, queue : Queues, start_request : BOOLEAN]
    BY <2>3
  <2>4. CASE x \in [at : {"start"}, report : Reports, queue : Queues, start_request : {TRUE}]
    BY <2>4
  <2> QED
    BY <2>1, <2>2, <2>3, <2>4 DEF ListenerStates
<1> QED
  BY <1>1

\* The same with another queue.
LEMMA ListenerAtWith ==
  ASSUME NEW x \in ListenerStates, NEW p, NEW q
  PROVE  [x EXCEPT !.at = p, !.queue = q] =
           [at |-> p, report |-> x.report, queue |-> q, start_request |-> x.start_request]
<1> DEFINE y == [x EXCEPT !.at = p]
<1>1. [x EXCEPT !.at = p, !.queue = q] = [y EXCEPT !.queue = q]
  OBVIOUS
<1>2. y = [at |-> p, report |-> x.report, queue |-> x.queue, start_request |-> x.start_request]
  BY ListenerAt
<1> HIDE DEF y
<1> QED
  BY <1>1, <1>2

\* The same with a request to start.
LEMMA ListenerStarts ==
  ASSUME NEW x \in ListenerStates, NEW p, NEW q
  PROVE  [x EXCEPT !.at = p, !.queue = q, !.start_request = TRUE] \in
           [at : {p}, report : {x.report}, queue : {q}, start_request : {TRUE}]
<1> DEFINE y == [x EXCEPT !.at = p, !.queue = q]
<1>1. [x EXCEPT !.at = p, !.queue = q, !.start_request = TRUE] = [y EXCEPT !.start_request = TRUE]
  OBVIOUS
<1>2. y = [at |-> p, report |-> x.report, queue |-> q, start_request |-> x.start_request]
  BY ListenerAtWith
<1> HIDE DEF y
<1> QED
  BY <1>1, <1>2

\* The same of a request thread.
LEMMA RequestFacts ==
  ASSUME NEW x \in RequestStates
  PROVE  /\ x.at # "finished" => x.device \in Devices
         /\ x.at = "printing" => x.queue \in Queues
         /\ x.at = "finished" => x = NoRequest
  BY DEF RequestStates, NoRequest

\* What is in a queue that is registered.
QueuedForDevice ==
  \A q \in Queues, d \in Devices :
    report_queues[d] = q => \A r \in Range(contents[q]) : Sender[r] = d

\* TypeOK in its parts.
Typed ==
  /\ device_infos \subseteq Devices
  /\ report_queues \in [Devices -> Queues \cup {NoQueue}]
  /\ contents \in [Queues -> Seq(Reports)]
  /\ listener \in [Listeners -> ListenerStates]
  /\ request \in [Threads -> RequestStates]
  /\ printed \subseteq Reports
  /\ QueuedForDevice

\* The two are the same.
LEMMA TypeParts == TypeOK <=> Typed
  BY DEF TypeOK, Typed, QueuedForDevice, ListenerStates, RequestStates

\* A new queue is none that anybody refers to.
LEMMA NewQueueUnused ==
  ASSUME UnusedQueues # {}
  PROVE  NewQueue \in Queues /\ ~Referenced(NewQueue)
  BY DEF UnusedQueues, NewQueue

\* A new thread is one that nothing runs on.
LEMMA NewThreadUnused ==
  ASSUME UnusedThreads # {}
  PROVE  NewThread \in Threads /\ request[NewThread] = NoRequest
  BY DEF UnusedThreads, NewThread

-----------------------------------------------------------------------------
(* The listener threads *)

\* A step of a listener thread that starts nothing: it is asked for what it
\* was, and has the queue that it had or the one of its report's device.
LEMMA MoveListener ==
  ASSUME Typed, RequestInv, NEW l \in Listeners, NEW x \in ListenerStates,
         listener' = [listener EXCEPT ![l] = x],
         UNCHANGED <<device_infos, report_queues, request>>,
         x.start_request <=> listener[l].start_request,
         x.start_request => x.report = listener[l].report,
         x.queue # NoQueue =>
           \/ x.report = listener[l].report /\ x.queue = listener[l].queue
           \/ Sender[x.report] \in Devices /\ x.queue = report_queues[Sender[x.report]]
  PROVE  listener' \in [Listeners -> ListenerStates] /\ RequestInv'
<1>1. listener \in [Listeners -> ListenerStates]
  BY DEF Typed
<1>2. listener' \in [Listeners -> ListenerStates]
  BY <1>1
<1>3. \A d \in Devices : Starting(d)' = Starting(d) /\ Asking(d)' = Asking(d)
  BY <1>1 DEF Starting, Asking
<1>4. SingleRequest'
  BY <1>3 DEF RequestInv, SingleRequest
<1>5. QueueOfDevice'
  <2>1. SUFFICES ASSUME NEW k \in Listeners, NEW d \in Devices,
                        report_queues[d] # NoQueue, listener'[k].queue = report_queues[d]
                 PROVE  Sender[listener'[k].report] = d
    BY DEF RequestInv, QueueOfDevice
  <2>2. CASE k # l
    BY <1>1, <2>1, <2>2 DEF RequestInv, QueueOfDevice
  <2>3. CASE k = l
    BY <1>1, <2>1, <2>3 DEF RequestInv, QueueOfDevice
  <2> QED
    BY <2>2, <2>3
<1> QED
  BY <1>2, <1>4, <1>5 DEF RequestInv

\* The handler begins.
LEMMA ReceiveInv ==
  ASSUME Typed, RequestInv, NEW l \in Listeners, NEW r \in Reports, Receive(l, r)
  PROVE  Typed' /\ RequestInv'
<1> DEFINE x == [listener[l] EXCEPT !.at = "lock", !.report = r]
<1>1. listener[l] = Idle
  BY ListenerFacts DEF Receive, Typed
<1>2. /\ x \in ListenerStates /\ ~x.start_request /\ x.queue = NoQueue
  <2>1. x = [at |-> "lock", report |-> r, queue |-> NoQueue, start_request |-> FALSE]
    <3>1. x = [Idle EXCEPT !.at = "lock", !.report = r]
      BY <1>1
    <3> HIDE DEF x
    <3> QED
      BY <3>1 DEF Idle
  <2> QED
    BY <2>1 DEF ListenerStates
<1>3. listener' = [listener EXCEPT ![l] = x]
  BY DEF Receive, Typed
<1>4. ~listener[l].start_request
  BY <1>1 DEF Idle
<1> HIDE DEF x
<1>5. listener' \in [Listeners -> ListenerStates] /\ RequestInv'
  BY <1>2, <1>3, <1>4, MoveListener DEF Receive
<1> QED
  BY <1>5 DEF Receive, Typed, QueuedForDevice

\* The handler of a thread that starts nothing ends.
LEMMA ReturnInv ==
  ASSUME Typed, RequestInv, NEW l \in Listeners, ~listener[l].start_request, HandlerReturns(l),
         UNCHANGED <<device_infos, report_queues, request>>
  PROVE  listener' \in [Listeners -> ListenerStates] /\ RequestInv'
<1>1. Idle \in ListenerStates /\ ~Idle.start_request /\ Idle.queue = NoQueue
  BY DEF Idle, ListenerStates
<1> QED
  BY <1>1, MoveListener DEF HandlerReturns

\* The report is one of a known device, or one whose description is requested.
LEMMA FindInv ==
  ASSUME Typed, RequestInv, NEW l \in Listeners, FindInfo(l) \/ FindQueue(l)
  PROVE  Typed' /\ RequestInv'
<1> DEFINE device == Sender[listener[l].report]
<1>1. /\ listener[l] \in ListenerStates /\ listener[l].at = "lock"
      /\ listener[l].report \in Reports /\ device \in Devices
      /\ listener[l].start_request = FALSE /\ listener[l].queue = NoQueue
  BY ListenerFacts DEF FindInfo, FindQueue, Typed
<1>2. CASE FindInfo(l)
  <2> DEFINE x == [at |-> "continue", report |-> listener[l].report, queue |-> NoQueue,
                   start_request |-> FALSE]
  <2>1. x \in ListenerStates
    BY <1>1 DEF ListenerStates
  <2>2. [listener[l] EXCEPT !.at = "continue"] = x
    BY <1>1, ListenerAt
  <2>3. listener' = [listener EXCEPT ![l] = x]
    BY <1>2, <2>2 DEF FindInfo
  <2>4. listener' \in [Listeners -> ListenerStates] /\ RequestInv'
    BY <1>1, <1>2, <2>1, <2>3, MoveListener DEF FindInfo
  <2> QED
    BY <1>2, <2>4 DEF FindInfo, Typed, QueuedForDevice
<1>3. CASE FindQueue(l)
  <2> DEFINE x == [at |-> "put", report |-> listener[l].report, queue |-> report_queues[device],
                   start_request |-> FALSE]
  <2>1. x \in ListenerStates
    BY <1>1, <1>3 DEF FindQueue, ListenerStates, Typed
  <2>2. [listener[l] EXCEPT !.at = "put", !.queue = report_queues[device]] = x
    <3> DEFINE y == listener[l]
    <3>1. y \in ListenerStates /\ y.start_request = FALSE
      BY <1>1
    <3>2. [y EXCEPT !.at = "put", !.queue = report_queues[device]]
            = [at |-> "put", report |-> y.report, queue |-> report_queues[device],
               start_request |-> y.start_request]
      <4> HIDE DEF y
      <4> QED
        BY <3>1, ListenerAtWith
    <3> QED
      BY <3>1, <3>2
  <2>3. listener' = [listener EXCEPT ![l] = x]
    BY <1>3, <2>2 DEF FindQueue, Typed
  <2>4. listener' \in [Listeners -> ListenerStates] /\ RequestInv'
    BY <1>1, <1>3, <2>1, <2>3, MoveListener DEF FindQueue
  <2> QED
    BY <1>3, <2>4 DEF FindQueue, Typed, QueuedForDevice
<1> QED
  BY <1>2, <1>3

\* A report that is printed takes nothing with it.
LEMMA ContinueInv ==
  ASSUME Typed, RequestInv, NEW l \in Listeners, Continue(l)
  PROVE  Typed' /\ RequestInv'
<1>1. ~listener[l].start_request /\ listener[l].report \in Reports
  BY ListenerFacts DEF Continue, Typed
<1>2. listener' \in [Listeners -> ListenerStates] /\ RequestInv'
  BY <1>1, ReturnInv DEF Continue
<1> QED
  BY <1>1, <1>2 DEF Continue, PrintReport, Typed, QueuedForDevice

\* A queue may be filled by a thread that looked it up before it was forgotten;
\* as long as it is registered, with reports of its device.
LEMMA PutInv ==
  ASSUME Typed, RequestInv, NEW l \in Listeners, Put(l)
  PROVE  Typed' /\ RequestInv'
<1> DEFINE q == listener[l].queue
           r == listener[l].report
<1>1. /\ listener[l] \in ListenerStates /\ listener[l].at = "put"
      /\ r \in Reports /\ Sender[r] \in Devices /\ q \in Queues
  BY ListenerFacts DEF Put, Typed
<1>2. listener' \in [Listeners -> ListenerStates] /\ RequestInv'
  <2>1. CASE ~listener[l].start_request /\ HandlerReturns(l)
    BY <2>1, ReturnInv DEF Put
  <2>2. CASE listener[l].start_request /\ listener' = [listener EXCEPT ![l].at = "start"]
    <3> DEFINE x == [at |-> "start", report |-> r, queue |-> q, start_request |-> TRUE]
    <3>2. [listener[l] EXCEPT !.at = "start"] = x
      BY <1>1, <2>2, ListenerAt
    <3>3. x \in ListenerStates
      BY <1>1 DEF ListenerStates
    <3>4. listener' = [listener EXCEPT ![l] = x]
      BY <2>2, <3>2
    <3> QED
      BY <2>2, <3>3, <3>4, MoveListener DEF Put
  <2> QED
    BY <2>1, <2>2 DEF Put
<1>3. contents' \in [Queues -> Seq(Reports)]
  BY <1>1 DEF Put, Typed
<1>4. QueuedForDevice'
  <2>1. SUFFICES ASSUME NEW p \in Queues, NEW d \in Devices, report_queues[d] = p,
                        NEW s \in Range(contents'[p])
                 PROVE  Sender[s] = d
    BY DEF Put, QueuedForDevice
  <2>2. CASE p # q
    BY <1>1, <2>1, <2>2 DEF Put, Typed, QueuedForDevice
  <2>3. CASE p = q
    <3>1. contents'[p] = Append(contents[p], r) /\ contents[p] \in Seq(Reports)
      BY <1>1, <2>3 DEF Put, Typed
    <3>2. s \in Range(contents[p]) \cup {r}
      BY <2>1, <3>1 DEF Range
    <3>3. Sender[r] = d
      BY <1>1, <2>1, <2>3, NoneAssumption DEF RequestInv, QueueOfDevice
    <3> QED
      BY <2>1, <3>2, <3>3 DEF Typed, QueuedForDevice
  <2> QED
    BY <2>2, <2>3
<1> QED
  BY <1>2, <1>3, <1>4 DEF Put, Typed

\* The queue is a new one, which nobody else fills or prints.
LEMMA AddQueueInv ==
  ASSUME Typed, RequestInv, NEW l \in Listeners, AddQueue(l)
  PROVE  Typed' /\ RequestInv'
<1> PICK device : device = Sender[listener[l].report]
  OBVIOUS
<1> DEFINE n == NewQueue
           x == [listener[l] EXCEPT !.at = "put", !.queue = n, !.start_request = TRUE]
<1>1. /\ listener[l] \in ListenerStates /\ listener[l].at = "lock"
      /\ listener[l].report \in Reports /\ device \in Devices
      /\ listener[l].start_request = FALSE
  BY ListenerFacts DEF AddQueue, Typed
<1>2. n \in Queues /\ ~Referenced(n)
  BY NewQueueUnused DEF AddQueue
<1>3. listener' = [listener EXCEPT ![l] = x]
  BY DEF AddQueue
<1>4. /\ x \in ListenerStates
      /\ x.queue = n /\ x.start_request = TRUE /\ x.report = listener[l].report
  <2> DEFINE y == listener[l]
  <2>1. y \in ListenerStates
    BY <1>1
  <2>2. [y EXCEPT !.at = "put", !.queue = n, !.start_request = TRUE]
          \in [at : {"put"}, report : {y.report}, queue : {n}, start_request : {TRUE}]
    <3> HIDE DEF y, n
    <3> QED
      BY <2>1, ListenerStarts
  <2>3. x \in [at : {"put"}, report : {y.report}, queue : {n}, start_request : {TRUE}]
    BY <2>2
  <2> HIDE DEF n, x
  <2> QED
    BY <1>1, <1>2, <2>3 DEF ListenerStates
<1>5. /\ report_queues' = [report_queues EXCEPT ![device] = n]
      /\ contents' = [contents EXCEPT ![n] = <<>>]
      /\ UNCHANGED <<device_infos, request, printed>>
      /\ device \notin device_infos /\ report_queues[device] = NoQueue
  BY DEF AddQueue
<1>7. n # NoQueue
  BY <1>2, NoneAssumption
<1>8. /\ \A d \in Devices : report_queues[d] # n
      /\ \A k \in Listeners : listener[k].queue # n
  BY <1>2 DEF Referenced, Range, Typed
<1> HIDE DEF n, x
<1>9. Typed'
  <2>1. report_queues' \in [Devices -> Queues \cup {NoQueue}]
    BY <1>2, <1>5 DEF Typed
  <2>3. contents' \in [Queues -> Seq(Reports)]
    <3>1. contents \in [Queues -> Seq(Reports)] /\ <<>> \in Seq(Reports)
      BY DEF Typed
    <3> QED
      BY <1>5, <3>1
  <2>2. QueuedForDevice'
    <3>1. SUFFICES ASSUME NEW p \in Queues, NEW d \in Devices, report_queues'[d] = p,
                          NEW s \in Range(contents'[p])
                   PROVE  Sender[s] = d
      BY DEF QueuedForDevice
    <3>2. p # n
      BY <1>5, <3>1 DEF Range, Typed
    <3> QED
      BY <1>1, <1>5, <3>1, <3>2 DEF Typed, QueuedForDevice
  <2> QED
    BY <1>3, <1>4, <1>5, <2>1, <2>2, <2>3 DEF Typed
<1>10. SingleRequest'
  <2>1. \A d \in Devices : Asking(d)' = Asking(d)
    BY <1>5 DEF Asking
  <2>2. \A d \in Devices : d # device => Starting(d)' = Starting(d)
    BY <1>1, <1>3, <1>4 DEF Starting, Typed
  <2>3. Starting(device) = {} /\ Asking(device) = {}
    BY <1>1, <1>5 DEF RequestInv, SingleRequest
  <2>4. Starting(device)' = {l}
    BY <1>1, <1>3, <1>4, <2>3 DEF Starting, Typed
  <2>5. ASSUME NEW d \in Devices, d # device
        PROVE  report_queues'[d] = report_queues[d] /\ Starting(d)' = Starting(d) /\ Asking(d)' = Asking(d)
    BY <1>5, <2>1, <2>2, <2>5 DEF Typed
  <2>6. report_queues'[device] = n /\ Asking(device)' = {}
    BY <1>1, <1>5, <2>1, <2>3 DEF Typed
  <2> QED
    BY <1>1, <1>5, <1>7, <2>4, <2>5, <2>6 DEF RequestInv, SingleRequest
<1>11. QueueOfDevice'
  <2>1. ASSUME NEW d \in Devices, NEW e \in Devices,
               report_queues'[d] # NoQueue, report_queues'[d] = report_queues'[e]
        PROVE  d = e
    BY <1>1, <1>5, <1>8, <2>1 DEF RequestInv, QueueOfDevice, Typed
  <2>2. ASSUME NEW k \in Listeners, NEW d \in Devices,
               report_queues'[d] # NoQueue, listener'[k].queue = report_queues'[d]
        PROVE  Sender[listener'[k].report] = d
    <3>1. CASE k = l
      BY <1>1, <1>3, <1>5, <1>4, <1>8, <2>2, <3>1 DEF Typed
    <3>2. CASE k # l
      BY <1>1, <1>3, <1>5, <1>8, <2>2, <3>2 DEF RequestInv, QueueOfDevice, Typed
    <3> QED
      BY <3>1, <3>2
  <2> QED
    BY <2>1, <2>2 DEF QueueOfDevice
<1> QED
  BY <1>9, <1>10, <1>11 DEF RequestInv

\* The listener thread hands over to the thread that it starts.
LEMMA StartRequestInv ==
  ASSUME Typed, RequestInv, NEW l \in Listeners, StartRequest(l)
  PROVE  Typed' /\ RequestInv'
<1> PICK device : device = Sender[listener[l].report]
  OBVIOUS
<1> DEFINE t == NewThread
           x == [at |-> "requesting", device |-> device, queue |-> NoQueue]
<1>1. device \in Devices /\ listener[l].start_request = TRUE
  BY ListenerFacts DEF StartRequest, Typed
<1>2. t \in Threads /\ request[t] = NoRequest
  BY NewThreadUnused DEF StartRequest
<1>3. /\ request' = [request EXCEPT ![t] = x]
      /\ listener' = [listener EXCEPT ![l] = Idle]
      /\ UNCHANGED <<device_infos, report_queues, contents, printed>>
  BY DEF StartRequest, HandlerReturns
<1>4. x \in RequestStates /\ x.at = "requesting" /\ x.device = device
  BY <1>1 DEF RequestStates
<1>5. Idle \in ListenerStates /\ Idle.start_request = FALSE /\ Idle.queue = NoQueue
  BY DEF Idle, ListenerStates
<1> HIDE DEF t, x
<1>6. Typed'
  BY <1>2, <1>3, <1>4, <1>5 DEF Typed, QueuedForDevice
<1>7. SingleRequest'
  <2>1. l \in Starting(device)
    BY <1>1 DEF Starting
  <2>2. Starting(device) = {l} /\ Asking(device) = {} /\ report_queues[device] # NoQueue
    BY <1>1, <2>1 DEF RequestInv, SingleRequest
  <2>3. Starting(device)' = {}
    BY <1>3, <1>5, <2>2 DEF Starting, Typed
  <2>4. Asking(device)' = {t}
    <3>1. \A k \in Threads : k # t => request'[k] = request[k]
      BY <1>3 DEF Typed
    <3>2. request'[t] = x
      BY <1>2, <1>3 DEF Typed
    <3> QED
      BY <1>2, <1>4, <2>2, <3>1, <3>2 DEF Asking
  <2>5. \A d \in Devices : d # device => Starting(d)' = Starting(d)
    BY <1>3, <1>5 DEF Starting, Typed
  <2>6. \A d \in Devices : d # device => Asking(d)' = Asking(d)
    BY <1>2, <1>3, <1>4 DEF Asking, Typed, NoRequest
  <2>7. ASSUME NEW d \in Devices, d # device
        PROVE  Starting(d)' = Starting(d) /\ Asking(d)' = Asking(d)
    BY <2>5, <2>6, <2>7
  <2> QED
    BY <1>1, <1>2, <1>3, <2>2, <2>3, <2>4, <2>7 DEF RequestInv, SingleRequest
<1>8. QueueOfDevice'
  BY <1>3, <1>5 DEF RequestInv, QueueOfDevice, Typed
<1> QED
  BY <1>6, <1>7, <1>8 DEF RequestInv

-----------------------------------------------------------------------------
(* The request threads *)

\* A thread that asks is the only one, and the device has a queue.
LEMMA AskingAlone ==
  ASSUME Typed, RequestInv, NEW t \in Threads, request[t].at = "requesting"
  PROVE  LET device == request[t].device IN
         /\ device \in Devices /\ report_queues[device] \in Queues
         /\ Asking(device) = {t} /\ Starting(device) = {}
<1> DEFINE device == request[t].device
<1>1. device \in Devices
  BY RequestFacts DEF Typed
<1>2. t \in Asking(device)
  BY DEF Asking
<1> QED
  BY <1>1, <1>2 DEF RequestInv, SingleRequest, Typed

\* A thread that no longer asks takes the queue away, whether it will print it or not.
LEMMA ForgetQueue ==
  ASSUME Typed, RequestInv, NEW t \in Threads, request[t].at = "requesting",
         NEW x \in RequestStates, x.at # "requesting",
         request' = [request EXCEPT ![t] = x],
         report_queues' = [report_queues EXCEPT ![request[t].device] = NoQueue],
         device_infos' \in {device_infos, device_infos \cup {request[t].device}},
         UNCHANGED <<contents, listener, printed>>
  PROVE  Typed' /\ RequestInv'
<1> PICK device : device = request[t].device
  OBVIOUS
<1>1. device \in Devices /\ Asking(device) = {t} /\ Starting(device) = {}
  BY AskingAlone
<1>2. Typed'
  <2>1. report_queues' \in [Devices -> Queues \cup {NoQueue}]
    BY DEF Typed
  <2>2. QueuedForDevice'
    BY NoneAssumption DEF Typed, QueuedForDevice
  <2> QED
    BY <1>1, <2>1, <2>2 DEF Typed
<1>3. SingleRequest'
  <2>1. \A d \in Devices : Starting(d)' = Starting(d)
    BY DEF Starting
  <2>2. Asking(device)' = {}
    <3>1. \A k \in Threads : k # t => request'[k] = request[k]
      BY DEF Typed
    <3>2. request'[t] = x
      BY DEF Typed
    <3> QED
      BY <1>1, <3>1, <3>2 DEF Asking
  <2>3. \A d \in Devices : d # device => Asking(d)' = Asking(d)
    BY DEF Asking, Typed
  <2>4. report_queues'[device] = NoQueue /\ \A d \in Devices : d # device => report_queues'[d] = report_queues[d]
    BY <1>1 DEF Typed
  <2>5. ASSUME NEW d \in Devices, d # device
        PROVE  report_queues'[d] = report_queues[d] /\ Starting(d)' = Starting(d) /\ Asking(d)' = Asking(d)
    BY <2>1, <2>3, <2>4, <2>5
  <2>6. Starting(device)' = {} /\ \A d \in device_infos' : d = device \/ d \in device_infos
    BY <1>1, <2>1
  <2> QED
    BY <1>1, <2>2, <2>4, <2>5, <2>6 DEF RequestInv, SingleRequest
<1>4. QueueOfDevice'
  BY DEF RequestInv, QueueOfDevice, Typed
<1> QED
  BY <1>2, <1>3, <1>4 DEF RequestInv

\* The answer gives the queue to the thread that asked, to print it.
LEMMA RequestAnsweredInv ==
  ASSUME Typed, RequestInv, NEW t \in Threads, Answered(t)
  PROVE  Typed' /\ RequestInv'
<1> DEFINE device == request[t].device
           x == [at |-> "printing", device |-> device, queue |-> report_queues[device]]
<1>1. request[t].at = "requesting"
  BY DEF Answered
<1>2. device \in Devices /\ report_queues[device] \in Queues
  BY <1>1, AskingAlone
<1>3. request[t] = [at |-> "requesting", device |-> device, queue |-> NoQueue]
  BY <1>1 DEF Typed, RequestStates, NoRequest
<1>4. x \in RequestStates /\ x.at # "requesting"
  BY <1>2 DEF RequestStates
<1>5. request' = [request EXCEPT ![t] = x]
  <2> DEFINE y == request[t]
             z == [y EXCEPT !.at = "printing"]
  <2>1. request' = [request EXCEPT ![t] = [z EXCEPT !.queue = report_queues[device]]]
    BY DEF Answered, Typed
  <2>2. z = [at |-> "printing", device |-> device, queue |-> NoQueue]
    BY <1>3
  <2>3. [z EXCEPT !.queue = report_queues[device]] = x
    <3> HIDE DEF z
    <3> QED
      BY <2>2
  <2> QED
    BY <2>1, <2>3
<1> HIDE DEF x
<1> QED
  BY <1>1, <1>4, <1>5, ForgetQueue DEF Answered, Known

\* A thread that ended.
LEMMA NoRequestState == NoRequest \in RequestStates /\ NoRequest.at = "finished"
  BY DEF RequestStates, NoRequest

\* A request that failed leaves nothing of the queue behind.
LEMMA FailedInv ==
  ASSUME Typed, RequestInv, NEW t \in Threads, Failed(t)
  PROVE  Typed' /\ RequestInv'
<1>1. NoRequest.at # "requesting"
  BY NoRequestState
<1> QED
  BY <1>1, NoRequestState, ForgetQueue DEF Failed, End

\* A thread that prints asks nobody.
LEMMA EndPrinting ==
  ASSUME Typed, RequestInv, NEW t \in Threads, request[t].at = "printing",
         End(t) \/ UNCHANGED request,
         UNCHANGED <<device_infos, report_queues, listener>>
  PROVE  request' \in [Threads -> RequestStates] /\ RequestInv'
<1>1. request' \in [Threads -> RequestStates]
  BY NoRequestState DEF End, Typed
<1>2. \A d \in Devices : Starting(d)' = Starting(d) /\ Asking(d)' = Asking(d)
  BY NoRequestState DEF Starting, Asking, End, Typed
<1>3. SingleRequest'
  BY <1>2 DEF RequestInv, SingleRequest
<1>4. QueueOfDevice'
  BY DEF RequestInv, QueueOfDevice
<1> QED
  BY <1>1, <1>3, <1>4 DEF RequestInv

\* Reports leave a queue in order; the thread that empties it asks nobody.
LEMMA PrintInv ==
  ASSUME Typed, RequestInv, NEW t \in Threads, PrintNext(t) \/ PrintedAll(t)
  PROVE  Typed' /\ RequestInv'
<1>1. request' \in [Threads -> RequestStates] /\ RequestInv'
  BY EndPrinting DEF PrintNext, PrintedAll
<1>2. CASE PrintedAll(t)
  BY <1>1, <1>2 DEF PrintedAll, Typed, QueuedForDevice
<1>3. CASE PrintNext(t)
  <2> DEFINE q == request[t].queue
  <2>1. q \in Queues /\ contents[q] \in Seq(Reports) /\ contents[q] # <<>>
    BY <1>3, RequestFacts DEF PrintNext, Queue, Typed
  <2>2. contents' = [contents EXCEPT ![q] = Tail(contents[q])]
    BY <1>3 DEF PrintNext
  <2>3. Tail(contents[q]) \in Seq(Reports) /\ Head(contents[q]) \in Reports
    BY <2>1
  <2>4. Range(Tail(contents[q])) \subseteq Range(contents[q])
    BY <2>1 DEF Range
  <2>5. QueuedForDevice'
    BY <1>3, <2>1, <2>2, <2>4 DEF PrintNext, Typed, QueuedForDevice
  <2> QED
    BY <1>1, <1>3, <2>1, <2>2, <2>3, <2>5 DEF PrintNext, PrintReport, Queue, Typed
<1> QED
  BY <1>2, <1>3

-----------------------------------------------------------------------------
(* The theorems *)

\* In the beginning nobody is asked.
LEMMA InitInv == Init => Typed /\ RequestInv
<1> SUFFICES ASSUME Init PROVE Typed /\ RequestInv
  OBVIOUS
<1>1. Idle \in ListenerStates /\ Idle.start_request = FALSE /\ Idle.queue = NoQueue
  BY DEF Idle, ListenerStates
<1>2. Typed
  BY <1>1, NoRequestState, NoneAssumption DEF Init, Typed, QueuedForDevice
<1>3. \A d \in Devices : Starting(d) = {} /\ Asking(d) = {}
  BY <1>1, NoRequestState DEF Init, Starting, Asking
<1> QED
  BY <1>2, <1>3 DEF Init, RequestInv, SingleRequest, QueueOfDevice

\* Every step of a listener or a request thread keeps both.
LEMMA StepInv == Typed /\ RequestInv /\ [Next]_vars => Typed' /\ RequestInv'
<1> SUFFICES ASSUME Typed, RequestInv, [Next]_vars PROVE Typed' /\ RequestInv'
  OBVIOUS
<1>1. ASSUME NEW l \in Listeners, NEW r \in Reports, Receive(l, r) PROVE Typed' /\ RequestInv'
  BY <1>1, ReceiveInv
<1>2. ASSUME NEW l \in Listeners, FindInfo(l) \/ FindQueue(l) PROVE Typed' /\ RequestInv'
  BY <1>2, FindInv
<1>3. ASSUME NEW l \in Listeners, AddQueue(l) PROVE Typed' /\ RequestInv'
  BY <1>3, AddQueueInv
<1>4. ASSUME NEW l \in Listeners, Continue(l) PROVE Typed' /\ RequestInv'
  BY <1>4, ContinueInv
<1>5. ASSUME NEW l \in Listeners, Put(l) PROVE Typed' /\ RequestInv'
  BY <1>5, PutInv
<1>6. ASSUME NEW l \in Listeners, StartRequest(l) PROVE Typed' /\ RequestInv'
  BY <1>6, StartRequestInv
<1>7. ASSUME NEW t \in Threads, Answered(t) PROVE Typed' /\ RequestInv'
  BY <1>7, RequestAnsweredInv
<1>8. ASSUME NEW t \in Threads, Failed(t) PROVE Typed' /\ RequestInv'
  BY <1>8, FailedInv
<1>9. ASSUME NEW t \in Threads, PrintNext(t) \/ PrintedAll(t) PROVE Typed' /\ RequestInv'
  BY <1>9, PrintInv
<1>10. CASE UNCHANGED vars
  <2>1. Typed'
    BY <1>10 DEF vars, Typed, QueuedForDevice
  <2>2. \A d \in Devices : Starting(d)' = Starting(d) /\ Asking(d)' = Asking(d)
    BY <1>10 DEF vars, Starting, Asking
  <2>3. SingleRequest' /\ QueueOfDevice'
    BY <1>10, <2>2 DEF vars, RequestInv, SingleRequest, QueueOfDevice
  <2> QED
    BY <2>1, <2>3 DEF RequestInv
<1> QED
  BY <1>1, <1>2, <1>3, <1>4, <1>5, <1>6, <1>7, <1>8, <1>9, <1>10 DEF Next, Handle, GetDeviceInfo

\* The types, and the strengthening that keeps them.
LEMMA Invariants == Spec => [](Typed /\ RequestInv)
  BY InitInv, StepInv, PTL DEF Spec

\* Every thread is where its handler can be with what it needs there, and a
\* queue that is registered holds reports of its device only.
THEOREM TypeCorrect == Spec => []TypeOK
<1>1. Typed => TypeOK
  BY TypeParts
<1> QED
  BY <1>1, Invariants, PTL

\* The two kinds of threads together are one, or none.
LEMMA OneOrNone == RequestInv => OneRequest
<1> SUFFICES ASSUME RequestInv, NEW d \in Devices
             PROVE  /\ Cardinality(Requesting(d)) = IF report_queues[d] = NoQueue THEN 0 ELSE 1
                    /\ d \in device_infos => report_queues[d] = NoQueue
  BY DEF OneRequest
<1>1. Requesting(d) = Starting(d) \cup Asking(d)
  BY DEF Requesting, Starting, Asking
<1>2. d \in device_infos => report_queues[d] = NoQueue
  BY DEF RequestInv, SingleRequest
<1>3. CASE report_queues[d] = NoQueue
  <2>1. Requesting(d) = {}
    BY <1>1, <1>3 DEF RequestInv, SingleRequest
  <2> QED
    BY <1>2, <1>3, <2>1, FS_EmptySet
<1>4. CASE report_queues[d] # NoQueue
  <2>1. PICK x : Requesting(d) = {x}
    <3>1. CASE \E l \in Listeners : Starting(d) = {l} /\ Asking(d) = {}
      BY <1>1, <3>1
    <3>2. CASE \E t \in Threads : Asking(d) = {t} /\ Starting(d) = {}
      BY <1>1, <3>2
    <3> QED
      BY <1>4, <3>1, <3>2 DEF RequestInv, SingleRequest
  <2>2. Cardinality(Requesting(d)) = 1
    BY <2>1, FS_Singleton
  <2> QED
    BY <1>2, <1>4, <2>2
<1> QED
  BY <1>3, <1>4

\* A device is asked by one thread, exactly while it has a queue, however many
\* listener threads there are and whatever fails: the check and the
\* registration under one lock are enough.
THEOREM SingleRequester == Spec => []OneRequest
  BY OneOrNone, Invariants, PTL
=============================================================================
