---------------------------- MODULE ReportQueues ----------------------------
(***************************************************************************)
(* examples/service_listener prints the reports of the known devices.  To  *)
(* decode them it needs the descriptions of the device: the first report   *)
(* starts a thread that requests them, and what arrives in the meantime    *)
(* waits in a queue of the device.  The listener threads and the request   *)
(* threads share device_infos and report_queues, under one lock.           *)
(*                                                                         *)
(* Nothing of what the lock protects is touched without it, so that each   *)
(* critical section is one step; a queue is filled and emptied outside.    *)
(***************************************************************************)
EXTENDS Naturals, Sequences, FiniteSets, Functions

CONSTANTS
  Listeners,     \* the threads of the status and the value listener
  Devices,       \* `devices'; a report of anybody else is ignored
  Reports,
  Sender,        \* the device of each report
  Undecodable,   \* reports whose decoding raises
  Queues,        \* bound: queue.Queue objects that are in use at once
  Threads,       \* bound: request threads that are alive at once
  NoQueue, NoReport, NoDevice

ASSUME SenderAssumption == Sender \in [Reports -> Devices]
ASSUME UndecodableAssumption == Undecodable \subseteq Reports
ASSUME NoneAssumption == NoQueue \notin Queues /\ NoReport \notin Reports /\ NoDevice \notin Devices

VARIABLES
  device_infos,   \* the devices whose descriptions are known
  report_queues,  \* [Devices -> the queue in report_queues, or NoQueue]
  contents,       \* [Queues -> what is in the queue]
  listener,       \* where each listener thread is in its handler
  request,        \* where each request thread is in get_device_info
  printed         \* history: reports that were printed since they were received

vars == <<device_infos, report_queues, contents, listener, request, printed>>

Idle == [at |-> "idle", report |-> NoReport, queue |-> NoQueue, start_request |-> FALSE]

NoRequest == [at |-> "finished", device |-> NoDevice, queue |-> NoQueue]

Init ==
  /\ device_infos = {}
  /\ report_queues = [d \in Devices |-> NoQueue]
  /\ contents = [q \in Queues |-> <<>>]
  /\ listener = [l \in Listeners |-> Idle]
  /\ request = [t \in Threads |-> NoRequest]
  /\ printed = {}

\* Some variable of the program refers to the queue.
Referenced(q) ==
  \/ q \in Range(report_queues)
  \/ \E l \in Listeners : listener[l].queue = q
  \/ \E t \in Threads : request[t].queue = q

\* An object that nobody refers to any more stands for a new one.
UnusedQueues == {q \in Queues : ~Referenced(q)}
UnusedThreads == {t \in Threads : request[t] = NoRequest}

NewQueue == CHOOSE q \in UnusedQueues : TRUE
NewThread == CHOOSE t \in UnusedThreads : TRUE

\* The report is being handled, or waits in a queue.
Pending(r) ==
  \/ \E l \in Listeners : listener[l].report = r
  \/ \E q \in Queues : Referenced(q) /\ r \in Range(contents[q])

\* What is left of a report that is printed, unless its decoding raises.
PrintReport(r) == printed' = printed \cup ({r} \ Undecodable)

-----------------------------------------------------------------------------
(* conditionally_get_device_info_and_continue, on a listener thread *)

HandlerReturns(l) == listener' = [listener EXCEPT ![l] = Idle]

\* A report that is nowhere any more stands for a new one.
Receive(l, r) ==
  /\ listener[l].at = "idle" /\ ~Pending(r)
  /\ listener' = [listener EXCEPT ![l].at = "lock", ![l].report = r]
  /\ printed' = printed \ {r}
  /\ UNCHANGED <<device_infos, report_queues, contents, request>>

\* Under the lock: the descriptions are known, ...
FindInfo(l) ==
  /\ listener[l].at = "lock" /\ Sender[listener[l].report] \in device_infos
  /\ listener' = [listener EXCEPT ![l].at = "continue"]
  /\ UNCHANGED <<device_infos, report_queues, contents, request, printed>>

\* ... or they were requested, ...
FindQueue(l) ==
  LET device == Sender[listener[l].report] IN
  /\ listener[l].at = "lock" /\ device \notin device_infos /\ report_queues[device] # NoQueue
  /\ listener' = [listener EXCEPT ![l].at = "put", ![l].queue = report_queues[device]]
  /\ UNCHANGED <<device_infos, report_queues, contents, request, printed>>

\* Faulty: requested again while a request is under way.
AddQueueAlways(l) ==
  LET device == Sender[listener[l].report] IN
  /\ listener[l].at = "lock" /\ device \notin device_infos /\ UnusedQueues # {}
  /\ report_queues' = [report_queues EXCEPT ![device] = NewQueue]
  /\ contents' = [contents EXCEPT ![NewQueue] = <<>>]
  /\ listener' = [listener EXCEPT ![l].at = "put", ![l].queue = NewQueue, ![l].start_request = TRUE]
  /\ UNCHANGED <<device_infos, request, printed>>

\* ... or this thread has to request them.
AddQueue(l) ==
  LET device == Sender[listener[l].report] IN
  /\ listener[l].at = "lock" /\ device \notin device_infos /\ report_queues[device] = NoQueue
  /\ UnusedQueues # {}
  /\ report_queues' = [report_queues EXCEPT ![device] = NewQueue]
  /\ contents' = [contents EXCEPT ![NewQueue] = <<>>]
  /\ listener' = [listener EXCEPT ![l].at = "put", ![l].queue = NewQueue, ![l].start_request = TRUE]
  /\ UNCHANGED <<device_infos, request, printed>>

\* continue_fn: the listener logs what it raises.
Continue(l) ==
  /\ listener[l].at = "continue"
  /\ PrintReport(listener[l].report)
  /\ HandlerReturns(l)
  /\ UNCHANGED <<device_infos, report_queues, contents, request>>

\* The queue may have been emptied or forgotten since it was looked up.
Put(l) ==
  /\ listener[l].at = "put"
  /\ contents' = [contents EXCEPT ![listener[l].queue] = Append(@, listener[l].report)]
  /\ \/ listener[l].start_request /\ listener' = [listener EXCEPT ![l].at = "start"]
     \/ ~listener[l].start_request /\ HandlerReturns(l)
  /\ UNCHANGED <<device_infos, report_queues, request, printed>>

StartRequest(l) ==
  /\ listener[l].at = "start" /\ UnusedThreads # {}
  /\ request' = [request EXCEPT ![NewThread] = [at |-> "requesting",
                                                device |-> Sender[listener[l].report],
                                                queue |-> NoQueue]]
  /\ HandlerReturns(l)
  /\ UNCHANGED <<device_infos, report_queues, contents, printed>>

-----------------------------------------------------------------------------
(* get_device_info, a thread of its own *)

End(t) == request' = [request EXCEPT ![t] = NoRequest]

\* Faulty: the descriptions are only used for what is queued.
KnownForOnce(device) == device_infos

Known(device) == device_infos \cup {device}

\* Both descriptions were answered.
Answered(t) ==
  LET device == request[t].device IN
  /\ request[t].at = "requesting"
  /\ device_infos' = Known(device)
  /\ report_queues' = [report_queues EXCEPT ![device] = NoQueue]
  /\ request' = [request EXCEPT ![t].at = "printing", ![t].queue = report_queues[device]]
  /\ UNCHANGED <<contents, listener, printed>>

\* Faulty: the queue stays.
FailedSilently(t) ==
  /\ request[t].at = "requesting"
  /\ End(t)
  /\ UNCHANGED <<device_infos, report_queues, contents, listener, printed>>

\* A timeout or any other error: the queue is forgotten with what is in it.
Failed(t) ==
  /\ request[t].at = "requesting"
  /\ report_queues' = [report_queues EXCEPT ![request[t].device] = NoQueue]
  /\ End(t)
  /\ UNCHANGED <<device_infos, contents, listener, printed>>

Queue(t) == contents[request[t].queue]

\* Faulty: one report is printed.
PrintOne(t) ==
  /\ request[t].at = "printing" /\ Queue(t) # <<>>
  /\ contents' = [contents EXCEPT ![request[t].queue] = Tail(@)]
  /\ PrintReport(Head(Queue(t)))
  /\ End(t)
  /\ UNCHANGED <<device_infos, report_queues, listener>>

\* The next report is printed; if its decoding raises, the thread ends.
PrintNext(t) ==
  /\ request[t].at = "printing" /\ Queue(t) # <<>>
  /\ contents' = [contents EXCEPT ![request[t].queue] = Tail(@)]
  /\ PrintReport(Head(Queue(t)))
  /\ IF Head(Queue(t)) \in Undecodable THEN End(t) ELSE UNCHANGED request
  /\ UNCHANGED <<device_infos, report_queues, listener>>

PrintedAll(t) ==
  /\ request[t].at = "printing" /\ Queue(t) = <<>>
  /\ End(t)
  /\ UNCHANGED <<device_infos, report_queues, contents, listener, printed>>

-----------------------------------------------------------------------------
Handle(l) ==
  FindInfo(l) \/ FindQueue(l) \/ AddQueue(l) \/ Continue(l) \/ Put(l) \/ StartRequest(l)

GetDeviceInfo(t) == Answered(t) \/ Failed(t) \/ PrintNext(t) \/ PrintedAll(t)

Next ==
  \/ \E l \in Listeners : Handle(l) \/ \E r \in Reports : Receive(l, r)
  \/ \E t \in Threads : GetDeviceInfo(t)

ReceiveFrom(d) == \E l \in Listeners, r \in Reports : Sender[r] = d /\ Receive(l, r)

AnsweredBy(d) == \E t \in Threads : request[t].device = d /\ Answered(t)

\* Threads are scheduled and requests have a timeout.  A device that is asked
\* again and again answers once.
Spec ==
  /\ Init /\ [][Next]_vars
  /\ \A l \in Listeners : WF_vars(Handle(l))
  /\ \A t \in Threads : WF_vars(GetDeviceInfo(t))
  /\ \A d \in Devices : SF_vars(AnsweredBy(d))

-----------------------------------------------------------------------------
\* Type invariant: who works on a report or a device has one, and a queue
\* holds reports of one device.
TypeOK ==
  /\ device_infos \subseteq Devices
  /\ report_queues \in [Devices -> Queues \cup {NoQueue}]
  /\ contents \in [Queues -> Seq(Reports)]
  /\ listener \in [Listeners ->
       {Idle}
       \cup [at : {"lock", "continue"}, report : Reports, queue : {NoQueue}, start_request : {FALSE}]
       \cup [at : {"put"}, report : Reports, queue : Queues, start_request : BOOLEAN]
       \cup [at : {"start"}, report : Reports, queue : Queues, start_request : {TRUE}]]
  /\ request \in [Threads ->
       {NoRequest}
       \cup [at : {"requesting"}, device : Devices, queue : {NoQueue}]
       \cup [at : {"printing"}, device : Devices, queue : Queues]]
  /\ printed \subseteq Reports
  /\ \A q \in Queues, d \in Devices :
       report_queues[d] = q => \A r \in Range(contents[q]) : Sender[r] = d

\* The threads that request the descriptions of d, or are about to start one
\* that does.
Requesting(d) ==
  {l \in Listeners : listener[l].start_request /\ Sender[listener[l].report] = d}
  \cup {t \in Threads : request[t].at = "requesting" /\ request[t].device = d}

\* A device is asked by one thread at a time, not at all once its descriptions
\* are known, and exactly while it has a queue: so `del' and `pop' find the
\* queue, and no queue is left that nobody will empty.
OneRequest ==
  \A d \in Devices :
    /\ Cardinality(Requesting(d)) = IF report_queues[d] = NoQueue THEN 0 ELSE 1
    /\ d \in device_infos => report_queues[d] = NoQueue

\* A report that is in the queue when the descriptions arrive, behind none that
\* cannot be decoded, is printed, although its listener thread goes on and may
\* print later reports before it.
QueuedIsPrinted ==
  \A t \in Threads, r \in Reports :
    (/\ request[t].at = "printing"
     /\ \E i \in DOMAIN Queue(t) :
          Queue(t)[i] = r /\ \A j \in 1..i : Queue(t)[j] \notin Undecodable)
    ~> r \in printed

\* A device whose reports keep arriving becomes known: a request that failed
\* is repeated with a later report, whatever waits in the queues.
EventuallyKnown ==
  \A d \in Devices : WF_vars(ReceiveFrom(d)) => <>(d \in device_infos)

-----------------------------------------------------------------------------
(* Why OneRequest holds: its inductive strengthening *)

\* The listener threads that start a request for d, and the ones that are it.
Starting(d) == {l \in Listeners : listener[l].start_request /\ Sender[listener[l].report] = d}

Asking(d) == {t \in Threads : request[t].at = "requesting" /\ request[t].device = d}

\* Who found no queue of d is the only one that asks, until the queue is gone.
SingleRequest ==
  \A d \in Devices :
    /\ report_queues[d] = NoQueue => Starting(d) = {} /\ Asking(d) = {}
    /\ report_queues[d] # NoQueue =>
         \/ (\E l \in Listeners : Starting(d) = {l}) /\ Asking(d) = {}
         \/ (\E t \in Threads : Asking(d) = {t}) /\ Starting(d) = {}
    /\ d \in device_infos => report_queues[d] = NoQueue

\* A queue is of one device, and a listener thread that found it has a report
\* of that device to put into it.
QueueOfDevice ==
  /\ \A d, e \in Devices : report_queues[d] # NoQueue /\ report_queues[d] = report_queues[e] => d = e
  /\ \A l \in Listeners, d \in Devices :
       report_queues[d] # NoQueue /\ listener[l].queue = report_queues[d]
         => Sender[listener[l].report] = d

RequestInv == SingleRequest /\ QueueOfDevice
=============================================================================
