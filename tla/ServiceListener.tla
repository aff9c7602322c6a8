--------------------------- MODULE ServiceListener ---------------------------
(***************************************************************************)
(* The service listeners of lemonbeat.Gateway (_gateway.py:151-240).       *)
(* start_service_listener registers an entry [thread, running] for a       *)
(* service and starts the thread; the thread binds the port of the service *)
(* and calls the handler for each datagram for as long as it finds         *)
(* `running' set in the entry that is registered at that moment;           *)
(* stop_service_listener resets the flag, joins the thread and deletes the *)
(* entry.  There is no lock: a call is split at every access to            *)
(* _listener_threads, and a handler may itself stop listeners.             *)
(***************************************************************************)
EXTENDS Naturals, FiniteSets

CONSTANTS
  Services,       \* services, each with its port
  Threads,        \* bound: threading.Thread objects that are in use at once
  Users,          \* threads of the program that start and stop listeners
  HandlerStops,   \* for each service the listeners that its handler may stop
  Datagrams,      \* what the network delivers: {"valid", "wrong_format", "unparsable"}
  Contended,      \* services whose port another process may hold
  NoService, NoThread, NoEntry

ASSUME HandlerStopsAssumption == HandlerStops \in [Services -> SUBSET Services]
ASSUME CallersAssumption == Users \cap Threads = {}
ASSUME NoneAssumption == NoService \notin Services /\ NoThread \notin Threads
ASSUME NoEntryAssumption == NoEntry \notin [thread : Threads, running : BOOLEAN]

VARIABLES
  listener_threads,  \* [Services -> entry or NoEntry], the attribute _listener_threads
  at,                \* [Threads -> place in _service_listener]
  serves,            \* [Threads -> the service of the thread's listener_address]
  call               \* the start or stop call each user or handler is in

vars == <<listener_threads, at, serves, call>>

Callers == Users \cup Threads

Entries == [thread : Threads, running : BOOLEAN]

Listed == {s \in Services : listener_threads[s] # NoEntry}

Alive(t) == at[t] \notin {"none", "finished"}

\* Its socket is bound to the port of its service.
Bound(t) == at[t] \in {"check", "select", "dispatch", "handler", "called"}

NoCall == [at |-> "idle", service |-> NoService, thread |-> NoThread, todo |-> {}]

InCall(c, place) == call[c].at = place

\* The call of c goes on at the given place, with the service it is working on.
Goto(c, place) == call' = [call EXCEPT ![c].at = place]

Raise(c) == call' = [call EXCEPT ![c] = NoCall]

-----------------------------------------------------------------------------
(* start_service_listener *)

\* The check: a service that is listed is left alone, with a warning.
StartListener(c, s) ==
  /\ InCall(c, "idle") /\ s \notin Listed
  /\ call' = [call EXCEPT ![c] = [NoCall EXCEPT !.at = "register", !.service = s]]
  /\ UNCHANGED <<listener_threads, at, serves>>

\* A Thread object nobody refers to any more stands for a new one.
Unused(t) ==
  /\ ~Alive(t)
  /\ \A s \in Listed : listener_threads[s].thread # t
  /\ \A c \in Callers : call[c].thread # t
  /\ InCall(t, "idle")

Register(c) ==
  /\ InCall(c, "register")
  /\ \E t \in Threads :
       /\ Unused(t)
       /\ listener_threads' =
            [listener_threads EXCEPT ![call[c].service] = [thread |-> t, running |-> TRUE]]
       /\ at' = [at EXCEPT ![t] = "created"]
       /\ serves' = [serves EXCEPT ![t] = call[c].service]
       /\ call' = [call EXCEPT ![c].at = "start", ![c].thread = t]

StartThread(c) ==
  /\ InCall(c, "start")
  /\ at' = [at EXCEPT ![call[c].thread] = "bind"]
  /\ call' = [call EXCEPT ![c] = NoCall]
  /\ UNCHANGED <<listener_threads, serves>>

-----------------------------------------------------------------------------
(* stop_service_listener *)

StopListener(c, s) ==
  /\ InCall(c, "idle")
  /\ call' = [call EXCEPT ![c] = [NoCall EXCEPT !.at = "flag", !.service = s]]
  /\ UNCHANGED <<listener_threads, at, serves>>

\* Faulty: iterates over the entries instead of the services.
ToStopValues == {listener_threads[s] : s \in Listed}

\* The listeners that a call without service stops: those listed when it began.
ToStop == Listed

\* stop_service_listener(): all listeners, one after the other.
StopAll(c) ==
  /\ InCall(c, "idle")
  /\ \E s \in Listed :
       call' = [call EXCEPT ![c] = [at |-> "flag", service |-> s, thread |-> NoThread,
                                    todo |-> ToStop \ {s}]]
  /\ UNCHANGED <<listener_threads, at, serves>>

\* `running' is reset in the entry; without an entry, KeyError.
Flag(c) ==
  LET s == call[c].service IN
  /\ InCall(c, "flag")
  /\ \/ s \in Listed
        /\ listener_threads' = [listener_threads EXCEPT ![s].running = FALSE]
        /\ Goto(c, "join")
     \/ s \notin Listed /\ Raise(c) /\ UNCHANGED listener_threads
  /\ UNCHANGED <<at, serves>>

\* Thread.join refuses the calling thread itself and one that was not started.
CannotJoin(c, t) == t = c \/ at[t] = "created"

\* Faulty: does not wait for the thread.
JoinNothing(c) ==
  LET s == call[c].service IN
  /\ InCall(c, "join")
  /\ IF s \in Listed /\ ~CannotJoin(c, listener_threads[s].thread)
     THEN Goto(c, "delete")
     ELSE Raise(c)
  /\ UNCHANGED <<listener_threads, at, serves>>

\* The entry is read again; join raises, or the call waits for the thread.
Join(c) ==
  LET s == call[c].service IN
  /\ InCall(c, "join")
  /\ IF s \in Listed /\ ~CannotJoin(c, listener_threads[s].thread)
     THEN call' = [call EXCEPT ![c].at = "joining", ![c].thread = listener_threads[s].thread]
     ELSE Raise(c)
  /\ UNCHANGED <<listener_threads, at, serves>>

Joined(c) ==
  /\ InCall(c, "joining") /\ at[call[c].thread] = "finished"
  /\ call' = [call EXCEPT ![c].at = "delete", ![c].thread = NoThread]
  /\ UNCHANGED <<listener_threads, at, serves>>

\* The entry is deleted, whichever it is by now; without an entry, KeyError.
\* stop_service_listener() goes on to the next service.
Delete(c) ==
  LET s == call[c].service IN
  /\ InCall(c, "delete")
  /\ listener_threads' = [listener_threads EXCEPT ![s] = NoEntry]
  /\ \/ s \in Listed
        /\ \E next \in call[c].todo :
             call' = [call EXCEPT ![c] = [at |-> "flag", service |-> next, thread |-> NoThread,
                                          todo |-> call[c].todo \ {next}]]
     \/ (s \notin Listed \/ call[c].todo = {}) /\ Raise(c)
  /\ UNCHANGED <<at, serves>>

-----------------------------------------------------------------------------
(* _service_listener, the thread *)

Move(t, place) ==
  at' = [at EXCEPT ![t] = place] /\ UNCHANGED <<listener_threads, serves, call>>

PortFree(t) == \A u \in Threads \ {t} : ~(Bound(u) /\ serves[u] = serves[t])

\* The socket is bound, or bind raises OSError and the thread ends; its entry stays.
Bind(t) ==
  /\ at[t] = "bind"
  /\ \/ PortFree(t) /\ Move(t, "check")
     \/ (~PortFree(t) \/ serves[t] \in Contended) /\ Move(t, "finished")

\* Faulty: takes a missing entry for a running one.
RunningByDefault(t) == serves[t] \in Listed => listener_threads[serves[t]].running

\* Faulty: does not look at the flag.
RunningAlways(t) == serves[t] \in Listed

\* Does the loop go on?  A missing entry raises KeyError, which ends the thread too.
Running(t) == serves[t] \in Listed /\ listener_threads[serves[t]].running

Check(t) ==
  /\ at[t] = "check"
  /\ Move(t, IF Running(t) THEN "select" ELSE "finished")

\* One second passes without datagram.
Timeout(t) == at[t] = "select" /\ Move(t, "check")

\* A datagram that decompress or ETree.fromstring does not accept raises
\* outside of any try: the thread ends, its entry stays.
Receive(t) ==
  /\ at[t] = "select"
  /\ \/ "valid" \in Datagrams /\ Move(t, "dispatch")
     \/ "wrong_format" \in Datagrams /\ Move(t, "check")
     \/ "unparsable" \in Datagrams /\ Move(t, "finished")

\* The entry is read once more, for the handler.
Dispatch(t) ==
  /\ at[t] = "dispatch"
  /\ Move(t, IF serves[t] \in Listed THEN "handler" ELSE "finished")

\* The handler stops a listener, at most one for each message.
HandlerCalls(t) ==
  /\ at[t] = "handler"
  /\ \E s \in HandlerStops[serves[t]] :
       call' = [call EXCEPT ![t] = [NoCall EXCEPT !.at = "flag", !.service = s]]
  /\ at' = [at EXCEPT ![t] = "called"]
  /\ UNCHANGED <<listener_threads, serves>>

\* The handler returns, or raises what the listener logs.
HandlerReturns(t) ==
  /\ at[t] \in {"handler", "called"} /\ InCall(t, "idle")
  /\ Move(t, "check")

-----------------------------------------------------------------------------
Init ==
  /\ listener_threads = [s \in Services |-> NoEntry]
  /\ at = [t \in Threads |-> "none"]
  /\ serves = [t \in Threads |-> NoService]
  /\ call = [c \in Callers |-> NoCall]

Begin(u) == (\E s \in Services : StartListener(u, s) \/ StopListener(u, s)) \/ StopAll(u)

Continue(c) ==
  Register(c) \/ StartThread(c) \/ Flag(c) \/ Join(c) \/ Joined(c) \/ Delete(c)

Listen(t) ==
  Bind(t) \/ Check(t) \/ Timeout(t) \/ Receive(t) \/ Dispatch(t) \/ HandlerReturns(t)

Next ==
  \/ \E u \in Users : Begin(u)
  \/ \E c \in Callers : Continue(c)
  \/ \E t \in Threads : Listen(t) \/ HandlerCalls(t)

Spec == Init /\ [][Next]_vars

\* Threads are scheduled, select has a timeout and handlers return.
FairSpec ==
  /\ Spec
  /\ \A c \in Callers : WF_vars(Continue(c))
  /\ \A t \in Threads : WF_vars(Listen(t))

-----------------------------------------------------------------------------
Places == {"none", "created", "bind", "check", "select", "dispatch", "handler",
           "called", "finished"}

ActiveCalls == [at : {"register", "start", "flag", "join", "joining", "delete"},
                service : Services,
                thread : Threads \cup {NoThread},
                todo : SUBSET Services]

\* Type invariant: a thread that was made serves a service, and a call is about one.
TypeOK ==
  /\ listener_threads \in [Services -> Entries \cup {NoEntry}]
  /\ at \in [Threads -> Places]
  /\ serves \in [Threads -> Services \cup {NoService}]
  /\ call \in [Callers -> ActiveCalls \cup {NoCall}]
  /\ \A t \in Threads : at[t] # "none" => serves[t] \in Services
  /\ \A c \in Callers : InCall(c, "start") =>
       call[c].thread \in Threads /\ at[call[c].thread] # "none"

\* Every thread that has not ended is the one its service's entry names.  So a
\* service has at most one thread, starting a listener that was stopped finds
\* the port free, and once stop_service_listener returned, no handler of that
\* service runs any more.  For a program that starts and stops from one thread.
OneListener ==
  \A t \in Threads :
    Alive(t) => /\ serves[t] \in Listed
                /\ listener_threads[serves[t]].thread = t

\* stop_service_listener and start_service_listener return, whatever arrives,
\* although nothing but the flag wakes up the thread that is joined.
CallsReturn == \A c \in Callers : ~InCall(c, "idle") ~> InCall(c, "idle")

\* Listeners that no entry names any more end: if no service stays listed, no
\* thread goes on, whichever starts and stops raced with each other.
OrphansEnd ==
  \A s \in Services :
    <>[](s \notin Listed) => <>[](\A t \in Threads : serves[t] = s => ~Alive(t))

\* service_listeners returns the services with running listeners: outside of
\* any start or stop call, the thread of a listed service has not ended.
ListedIsRunning ==
  (\A c \in Callers : InCall(c, "idle")) =>
    \A s \in Listed : Alive(listener_threads[s].thread)
=============================================================================
