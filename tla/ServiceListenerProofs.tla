------------------------ MODULE ServiceListenerProofs ------------------------
(***************************************************************************)
(* Proofs about the service listeners, for any services, threads and       *)
(* datagrams.  OneListener is proved for a program that starts and stops   *)
(* listeners from one thread, and whose handlers stop at most the listener *)
(* they run on.  With several callers it does not hold: two starts may     *)
(* both find the service not listed.                                       *)
(***************************************************************************)
EXTENDS ServiceListener, TLAPS

OneCaller ==
  /\ \A u, v \in Users : u = v
  /\ \A s \in Services : HandlerStops[s] \subseteq {s}

\* A listed service's thread was made for that service.
EntriesMatch ==
  \A s \in Listed : /\ listener_threads[s] \in Entries
                    /\ serves[listener_threads[s].thread] = s

\* The user's call and the entry it works on.
UserCall(u) ==
  LET s == call[u].service IN
  /\ ~InCall(u, "idle") => s \in Services
  /\ InCall(u, "register") => s \notin Listed
  /\ InCall(u, "start") =>
       s \in Listed /\ listener_threads[s].thread = call[u].thread /\ at[call[u].thread] = "created"
  /\ InCall(u, "joining") =>
       s \in Listed /\ listener_threads[s].thread = call[u].thread
  /\ InCall(u, "delete") =>
       s \in Listed /\ at[listener_threads[s].thread] = "finished"

\* A handler's call: it never gets past the join, which refuses its own thread.
HandlerCall(t) ==
  /\ call[t].at \in {"idle", "flag", "join"}
  /\ ~InCall(t, "idle") => at[t] = "called" /\ call[t].service = serves[t]

ListenerInv ==
  /\ OneListener
  /\ EntriesMatch
  /\ \A u \in Users : UserCall(u)
  /\ \A t \in Threads : HandlerCall(t)

-----------------------------------------------------------------------------
(* Types *)

\* A step keeps the types.
LEMMA TypeStep ==
  ASSUME TypeOK, [Next]_vars PROVE TypeOK'
<1> USE DEF Callers
<1> DEFINE Calls == ActiveCalls \cup {NoCall}
           Created(f, a) == \A c \in Callers : f[c].at = "start" =>
                              f[c].thread \in Threads /\ a[f[c].thread] # "none"
<1>0. call \in [Callers -> Calls] /\ Created(call, at)
  BY DEF TypeOK, InCall
<1>i. \A c \in Callers : ~InCall(c, "idle") => call[c] \in ActiveCalls
  BY <1>0 DEF InCall, NoCall
<1>s. \A t \in Threads : at[t] # "none" => serves[t] \in Services
  BY DEF TypeOK
<1>c. ASSUME NEW c \in Callers, NEW r \in Calls, r.at # "start", call' = [call EXCEPT ![c] = r]
      PROVE call' \in [Callers -> Calls] /\ Created(call', at)
  BY <1>0, <1>c
<1>n. NoCall \in Calls /\ NoCall.at # "start"
  BY DEF NoCall
<1>f. ASSUME NEW p \in {"register", "flag"}, NEW s \in Services
      PROVE /\ [NoCall EXCEPT !.at = p, !.service = s] \in Calls
            /\ [NoCall EXCEPT !.at = p, !.service = s].at # "start"
  BY DEF NoCall, ActiveCalls
<1>b. ASSUME NEW c \in Callers, NEW p \in {"register", "flag"}, NEW s \in Services,
             call' = [call EXCEPT ![c] = [NoCall EXCEPT !.at = p, !.service = s]]
      PROVE call' \in [Callers -> Calls] /\ Created(call', at)
  BY <1>b, <1>c, <1>f
<1>h. ASSUME NEW c \in Callers, ~InCall(c, "idle"), NEW p \in {"joining", "delete", "start"},
             NEW t \in Threads \cup {NoThread}
      PROVE [call EXCEPT ![c].at = p, ![c].thread = t] \in [Callers -> Calls]
  <2>1. [[call[c] EXCEPT !.at = p] EXCEPT !.thread = t] \in ActiveCalls
    BY <1>h, <1>i DEF ActiveCalls
  <2>2. [call EXCEPT ![c].at = p, ![c].thread = t] =
          [call EXCEPT ![c] = [[call[c] EXCEPT !.at = p] EXCEPT !.thread = t]]
    BY <1>0
  <2> QED BY <2>1, <2>2, <1>0
<1>m. ASSUME NEW t \in Threads, at[t] # "none", NEW p \in Places \ {"none"}, Move(t, p) PROVE TypeOK'
  BY <1>m DEF TypeOK, Move, InCall
<1>u. ASSUME UNCHANGED <<listener_threads, at, serves>>, call' \in [Callers -> Calls], Created(call', at)
      PROVE TypeOK'
  BY <1>u DEF TypeOK, InCall
<1>1. ASSUME NEW u \in Users, NEW s \in Services, StartListener(u, s) PROVE TypeOK'
  BY <1>1, <1>b, <1>u DEF StartListener
<1>2. ASSUME NEW u \in Users, NEW s \in Services, StopListener(u, s) PROVE TypeOK'
  BY <1>2, <1>b, <1>u DEF StopListener
<1>3. ASSUME NEW u \in Users, StopAll(u) PROVE TypeOK'
  <2>1. PICK s \in Listed :
          call' = [call EXCEPT ![u] = [at |-> "flag", service |-> s, thread |-> NoThread,
                                       todo |-> ToStop \ {s}]]
    BY <1>3 DEF StopAll
  <2>2. [at |-> "flag", service |-> s, thread |-> NoThread, todo |-> ToStop \ {s}] \in Calls
    BY DEF ActiveCalls, Listed, ToStop
  <2> QED BY <2>1, <2>2, <1>c, <1>3, <1>u DEF StopAll
<1>4. ASSUME NEW c \in Callers, Register(c) PROVE TypeOK'
  <2>1. PICK t \in Threads :
          /\ listener_threads' =
               [listener_threads EXCEPT ![call[c].service] = [thread |-> t, running |-> TRUE]]
          /\ at' = [at EXCEPT ![t] = "created"]
          /\ serves' = [serves EXCEPT ![t] = call[c].service]
          /\ call' = [call EXCEPT ![c].at = "start", ![c].thread = t]
    BY <1>4 DEF Register
  <2>2. ~InCall(c, "idle") /\ call[c].service \in Services
    BY <1>4, <1>i DEF Register, InCall, ActiveCalls
  <2>3. call' \in [Callers -> Calls]
    BY <2>1, <2>2, <1>h
  <2>4. listener_threads' \in [Services -> Entries \cup {NoEntry}]
    BY <2>1 DEF TypeOK, Entries
  <2>5. at' \in [Threads -> Places] /\ serves' \in [Threads -> Services \cup {NoService}]
    BY <2>1, <2>2 DEF TypeOK, Places
  <2>6. \A u \in Threads : at'[u] # "none" => serves'[u] \in Services
    BY <2>1, <2>2 DEF TypeOK
  <2>7. Created(call', at')
    BY <2>1, <1>0 DEF TypeOK
  <2> QED BY <2>3, <2>4, <2>5, <2>6, <2>7 DEF TypeOK, InCall
<1>5. ASSUME NEW c \in Callers, StartThread(c) PROVE TypeOK'
  <2>1. call[c].thread \in Threads /\ at[call[c].thread] # "none"
    BY <1>5, <1>0 DEF StartThread, InCall
  <2>2. call' \in [Callers -> Calls] /\ Created(call', at)
    BY <1>5, <1>c, <1>n DEF StartThread
  <2>3. at' \in [Threads -> Places] /\ \A t \in Threads : at[t] # "none" <=> at'[t] # "none"
    BY <1>5, <2>1 DEF StartThread, TypeOK, Places
  <2> QED BY <1>5, <2>2, <2>3 DEF StartThread, TypeOK, InCall
<1>6. ASSUME NEW c \in Callers, Flag(c) PROVE TypeOK'
  <2>1. call' \in [Callers -> Calls] /\ Created(call', at)
    <3>1. [call[c] EXCEPT !.at = "join"] \in Calls
      BY <1>6, <1>i DEF Flag, InCall, ActiveCalls
    <3>2. [call[c] EXCEPT !.at = "join"].at # "start"
      BY <1>6, <1>i DEF Flag, InCall, ActiveCalls
    <3>3. CASE Goto(c, "join")
      BY <3>1, <3>2, <3>3, <1>c DEF Goto
    <3>4. CASE Raise(c)
      BY <3>4, <1>n, <1>c DEF Raise
    <3> QED BY <1>6, <3>3, <3>4 DEF Flag
  <2>3. \A s \in Listed : s \in Services /\ listener_threads[s] \in Entries
    BY DEF Listed, TypeOK
  <2>4. listener_threads' \in [Services -> Entries \cup {NoEntry}]
    <3>1. CASE UNCHANGED listener_threads
      BY <3>1 DEF TypeOK
    <3>2. ASSUME NEW s \in Listed, listener_threads' = [listener_threads EXCEPT ![s].running = FALSE]
          PROVE listener_threads' \in [Services -> Entries \cup {NoEntry}]
      <4>1. [listener_threads[s] EXCEPT !.running = FALSE] \in Entries
        BY <2>3 DEF Entries
      <4> QED BY <3>2, <4>1 DEF TypeOK
    <3> QED BY <1>6, <3>1, <3>2 DEF Flag
  <2> QED BY <1>6, <2>1, <2>4 DEF Flag, TypeOK, InCall
<1>7. ASSUME NEW c \in Callers, Join(c) PROVE TypeOK'
  <2>1. \A s \in Listed : listener_threads[s].thread \in Threads
    BY DEF TypeOK, Listed, Entries
  <2>2. ~InCall(c, "idle")
    BY <1>7 DEF Join, InCall
  <2>3. CASE Raise(c)
    BY <1>7, <2>3, <1>c, <1>n, <1>u DEF Join, Raise
  <2>4. CASE ~Raise(c)
    <3>1. PICK t \in Threads : call' = [call EXCEPT ![c].at = "joining", ![c].thread = t]
      BY <1>7, <2>1, <2>4 DEF Join
    <3>2. call' \in [Callers -> Calls]
      BY <3>1, <2>2, <1>h
    <3>3. Created(call', at)
      BY <3>1, <1>0
    <3> QED BY <1>7, <3>2, <3>3, <1>u DEF Join
  <2> QED BY <2>3, <2>4
<1>8. ASSUME NEW c \in Callers, Joined(c) PROVE TypeOK'
  <2>1. ~InCall(c, "idle")
    BY <1>8 DEF Joined, InCall
  <2>2. call' \in [Callers -> Calls]
    BY <1>8, <2>1, <1>h DEF Joined
  <2>3. Created(call', at)
    BY <1>8, <1>0 DEF Joined
  <2> QED BY <1>8, <2>2, <2>3, <1>u DEF Joined
<1>9. ASSUME NEW c \in Callers, Delete(c) PROVE TypeOK'
  <2>1. \A next \in call[c].todo :
          [at |-> "flag", service |-> next, thread |-> NoThread, todo |-> call[c].todo \ {next}] \in Calls
    BY <1>9, <1>i DEF ActiveCalls, Delete, InCall
  <2>2. call' \in [Callers -> Calls] /\ Created(call', at)
    BY <1>9, <2>1, <1>c, <1>n DEF Delete, Raise
  <2>3. listener_threads' \in [Services -> Entries \cup {NoEntry}]
    BY <1>9 DEF Delete, TypeOK
  <2> QED BY <1>9, <2>2, <2>3 DEF Delete, TypeOK, InCall
<1>10. ASSUME NEW t \in Threads, Listen(t) PROVE TypeOK'
  <2>1. \E p \in Places \ {"none"} : Move(t, p)
    BY <1>10 DEF Listen, Bind, Check, Timeout, Receive, Dispatch, HandlerReturns, Places
  <2>2. at[t] # "none"
    BY <1>10 DEF Listen, Bind, Check, Timeout, Receive, Dispatch, HandlerReturns
  <2> QED BY <2>1, <2>2, <1>m
<1>11. ASSUME NEW t \in Threads, HandlerCalls(t) PROVE TypeOK'
  <2>1. PICK s \in HandlerStops[serves[t]] :
          call' = [call EXCEPT ![t] = [NoCall EXCEPT !.at = "flag", !.service = s]]
    BY <1>11 DEF HandlerCalls
  <2>2. s \in Services /\ serves[t] \in Services
    BY <1>11, <1>s, HandlerStopsAssumption DEF HandlerCalls
  <2>3. call' \in [Callers -> Calls] /\ Created(call', at)
    BY <2>1, <2>2, <1>b
  <2>4. at' \in [Threads -> Places] /\ \A u \in Threads : at[u] # "none" <=> at'[u] # "none"
    BY <1>11 DEF HandlerCalls, TypeOK, Places
  <2> QED BY <1>11, <2>3, <2>4 DEF HandlerCalls, TypeOK, InCall
<1>12. CASE UNCHANGED vars
  BY <1>12 DEF vars, TypeOK, InCall
<1> QED
  BY <1>1, <1>2, <1>3, <1>4, <1>5, <1>6, <1>7, <1>8, <1>9, <1>10, <1>11, <1>12
  DEF Next, Begin, Continue

\* The listeners keep their types: a thread always has a service to look up
\* in _listener_threads, and a call that is under way always is about one.
THEOREM TypeCorrect == Spec => []TypeOK
<1>1. Init => TypeOK
  BY DEF Init, TypeOK, Places, InCall, NoCall
<1>2. TypeOK /\ [Next]_vars => TypeOK'
  BY TypeStep
<1> QED BY <1>1, <1>2, PTL DEF Spec

-----------------------------------------------------------------------------
(* One listener *)

\* What the types say of the entry, the thread and the call a step is about.
LEMMA TypeFacts ==
  ASSUME TypeOK
  PROVE  /\ \A s \in Listed : s \in Services /\ listener_threads[s] \in Entries
                              /\ listener_threads[s].thread \in Threads
         /\ \A c \in Callers : ~InCall(c, "idle") => call[c].service \in Services
         /\ \A t \in Threads : Alive(t) => serves[t] \in Services
         /\ \A c \in Callers : c \in Users <=> c \notin Threads
BY CallersAssumption DEF TypeOK, Listed, Entries, InCall, ActiveCalls, NoCall, Alive, Callers

\* A step in which only thread t moves on, without coming alive again, keeps
\* the invariant: the entries and the calls are as before.
LEMMA MoveStep ==
  ASSUME TypeOK, ListenerInv, NEW t \in Threads, NEW place \in Places \ {"none", "created"},
         Move(t, place), Alive(t), at[t] # "created",
         at[t] = "called" => InCall(t, "idle")
  PROVE  ListenerInv'
<1>1. at' = [at EXCEPT ![t] = place] /\ UNCHANGED <<listener_threads, serves, call>>
  BY DEF Move
<1>2. at \in [Threads -> Places] /\ Listed' = Listed
  BY <1>1 DEF TypeOK, Listed
<1>3. OneListener'
  BY <1>1, <1>2 DEF OneListener, ListenerInv, Alive
<1>4. EntriesMatch'
  BY <1>1, <1>2 DEF EntriesMatch, ListenerInv
<1>5. ASSUME NEW u \in Users PROVE UserCall(u)'
  <2>1. UserCall(u)
    BY DEF ListenerInv
  <2>2. at[t] \notin {"created", "finished"}
    BY DEF Alive
  <2>3. \A v \in Threads : at[v] \in {"created", "finished"} => at'[v] = at[v]
    BY <1>1, <1>2, <2>2
  <2>4. InCall(u, "start") => call[u].thread \in Threads
    BY TypeFacts, <2>1 DEF UserCall
  <2>5. InCall(u, "delete") => listener_threads[call[u].service].thread \in Threads
    BY TypeFacts, <2>1 DEF UserCall
  <2> QED BY <1>1, <1>2, <2>1, <2>3, <2>4, <2>5 DEF UserCall, InCall
<1>6. ASSUME NEW v \in Threads PROVE HandlerCall(v)'
  BY <1>1, <1>2 DEF ListenerInv, HandlerCall, InCall
<1> QED BY <1>3, <1>4, <1>5, <1>6 DEF ListenerInv

\* A step that changes nothing but the call of one user.
LEMMA UserStep ==
  ASSUME TypeOK, OneCaller, ListenerInv, NEW u \in Users,
         UNCHANGED <<listener_threads, at, serves>>,
         NEW r, call' = [call EXCEPT ![u] = r],
         UserCall(u)'
  PROVE  ListenerInv'
<1>1. Listed' = Listed
  BY DEF Listed
<1>2. OneListener' /\ EntriesMatch'
  BY <1>1 DEF ListenerInv, OneListener, EntriesMatch, Alive
<1>3. \A t \in Threads : call'[t] = call[t]
  BY CallersAssumption DEF TypeOK, Callers
<1>4. \A t \in Threads : HandlerCall(t)'
  BY <1>3 DEF ListenerInv, HandlerCall, InCall
<1>5. \A v \in Users : UserCall(v)'
  BY DEF OneCaller
<1> QED BY <1>2, <1>4, <1>5 DEF ListenerInv

\* Every step keeps the invariant.
LEMMA ListenerStep ==
  ASSUME TypeOK, TypeOK', OneCaller, ListenerInv, [Next]_vars
  PROVE  ListenerInv'
<1> USE DEF Callers
<1>c. call \in [Callers -> ActiveCalls \cup {NoCall}]
  BY DEF TypeOK
<1>0. UNCHANGED call => \A c \in Callers : \A p : InCall(c, p)' <=> InCall(c, p)
  BY DEF InCall
<1>u. ASSUME NEW u \in Users PROVE UserCall(u)
  BY DEF ListenerInv
<1>1. ASSUME NEW u \in Users, NEW s \in Services, StartListener(u, s) PROVE ListenerInv'
  <2>1. call'[u].at = "register" /\ call'[u].service = s
    BY <1>1, <1>c DEF StartListener, NoCall
  <2>2. UserCall(u)'
    BY <1>1, <2>1 DEF StartListener, UserCall, InCall, Listed
  <2> QED BY <1>1, <2>2, UserStep DEF StartListener
<1>2. ASSUME NEW u \in Users, NEW s \in Services, StopListener(u, s) PROVE ListenerInv'
  <2>1. call'[u].at = "flag" /\ call'[u].service = s
    BY <1>2, <1>c DEF StopListener, NoCall
  <2>2. UserCall(u)'
    BY <2>1 DEF UserCall, InCall
  <2> QED BY <1>2, <2>2, UserStep DEF StopListener
<1>3. ASSUME NEW u \in Users, StopAll(u) PROVE ListenerInv'
  <2>1. PICK s \in Listed :
          call' = [call EXCEPT ![u] = [at |-> "flag", service |-> s, thread |-> NoThread,
                                       todo |-> ToStop \ {s}]]
    BY <1>3 DEF StopAll
  <2>2. call'[u].at = "flag" /\ call'[u].service \in Services
    BY <2>1, <1>c DEF Listed
  <2>3. UserCall(u)'
    BY <2>2 DEF UserCall, InCall
  <2> QED BY <1>3, <2>1, <2>3, UserStep DEF StopAll
<1>4. ASSUME NEW c \in Callers, Register(c) PROVE ListenerInv'
  <2>1. c \in Users /\ c \notin Threads
    BY <1>4, TypeFacts DEF Register, ListenerInv, HandlerCall, InCall
  <2> DEFINE s == call[c].service
  <2>2. s \in Services \ Listed
    BY <1>4, <2>1, <1>u DEF Register, UserCall, InCall
  <2>3. PICK t \in Threads :
          /\ Unused(t)
          /\ listener_threads' = [listener_threads EXCEPT ![s] = [thread |-> t, running |-> TRUE]]
          /\ at' = [at EXCEPT ![t] = "created"]
          /\ serves' = [serves EXCEPT ![t] = s]
          /\ call' = [call EXCEPT ![c].at = "start", ![c].thread = t]
    BY <1>4 DEF Register
  <2>4. /\ Listed' = Listed \cup {s}
        /\ listener_threads'[s] = [thread |-> t, running |-> TRUE]
        /\ \A r \in Listed : listener_threads'[r] = listener_threads[r]
    <3>1. [thread |-> t, running |-> TRUE] # NoEntry
      BY NoEntryAssumption, [thread |-> t, running |-> TRUE] \in [thread : Threads, running : BOOLEAN]
    <3> QED BY <2>2, <2>3, <3>1 DEF TypeOK, Listed
  <2>5. /\ at'[t] = "created" /\ serves'[t] = s
        /\ \A v \in Threads \ {t} : at'[v] = at[v] /\ serves'[v] = serves[v]
    BY <2>3 DEF TypeOK
  <2>6. OneListener'
    BY <2>4, <2>5 DEF OneListener, ListenerInv, Alive
  <2>7. EntriesMatch'
    <3>1. ASSUME NEW r \in Listed
          PROVE  listener_threads[r] \in Entries /\ serves'[listener_threads[r].thread] = r
      <4>1. listener_threads[r].thread \in Threads \ {t}
        BY <2>3, TypeFacts DEF Unused
      <4> QED BY <2>5, <4>1 DEF EntriesMatch, ListenerInv
    <3>2. [thread |-> t, running |-> TRUE] \in Entries
      BY DEF Entries
    <3> QED BY <2>4, <2>5, <3>1, <3>2 DEF EntriesMatch
  <2>8. call'[c].at = "start" /\ call'[c].thread = t /\ call'[c].service = s
    BY <1>4, <2>3, <1>c DEF Register, InCall, ActiveCalls, NoCall
  <2>9. UserCall(c)'
    BY <2>2, <2>4, <2>5, <2>8 DEF UserCall, InCall
  <2>10. \A v \in Threads : HandlerCall(v)'
    <3>1. \A v \in Threads : call'[v] = call[v]
      BY <2>1, <2>3, <1>c
    <3>2. HandlerCall(t)'
      BY <2>3, <3>1 DEF Unused, HandlerCall, InCall
    <3> QED BY <2>5, <3>1, <3>2 DEF ListenerInv, HandlerCall, InCall
  <2> QED BY <2>1, <2>6, <2>7, <2>9, <2>10 DEF ListenerInv, OneCaller
<1>5. ASSUME NEW c \in Callers, StartThread(c) PROVE ListenerInv'
  <2>1. c \in Users /\ c \notin Threads
    BY <1>5, TypeFacts DEF StartThread, ListenerInv, HandlerCall, InCall
  <2> DEFINE t == call[c].thread
  <2>2. t \in Threads /\ at[t] = "created"
    BY <1>5, <2>1, <1>u, TypeFacts DEF StartThread, UserCall, InCall
  <2>3. Listed' = Listed /\ at' = [at EXCEPT ![t] = "bind"]
    BY <1>5 DEF StartThread, Listed
  <2>4. OneListener' /\ EntriesMatch'
    BY <1>5, <2>2, <2>3 DEF StartThread, OneListener, EntriesMatch, ListenerInv, Alive, TypeOK
  <2>5. UserCall(c)'
    BY <1>5, <1>c DEF StartThread, UserCall, InCall, NoCall
  <2>6. \A v \in Threads : HandlerCall(v)'
    BY <1>5, <2>1, <2>2, <2>3 DEF StartThread, ListenerInv, HandlerCall, InCall, TypeOK
  <2> QED BY <2>1, <2>4, <2>5, <2>6 DEF ListenerInv, OneCaller
<1>6. ASSUME NEW c \in Callers, Flag(c) PROVE ListenerInv'
  <2> DEFINE s == call[c].service
  <2>1. /\ Listed' = Listed
        /\ \A r \in Listed : listener_threads'[r].thread = listener_threads[r].thread
        /\ UNCHANGED <<at, serves>>
    <3>1. CASE s \in Listed
      <4>1. listener_threads' = [listener_threads EXCEPT ![s].running = FALSE]
        BY <1>6, <3>1 DEF Flag
      <4>2. listener_threads[s] \in Entries
        BY <3>1, TypeFacts
      <4>3. [listener_threads[s] EXCEPT !.running = FALSE] \in Entries
            /\ [listener_threads[s] EXCEPT !.running = FALSE].thread = listener_threads[s].thread
        BY <4>2 DEF Entries
      <4>4. \A r \in Services : listener_threads'[r] =
              IF r = s THEN [listener_threads[s] EXCEPT !.running = FALSE] ELSE listener_threads[r]
        BY <4>1 DEF TypeOK
      <4>5. [listener_threads[s] EXCEPT !.running = FALSE] # NoEntry
        BY <4>3, NoEntryAssumption DEF Entries
      <4>6. Listed' = Listed
        BY <3>1, <4>4, <4>5 DEF Listed
      <4>7. \A r \in Listed : listener_threads'[r].thread = listener_threads[r].thread
        BY <4>3, <4>4 DEF Listed
      <4> QED BY <1>6, <4>6, <4>7 DEF Flag
    <3>2. CASE s \notin Listed
      BY <1>6, <3>2 DEF Flag, Listed
    <3> QED BY <3>1, <3>2
  <2>2. OneListener'
    BY <2>1 DEF OneListener, ListenerInv, Alive
  <2>3. EntriesMatch'
    BY <2>1 DEF EntriesMatch, ListenerInv, TypeOK, Listed
  <2>4. call'[c].at \in {"idle", "join"} /\ (call'[c].at = "join" => call'[c].service = s)
    BY <1>6, <1>c DEF Flag, Goto, Raise, NoCall, ActiveCalls
  <2>5. s \in Services
    BY <1>6, TypeFacts DEF Flag, InCall
  <2>6. CASE c \in Users
    <3>1. UserCall(c)'
      BY <2>4, <2>5 DEF UserCall, InCall
    <3>2. \A v \in Threads : call'[v] = call[v]
      BY <1>6, <2>6, TypeFacts DEF Flag, Goto, Raise, TypeOK
    <3>3. \A v \in Threads : HandlerCall(v)'
      BY <2>1, <3>2 DEF ListenerInv, HandlerCall, InCall
    <3> QED BY <2>2, <2>3, <2>6, <3>1, <3>3 DEF ListenerInv, OneCaller
  <2>7. CASE c \in Threads
    <3>1. \A v \in Callers \ {c} : call'[v] = call[v]
      BY <1>6, TypeFacts DEF Flag, Goto, Raise, TypeOK
    <3>2. \A v \in Threads : HandlerCall(v)'
      BY <1>6, <2>1, <2>4, <2>7, <3>1 DEF ListenerInv, HandlerCall, InCall, Flag
    <3>3. ASSUME NEW u \in Users PROVE UserCall(u)'
      <4>1. call'[u] = call[u]
        BY <2>7, <3>1, CallersAssumption
      <4> QED BY <1>u, <2>1, <4>1 DEF UserCall, InCall
    <3> QED BY <2>2, <2>3, <3>2, <3>3 DEF ListenerInv
  <2> QED BY <2>6, <2>7
<1>7. ASSUME NEW c \in Callers, Join(c) PROVE ListenerInv'
  <2> DEFINE s == call[c].service
  <2>1. s \in Services
    BY <1>7, TypeFacts DEF Join, InCall
  <2>2. CASE c \in Users
    <3>1. CASE Raise(c)
      <4>1. UserCall(c)'
        BY <3>1, <1>c DEF Raise, UserCall, InCall, NoCall
      <4> QED BY <1>7, <2>2, <3>1, <4>1, UserStep DEF Join, Raise
    <3>2. CASE ~Raise(c)
      <4>1. s \in Listed
            /\ call' = [call EXCEPT ![c].at = "joining", ![c].thread = listener_threads[s].thread]
        BY <1>7, <3>2 DEF Join
      <4>2. call'[c].at = "joining" /\ call'[c].thread = listener_threads[s].thread
            /\ call'[c].service = s
        BY <1>7, <4>1, <1>c DEF Join, InCall, NoCall, ActiveCalls
      <4>3. UserCall(c)'
        BY <1>7, <2>1, <4>1, <4>2 DEF Join, UserCall, InCall, Listed
      <4>4. call' = [call EXCEPT ![c] = call'[c]]
        BY <4>1, <1>c
      <4> QED BY <1>7, <2>2, <4>3, <4>4, UserStep DEF Join
    <3> QED BY <3>1, <3>2
  <2>3. CASE c \in Threads
    <3>1. s = serves[c] /\ Alive(c)
      BY <1>7, <2>3 DEF Join, ListenerInv, HandlerCall, InCall, Alive
    <3>2. s \in Listed => listener_threads[s].thread = c
      BY <2>3, <3>1 DEF ListenerInv, OneListener
    <3>3. Raise(c)
      BY <1>7, <3>2 DEF Join, CannotJoin
    <3>4. call'[c].at = "idle" /\ \A v \in Callers \ {c} : call'[v] = call[v]
      BY <3>3, <1>c DEF Raise, NoCall
    <3>5. Listed' = Listed /\ UNCHANGED <<listener_threads, at, serves>>
      BY <1>7 DEF Join, Listed
    <3>6. OneListener' /\ EntriesMatch'
      BY <3>5 DEF ListenerInv, OneListener, EntriesMatch, Alive
    <3>7. \A v \in Threads : HandlerCall(v)'
      BY <2>3, <3>4, <3>5 DEF ListenerInv, HandlerCall, InCall
    <3>8. ASSUME NEW u \in Users PROVE UserCall(u)'
      <4>1. call'[u] = call[u]
        BY <2>3, <3>4, CallersAssumption
      <4> QED BY <1>u, <3>5, <4>1 DEF UserCall, InCall
    <3> QED BY <3>6, <3>7, <3>8 DEF ListenerInv
  <2> QED BY <2>2, <2>3
<1>8. ASSUME NEW c \in Callers, Joined(c) PROVE ListenerInv'
  <2>1. c \in Users
    BY <1>8 DEF Joined, ListenerInv, HandlerCall, InCall
  <2>2. call'[c].at = "delete" /\ call'[c].service = call[c].service
    BY <1>8, <1>c DEF Joined, InCall, NoCall, ActiveCalls
  <2>3. UserCall(c)'
    BY <1>8, <2>1, <2>2, <1>u DEF Joined, UserCall, InCall, Listed
  <2>4. call' = [call EXCEPT ![c] = call'[c]]
    BY <1>8, <1>c DEF Joined
  <2> QED BY <1>8, <2>1, <2>3, <2>4, UserStep DEF Joined
<1>9. ASSUME NEW c \in Callers, Delete(c) PROVE ListenerInv'
  <2> DEFINE s == call[c].service
  <2>1. c \in Users
    BY <1>9 DEF Delete, ListenerInv, HandlerCall, InCall
  <2>2. s \in Listed /\ at[listener_threads[s].thread] = "finished"
    BY <1>9, <2>1, <1>u DEF Delete, UserCall, InCall
  <2>3. /\ Listed' = Listed \ {s} /\ UNCHANGED <<at, serves>>
        /\ \A r \in Listed \ {s} : listener_threads'[r] = listener_threads[r]
    BY <1>9, <2>2 DEF Delete, Listed, TypeOK
  <2>4. OneListener'
    BY <2>2, <2>3 DEF OneListener, ListenerInv, Alive
  <2>5. EntriesMatch'
    BY <2>3 DEF EntriesMatch, ListenerInv
  <2>6. call'[c].at \in {"idle", "flag"}
    BY <1>9, <2>2, <1>c DEF Delete, Raise, NoCall
  <2>7. UserCall(c)'
    BY <2>1, <2>6 DEF UserCall, InCall, TypeOK, ActiveCalls, NoCall
  <2>8. \A v \in Threads : call'[v] = call[v]
    BY <1>9, <2>1, TypeFacts DEF Delete, Raise, TypeOK
  <2>9. \A v \in Threads : HandlerCall(v)'
    BY <2>3, <2>8 DEF ListenerInv, HandlerCall, InCall
  <2> QED BY <2>1, <2>4, <2>5, <2>7, <2>9 DEF ListenerInv, OneCaller
<1>10. ASSUME NEW t \in Threads, Listen(t) PROVE ListenerInv'
  <2>1. /\ \E p \in Places \ {"none", "created"} : Move(t, p)
        /\ Alive(t) /\ at[t] # "created"
        /\ at[t] = "called" => InCall(t, "idle")
    BY <1>10 DEF Listen, Bind, Check, Timeout, Receive, Dispatch, HandlerReturns, Places, Alive
  <2> QED BY <2>1, MoveStep
<1>11. ASSUME NEW t \in Threads, HandlerCalls(t) PROVE ListenerInv'
  <2>1. PICK s \in HandlerStops[serves[t]] :
          call' = [call EXCEPT ![t] = [NoCall EXCEPT !.at = "flag", !.service = s]]
    BY <1>11 DEF HandlerCalls
  <2>2. serves[t] \in Services
    BY <1>11, TypeFacts DEF HandlerCalls, Alive
  <2>3. s = serves[t]
    BY <2>1, <2>2 DEF OneCaller
  <2>4. /\ at[t] = "handler" /\ at' = [at EXCEPT ![t] = "called"]
        /\ Listed' = Listed /\ UNCHANGED <<listener_threads, serves>>
    BY <1>11 DEF HandlerCalls, Listed
  <2>5. OneListener' /\ EntriesMatch'
    BY <2>4 DEF ListenerInv, OneListener, EntriesMatch, Alive, TypeOK
  <2>6. call'[t].at = "flag" /\ call'[t].service = s /\ \A v \in Callers \ {t} : call'[v] = call[v]
    BY <2>1, <1>c DEF NoCall
  <2>7. \A v \in Threads : HandlerCall(v)'
    BY <2>3, <2>4, <2>6 DEF ListenerInv, HandlerCall, InCall, TypeOK
  <2>8. ASSUME NEW u \in Users PROVE UserCall(u)'
    <3>1. call'[u] = call[u]
      BY <2>6, CallersAssumption
    <3>2. \A v \in Threads : at[v] \in {"created", "finished"} => at'[v] = at[v]
      BY <2>4 DEF TypeOK
    <3>3. InCall(u, "start") => call[u].thread \in Threads
      BY TypeFacts, <1>u DEF UserCall
    <3>4. InCall(u, "delete") => listener_threads[call[u].service].thread \in Threads
      BY TypeFacts, <1>u DEF UserCall
    <3> QED BY <1>u, <2>4, <3>1, <3>2, <3>3, <3>4 DEF UserCall, InCall
  <2> QED BY <2>5, <2>7, <2>8 DEF ListenerInv
<1>12. CASE UNCHANGED vars
  BY <1>12 DEF vars, ListenerInv, OneListener, EntriesMatch, UserCall, HandlerCall,
               InCall, Listed, Alive
<1> QED
  BY <1>1, <1>2, <1>3, <1>4, <1>5, <1>6, <1>7, <1>8, <1>9, <1>10, <1>11, <1>12
  DEF Next, Begin, Continue

\* If one thread of the program starts and stops the listeners, and a handler
\* stops at most its own listener, then a service never has a thread besides
\* the one its entry names, whatever arrives and wherever threads die.
THEOREM ListenersAreSingle ==
  ASSUME OneCaller PROVE Spec => []OneListener
<1>1. Init => ListenerInv
  BY CallersAssumption DEF Init, ListenerInv, OneListener, EntriesMatch, UserCall, HandlerCall,
     InCall, Listed, Alive, NoCall, Callers
<1>2. TypeOK /\ TypeOK' /\ ListenerInv /\ [Next]_vars => ListenerInv'
  BY ListenerStep
<1>3. ListenerInv => OneListener
  BY DEF ListenerInv
<1> QED BY <1>1, <1>2, <1>3, TypeCorrect, PTL DEF Spec
=============================================================================
