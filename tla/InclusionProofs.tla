--------------------------- MODULE InclusionProofs ---------------------------
(***************************************************************************)
(* Proofs about Inclusion, for every number of datagrams under way and     *)
(* every set of value ids.                                                 *)
(***************************************************************************)
EXTENDS Inclusion, TLAPS

USE DEF deviceVars, listenerVars

\* Whoever found the device's entry and goes on to update it finds one still.
EntryStays == \A h \in Handlers : handler[h].at = "update" => entry # NoEntry

Typed == TypeOK /\ EntryStays

\* A thread of the device that goes on is at one of its places.
LEMMA GotoTyped ==
  ASSUME DeviceTypeOK, NEW t \in Threads,
         Goto(t, "idle") \/ Goto(t, "check") \/ Goto(t, "compose") \/ Goto(t, "wait")
  PROVE  thread' \in [Threads -> [at : {"idle", "check", "compose", "send", "wait"}, description : BOOLEAN]]
<1>1. PICK place \in {"idle", "check", "compose", "wait"} :
        thread' = [thread EXCEPT ![t] = [at |-> place, description |-> FALSE]]
  BY DEF Goto
<1> QED
  BY <1>1 DEF DeviceTypeOK

\* Every step of the device keeps to the types of its threads and datagrams.
LEMMA DeviceTyped ==
  ASSUME DeviceTypeOK, Device
  PROVE  DeviceTypeOK'
<1>1. CASE StartSender
  BY <1>1, GotoTyped DEF StartSender, DeviceTypeOK, Threads
<1>2. CASE StopSender
  BY <1>2 DEF StopSender, DeviceTypeOK
<1>3. CASE Check
  <2>1. Goto("sender", "wait") \/ Goto("sender", "compose")
    BY <1>3 DEF Check
  <2> QED
    BY <1>3, <2>1, GotoTyped DEF Check, DeviceTypeOK, Threads
<1>4. CASE Wait
  BY <1>4, GotoTyped DEF Wait, DeviceTypeOK, Threads
<1>5. CASE HandleInclude
  BY <1>5, GotoTyped, MaxInFlightAssumption DEF HandleInclude, DeviceTypeOK, Threads
<1>6. CASE Exclude
  BY <1>6 DEF Exclude, DeviceTypeOK
<1>7. ASSUME NEW t \in Threads, Compose(t) PROVE DeviceTypeOK'
  BY <1>7 DEF Compose, DeviceTypeOK
<1>8. ASSUME NEW t \in Threads, ReportArrives(t) \/ ReportLost(t) PROVE DeviceTypeOK'
  <2>1. AfterSending[t] \in {"wait", "idle"}
    BY DEF AfterSending, Threads
  <2>2. thread' \in [Threads -> [at : {"idle", "check", "compose", "send", "wait"}, description : BOOLEAN]]
    BY <1>8, <2>1, GotoTyped DEF ReportArrives, ReportLost
  <2>3. thread[t].description \in BOOLEAN
    BY DEF DeviceTypeOK
  <2>4. reports' \in Seq(BOOLEAN) /\ Len(reports') <= MaxInFlight
    BY <1>8, <2>3, MaxInFlightAssumption DEF ReportArrives, ReportLost, DeviceTypeOK
  <2> QED
    BY <1>8, <2>2, <2>4 DEF ReportArrives, ReportLost, DeviceTypeOK
<1> QED
  BY <1>1, <1>2, <1>3, <1>4, <1>5, <1>6, <1>7, <1>8 DEF Device, Sender, Sending

\* What a handler is in the middle of.
Places == {"idle", "handle", "add", "update", "get", "store"}

HandlerStates == [at : Places, description : BOOLEAN, values : SUBSET ValueIds]

\* A handler that goes on, or returns, is somewhere in the code.
LEMMA HandlerTyped ==
  ASSUME handler \in [Handlers -> HandlerStates], NEW h \in Handlers
  PROVE  /\ \A place \in Places :
              Proceed(h, place) => /\ handler' \in [Handlers -> HandlerStates]
                                   /\ handler'[h].at = place
                                   /\ \A other \in Handlers \ {h} : handler'[other] = handler[other]
         /\ Return(h) => /\ handler' \in [Handlers -> HandlerStates]
                         /\ handler'[h].at # "update"
                         /\ \A other \in Handlers \ {h} : handler'[other] = handler[other]
<1>1. ASSUME NEW place \in Places, Proceed(h, place)
      PROVE  /\ handler' \in [Handlers -> HandlerStates]
             /\ handler'[h].at = place
             /\ \A other \in Handlers \ {h} : handler'[other] = handler[other]
  <2>1. [handler[h] EXCEPT !.at = place] \in HandlerStates
    BY DEF HandlerStates
  <2> QED
    BY <1>1, <2>1 DEF Proceed
<1>2. ASSUME Return(h)
      PROVE  /\ handler' \in [Handlers -> HandlerStates]
             /\ handler'[h].at # "update"
             /\ \A other \in Handlers \ {h} : handler'[other] = handler[other]
  <2>1. PICK place \in {"idle", "store"} :
          handler' = [handler EXCEPT ![h].at = place, ![h].description = FALSE]
    BY <1>2 DEF Return
  <2>2. [[handler[h] EXCEPT !.at = place] EXCEPT !.description = FALSE] \in HandlerStates
    BY DEF HandlerStates, Places
  <2>3. handler' = [handler EXCEPT ![h] = [[handler[h] EXCEPT !.at = place] EXCEPT !.description = FALSE]]
    BY <2>1
  <2> QED
    BY <2>2, <2>3 DEF HandlerStates
<1> QED
  BY <1>1, <1>2

\* No step of device_description_handler, in either thread, takes an entry away.
LEMMA DescriptionTyped ==
  ASSUME Typed, NEW h \in Handlers, HandleDescription(h)
  PROVE  Typed'
<1>1. DeviceTypeOK /\ whitelisted \in BOOLEAN /\ entry \in Entries \cup {NoEntry}
      /\ handler \in [Handlers -> HandlerStates]
  BY DEF Typed, TypeOK, HandlerStates, Places
<1>2. ASSUME DeviceTypeOK', UNCHANGED whitelisted, UNCHANGED entry,
             \/ \E place \in Places : Proceed(h, place) /\ (place = "update" => entry # NoEntry)
             \/ Return(h)
      PROVE  Typed'
  <2>1. PICK place \in Places : \/ Proceed(h, place) /\ (place = "update" => entry # NoEntry)
                                \/ Return(h)
    BY <1>2 DEF Places
  <2> QED
    BY <1>1, <1>2, <2>1, HandlerTyped DEF Typed, TypeOK, EntryStays, HandlerStates, Places
<1>3. CASE HandleIncluded(h)
  <2>1. UNCHANGED deviceVars /\ UNCHANGED whitelisted /\ UNCHANGED entry
    BY <1>3 DEF HandleIncluded
  <2> QED
    BY <1>1, <1>2, <1>3, <2>1 DEF HandleIncluded, Places, DeviceTypeOK
<1>4. CASE IgnoreDevice(h)
  BY <1>1, <1>2, <1>4 DEF IgnoreDevice, DeviceTypeOK
<1>5. CASE IncludeArrives(h) \/ IncludeLost(h)
  <2>1. DeviceTypeOK'
    BY <1>1, <1>5, MaxInFlightAssumption DEF IncludeArrives, IncludeLost, NeedsInclusion, DeviceTypeOK
  <2> QED
    BY <1>1, <1>2, <1>5, <2>1 DEF IncludeArrives, IncludeLost, NeedsInclusion, Places
<1>6. CASE Add(h)
  <2>1. DeviceTypeOK' /\ UNCHANGED whitelisted
    BY <1>1, <1>6 DEF Add, DeviceTypeOK
  <2>2. handler[h].description \in BOOLEAN
    BY <1>1 DEF HandlerStates
  <2>3. entry' \in Entries
    BY <1>6, <2>2 DEF Add, Entries
  <2>4. handler' \in [Handlers -> HandlerStates]
    BY <1>1, <1>6, HandlerTyped DEF Add, Places
  <2>5. entry' # NoEntry
    BY <1>6, NoEntryAssumption, <2>3
  <2> QED
    BY <1>1, <2>1, <2>3, <2>4, <2>5 DEF Typed, TypeOK, EntryStays, HandlerStates, Places
<1>7. CASE Update(h)
  <2>1. DeviceTypeOK' /\ UNCHANGED whitelisted
    BY <1>1, <1>7 DEF Update, DeviceTypeOK
  <2>2. entry \in Entries
    BY <1>1, <1>7 DEF Update, Typed, EntryStays
  <2>3. handler[h].description \in BOOLEAN
    BY <1>1 DEF HandlerStates
  <2>4. entry' \in Entries
    BY <1>7, <2>2, <2>3 DEF Update, Entries
  <2>5. handler' \in [Handlers -> HandlerStates]
    BY <1>1, <1>7, HandlerTyped DEF Update
  <2> QED
    BY <1>1, <2>1, <2>4, <2>5, NoEntryAssumption DEF Typed, TypeOK, EntryStays, HandlerStates, Places
<1> QED
  BY <1>3, <1>4, <1>5, <1>6, <1>7 DEF HandleDescription

\* Nor does a report of values or of the device's description.
LEMMA ValuesTyped ==
  ASSUME Typed, ReceiveDescription \/ ReceiveValues \/ HandleValues
  PROVE  Typed'
<1>1. DeviceTypeOK /\ whitelisted \in BOOLEAN /\ entry \in Entries \cup {NoEntry}
      /\ handler \in [Handlers -> HandlerStates]
  BY DEF Typed, TypeOK, HandlerStates, Places
<1>2. "description" \in Handlers /\ "value" \in Handlers
  BY DEF Handlers
<1>3. ASSUME NEW h \in Handlers, NEW s \in HandlerStates, s.at # "update",
             handler' = [handler EXCEPT ![h] = s], DeviceTypeOK', UNCHANGED whitelisted,
             entry' \in Entries \cup {NoEntry}, entry' = NoEntry => entry = NoEntry
      PROVE  Typed'
  BY <1>1, <1>3 DEF Typed, TypeOK, EntryStays, HandlerStates, Places
<1>4. CASE ReceiveDescription
  <2> DEFINE s == [[handler["description"] EXCEPT !.at = "handle"] EXCEPT !.description = Head(reports)]
  <2>1. Head(reports) \in BOOLEAN /\ DeviceTypeOK' /\ UNCHANGED whitelisted /\ UNCHANGED entry
    BY <1>1, <1>4, MaxInFlightAssumption DEF ReceiveDescription, DeviceTypeOK
  <2>2. s \in HandlerStates /\ s.at # "update"
    BY <1>1, <1>2, <2>1 DEF HandlerStates, Places
  <2>3. handler' = [handler EXCEPT !["description"] = s]
    BY <1>4 DEF ReceiveDescription
  <2> QED
    BY <1>1, <1>2, <1>3, <2>1, <2>2, <2>3
<1>5. CASE ReceiveValues
  <2>1. PICK values \in SUBSET ValueIds, place \in {"get", "store"} :
          handler' = [handler EXCEPT !["value"].values = values, !["value"].at = place]
    BY <1>5 DEF ReceiveValues
  <2> DEFINE s == [[handler["value"] EXCEPT !.values = values] EXCEPT !.at = place]
  <2>2. s \in HandlerStates /\ s.at # "update"
    BY <1>1, <1>2 DEF HandlerStates, Places
  <2>3. handler' = [handler EXCEPT !["value"] = s]
    BY <2>1
  <2>4. DeviceTypeOK' /\ UNCHANGED whitelisted /\ UNCHANGED entry
    BY <1>1, <1>5 DEF ReceiveValues, DeviceTypeOK
  <2> QED
    BY <1>1, <1>2, <1>3, <2>2, <2>3, <2>4
<1>6. CASE DescriptionAnswered
  <2> DEFINE s == [[handler["value"] EXCEPT !.at = "handle"] EXCEPT !.description = included]
  <2>1. DeviceTypeOK' /\ UNCHANGED whitelisted /\ UNCHANGED entry /\ included \in BOOLEAN
    BY <1>1, <1>6 DEF DescriptionAnswered, DeviceTypeOK
  <2>2. s \in HandlerStates /\ s.at # "update"
    BY <1>1, <1>2, <2>1 DEF HandlerStates, Places
  <2>3. handler' = [handler EXCEPT !["value"] = s]
    BY <1>6 DEF DescriptionAnswered
  <2> QED
    BY <1>1, <1>2, <1>3, <2>1, <2>2, <2>3
<1>7. CASE DescriptionTimeout \/ ValuesHandled
  <2> DEFINE s == [[handler["value"] EXCEPT !.at = "idle"] EXCEPT !.values = {}]
  <2>1. DeviceTypeOK' /\ UNCHANGED whitelisted /\ UNCHANGED entry
    BY <1>1, <1>7 DEF DescriptionTimeout, ValuesHandled, DeviceTypeOK
  <2>2. s \in HandlerStates /\ s.at # "update"
    BY <1>1, <1>2, <2>1 DEF HandlerStates, Places
  <2>3. handler' = [handler EXCEPT !["value"] = s]
    BY <1>7 DEF DescriptionTimeout, ValuesHandled
  <2> QED
    BY <1>1, <1>2, <1>3, <2>1, <2>2, <2>3
<1>8. CASE StoreValue
  <2>1. PICK id \in handler["value"].values :
          /\ entry' = [entry EXCEPT !.cache = @ \cup {id}]
          /\ handler' = [handler EXCEPT !["value"].values = @ \ {id}]
    BY <1>8 DEF StoreValue
  <2> DEFINE s == [handler["value"] EXCEPT !.values = @ \ {id}]
  <2>2. s \in HandlerStates /\ s.at # "update" /\ id \in ValueIds
    BY <1>1, <1>2, <1>8 DEF StoreValue, HandlerStates
  <2>3. handler' = [handler EXCEPT !["value"] = s]
    BY <2>1
  <2>4. entry' \in Entries
    BY <1>1, <1>8, <2>1, <2>2 DEF StoreValue, Entries
  <2>5. DeviceTypeOK' /\ UNCHANGED whitelisted
    BY <1>1, <1>8 DEF StoreValue, DeviceTypeOK
  <2> QED
    BY <1>2, <1>3, <2>2, <2>3, <2>4, <2>5, NoEntryAssumption
<1> QED
  BY <1>4, <1>5, <1>6, <1>7, <1>8 DEF HandleValues

\* Typed is inductive.
LEMMA TypedAlways == Spec => []Typed
<1>1. Init => Typed
  BY MaxInFlightAssumption
     DEF Init, DeviceInit, Typed, TypeOK, DeviceTypeOK, EntryStays, Handlers
<1>2. Typed /\ [Next]_vars => Typed'
  <2> SUFFICES ASSUME Typed, [Next]_vars PROVE Typed'
    OBVIOUS
  <2>1. CASE Device /\ UNCHANGED listenerVars
    BY <2>1, DeviceTyped DEF Typed, TypeOK, EntryStays
  <2>2. CASE UNCHANGED vars
    BY <2>2 DEF vars, Typed, TypeOK, DeviceTypeOK, EntryStays
  <2> QED
    BY <2>1, <2>2, DescriptionTyped, ValuesTyped DEF Next
<1> QED
  BY <1>1, <1>2, PTL DEF Spec

\* The threads of the device and of the program keep to their types.
THEOREM TypeCorrect == Spec => []TypeOK
<1>1. Typed => TypeOK
  BY DEF Typed
<1> QED
  BY <1>1, TypedAlways, PTL

\* device_description_handler never looks an address up in vain (no KeyError
\* at devices[address][1]), although two threads are in it at once.
THEOREM UpdatesFindEntry == Spec => []EntryStays
<1>1. Typed => EntryStays
  BY DEF Typed
<1> QED
  BY <1>1, TypedAlways, PTL
=============================================================================
