--------------------------- MODULE ConfigFileProofs ---------------------------
(***************************************************************************)
(* Proofs about ConfigFile: its types for any processes, and for a process *)
(* that is alone that the file is the store of ConfigStore, whatever is    *)
(* stored and however many names, addresses and messages there are.        *)
(***************************************************************************)
EXTENDS ConfigFile, TLAPS

-----------------------------------------------------------------------------
(* The data *)

\* Another message, one other device, or other devices.
LEMMA DataFacts ==
  ASSUME NEW x \in Data
  PROVE  /\ x.message \in InclusionMessages \cup {NoMessage}
         /\ x.devices \in [Names -> Addresses \cup {NoAddress}]
         /\ \A m \in Messages : [x EXCEPT !.message = m] \in Data
         /\ \A m \in Messages : [message |-> m, devices |-> x.devices] \in Data
         /\ \A m : [x EXCEPT !.message = m].message = m
         /\ \A n \in Names, a \in Addresses \cup {NoAddress} :
              /\ [x EXCEPT !.devices[n] = a] \in Data
              /\ [x EXCEPT !.devices[n] = a].message = x.message
<1>1. PICK m, d : x = [message |-> m, devices |-> d]
  BY DEF Data
<1>2. m \in InclusionMessages \cup {NoMessage} /\ d \in [Names -> Addresses \cup {NoAddress}]
  BY <1>1 DEF Data
<1>3. \A n : [x EXCEPT !.message = n] = [message |-> n, devices |-> d]
  BY <1>1
<1>4. \A n, a : [x EXCEPT !.devices[n] = a] = [message |-> m, devices |-> [d EXCEPT ![n] = a]]
  BY <1>1
<1> QED
  BY <1>1, <1>2, <1>3, <1>4 DEF Data, Messages

\* An empty file has data.
LEMMA BlankIsData == Blank \in Data
  BY DEF Blank, Data

\* The message of the gateway that load returns is one, or is missing.
LEMMA MessageOfType ==
  ASSUME NEW g \in Messages \cup {NoGateway}, NEW stored \in Messages, NEW m \in Messages
  PROVE  MessageOf(g, stored, m) \in Messages
  BY DEF MessageOf

\* Without a file in either directory an empty configuration is loaded.
LEMMA LoadedIsData ==
  TypeOK => Loaded \in Data
  BY BlankIsData DEF TypeOK, Loaded, NoConfigFound, File, Files

-----------------------------------------------------------------------------
(* Types *)

\* Every step keeps the types.
LEMMA TypeStep == TypeOK /\ [Next]_vars => TypeOK'
<1> SUFFICES ASSUME TypeOK, [Next]_vars PROVE TypeOK'
  OBVIOUS
<1>0. Loaded \in Data
  BY LoadedIsData
<1>1. ASSUME NEW p \in Processes, Load(p) PROVE TypeOK'
  <2>1. File \in Data
    BY <1>1 DEF Load, NoConfigFound, TypeOK, File, Files
  <2>2. PICK g \in Messages \cup {NoGateway}, m \in Messages :
               LET used == MessageOf(g, File.message, m)
               IN  Go(p, [File EXCEPT !.message = used], used = File.message)
    BY <1>1 DEF Load
  <2> DEFINE used == MessageOf(g, File.message, m)
  <2>3. used \in Messages
    BY <2>1, DataFacts, MessageOfType DEF Messages
  <2>4. [File EXCEPT !.message = used] \in Data
    BY <2>1, <2>3, DataFacts
  <2>5. Go(p, [File EXCEPT !.message = used], used = File.message)
    BY <2>2
  <2> HIDE DEF used
  <2> QED
    BY <1>1, <2>4, <2>5 DEF Load, Go, TypeOK
<1>2. ASSUME NEW p \in Processes, LoadOrCreate(p) PROVE TypeOK'
  <2>1. CASE Go(p, Loaded, TRUE) /\ UNCHANGED <<at, saving>>
    BY <1>0, <1>2, <2>1 DEF LoadOrCreate, Go, TypeOK
  <2>2. CASE \E m \in InclusionMessages :
               LET data == [Loaded EXCEPT !.message = m] IN
               Go(p, data, TRUE) /\ Save(p, data)
    <3>1. PICK m \in InclusionMessages : LET data == [Loaded EXCEPT !.message = m] IN
                                         Go(p, data, TRUE) /\ Save(p, data)
      BY <2>2
    <3>2. [Loaded EXCEPT !.message = m] \in Data
      BY <1>0, DataFacts DEF Messages
    <3> QED
      BY <1>2, <3>1, <3>2 DEF LoadOrCreate, Go, Save, TypeOK
  <2> QED
    BY <1>2, <2>1, <2>2 DEF LoadOrCreate
<1>3. ASSUME NEW p \in Processes, AddDevice(p) PROVE TypeOK'
  <2>1. PICK n \in Names, a \in Addresses : Save(p, [Loaded EXCEPT !.devices[n] = a])
    BY <1>3 DEF AddDevice
  <2>2. [Loaded EXCEPT !.devices[n] = a] \in Data
    BY <1>0, DataFacts
  <2> QED
    BY <1>3, <2>1, <2>2 DEF AddDevice, Save, TypeOK
<1>4. ASSUME NEW p \in Processes, EditDevices(p) PROVE TypeOK'
  <2>1. PICK n \in Names, a \in Addresses \cup {NoAddress} :
               session' = [session EXCEPT ![p].devices[n] = a]
    BY <1>4 DEF EditDevices
  <2>2. session[p] \in Data
    BY <1>4 DEF EditDevices, TypeOK
  <2>3. [session[p] EXCEPT !.devices[n] = a] \in Data
    BY <2>2, DataFacts
  <2>4. session' = [session EXCEPT ![p] = [session[p] EXCEPT !.devices[n] = a]]
    BY <2>1
  <2> QED
    BY <1>4, <2>3, <2>4 DEF EditDevices, TypeOK
<1>5. ASSUME NEW p \in Processes, SaveSession(p) PROVE TypeOK'
  <2>1. PICK m \in Messages : /\ Save(p, [message |-> m, devices |-> session[p].devices])
                             /\ persisted' = [persisted EXCEPT ![p] = (m = session[p].message)]
    BY <1>5 DEF SaveSession
  <2>2. [message |-> m, devices |-> session[p].devices] \in Data
    BY DataFacts DEF TypeOK
  <2> QED
    BY <1>5, <2>1, <2>2 DEF SaveSession, Save, TypeOK
<1>6. ASSUME NEW p \in Processes, MakeDirectory(p) PROVE TypeOK'
  BY <1>6 DEF MakeDirectory, TypeOK, Files
<1>7. ASSUME NEW p \in Processes, Truncate(p) PROVE TypeOK'
  BY <1>7, BlankIsData DEF Truncate, TypeOK, Files
<1>8. ASSUME NEW p \in Processes, Write(p) PROVE TypeOK'
  BY <1>8, BlankIsData DEF Write, TypeOK, Files
<1>9. ASSUME NEW p \in Processes, Crash(p) PROVE TypeOK'
  BY <1>9, BlankIsData DEF Crash, Go, TypeOK
<1>10. CASE UNCHANGED vars
  BY <1>10 DEF vars, TypeOK
<1> QED
  BY <1>1, <1>2, <1>3, <1>4, <1>5, <1>6, <1>7, <1>8, <1>9, <1>10 DEF Next, Step

\* Whoever writes and whoever is killed, what is read is a configuration.
THEOREM TypeCorrect == Spec => []TypeOK
<1>1. Init => TypeOK
  BY BlankIsData DEF Init, TypeOK
<1> QED
  BY <1>1, TypeStep, PTL DEF Spec

-----------------------------------------------------------------------------
(* A process that is alone *)

\* No call of the process makes the message that it was told is persisted
\* another than the one in the file, or in what it is saving.
LEMMA SavedMessageStep ==
  ASSUME NEW p, Processes = {p}, TypeOK, SavedMessage, [Next]_vars
  PROVE  SavedMessage'
<1>0. Loaded \in Data
  BY LoadedIsData
<1>1. SUFFICES ASSUME Step(p)
               PROVE  /\ at'[p] = "write" => home' = Blank
                      /\ persisted'[p] =>
                           session'[p].message = (IF at'[p] = "idle" THEN Loaded' ELSE saving'[p]).message
  <2>1. CASE UNCHANGED vars
    BY <2>1 DEF vars, SavedMessage, Loaded, NoConfigFound, File
  <2>2. CASE \E q \in Processes : Step(q)
    BY <1>1, <2>2 DEF SavedMessage
  <2> QED
    BY <2>1, <2>2 DEF Next
<1>a. UNCHANGED <<home, system>> => Loaded' = Loaded
  BY DEF Loaded, NoConfigFound, File
<1>2. CASE Load(p)
  <2>1. Loaded = File
    BY <1>2 DEF Load, Loaded
  <2>2. PICK g, m : Go(p, [File EXCEPT !.message = MessageOf(g, File.message, m)],
                       MessageOf(g, File.message, m) = File.message)
    BY <1>2 DEF Load
  <2>3. [File EXCEPT !.message = File.message].message = File.message
    BY <1>0, <2>1 DEF Data
  <2>4. persisted'[p] => session'[p] = [File EXCEPT !.message = File.message]
    BY <2>2 DEF Go, TypeOK
  <2>5. at'[p] = "idle" /\ at'[p] # "write" /\ Loaded' = Loaded
    BY <1>2, <1>a DEF Load, Idle, TypeOK
  <2> QED
    BY <2>1, <2>3, <2>4, <2>5
<1>3. CASE LoadOrCreate(p)
  <2>1. CASE Go(p, Loaded, TRUE) /\ UNCHANGED <<at, saving>>
    BY <1>3, <1>a, <2>1 DEF LoadOrCreate, Go, Idle, TypeOK
  <2>2. CASE \E m \in InclusionMessages :
               LET data == [Loaded EXCEPT !.message = m] IN
               Go(p, data, TRUE) /\ Save(p, data)
    <3>1. PICK data : Go(p, data, TRUE) /\ Save(p, data)
      BY <2>2
    <3> QED
      BY <1>3, <3>1 DEF LoadOrCreate, Go, Save, TypeOK
  <2> QED
    BY <1>3, <2>1, <2>2 DEF LoadOrCreate
<1>4. CASE AddDevice(p)
  <2>1. PICK n \in Names, a \in Addresses : Save(p, [Loaded EXCEPT !.devices[n] = a])
    BY <1>4 DEF AddDevice
  <2>2. [Loaded EXCEPT !.devices[n] = a].message = Loaded.message
    BY <1>0, DataFacts
  <2> QED
    BY <1>4, <2>1, <2>2 DEF AddDevice, Save, Idle, SavedMessage, TypeOK
<1>5. CASE EditDevices(p)
  <2>1. PICK n \in Names, a \in Addresses \cup {NoAddress} :
               session' = [session EXCEPT ![p].devices[n] = a]
    BY <1>5 DEF EditDevices
  <2>2. session[p] \in Data
    BY <1>5 DEF EditDevices, TypeOK
  <2>3. [session[p] EXCEPT !.devices[n] = a].message = session[p].message
    BY <2>2, DataFacts
  <2>4. session' = [session EXCEPT ![p] = [session[p] EXCEPT !.devices[n] = a]]
    BY <2>1
  <2> QED
    BY <1>5, <1>a, <2>3, <2>4 DEF EditDevices, Idle, SavedMessage, TypeOK
<1>6. CASE SaveSession(p)
  <2>1. PICK m \in Messages : /\ Save(p, [message |-> m, devices |-> session[p].devices])
                             /\ persisted' = [persisted EXCEPT ![p] = (m = session[p].message)]
    BY <1>6 DEF SaveSession
  <2>2. at'[p] = "save" /\ saving'[p].message = m /\ session' = session
    BY <1>6, <2>1 DEF SaveSession, Save, TypeOK
  <2> QED
    BY <2>1, <2>2 DEF TypeOK
<1>7. CASE MakeDirectory(p)
  BY <1>7 DEF MakeDirectory, SavedMessage, TypeOK
<1>8. CASE Truncate(p)
  BY <1>8 DEF Truncate, SavedMessage, TypeOK
<1>9. CASE Write(p)
  <2>1. Loaded' = saving[p] /\ at'[p] = "idle"
    BY <1>9, NoneAssumption DEF Write, Loaded, NoConfigFound, File, TypeOK
  <2> QED
    BY <1>9, <2>1 DEF Write, SavedMessage, TypeOK
<1>10. CASE Crash(p)
  BY <1>10 DEF Crash, Go, TypeOK
<1> QED
  BY <1>1, <1>2, <1>3, <1>4, <1>5, <1>6, <1>7, <1>8, <1>9, <1>10 DEF Step

\* What a call of the only process goes by is saved, from start to end.
LEMMA SavedMessageKept ==
  ASSUME NEW p, Processes = {p}
  PROVE  Spec => []SavedMessage
<1>1. Init => SavedMessage
  BY DEF Init, SavedMessage
<1>2. TypeOK /\ SavedMessage /\ [Next]_vars => SavedMessage'
  BY SavedMessageStep
<1> QED
  BY <1>1, <1>2, TypeCorrect, PTL DEF Spec

\* The message that the process was told is persisted is in the file when its
\* calls returned, and the next process will find it.
THEOREM MessageStays ==
  ASSUME NEW p, Processes = {p}
  PROVE  Spec => []MessagePersisted
<1>1. SavedMessage => MessagePersisted
  BY DEF SavedMessage, MessagePersisted
<1> QED
  BY <1>1, SavedMessageKept, PTL

-----------------------------------------------------------------------------
(* The refinement *)

\* The store begins with what the first reader of the two directories finds.
LEMMA InitMaps ==
  ASSUME NEW p, Processes = {p}, Init
  PROVE  Store!Init
<1>1. Alone = p
  BY DEF Alone
<1>2. TypeOK
  BY BlankIsData DEF Init, TypeOK
<1>3. Stored = Loaded /\ Loaded \in Data
  BY <1>1, <1>2, LoadedIsData DEF Init, Stored, TookEffect
<1> QED
  BY <1>1, <1>3 DEF Init, Store!Init, Store!Messages, Store!Blank, Blank, Data, Phase

\* Calls begin where nothing of the last one is left, and take effect later.
LEMMA BeginMaps ==
  ASSUME NEW p \in Processes, Alone = p, TypeOK, Idle(p), UNCHANGED <<home, system>>,
         NEW data, Save(p, data)
  PROVE  Store!Begin(data)
<1>1. Phase = "idle" /\ Stored = Loaded
  BY DEF Idle, Phase, Stored, TookEffect
<1>2. at'[p] = "save" /\ saving'[p] = data
  BY DEF Save, TypeOK
<1>3. Phase' = "before" /\ Stored' = Loaded'
  BY <1>2 DEF Phase, Stored, TookEffect
<1>4. Loaded' = Loaded
  BY DEF Loaded, NoConfigFound, File
<1> QED
  BY <1>1, <1>2, <1>3, <1>4 DEF Store!Begin

\* Every step of the process is a step of the store, or one that it does not see.
LEMMA StepMaps ==
  ASSUME NEW p, Processes = {p}, TypeOK, SavedMessage, [Next]_vars
  PROVE  [Store!Next]_(Store!storeVars)
<1>a. Alone = p
  BY DEF Alone
<1>b. Loaded \in Data
  BY LoadedIsData
<1>c. UNCHANGED <<home, system>> => Loaded' = Loaded
  BY DEF Loaded, NoConfigFound, File
<1>d. at[p] = "idle" => Phase = "idle" /\ Stored = Loaded
  BY <1>a DEF Phase, Stored, TookEffect
<1>e. at'[p] = "idle" => Phase' = "idle" /\ Stored' = Loaded'
  BY <1>a DEF Phase, Stored, TookEffect
<1>1. CASE UNCHANGED vars
  <2>1. UNCHANGED <<Stored, Phase>>
    BY <1>1, <1>c DEF vars, Stored, Phase, TookEffect
  <2> QED
    BY <1>1, <2>1 DEF vars, Store!storeVars
<1>2. CASE Load(p)
  <2>1. File = Loaded
    BY <1>2 DEF Load, Loaded
  <2>2. PICK g \in Messages \cup {NoGateway}, m \in Messages :
               LET used == MessageOf(g, File.message, m)
               IN  Go(p, [File EXCEPT !.message = used], used = File.message)
    BY <1>2 DEF Load
  <2>3. PICK used \in Messages : session' = [session EXCEPT ![p] = [Loaded EXCEPT !.message = used]]
    <3>1. MessageOf(g, File.message, m) \in Messages
      BY <1>b, <2>1, DataFacts, MessageOfType DEF Messages
    <3> QED
      BY <2>1, <2>2, <3>1 DEF Go
  <2>4. session'[p] = [Loaded EXCEPT !.message = used]
    BY <2>3 DEF TypeOK
  <2>5. at' = at /\ saving' = saving /\ Loaded' = Loaded /\ at[p] = "idle"
    BY <1>2, <1>c DEF Load, Idle
  <2>6. Store!Load
    BY <1>a, <1>d, <1>e, <2>4, <2>5 DEF Store!Load, Store!Messages, Messages
  <2> QED
    BY <2>6 DEF Store!Next
<1>3. CASE LoadOrCreate(p)
  <2>1. CASE Go(p, Loaded, TRUE) /\ UNCHANGED <<at, saving>>
    <3>1. PICK used \in Messages : used = Loaded.message
      BY <1>b DEF Data, Messages
    <3>2. Loaded = [Loaded EXCEPT !.message = used]
      BY <1>b, <3>1 DEF Data
    <3>3. session'[p] = [Loaded EXCEPT !.message = used]
      BY <2>1, <3>2 DEF Go, TypeOK
    <3>4. at' = at /\ saving' = saving /\ Loaded' = Loaded /\ at[p] = "idle"
      BY <1>3, <1>c, <2>1 DEF LoadOrCreate, Idle
    <3>5. Store!Load
      BY <1>a, <1>d, <1>e, <3>3, <3>4 DEF Store!Load, Store!Messages, Messages
    <3> QED
      BY <3>5 DEF Store!Next
  <2>2. CASE /\ Loaded.message = NoMessage
             /\ \E m \in InclusionMessages :
                  LET data == [Loaded EXCEPT !.message = m] IN
                  Go(p, data, TRUE) /\ Save(p, data)
    <3>1. PICK m \in InclusionMessages : LET data == [Loaded EXCEPT !.message = m] IN
                                         Go(p, data, TRUE) /\ Save(p, data)
      BY <2>2
    <3> DEFINE data == [Loaded EXCEPT !.message = m]
    <3>2. Store!Begin(data)
      BY <1>3, <1>a, <3>1, BeginMaps DEF LoadOrCreate
    <3>3. session'[p] = data
      BY <3>1 DEF Go, TypeOK
    <3>4. Stored = Loaded
      BY <1>3, <1>d DEF LoadOrCreate, Idle
    <3>5. Store!Create
      BY <1>a, <2>2, <3>2, <3>3, <3>4 DEF Store!Create
    <3> QED
      BY <3>5 DEF Store!Next
  <2> QED
    BY <1>3, <2>1, <2>2 DEF LoadOrCreate
<1>4. CASE AddDevice(p)
  <2>1. PICK n \in Names, a \in Addresses : Save(p, [Loaded EXCEPT !.devices[n] = a])
    BY <1>4 DEF AddDevice
  <2>2. Store!Begin([Loaded EXCEPT !.devices[n] = a])
    BY <1>4, <1>a, <2>1, BeginMaps DEF AddDevice
  <2>3. Stored = Loaded
    BY <1>4, <1>d DEF AddDevice, Idle
  <2> QED
    BY <1>4, <2>2, <2>3 DEF AddDevice, Store!Next, Store!AddDevice
<1>5. CASE EditDevices(p)
  <2>1. PICK n \in Names, a \in Addresses \cup {NoAddress} :
               session' = [session EXCEPT ![p].devices[n] = a]
    BY <1>5 DEF EditDevices
  <2>2. session'[p] = [session[p] EXCEPT !.devices[n] = a]
    BY <2>1 DEF TypeOK
  <2>3. Store!EditDevices
    BY <1>5, <1>a, <1>c, <1>d, <1>e, <2>2 DEF EditDevices, Idle, TypeOK, Store!EditDevices
  <2> QED
    BY <2>3 DEF Store!Next
<1>6. CASE SaveSession(p)
  <2>1. PICK m \in Messages : Save(p, [message |-> m, devices |-> session[p].devices])
    BY <1>6 DEF SaveSession
  <2>2. Store!Begin([message |-> m, devices |-> session[p].devices])
    BY <1>6, <1>a, <2>1, BeginMaps DEF SaveSession
  <2>3. Store!Save
    BY <1>6, <1>a, <2>2 DEF SaveSession, Store!Save, Store!Messages, Messages
  <2> QED
    BY <2>3 DEF Store!Next
<1>7. CASE MakeDirectory(p)
  <2>1. at[p] = "save" /\ at'[p] = "open" /\ UNCHANGED <<saving, session>>
    BY <1>7 DEF MakeDirectory, TypeOK
  <2>2. Phase = "before" /\ Stored = Loaded
    BY <1>a, <2>1 DEF Phase, Stored, TookEffect
  <2>3. CASE home' = NoFile
    <3>1. Phase' = "after" /\ Stored' = saving'[p]
      BY <1>a, <2>1, <2>3 DEF Phase, Stored, TookEffect
    <3> QED
      BY <1>a, <2>1, <2>2, <3>1 DEF Store!Next, Store!TakeEffect
  <2>4. CASE home' # NoFile
    <3>1. Phase' = "before" /\ Stored' = Loaded'
      BY <1>a, <2>1, <2>4 DEF Phase, Stored, TookEffect
    <3>2. Loaded' = Loaded
      BY <1>7, <1>c, <2>4 DEF MakeDirectory
    <3> QED
      BY <1>a, <2>1, <2>2, <3>1, <3>2 DEF Store!storeVars
  <2> QED
    BY <2>3, <2>4
<1>8. CASE Truncate(p)
  <2>1. at[p] = "open" /\ at'[p] = "write" /\ UNCHANGED <<saving, session>>
    BY <1>8 DEF Truncate, TypeOK
  <2>2. Phase' = "after" /\ Stored' = saving'[p]
    BY <1>a, <2>1 DEF Phase, Stored, TookEffect
  <2>3. \/ Phase = "before"
        \/ Phase = "after" /\ Stored = saving[p]
    BY <1>a, <2>1 DEF Phase, Stored, TookEffect
  <2> QED
    BY <1>a, <2>1, <2>2, <2>3 DEF Store!Next, Store!TakeEffect, Store!storeVars
<1>9. CASE Write(p)
  <2>1. at[p] = "write" /\ at'[p] = "idle" /\ saving'[p] = Blank /\ UNCHANGED session
    BY <1>9 DEF Write, TypeOK
  <2>2. Phase = "after" /\ Stored = saving[p]
    BY <1>a, <2>1 DEF Phase, Stored, TookEffect
  <2>3. Loaded' = saving[p]
    BY <1>9, NoneAssumption DEF Write, Loaded, NoConfigFound, File, TypeOK
  <2> QED
    BY <1>a, <1>e, <2>1, <2>2, <2>3 DEF Store!Next, Store!Return, Store!Blank, Blank
<1>10. CASE Crash(p)
  <2>1. at'[p] = "idle" /\ saving'[p] = Blank /\ session'[p] = Blank /\ Loaded' = Loaded
    BY <1>10, <1>c DEF Crash, Go, TypeOK
  <2>2. \/ Stored = Loaded
        \/ Phase = "after" /\ Loaded = Blank
    <3>1. CASE at[p] = "write"
      <4>1. home = Blank
        BY <3>1 DEF SavedMessage
      <4> QED
        BY <1>a, <3>1, <4>1, NoneAssumption, BlankIsData DEF Phase, TookEffect, Loaded, File, NoConfigFound
    <3>2. CASE at[p] = "open" /\ home = NoFile
      BY <1>a, <3>2, NoneAssumption DEF Phase, TookEffect, Loaded, File, NoConfigFound
    <3>3. CASE ~(at[p] = "write" \/ (at[p] = "open" /\ home = NoFile))
      BY <1>a, <3>3 DEF Stored, TookEffect
    <3> QED
      BY <3>1, <3>2, <3>3
  <2> QED
    BY <1>a, <1>e, <2>1, <2>2 DEF Store!Next, Store!Crash, Store!Blank, Blank
<1> QED
  BY <1>1, <1>2, <1>3, <1>4, <1>5, <1>6, <1>7, <1>8, <1>9, <1>10 DEF Next, Step

\* For a process that is alone the files in the two directories are one store:
\* a call takes effect at once or not at all, unless it is killed while it saves.
THEOREM ConfigFileIsStore ==
  ASSUME NEW p, Processes = {p}
  PROVE  Spec => ImplementsStore
<1>1. Init => Store!Init
  BY InitMaps
<1>2. TypeOK /\ SavedMessage /\ [Next]_vars => [Store!Next]_(Store!storeVars)
  BY StepMaps
<1> QED
  BY <1>1, <1>2, TypeCorrect, SavedMessageKept, PTL DEF Spec, ImplementsStore, Store!Spec
=============================================================================
