----------------------------- MODULE ConfigFile -----------------------------
(***************************************************************************)
(* config_file.py: the inclusion message and the devices in a file that is *)
(* read as a whole and written as a whole, first truncated.  It is read    *)
(* from the first configuration directory that exists, the user's or a     *)
(* system one, and always written to the user's.                           *)
(***************************************************************************)
EXTENDS Naturals

CONSTANTS
  Names, Addresses,    \* devices
  InclusionMessages,   \* what generate() may return
  Processes,
  NoMessage, NoAddress, NoDirectory, NoFile, NoGateway

VARIABLES
  home,      \* the file in the user's directory, or that the file or the directory is missing
  system,    \* the same for the system's directory, which nobody writes
  at,        \* [Processes -> place in _save_data]
  saving,    \* [Processes -> the data it writes]
  session,   \* [Processes -> the message of its gateway, if it has one, and its devices]
  persisted  \* [Processes -> BOOLEAN], whether it was told that this message is in the file; history

vars == <<home, system, at, saving, session, persisted>>

Data == [message : InclusionMessages \cup {NoMessage},
         devices : [Names -> Addresses \cup {NoAddress}]]

\* An empty file is valid TOML without message and devices.
Blank == [message |-> NoMessage, devices |-> [n \in Names |-> NoAddress]]

Files == Data \cup {NoFile, NoDirectory}

ASSUME NoneAssumption ==
  NoFile \notin Data /\ NoDirectory \notin Data /\ NoFile # NoDirectory

\* get_path: the file in the first directory that exists.
File == IF home # NoDirectory THEN home ELSE system

\* NoConfigFoundError
NoConfigFound == File \in {NoFile, NoDirectory}

\* Faulty: only the user's file.
HomeOrBlank == IF home \in {NoFile, NoDirectory} THEN Blank ELSE home

\* What _load_data returns, nothing for NoConfigFoundError.
Loaded == IF NoConfigFound THEN Blank ELSE File

Idle(p) == at[p] = "idle"

Save(p, data) ==
  at' = [at EXCEPT ![p] = "save"] /\ saving' = [saving EXCEPT ![p] = data]

-----------------------------------------------------------------------------
(* The functions; reading is one step *)

Messages == InclusionMessages \cup {NoMessage}

\* _create_devices: the message of the gateway that load is given, else the
\* one in the file, else the one that load is given.
MessageOf(gateway, stored, message) ==
  CASE gateway # NoGateway -> gateway
    [] gateway = NoGateway /\ stored # NoMessage -> stored
    [] gateway = NoGateway /\ stored = NoMessage -> message

\* The process goes by that data, and the message in it is in the file or is not.
Go(p, data, inFile) ==
  /\ session' = [session EXCEPT ![p] = data]
  /\ persisted' = [persisted EXCEPT ![p] = inFile]

\* Faulty: a missing file is not noticed.
LoadAnything(p) ==
  /\ Idle(p)
  /\ Go(p, File, TRUE)
  /\ UNCHANGED <<home, system, at, saving>>

Load(p) ==
  /\ Idle(p) /\ ~NoConfigFound
  /\ \E gateway \in Messages \cup {NoGateway}, message \in Messages :
       LET used == MessageOf(gateway, File.message, message)
       IN  Go(p, [File EXCEPT !.message = used], used = File.message)
  /\ UNCHANGED <<home, system, at, saving>>

\* Faulty: a message that was completed is not saved.
LoadOnly(p) ==
  /\ Idle(p)
  /\ IF Loaded.message # NoMessage
     THEN Go(p, Loaded, TRUE)
     ELSE \E m \in InclusionMessages : Go(p, [Loaded EXCEPT !.message = m], TRUE)
  /\ UNCHANGED <<home, system, at, saving>>

\* A missing file or message is completed and saved; no gateway or message is taken.
LoadOrCreate(p) ==
  /\ Idle(p)
  /\ \/ /\ Loaded.message # NoMessage
        /\ Go(p, Loaded, TRUE)
        /\ UNCHANGED <<at, saving>>
     \/ /\ Loaded.message = NoMessage
        /\ \E m \in InclusionMessages :
             LET data == [Loaded EXCEPT !.message = m] IN
             Go(p, data, TRUE) /\ Save(p, data)
  /\ UNCHANGED <<home, system>>

\* A missing file is created without a message; the docstring promises a random
\* one, as in load_or_create, but the code and its test save None.
AddDevice(p) ==
  /\ Idle(p)
  /\ \E n \in Names, a \in Addresses : Save(p, [Loaded EXCEPT !.devices[n] = a])
  /\ UNCHANGED <<home, system, session, persisted>>

\* The program adds a device to its dictionary, or removes one.
EditDevices(p) ==
  /\ Idle(p)
  /\ \E n \in Names, a \in Addresses \cup {NoAddress} :
       session' = [session EXCEPT ![p].devices[n] = a]
  /\ UNCHANGED <<home, system, at, saving, persisted>>

\* Its devices, with the gateway that it loaded, with another one, or with none.
SaveSession(p) ==
  /\ Idle(p)
  /\ \E m \in Messages :
       /\ Save(p, [message |-> m, devices |-> session[p].devices])
       /\ persisted' = [persisted EXCEPT ![p] = (m = session[p].message)]
  /\ UNCHANGED <<home, system, session>>

-----------------------------------------------------------------------------
(* _save_data *)

\* save_config_path creates the directory.
MakeDirectory(p) ==
  /\ at[p] = "save"
  /\ home' = IF home = NoDirectory THEN NoFile ELSE home
  /\ at' = [at EXCEPT ![p] = "open"]
  /\ UNCHANGED <<system, saving, session, persisted>>

\* open(..., 'w') truncates the file.
Truncate(p) ==
  /\ at[p] = "open"
  /\ home' = Blank
  /\ at' = [at EXCEPT ![p] = "write"]
  /\ UNCHANGED <<system, saving, session, persisted>>

\* The file is small: its content is written when it is closed.
Write(p) ==
  /\ at[p] = "write"
  /\ home' = saving[p]
  /\ at' = [at EXCEPT ![p] = "idle"]
  /\ saving' = [saving EXCEPT ![p] = Blank]
  /\ UNCHANGED <<system, session, persisted>>

\* The process is killed, between any two steps; the next one starts anew.
Crash(p) ==
  /\ at' = [at EXCEPT ![p] = "idle"] /\ saving' = [saving EXCEPT ![p] = Blank]
  /\ Go(p, Blank, FALSE)
  /\ UNCHANGED <<home, system>>

-----------------------------------------------------------------------------
Init ==
  /\ home \in Files
  /\ system \in Files
  /\ at = [p \in Processes |-> "idle"]
  /\ saving = [p \in Processes |-> Blank]
  /\ session = [p \in Processes |-> Blank]
  /\ persisted = [p \in Processes |-> FALSE]

Step(p) ==
  \/ Load(p) \/ LoadOrCreate(p) \/ AddDevice(p) \/ EditDevices(p) \/ SaveSession(p)
  \/ MakeDirectory(p) \/ Truncate(p) \/ Write(p) \/ Crash(p)

Next == \E p \in Processes : Step(p)

Spec == Init /\ [][Next]_vars

-----------------------------------------------------------------------------
\* Type invariant: what is read is always readable, whoever writes.
TypeOK ==
  /\ home \in Files /\ system \in Files
  /\ at \in [Processes -> {"idle", "save", "open", "write"}]
  /\ saving \in [Processes -> Data]
  /\ session \in [Processes -> Data]
  /\ persisted \in [Processes -> BOOLEAN]

\* The inclusion message of the gateway that load_or_create returned ("a random
\* inclusion message is generated and persisted"), or that load found, or that
\* was saved last, is in the file when no call is under way: what the process
\* includes devices with is what it finds when it runs the next time.  Only a
\* save with another gateway or with none ends that; add_device and the place
\* of the file, in two directories, do not.  For one process: two that create a
\* message at the same time lose one.
MessagePersisted ==
  (\A p \in Processes : at[p] = "idle") =>
    \A p \in Processes : persisted[p] => Loaded.message = session[p].message

Alone == CHOOSE p \in Processes : TRUE

\* The save of the process took effect: the directory that it made hides the
\* system's file, or the user's is truncated.
TookEffect == at[Alone] = "write" \/ (at[Alone] = "open" /\ home = NoFile)

Phase ==
  CASE at[Alone] = "idle" -> "idle"
    [] at[Alone] # "idle" /\ TookEffect -> "after"
    [] at[Alone] # "idle" /\ ~TookEffect -> "before"

\* What the process, or the one that runs after it, finds.
Stored == IF TookEffect THEN saving[Alone] ELSE Loaded

Store == INSTANCE ConfigStore WITH
  stored <- Stored,
  caller <- session[Alone], saving <- saving[Alone], phase <- Phase

\* For a process that is alone, the file in its two places is the store: a
\* message is created only where there is none, add_device loses neither the
\* message nor a device, and save leaves exactly what it is given.  If the
\* process is killed, all of that is there or, after a save began to write,
\* nothing.
ImplementsStore == Store!Spec

\* Why the two hold: a file that is being written is empty, and the message
\* that the process was told is persisted is the one in the file, or in what it
\* is saving.
SavedMessage ==
  \A p \in Processes :
    /\ at[p] = "write" => home = Blank
    /\ persisted[p] =>
         session[p].message = (IF at[p] = "idle" THEN Loaded ELSE saving[p]).message
=============================================================================
