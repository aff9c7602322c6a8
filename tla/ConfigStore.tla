---------------------------- MODULE ConfigStore ----------------------------
(***************************************************************************)
(* What config_file.py is to a process that is alone: a store of a         *)
(* gateway's inclusion message, which load_or_create creates where there   *)
(* is none, and of named devices, of which add_device changes only the one *)
(* it is given.  save replaces both by the caller's.  A call that saves    *)
(* takes effect at one moment; until it returned, a process that is killed *)
(* may take everything that is stored with it.                             *)
(***************************************************************************)
CONSTANTS Names, Addresses, InclusionMessages, NoMessage, NoAddress

VARIABLES
  stored,   \* the message and the devices
  caller,   \* the message of the caller's gateway, if it has one, and its devices
  saving,   \* what the call it is in saves
  phase     \* of that call: "idle", "before" and "after" it took effect

storeVars == <<stored, caller, saving, phase>>

Messages == InclusionMessages \cup {NoMessage}

Blank == [message |-> NoMessage, devices |-> [n \in Names |-> NoAddress]]

Init ==
  /\ stored \in [message : Messages, devices : [Names -> Addresses \cup {NoAddress}]]
  /\ caller = Blank /\ saving = Blank /\ phase = "idle"

Begin(data) == phase = "idle" /\ phase' = "before" /\ saving' = data /\ UNCHANGED stored

\* The devices are handed out, with the message that is stored, with that of
\* the gateway that the caller passes, or with one that it passes instead.
Load ==
  /\ phase = "idle"
  /\ \E m \in Messages : caller' = [stored EXCEPT !.message = m]
  /\ UNCHANGED <<stored, saving, phase>>

\* The message is created if there is none.
Create ==
  /\ stored.message = NoMessage
  /\ \E m \in InclusionMessages :
       LET data == [stored EXCEPT !.message = m] IN Begin(data) /\ caller' = data

\* The message stays as it is.  If there is none, none is created: here the
\* store is what the code does, and not what add_device's docstring promises.
AddDevice ==
  /\ \E n \in Names, a \in Addresses : Begin([stored EXCEPT !.devices[n] = a])
  /\ UNCHANGED caller

EditDevices ==
  /\ phase = "idle"
  /\ \E n \in Names, a \in Addresses \cup {NoAddress} : caller' = [caller EXCEPT !.devices[n] = a]
  /\ UNCHANGED <<stored, saving, phase>>

\* The caller's devices, and the message of whatever gateway it passes, or none.
Save ==
  /\ \E m \in Messages : Begin([message |-> m, devices |-> caller.devices])
  /\ UNCHANGED caller

TakeEffect ==
  /\ phase = "before" /\ phase' = "after" /\ stored' = saving
  /\ UNCHANGED <<caller, saving>>

Return ==
  /\ phase = "after" /\ phase' = "idle" /\ saving' = Blank
  /\ UNCHANGED <<stored, caller>>

\* Only a call that took effect and did not return can lose what is stored.
Crash ==
  /\ caller' = Blank /\ saving' = Blank /\ phase' = "idle"
  /\ stored' = stored \/ (phase = "after" /\ stored' = Blank)

Next == Load \/ Create \/ AddDevice \/ EditDevices \/ Save \/ TakeEffect \/ Return \/ Crash

Spec == Init /\ [][Next]_storeVars
=============================================================================
