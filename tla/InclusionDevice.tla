--------------------------- MODULE InclusionDevice ---------------------------
(***************************************************************************)
(* How a DeviceEmulation gets included and tells about it                  *)
(* (device_emulation.py:166-195, 251-277, 326-337, 475-499).  One thread   *)
(* sends device descriptions for as long as the device is not included,    *)
(* the listener of the network management service includes the device and  *)
(* sends its description once.  A description is composed before it is     *)
(* serialized and sent; INCLUDED may change in between.                    *)
(***************************************************************************)
EXTENDS Naturals, Sequences

CONSTANT MaxInFlight  \* bound: datagrams under way to one port; more are lost

ASSUME MaxInFlightAssumption == MaxInFlight \in Nat \ {0}

VARIABLES
  included,   \* INCLUDED of the device description
  event,      \* stop_device_description_sender: "none", or the event: "clear", "set"
  thread,     \* [Threads -> place and the description it composed]
  includes,   \* number of network_include messages under way to the device
  reports     \* device descriptions under way to the gateway, oldest first

deviceVars == <<included, event, thread, includes, reports>>

Threads == {"sender", "network_management"}

\* Where a thread goes on when it has sent a description.
AfterSending == [t \in Threads |-> IF t = "sender" THEN "wait" ELSE "idle"]

Goto(t, place) == thread' = [thread EXCEPT ![t] = [at |-> place, description |-> FALSE]]

-----------------------------------------------------------------------------
(* Sending a description, in either thread *)

Compose(t) ==
  /\ thread[t].at = "compose"
  /\ thread' = [thread EXCEPT ![t] = [at |-> "send", description |-> included]]
  /\ UNCHANGED <<included, event, includes, reports>>

ReportArrives(t) ==
  /\ thread[t].at = "send" /\ Len(reports) < MaxInFlight
  /\ reports' = Append(reports, thread[t].description)
  /\ Goto(t, AfterSending[t])
  /\ UNCHANGED <<included, event, includes>>

ReportLost(t) ==
  /\ thread[t].at = "send"
  /\ Goto(t, AfterSending[t])
  /\ UNCHANGED <<included, event, includes, reports>>

-----------------------------------------------------------------------------
(* The device description sender *)

StartSender ==
  /\ event = "none"
  /\ event' = "clear" /\ Goto("sender", "check")
  /\ UNCHANGED <<included, includes, reports>>

\* The method that sets the event is hidden by the attribute of the same name:
\* the program sets the event itself.
StopSender ==
  /\ event = "clear"
  /\ event' = "set"
  /\ UNCHANGED <<included, thread, includes, reports>>

\* send()
Check ==
  /\ thread["sender"].at = "check"
  /\ Goto("sender", IF included THEN "wait" ELSE "compose")
  /\ UNCHANGED <<included, event, includes, reports>>

\* Faulty: waits for the event without timeout.
WaitForEvent ==
  /\ thread["sender"].at = "wait" /\ event = "set"
  /\ event' = "none" /\ Goto("sender", "idle")
  /\ UNCHANGED <<included, includes, reports>>

\* The interval passes, or the event is set: the thread ends.
Wait ==
  /\ thread["sender"].at = "wait"
  /\ \/ event = "clear" /\ Goto("sender", "check") /\ UNCHANGED event
     \/ event = "set" /\ event' = "none" /\ Goto("sender", "idle")
  /\ UNCHANGED <<included, includes, reports>>

-----------------------------------------------------------------------------
(* The handlers *)

\* Faulty: answers with a description that was composed at the start.
HandleIncludeStale ==
  /\ includes > 0 /\ thread["network_management"].at = "idle"
  /\ includes' = includes - 1
  /\ included' = TRUE
  /\ thread' = [thread EXCEPT !["network_management"] = [at |-> "send", description |-> FALSE]]
  /\ UNCHANGED <<event, reports>>

\* network_include
HandleInclude ==
  /\ includes > 0 /\ thread["network_management"].at = "idle"
  /\ includes' = includes - 1
  /\ included' = TRUE
  /\ Goto("network_management", "compose")
  /\ UNCHANGED <<event, reports>>

\* device_description_set with INCLUDED 0, or the timer after an emulated
\* firmware update; nothing is sent.
Exclude ==
  /\ included
  /\ included' = FALSE
  /\ UNCHANGED <<event, thread, includes, reports>>

-----------------------------------------------------------------------------
DeviceInit ==
  /\ included \in BOOLEAN
  /\ event = "none"
  /\ thread = [t \in Threads |-> [at |-> "idle", description |-> FALSE]]
  /\ includes = 0
  /\ reports = <<>>

Sender == Check \/ Wait

Sending(t) == Compose(t) \/ ReportArrives(t) \/ ReportLost(t)

Device == StartSender \/ StopSender \/ Sender \/ HandleInclude \/ Exclude \/ \E t \in Threads : Sending(t)

DeviceTypeOK ==
  /\ included \in BOOLEAN
  /\ event \in {"none", "clear", "set"}
  /\ thread \in [Threads -> [at : {"idle", "check", "compose", "send", "wait"}, description : BOOLEAN]]
  /\ includes \in 0..MaxInFlight
  /\ reports \in Seq(BOOLEAN) /\ Len(reports) <= MaxInFlight
=============================================================================
