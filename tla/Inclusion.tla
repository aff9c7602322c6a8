------------------------------ MODULE Inclusion ------------------------------
(***************************************************************************)
(* examples/simple_value_listener, a program that includes the devices of  *)
(* its whitelist, with one device.  It has a thread for device descriptions *)
(* and one for values.  Both call device_description_handler, and both     *)
(* write what is known of the device, with its value cache.                *)
(***************************************************************************)
EXTENDS InclusionDevice

CONSTANTS
  ValueIds,
  NoEntry

VARIABLES
  whitelisted,  \* is the device's SGTIN in DEVICE_SGTINS?
  entry,        \* devices[address]: the description that was stored, and the ids in the cache
  handler       \* [Handlers -> place in the handler, its description and its values]

listenerVars == <<whitelisted, entry, handler>>
vars == <<deviceVars, listenerVars>>

Handlers == {"description", "value"}

Entries == [description : BOOLEAN, cache : SUBSET ValueIds]

ASSUME NoEntryAssumption == NoEntry \notin Entries

\* The handler of h goes on at the given place.
Proceed(h, place) == handler' = [handler EXCEPT ![h].at = place]

\* device_description_handler returns.
Return(h) ==
  handler' = [handler EXCEPT ![h].at = IF h = "description" THEN "idle" ELSE "store",
                             ![h].description = FALSE]

-----------------------------------------------------------------------------
(* device_description_handler *)

\* A device description arrives at the listener.
ReceiveDescription ==
  /\ reports # <<>> /\ handler["description"].at = "idle"
  /\ reports' = Tail(reports)
  /\ handler' = [handler EXCEPT !["description"].at = "handle", !["description"].description = Head(reports)]
  /\ UNCHANGED <<included, event, thread, includes, whitelisted, entry>>

\* The device is included and needs no inclusion: it is looked up.
HandleIncluded(h) ==
  /\ handler[h].at = "handle" /\ handler[h].description
  /\ Proceed(h, IF entry = NoEntry THEN "add" ELSE "update")
  /\ UNCHANGED <<deviceVars, whitelisted, entry>>

IgnoreDevice(h) ==
  /\ handler[h].at = "handle" /\ ~handler[h].description /\ ~whitelisted
  /\ Return(h)
  /\ UNCHANGED <<deviceVars, whitelisted, entry>>

\* device.include(): the message arrives, or is lost.
NeedsInclusion(h) ==
  /\ handler[h].at = "handle" /\ ~handler[h].description /\ whitelisted
  /\ Proceed(h, "add")
  /\ UNCHANGED <<included, event, thread, reports, whitelisted, entry>>

IncludeArrives(h) == NeedsInclusion(h) /\ includes < MaxInFlight /\ includes' = includes + 1

IncludeLost(h) == NeedsInclusion(h) /\ UNCHANGED includes

\* Faulty: stores no value cache.
AddWithoutCache(h) ==
  /\ handler[h].at = "add"
  /\ entry' = [description |-> handler[h].description]
  /\ IF handler[h].description THEN Proceed(h, "update") ELSE Return(h)
  /\ UNCHANGED <<deviceVars, whitelisted>>

\* devices[address] = [device, device_description, {}]
Add(h) ==
  /\ handler[h].at = "add"
  /\ entry' = [description |-> handler[h].description, cache |-> {}]
  /\ IF handler[h].description THEN Proceed(h, "update") ELSE Return(h)
  /\ UNCHANGED <<deviceVars, whitelisted>>

\* devices[address][1] = device_description
Update(h) ==
  /\ handler[h].at = "update"
  /\ entry' = [entry EXCEPT !.description = handler[h].description]
  /\ Return(h)
  /\ UNCHANGED <<deviceVars, whitelisted>>

-----------------------------------------------------------------------------
(* value_handler *)

\* A value report arrives; an unknown device is asked for its description.
ReceiveValues ==
  /\ handler["value"].at = "idle"
  /\ \E values \in SUBSET ValueIds \ {{}} :
       handler' = [handler EXCEPT !["value"].values = values,
                                  !["value"].at = IF entry = NoEntry THEN "get" ELSE "store"]
  /\ UNCHANGED <<deviceVars, whitelisted, entry>>

\* get_device_description, answered by the device.
DescriptionAnswered ==
  /\ handler["value"].at = "get"
  /\ handler' = [handler EXCEPT !["value"].at = "handle", !["value"].description = included]
  /\ UNCHANGED <<deviceVars, whitelisted, entry>>

\* RequestTimeoutError
DescriptionTimeout ==
  /\ handler["value"].at = "get"
  /\ handler' = [handler EXCEPT !["value"].at = "idle", !["value"].values = {}]
  /\ UNCHANGED <<deviceVars, whitelisted, entry>>

\* The values go to the cache one by one.
StoreValue ==
  /\ handler["value"].at = "store" /\ entry # NoEntry
  /\ \E id \in handler["value"].values :
       /\ entry' = [entry EXCEPT !.cache = @ \cup {id}]
       /\ handler' = [handler EXCEPT !["value"].values = @ \ {id}]
  /\ UNCHANGED <<deviceVars, whitelisted>>

\* All are stored, or devices[address] raises KeyError.
ValuesHandled ==
  /\ handler["value"].at = "store" /\ (handler["value"].values = {} \/ entry = NoEntry)
  /\ handler' = [handler EXCEPT !["value"].at = "idle", !["value"].values = {}]
  /\ UNCHANGED <<deviceVars, whitelisted, entry>>

-----------------------------------------------------------------------------
Init ==
  /\ DeviceInit
  /\ whitelisted \in BOOLEAN
  /\ entry = NoEntry
  /\ handler = [h \in Handlers |-> [at |-> "idle", description |-> FALSE, values |-> {}]]

HandleDescription(h) ==
  HandleIncluded(h) \/ IgnoreDevice(h) \/ IncludeArrives(h) \/ IncludeLost(h) \/ Add(h) \/ Update(h)

HandleValues == DescriptionAnswered \/ DescriptionTimeout \/ StoreValue \/ ValuesHandled

Next ==
  \/ Device /\ UNCHANGED listenerVars
  \/ ReceiveDescription \/ ReceiveValues \/ HandleValues
  \/ \E h \in Handlers : HandleDescription(h)

Spec == Init /\ [][Next]_vars

\* Threads run on, and what is sent again and again arrives now and then.
FairSpec ==
  /\ Spec
  /\ WF_vars(Sender /\ UNCHANGED listenerVars)
  /\ WF_vars(HandleInclude /\ UNCHANGED listenerVars)
  /\ \A t \in Threads : /\ WF_vars(Sending(t) /\ UNCHANGED listenerVars)
                        /\ SF_vars(ReportArrives(t) /\ UNCHANGED listenerVars)
  /\ WF_vars(ReceiveDescription) /\ WF_vars(HandleValues)
  /\ \A h \in Handlers : WF_vars(HandleDescription(h)) /\ SF_vars(IncludeArrives(h))

-----------------------------------------------------------------------------
\* Type invariant.
TypeOK ==
  /\ DeviceTypeOK
  /\ whitelisted \in BOOLEAN
  /\ entry \in Entries \cup {NoEntry}
  /\ handler \in [Handlers -> [at : {"idle", "handle", "add", "update", "get", "store"},
                               description : BOOLEAN, values : SUBSET ValueIds]]

\* A device of the whitelist that is not included, at first or after it was
\* excluded, gets included for as long as its sender is not stopped, although
\* descriptions and include messages are lost or late.
GetsIncluded ==
  whitelisted /\ event = "clear" /\ ~included ~> included \/ event = "set"

\* Once a device stays included, the traffic comes to rest: descriptions that
\* were composed before it was included are answered with another include
\* message, the answer to that is the last one.
Settles == <>[]included => <>[](includes = 0 /\ reports = <<>>)
=============================================================================
