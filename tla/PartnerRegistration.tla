------------------------- MODULE PartnerRegistration -------------------------
(***************************************************************************)
(* Clients that wake up devices through one dongle, as upload.py does: look *)
(* the device up in the dongle's partner table, register it if it is not   *)
(* there, and wake it up (upload.py:258-273, _partner.py).  Looking up is  *)
(* a request with an answer, registering and waking up are messages that   *)
(* nobody acknowledges.                                                    *)
(*                                                                         *)
(* The dongle handles what arrives on the port of the service in order;    *)
(* a message or an answer may be lost, and be late for its request.        *)
(***************************************************************************)
EXTENDS PartnerTable, Sequences

CONSTANTS
  Clients,      \* processes that wake up devices
  Devices,      \* the addresses they wake up
  MaxInFlight,  \* bound: messages under way
  NoReply, NoDevice

ASSUME DevicesAssumption == Devices \subseteq Addresses
ASSUME MaxInFlightAssumption == MaxInFlight \in Nat

VARIABLES
  queue,       \* the messages to the dongle, oldest first; .live: its socket is open
  reply,       \* [Clients -> the answer that arrived on the open socket]
  step,        \* [Clients -> the answer it waits for, what it does next, or how it ended]
  device,      \* [Clients -> the address it wakes up]
  partner_id   \* [Clients -> partner_id of upload.py, 0 before it has one]

clientVars == <<step, device, partner_id>>
vars == <<partner_information, queue, reply, clientVars>>

Waiting == {"lookup", "lookup_again", "memory", "partners"}
Ended == {"idle", "awake", "refused", "raised", "timeout"}

-----------------------------------------------------------------------------
(* The network *)

\* Faulty: the socket stays open.
KeptOpen(c) == queue

\* The request of c is closed: an answer to it does not arrive any more.
Closed(c) == [i \in DOMAIN queue |-> IF queue[i].client = c THEN [queue[i] EXCEPT !.live = FALSE]
                                     ELSE queue[i]]

Message(c, type, id) ==
  [type |-> type, client |-> c, id |-> id, address |-> device[c], live |-> type \in {"get", "get_memory"}]

\* c sends a message from a new socket; it may be lost.
Put(c, m) ==
  /\ reply' = [reply EXCEPT ![c] = NoReply]
  /\ \/ Len(queue) < MaxInFlight /\ queue' = Append(Closed(c), m)
     \/ queue' = Closed(c)

\* c sends nothing more.
Quiet(c) == queue' = Closed(c) /\ reply' = [reply EXCEPT ![c] = NoReply]

-----------------------------------------------------------------------------
(* The client *)

Request(c, type, waiting) == Put(c, Message(c, type, 0)) /\ step' = [step EXCEPT ![c] = waiting]

\* The run ends: it woke up the device, exits with an error, or dies of an exception.
Finish(c, how) ==
  /\ Quiet(c)
  /\ step' = [step EXCEPT ![c] = how]
  /\ UNCHANGED <<device, partner_id>>

Start(c, a) ==
  /\ step[c] \in Ended
  /\ device' = [device EXCEPT ![c] = a]
  /\ partner_id' = [partner_id EXCEPT ![c] = 0]
  /\ Put(c, [type |-> "get", client |-> c, id |-> 0, address |-> a, live |-> TRUE])
  /\ step' = [step EXCEPT ![c] = "lookup"]
  /\ UNCHANGED partner_information

\* RequestTimeoutError: upload.py exits.
Timeout(c) ==
  /\ step[c] \in Waiting /\ reply[c] = NoReply
  /\ Finish(c, "timeout") /\ UNCHANGED partner_information

Answered(c, waiting) == step[c] = waiting /\ reply[c] # NoReply

\* Faulty: any partner that has an address.
FoundAny(c) == {id \in Ids : reply[c].partners[id] \in Addresses}

\* The ids under which the answer lists the client's device.
Found(c) == {id \in Ids : reply[c].partners[id] = device[c]}

\* get_partner_id goes through the partners in the dongle's order, and calls get on
\* None at the first partner without address, unless it found the device before.
MayRaise(c) == \E id \in Ids : reply[c].partners[id] = NoAddress

\* get_partner_id of upload.py; without partner id it goes on to register_partner,
\* which calls get_partner_id again.
LookedUp(c) ==
  /\ Answered(c, "lookup")
  /\ \/ /\ MayRaise(c) /\ Finish(c, "raised")
     \/ /\ \E id \in Found(c) : partner_id' = [partner_id EXCEPT ![c] = id]
        /\ Quiet(c)
        /\ step' = [step EXCEPT ![c] = "wake"]
        /\ UNCHANGED device
     \/ /\ Found(c) = {} /\ ~MayRaise(c)
        /\ Request(c, "get", "lookup_again")
        /\ UNCHANGED <<device, partner_id>>
  /\ UNCHANGED partner_information

\* register_partner returns None for a device that is there by now.
LookedUpAgain(c) ==
  /\ Answered(c, "lookup_again")
  /\ \/ MayRaise(c) /\ Finish(c, "raised")
     \/ Found(c) # {} /\ Finish(c, "refused")
     \/ /\ Found(c) = {} /\ ~MayRaise(c)
        /\ Request(c, "get_memory", "memory")
        /\ UNCHANGED <<device, partner_id>>
  /\ UNCHANGED partner_information

\* partner_max <= partner_free: register_partner returns None.
Refuses(free) == PartnerMax <= free

MemoryRead(c) ==
  /\ Answered(c, "memory")
  /\ \/ Refuses(reply[c].free) /\ Finish(c, "refused")
     \/ /\ ~Refuses(reply[c].free)
        /\ Request(c, "get", "partners")
        /\ UNCHANGED <<device, partner_id>>
  /\ UNCHANGED partner_information

\* Faulty: takes the ids that are used for the free ones.
UsedSlots(c) == Used(reply[c].partners)

\* diff: the ids that the answer does not list.
FreeSlots(c) == Ids \ Used(reply[c].partners)

\* Faulty: upload.py does not take the id that register_partner returns.
PartnersReadOnly(c) ==
  /\ Answered(c, "partners")
  /\ \/ FreeSlots(c) = {} /\ Finish(c, "raised")
     \/ \E id \in FreeSlots(c) :
          /\ Put(c, Message(c, "set", id))
          /\ step' = [step EXCEPT ![c] = "wake"]
          /\ UNCHANGED <<device, partner_id>>
  /\ UNCHANGED partner_information

\* register_partner takes one of the free ids, in the order of a set, or raises
\* KeyError, and sends set_partner_information.
PartnersRead(c) ==
  /\ Answered(c, "partners")
  /\ \/ FreeSlots(c) = {} /\ Finish(c, "raised")
     \/ \E id \in FreeSlots(c) :
          /\ partner_id' = [partner_id EXCEPT ![c] = id]
          /\ Put(c, Message(c, "set", id))
          /\ step' = [step EXCEPT ![c] = "wake"]
          /\ UNCHANGED device
  /\ UNCHANGED partner_information

\* wakeup_partner.
Wakeup(c) ==
  /\ step[c] = "wake"
  /\ Put(c, Message(c, "wakeup", partner_id[c]))
  /\ step' = [step EXCEPT ![c] = "awake"]
  /\ UNCHANGED <<device, partner_id, partner_information>>

-----------------------------------------------------------------------------
(* The dongle *)

Incoming(type) == queue # <<>> /\ Head(queue).type = type

\* The oldest message is taken; answer is lost, late, or arrives.
Answer(answer) ==
  LET m == Head(queue) IN
  /\ queue' = Tail(queue)
  /\ \/ m.live /\ reply' = [reply EXCEPT ![m.client] = answer]
     \/ UNCHANGED reply
  /\ UNCHANGED <<partner_information, clientVars>>

HandleGet ==
  /\ Incoming("get")
  /\ Answer([partners |-> partner_information, free |-> 0])

\* The emulation does not know this command; a dongle answers with its counts.
HandleGetMemory ==
  /\ Incoming("get_memory")
  /\ Answer([partners |-> [id \in Ids |-> NoPartner], free |-> FreeCount(partner_information)])

HandleSet ==
  /\ Incoming("set")
  /\ SetAddress(Head(queue).id, Head(queue).address)
  /\ queue' = Tail(queue) /\ UNCHANGED <<reply, clientVars>>

HandleWakeup ==
  /\ Incoming("wakeup")
  /\ SetWakeup(Head(queue).id)
  /\ queue' = Tail(queue) /\ UNCHANGED <<reply, clientVars>>

\* Somebody removes partners, with remove_partner or remove_all_partner.
Remove ==
  /\ (\E id \in Ids : Delete(id)) \/ DeleteAll
  /\ UNCHANGED <<queue, reply, clientVars>>

-----------------------------------------------------------------------------
Init ==
  /\ TableInit
  /\ queue = <<>>
  /\ reply = [c \in Clients |-> NoReply]
  /\ step = [c \in Clients |-> "idle"]
  /\ device = [c \in Clients |-> NoDevice]
  /\ partner_id = [c \in Clients |-> 0]

Client(c) ==
  \/ \E a \in Devices : Start(c, a)
  \/ Timeout(c) \/ LookedUp(c) \/ LookedUpAgain(c) \/ MemoryRead(c) \/ PartnersRead(c)
  \/ Wakeup(c)

Dongle == HandleGet \/ HandleGetMemory \/ HandleSet \/ HandleWakeup

Next == (\E c \in Clients : Client(c)) \/ Dongle \/ Remove

Spec == Init /\ [][Next]_vars

-----------------------------------------------------------------------------
Answers == [partners : Tables, free : 0..PartnerMax]

Messages == [type : {"get", "get_memory", "set", "wakeup"}, client : Clients,
             id : 0..PartnerMax, address : Addresses, live : BOOLEAN]

\* Type invariant: what changes the table is about one of its ids.
TypeOK ==
  /\ partner_information \in Tables
  /\ queue \in Seq(Messages) /\ Len(queue) <= MaxInFlight
  /\ \A i \in DOMAIN queue : queue[i].type \in {"set", "wakeup"} => queue[i].id \in Ids
  /\ reply \in [Clients -> Answers \cup {NoReply}]
  /\ step \in [Clients -> Waiting \cup Ended \cup {"wake"}]
  /\ device \in [Clients -> Addresses \cup {NoDevice}]
  /\ partner_id \in [Clients -> 0..PartnerMax]

\* Registering does not take the id of another device, although the ids that
\* are free were computed from an answer and the registration is on its way
\* for any time.  For one client at a time.
AddressesStay ==
  [][\A id \in Ids : partner_information[id] \in Addresses =>
       partner_information'[id] \in {partner_information[id], NoPartner}]_vars

\* A device is never registered twice, also when registrations were lost and
\* tried again: get_partner_id has one answer.  For one client at a time.
OneIdPerAddress ==
  \A i, j \in Ids :
    partner_information[i] = partner_information[j] /\ partner_information[i] \in Addresses => i = j

\* A wakeup that reaches the dongle never wakes up another device than the
\* one its run was started for.  For one client at a time.
WakesOwnDevice ==
  [][Incoming("wakeup") /\ queue' = Tail(queue) =>
       partner_information[Head(queue).id] \in {Head(queue).address, NoPartner, NoAddress}]_vars

\* "no free space available" is what register_partner says if there is none,
\* and only then; "diff should not be empty here, because we checked used
\* slots in memory before".
RefusesWhenFull ==
  \A c \in Clients : Answered(c, "memory") => (Refuses(reply[c].free) <=> reply[c].free = 0)

-----------------------------------------------------------------------------
(* Why these hold for one client: the strengthening that is inductive *)

\* Who looks up or registers a device has one, who wakes it up also has its id.
ClientInv ==
  \A c \in Clients :
    /\ step[c] \in Waiting \cup {"wake"} => device[c] \in Addresses
    /\ step[c] = "wake" => partner_id[c] \in Ids

\* Nobody but the newest message waits for an answer, and none is there yet.
NewestIsAsked ==
  \A c \in Clients, i \in DOMAIN queue :
    queue[i].live =>
      /\ i = Len(queue) /\ reply[c] = NoReply
      /\ step[c] \in Waiting
      /\ queue[i].type = IF step[c] = "memory" THEN "get_memory" ELSE "get"

\* By the time of an answer the dongle has handled all that was sent before:
\* since then partners can only have been removed.
AnswerIsCurrent ==
  \A c \in Clients :
    reply[c] # NoReply =>
      /\ queue = <<>> /\ step[c] \in Waiting
      /\ step[c] # "memory" =>
           \A id \in Ids : partner_information[id] \in {reply[c].partners[id], NoPartner}

\* A device that is being registered is not there, and nor is a partner with the
\* id that it will have; nothing is on its way that could change that.
RegistersNew ==
  /\ \A c \in Clients : step[c] \in {"memory", "partners"} =>
       /\ \A i \in DOMAIN queue : queue[i].type \in {"get", "get_memory"}
       /\ \A id \in Ids : partner_information[id] # device[c]
  /\ \A i \in DOMAIN queue : queue[i].type = "set" =>
       /\ i = 1 /\ partner_information[queue[i].id] = NoPartner
       /\ \A id \in Ids : partner_information[id] # queue[i].address

\* The id belongs to the device, or to nobody.
OwnId(id, address) == partner_information[id] \in {address, NoPartner, NoAddress}

\* Who is woken up has the id of the message, or gets it from the one before.
WakesRegistered ==
  /\ \A i \in DOMAIN queue : queue[i].type = "wakeup" =>
       \/ i = 1 /\ OwnId(queue[i].id, queue[i].address)
       \/ /\ i = 2 /\ queue[1].type = "set"
          /\ queue[1].id = queue[2].id /\ queue[1].address = queue[2].address
  /\ \A c \in Clients : step[c] = "wake" =>
       \/ queue = <<>> /\ OwnId(partner_id[c], device[c])
       \/ /\ Len(queue) = 1 /\ queue[1].type = "set"
          /\ queue[1].id = partner_id[c] /\ queue[1].address = device[c]

RegistrationInv ==
  NewestIsAsked /\ AnswerIsCurrent /\ RegistersNew /\ WakesRegistered /\ OneIdPerAddress
=============================================================================
