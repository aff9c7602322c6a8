---------------------- MODULE PartnerRegistrationProofs ----------------------
(***************************************************************************)
(* Proofs about PartnerRegistration: its types for any clients, and for one *)
(* client, any number of ids, devices and messages under way, that the     *)
(* partner table is kept right.                                            *)
(***************************************************************************)
EXTENDS PartnerRegistration, TLAPS, FiniteSetTheorems

-----------------------------------------------------------------------------
(* The network *)

\* Closing a socket leaves the messages what they are.
LEMMA ClosedFacts ==
  ASSUME NEW c \in Clients, queue \in Seq(Messages)
  PROVE  /\ Closed(c) \in Seq(Messages) /\ Len(Closed(c)) = Len(queue)
         /\ DOMAIN Closed(c) = DOMAIN queue
         /\ \A i \in DOMAIN queue :
              /\ Closed(c)[i].type = queue[i].type /\ Closed(c)[i].client = queue[i].client
              /\ Closed(c)[i].id = queue[i].id /\ Closed(c)[i].address = queue[i].address
              /\ Closed(c)[i].live => queue[i].live /\ queue[i].client # c
<1>1. ASSUME NEW m \in Messages
      PROVE  /\ [m EXCEPT !.live = FALSE] \in Messages
             /\ [m EXCEPT !.live = FALSE].type = m.type
             /\ [m EXCEPT !.live = FALSE].client = m.client
             /\ [m EXCEPT !.live = FALSE].id = m.id
             /\ [m EXCEPT !.live = FALSE].address = m.address
             /\ ~[m EXCEPT !.live = FALSE].live
  BY DEF Messages
<1>2. \A i \in DOMAIN queue : queue[i] \in Messages
  OBVIOUS
<1>3. DOMAIN Closed(c) = 1..Len(queue) /\ DOMAIN queue = 1..Len(queue) /\ Len(queue) \in Nat
  BY DEF Closed
<1>4. \A i \in DOMAIN queue : Closed(c)[i] = IF queue[i].client = c THEN [queue[i] EXCEPT !.live = FALSE]
                                             ELSE queue[i]
  BY DEF Closed
<1>5. \A i \in DOMAIN queue : Closed(c)[i] \in Messages
  BY <1>1, <1>2, <1>4
<1>6. Closed(c) \in Seq(Messages) /\ Len(Closed(c)) = Len(queue)
  <2>1. Closed(c) = [i \in 1..Len(queue) |-> Closed(c)[i]]
    BY <1>3 DEF Closed
  <2> QED
    BY <1>3, <1>5, <2>1
<1>7. ASSUME NEW i \in DOMAIN queue
      PROVE  /\ Closed(c)[i].type = queue[i].type /\ Closed(c)[i].client = queue[i].client
             /\ Closed(c)[i].id = queue[i].id /\ Closed(c)[i].address = queue[i].address
             /\ Closed(c)[i].live => queue[i].live /\ queue[i].client # c
  <2>1. queue[i] \in Messages
    BY <1>2
  <2>2. CASE queue[i].client = c
    BY <1>1, <1>4, <2>1, <2>2, Zenon
  <2>3. CASE queue[i].client # c
    BY <1>4, <2>3, Zenon
  <2> QED
    BY <2>2, <2>3
<1> QED
  BY <1>3, <1>6, <1>7

\* What a client sends is behind what it sent before, or lost.
LEMMA PutFacts ==
  ASSUME NEW c \in Clients, NEW m \in Messages, queue \in Seq(Messages),
         queue' = Closed(c) \/ queue' = Append(Closed(c), m)
  PROVE  /\ queue' \in Seq(Messages)
         /\ Len(queue') = Len(queue) \/ (Len(queue') = Len(queue) + 1 /\ queue'[Len(queue')] = m)
         /\ \A i \in DOMAIN queue :
              /\ i \in DOMAIN queue'
              /\ queue'[i].type = queue[i].type /\ queue'[i].client = queue[i].client
              /\ queue'[i].id = queue[i].id /\ queue'[i].address = queue[i].address
              /\ queue'[i].live => queue[i].live /\ queue[i].client # c
<1> DEFINE q == Closed(c)
<1>1. /\ q \in Seq(Messages) /\ Len(q) = Len(queue)
      /\ DOMAIN q = 1..Len(queue) /\ DOMAIN queue = 1..Len(queue) /\ Len(queue) \in Nat
  BY ClosedFacts
<1>a. \A i \in DOMAIN queue :
        /\ q[i].type = queue[i].type /\ q[i].client = queue[i].client
        /\ q[i].id = queue[i].id /\ q[i].address = queue[i].address
        /\ q[i].live => queue[i].live /\ queue[i].client # c
  BY ClosedFacts
<1> HIDE DEF q
<1>2. CASE queue' = q
  BY <1>1, <1>a, <1>2
<1>3. CASE queue' = Append(q, m)
  <2>1. queue' \in Seq(Messages) /\ Len(queue') = Len(queue) + 1 /\ queue'[Len(queue')] = m
    BY <1>1, <1>3
  <2>2. \A i \in DOMAIN queue : i \in DOMAIN queue' /\ queue'[i] = q[i]
    BY <1>1, <1>3
  <2> QED
    BY <1>a, <2>1, <2>2
<1> QED
  BY <1>2, <1>3 DEF q

-----------------------------------------------------------------------------
(* Types *)

\* The queue and the answers.
QueueTyped ==
  /\ queue \in Seq(Messages) /\ Len(queue) <= MaxInFlight
  /\ \A i \in DOMAIN queue : queue[i].type \in {"set", "wakeup"} => queue[i].id \in Ids

RepliesTyped == reply \in [Clients -> Answers \cup {NoReply}]

\* TypeOK in its parts, with what the clients know.
Typed ==
  /\ partner_information \in Tables
  /\ QueueTyped /\ RepliesTyped
  /\ step \in [Clients -> Waiting \cup Ended \cup {"wake"}]
  /\ device \in [Clients -> Addresses \cup {NoDevice}]
  /\ partner_id \in [Clients -> 0..PartnerMax]
  /\ ClientInv

\* The same.
LEMMA TypeParts == TypeOK /\ ClientInv <=> Typed
  BY DEF TypeOK, Typed, QueueTyped, RepliesTyped

\* What is sent about a device with an address.
LEMMA MessageTyped ==
  ASSUME NEW c \in Clients, device[c] \in Addresses,
         NEW type \in {"get", "get_memory", "set", "wakeup"}, NEW id \in 0..PartnerMax
  PROVE  /\ Message(c, type, id) \in Messages
         /\ Message(c, type, id).type = type /\ Message(c, type, id).id = id
         /\ Message(c, type, id).address = device[c]
         /\ Message(c, type, id).live => type \in {"get", "get_memory"}
<1>1. Message(c, type, id).live => type \in {"get", "get_memory"}
  BY Zenon DEF Message
<1> QED
  BY <1>1 DEF Message, Messages

\* Sending and closing keep the types.
LEMMA PutTyped ==
  ASSUME Typed, NEW c \in Clients, NEW m \in Messages,
         m.type \in {"set", "wakeup"} => m.id \in Ids, Put(c, m)
  PROVE  QueueTyped' /\ RepliesTyped'
<1>1. queue \in Seq(Messages) /\ Len(queue) \in Nat
  BY DEF Typed, QueueTyped
<1>2. /\ queue' \in Seq(Messages)
      /\ Len(queue') = Len(queue) \/ (Len(queue') = Len(queue) + 1 /\ queue'[Len(queue')] = m)
      /\ \A i \in DOMAIN queue : queue'[i].type = queue[i].type /\ queue'[i].id = queue[i].id
  BY <1>1, PutFacts DEF Put
<1>3. Len(queue') <= MaxInFlight
  <2>1. Len(Closed(c)) = Len(queue)
    BY <1>1, ClosedFacts
  <2>2. CASE queue' = Closed(c)
    BY <2>1, <2>2 DEF Typed, QueueTyped
  <2>3. CASE Len(queue) < MaxInFlight
    BY <1>1, <1>2, <2>3, MaxInFlightAssumption
  <2> QED
    BY <2>2, <2>3 DEF Put
<1>4. ASSUME NEW i \in DOMAIN queue', queue'[i].type \in {"set", "wakeup"}
      PROVE  queue'[i].id \in Ids
  <2>1. i \in DOMAIN queue \/ (i = Len(queue') /\ queue'[i] = m)
    BY <1>1, <1>2
  <2> QED
    BY <1>2, <1>4, <2>1 DEF Typed, QueueTyped
<1>5. RepliesTyped'
  BY DEF Put, Typed, RepliesTyped
<1> QED
  BY <1>2, <1>3, <1>4, <1>5 DEF QueueTyped

\* A client that sends nothing leaves what is under way as it is, but closed.
LEMMA QuietTyped ==
  ASSUME Typed, NEW c \in Clients, Quiet(c)
  PROVE  QueueTyped' /\ RepliesTyped'
<1>1. queue \in Seq(Messages)
  BY DEF Typed, QueueTyped
<1>2. /\ queue' \in Seq(Messages) /\ Len(queue') = Len(queue) /\ DOMAIN queue' = DOMAIN queue
      /\ \A i \in DOMAIN queue : queue'[i].type = queue[i].type /\ queue'[i].id = queue[i].id
  BY <1>1, ClosedFacts DEF Quiet
<1>3. QueueTyped'
  BY <1>2 DEF Typed, QueueTyped
<1> QED
  BY <1>3 DEF Quiet, Typed, RepliesTyped

\* The run of a client ends.
LEMMA FinishTyped ==
  ASSUME Typed, NEW c \in Clients, NEW how \in Ended, Finish(c, how), UNCHANGED partner_information
  PROVE  Typed'
<1>1. QueueTyped' /\ RepliesTyped'
  BY QuietTyped DEF Finish
<1>2. ClientInv'
  BY DEF Finish, Typed, ClientInv, Waiting, Ended
<1> QED
  BY <1>1, <1>2 DEF Finish, Typed

\* It asks again.
LEMMA RequestTyped ==
  ASSUME Typed, NEW c \in Clients, NEW waiting \in Waiting, step[c] \in Waiting,
         NEW type \in {"get", "get_memory"},
         Request(c, type, waiting), UNCHANGED <<device, partner_id, partner_information>>
  PROVE  Typed'
<1>1. device[c] \in Addresses
  BY DEF Typed, ClientInv
<1>2. Message(c, type, 0) \in Messages /\ Message(c, type, 0).type = type
  <2>1. 0 \in 0..PartnerMax
    BY PartnerMaxAssumption
  <2> QED
    BY <1>1, <2>1, MessageTyped
<1>3. QueueTyped' /\ RepliesTyped'
  BY <1>2, PutTyped DEF Request
<1>4. ClientInv'
  BY <1>1 DEF Request, Typed, ClientInv, Waiting
<1> QED
  BY <1>3, <1>4 DEF Request, Typed

\* Every step of a client keeps the types.
LEMMA ClientTyped ==
  ASSUME Typed, NEW c \in Clients, Client(c)
  PROVE  Typed'
<1>1. ASSUME NEW a \in Devices, Start(c, a) PROVE Typed'
  <2> DEFINE m == [type |-> "get", client |-> c, id |-> 0, address |-> a, live |-> TRUE]
  <2>1. a \in Addresses /\ 0 \in 0..PartnerMax
    BY DevicesAssumption, PartnerMaxAssumption
  <2>2. m \in Messages /\ m.type = "get"
    BY <2>1 DEF Messages
  <2>3. Put(c, m)
    BY <1>1 DEF Start
  <2> HIDE DEF m
  <2>4. QueueTyped' /\ RepliesTyped'
    BY <2>2, <2>3, PutTyped
  <2>5. ClientInv'
    BY <1>1, <2>1 DEF Start, Typed, ClientInv
  <2> QED
    BY <1>1, <2>1, <2>4, <2>5 DEF Start, Typed, Waiting
<1>2. CASE Timeout(c)
  BY <1>2, FinishTyped DEF Timeout, Ended
<1>3. CASE LookedUp(c)
  <2>1. step[c] = "lookup" /\ "lookup" \in Waiting /\ "lookup_again" \in Waiting /\ "raised" \in Ended
    BY <1>3 DEF LookedUp, Answered, Waiting, Ended
  <2>2. CASE Finish(c, "raised")
    BY <1>3, <2>1, <2>2, FinishTyped DEF LookedUp
  <2>3. CASE \E id \in Found(c) : partner_id' = [partner_id EXCEPT ![c] = id]
    <3>1. CASE Quiet(c) /\ step' = [step EXCEPT ![c] = "wake"] /\ UNCHANGED device
      <4>1. PICK id \in Ids : partner_id' = [partner_id EXCEPT ![c] = id]
        BY <2>3 DEF Found
      <4>2. QueueTyped' /\ RepliesTyped'
        BY <3>1, QuietTyped
      <4>3. id \in 0..PartnerMax
        BY PartnerMaxAssumption DEF Ids
      <4>4. ClientInv'
        BY <2>1, <3>1, <4>1 DEF Typed, ClientInv
      <4> QED
        BY <1>3, <3>1, <4>1, <4>2, <4>3, <4>4 DEF LookedUp, Typed
    <3>2. CASE Finish(c, "raised")
      BY <2>2, <3>2
    <3>3. CASE Request(c, "get", "lookup_again") /\ UNCHANGED <<device, partner_id>>
      BY <1>3, <2>1, <3>3, RequestTyped DEF LookedUp
    <3> QED
      BY <1>3, <3>1, <3>2, <3>3 DEF LookedUp
  <2>4. CASE Request(c, "get", "lookup_again") /\ UNCHANGED <<device, partner_id>>
    BY <1>3, <2>1, <2>4, RequestTyped DEF LookedUp
  <2> QED
    BY <1>3, <2>2, <2>3, <2>4 DEF LookedUp
<1>4. CASE LookedUpAgain(c)
  <2>1. step[c] \in Waiting /\ "memory" \in Waiting /\ "raised" \in Ended /\ "refused" \in Ended
    BY <1>4 DEF LookedUpAgain, Answered, Waiting, Ended
  <2> QED
    BY <1>4, <2>1, FinishTyped, RequestTyped DEF LookedUpAgain
<1>5. CASE MemoryRead(c)
  <2>1. step[c] \in Waiting /\ "partners" \in Waiting /\ "refused" \in Ended
    BY <1>5 DEF MemoryRead, Answered, Waiting, Ended
  <2> QED
    BY <1>5, <2>1, FinishTyped, RequestTyped DEF MemoryRead
<1>6. CASE PartnersRead(c)
  <2>1. step[c] \in Waiting /\ "raised" \in Ended
    BY <1>6 DEF PartnersRead, Answered, Waiting, Ended
  <2>2. CASE Finish(c, "raised")
    BY <1>6, <2>1, <2>2, FinishTyped DEF PartnersRead
  <2>3. CASE \E id \in FreeSlots(c) :
               /\ partner_id' = [partner_id EXCEPT ![c] = id]
               /\ Put(c, Message(c, "set", id))
               /\ step' = [step EXCEPT ![c] = "wake"]
               /\ UNCHANGED device
    <3>1. PICK id \in Ids : /\ partner_id' = [partner_id EXCEPT ![c] = id]
                            /\ Put(c, Message(c, "set", id))
                            /\ step' = [step EXCEPT ![c] = "wake"]
                            /\ UNCHANGED device
      BY <2>3 DEF FreeSlots
    <3>2. id \in 0..PartnerMax /\ device[c] \in Addresses
      BY <2>1, PartnerMaxAssumption DEF Ids, Typed, ClientInv
    <3>3. QueueTyped' /\ RepliesTyped'
      BY <3>1, <3>2, MessageTyped, PutTyped
    <3>4. ClientInv'
      BY <3>1, <3>2 DEF Typed, ClientInv
    <3> QED
      BY <1>6, <3>1, <3>2, <3>3, <3>4 DEF PartnersRead, Typed
  <2> QED
    BY <1>6, <2>2, <2>3 DEF PartnersRead
<1>7. CASE Wakeup(c)
  <2>1. partner_id[c] \in Ids /\ partner_id[c] \in 0..PartnerMax /\ device[c] \in Addresses
    BY <1>7 DEF Wakeup, Typed, ClientInv
  <2>2. QueueTyped' /\ RepliesTyped'
    BY <1>7, <2>1, MessageTyped, PutTyped DEF Wakeup
  <2>3. ClientInv'
    BY <1>7 DEF Wakeup, Typed, ClientInv, Waiting
  <2> QED
    BY <1>7, <2>2, <2>3 DEF Wakeup, Typed, Ended
<1> QED
  BY <1>1, <1>2, <1>3, <1>4, <1>5, <1>6, <1>7 DEF Client

\* As many partners are free as there are ids at most.
LEMMA FreeCountTyped ==
  ASSUME NEW table \in Tables
  PROVE  FreeCount(table) \in 0..PartnerMax
<1>1. IsFiniteSet(Ids) /\ Cardinality(Ids) = PartnerMax
  <2>1. 1 \in Int /\ PartnerMax \in Int /\ PartnerMax \in Nat
    BY PartnerMaxAssumption
  <2> QED
    BY <2>1, FS_Interval DEF Ids
<1>2. Used(table) \in SUBSET Ids
  BY DEF Used
<1>3. IsFiniteSet(Used(table)) /\ Cardinality(Used(table)) <= PartnerMax
  BY <1>1, <1>2, FS_Subset
<1>4. Cardinality(Used(table)) \in Nat
  BY <1>3, FS_CardinalityType
<1> QED
  BY <1>3, <1>4, PartnerMaxAssumption DEF FreeCount

\* The oldest message is taken.
LEMMA TailTyped ==
  ASSUME QueueTyped, queue # <<>>, queue' = Tail(queue)
  PROVE  /\ QueueTyped' /\ Head(queue) \in Messages /\ Head(queue) = queue[1]
         /\ Len(queue') = Len(queue) - 1 /\ Len(queue) \in Nat
         /\ \A i \in DOMAIN queue' : i \in Nat /\ i + 1 \in DOMAIN queue /\ queue'[i] = queue[i + 1]
         /\ Head(queue).type \in {"set", "wakeup"} => Head(queue).id \in Ids
<1>1. queue \in Seq(Messages)
  BY DEF QueueTyped
<1>2. /\ queue' \in Seq(Messages) /\ Len(queue') = Len(queue) - 1 /\ Len(queue) \in Nat
      /\ \A i \in DOMAIN queue' : i \in Nat /\ i + 1 \in DOMAIN queue /\ queue'[i] = queue[i + 1]
  BY <1>1
<1>3. Head(queue) \in Messages /\ Head(queue) = queue[1] /\ 1 \in DOMAIN queue
  BY <1>1
<1> QED
  BY <1>1, <1>2, <1>3, MaxInFlightAssumption DEF QueueTyped

\* Every step of the dongle keeps the types.
LEMMA DongleTyped ==
  ASSUME Typed, Dongle
  PROVE  Typed'
<1>1. QueueTyped /\ queue # <<>> /\ queue' = Tail(queue)
  BY DEF Dongle, HandleGet, HandleGetMemory, HandleSet, HandleWakeup, Answer, Incoming, Typed
<1>2. QueueTyped' /\ Head(queue) \in Messages
  BY <1>1, TailTyped
<1>3. Head(queue).client \in Clients /\ Head(queue).address \in Addresses
  BY <1>2 DEF Messages
<1>4. UNCHANGED clientVars => ClientInv'
  BY DEF Typed, clientVars, ClientInv
<1>5. ASSUME NEW answer \in Answers, Answer(answer) PROVE Typed'
  <2>1. RepliesTyped'
    BY <1>3, <1>5 DEF Answer, Typed, RepliesTyped
  <2> QED
    BY <1>2, <1>4, <1>5, <2>1 DEF Answer, Typed, clientVars
<1>6. CASE HandleGet
  <2>1. [partners |-> partner_information, free |-> 0] \in Answers
    BY PartnerMaxAssumption DEF Typed, Answers
  <2> QED
    BY <1>5, <1>6, <2>1 DEF HandleGet
<1>7. CASE HandleGetMemory
  <2>1. [partners |-> [id \in Ids |-> NoPartner], free |-> FreeCount(partner_information)] \in Answers
    BY FreeCountTyped DEF Typed, Answers, Tables
  <2> QED
    BY <1>5, <1>7, <2>1 DEF HandleGetMemory
<1>8. CASE HandleSet
  BY <1>2, <1>3, <1>4, <1>8 DEF HandleSet, SetAddress, Typed, RepliesTyped, clientVars, Tables
<1>9. CASE HandleWakeup
  BY <1>2, <1>4, <1>9 DEF HandleWakeup, SetWakeup, Typed, RepliesTyped, clientVars, Tables
<1> QED
  BY <1>6, <1>7, <1>8, <1>9 DEF Dongle

\* Typed is inductive, whatever the clients do to each other's registrations.
LEMMA TypeStep == Typed /\ [Next]_vars => Typed'
<1> SUFFICES ASSUME Typed, [Next]_vars PROVE Typed'
  OBVIOUS
<1>1. ASSUME NEW c \in Clients, Client(c) PROVE Typed'
  BY <1>1, ClientTyped
<1>2. CASE Dongle
  BY <1>2, DongleTyped
<1>3. CASE Remove
  BY <1>3 DEF Remove, Delete, DeleteAll, Typed, QueueTyped, RepliesTyped, ClientInv, clientVars, Tables
<1>4. CASE UNCHANGED vars
  BY <1>4 DEF vars, Typed, QueueTyped, RepliesTyped, ClientInv, clientVars
<1> QED
  BY <1>1, <1>2, <1>3, <1>4 DEF Next

\* So it holds always.
LEMMA TypedAlways == Spec => []Typed
<1>1. Init => Typed
  BY PartnerMaxAssumption, MaxInFlightAssumption
     DEF Init, TableInit, Typed, Tables, QueueTyped, RepliesTyped, ClientInv, Waiting, Ended
<1> QED
  BY <1>1, TypeStep, PTL DEF Spec

\* However many clients there are, what is sent to change the table is about
\* one of its ids, and a client that sends has an address to send.
THEOREM TypeCorrect == Spec => []TypeOK
<1>1. Typed => TypeOK
  BY TypeParts
<1> QED
  BY <1>1, TypedAlways, PTL

-----------------------------------------------------------------------------
(* One client: its steps *)

\* A step of the client leaves what is under way, closed, and may send m.
Extends(m) ==
  /\ queue \in Seq(Messages) /\ queue' \in Seq(Messages)
  /\ \/ Len(queue') = Len(queue)
     \/ Len(queue') = Len(queue) + 1 /\ queue'[Len(queue')] = m
  /\ \A i \in DOMAIN queue :
       /\ queue'[i].type = queue[i].type /\ queue'[i].id = queue[i].id
       /\ queue'[i].address = queue[i].address /\ ~queue'[i].live

\* All messages are the client's.
LEMMA PutExtends ==
  ASSUME NEW c, Clients = {c}, Typed, NEW m \in Messages, Put(c, m)
  PROVE  Extends(m)
<1>1. queue \in Seq(Messages) /\ Len(queue) \in Nat /\ DOMAIN queue = 1..Len(queue)
  BY DEF Typed, QueueTyped
<1>2. \A i \in DOMAIN queue : queue[i].client = c
  <2>1. \A i \in DOMAIN queue : queue[i] \in Messages
    BY <1>1
  <2> QED
    BY <2>1 DEF Messages
<1>3. /\ queue' \in Seq(Messages)
      /\ Len(queue') = Len(queue) \/ (Len(queue') = Len(queue) + 1 /\ queue'[Len(queue')] = m)
      /\ \A i \in DOMAIN queue :
           /\ queue'[i].type = queue[i].type /\ queue'[i].id = queue[i].id
           /\ queue'[i].address = queue[i].address
           /\ queue'[i].live => queue[i].client # c
  BY <1>1, PutFacts DEF Put
<1> QED
  BY <1>1, <1>2, <1>3 DEF Extends

\* So it extends the queue by nothing.
LEMMA QuietExtends ==
  ASSUME NEW c, Clients = {c}, Typed, Quiet(c), NEW m
  PROVE  Extends(m)
<1>1. queue \in Seq(Messages) /\ Len(queue) \in Nat /\ DOMAIN queue = 1..Len(queue)
  BY DEF Typed, QueueTyped
<1>2. \A i \in DOMAIN queue : queue[i].client = c
  <2>1. \A i \in DOMAIN queue : queue[i] \in Messages
    BY <1>1
  <2> QED
    BY <2>1 DEF Messages
<1>3. /\ queue' \in Seq(Messages) /\ Len(queue') = Len(queue)
      /\ \A i \in DOMAIN queue :
           /\ queue'[i].type = queue[i].type /\ queue'[i].id = queue[i].id
           /\ queue'[i].address = queue[i].address
           /\ queue'[i].live => queue[i].client # c
  BY <1>1, ClosedFacts DEF Quiet
<1> QED
  BY <1>1, <1>2, <1>3 DEF Extends

\* The client asks for the partners to look its device up, or stops.
LEMMA LookOrStop ==
  ASSUME NEW c, Clients = {c}, Typed, RegistrationInv, NEW m, Extends(m), m.type = "get",
         m.live => step'[c] \in {"lookup", "lookup_again"},
         step'[c] \notin {"memory", "partners", "wake"},
         reply' = [reply EXCEPT ![c] = NoReply], UNCHANGED partner_information
  PROVE  RegistrationInv'
<1>1. reply'[c] = NoReply
  BY DEF Typed, RepliesTyped
<1>a. /\ queue \in Seq(Messages) /\ queue' \in Seq(Messages)
      /\ \/ Len(queue') = Len(queue)
         \/ Len(queue') = Len(queue) + 1 /\ queue'[Len(queue')] = m
  BY DEF Extends
<1>2. \A i \in DOMAIN queue' :
        \/ /\ i \in DOMAIN queue /\ queue'[i].type = queue[i].type /\ queue'[i].id = queue[i].id
           /\ queue'[i].address = queue[i].address /\ ~queue'[i].live
        \/ i = Len(queue') /\ queue'[i] = m
  <2>1. ASSUME NEW i \in DOMAIN queue', i \notin DOMAIN queue
        PROVE  i = Len(queue') /\ queue'[i] = m
    BY <1>a, <2>1
  <2>2. ASSUME NEW i \in DOMAIN queue
        PROVE  /\ queue'[i].type = queue[i].type /\ queue'[i].id = queue[i].id
               /\ queue'[i].address = queue[i].address /\ ~queue'[i].live
    BY <2>2 DEF Extends
  <2> QED
    BY <2>1, <2>2
<1>3. NewestIsAsked'
  BY <1>1, <1>2 DEF NewestIsAsked, Waiting
<1>4. AnswerIsCurrent'
  BY <1>1 DEF AnswerIsCurrent
<1>5. RegistersNew'
  BY <1>2 DEF RegistrationInv, RegistersNew
<1>6. WakesRegistered'
  <2>1. ASSUME NEW i \in DOMAIN queue', queue'[i].type = "wakeup"
        PROVE  \/ i = 1 /\ OwnId(queue'[i].id, queue'[i].address)
               \/ /\ i = 2 /\ queue'[1].type = "set"
                  /\ queue'[1].id = queue'[2].id /\ queue'[1].address = queue'[2].address
    <3>1. /\ i \in DOMAIN queue /\ queue[i].type = "wakeup" /\ queue'[i].id = queue[i].id
          /\ queue'[i].address = queue[i].address
      BY <1>2, <2>1
    <3>2. CASE i = 1 /\ OwnId(queue[i].id, queue[i].address)
      BY <3>1, <3>2 DEF OwnId
    <3>3. CASE /\ i = 2 /\ queue[1].type = "set"
               /\ queue[1].id = queue[2].id /\ queue[1].address = queue[2].address
      <4>1. 1 \in DOMAIN queue
        BY <1>a, <3>1, <3>3
      <4>2. queue'[1].type = queue[1].type /\ queue'[1].id = queue[1].id /\ queue'[1].address = queue[1].address
        BY <4>1 DEF Extends
      <4> QED
        BY <3>1, <3>3, <4>2
    <3> QED
      BY <3>1, <3>2, <3>3 DEF RegistrationInv, WakesRegistered
  <2> QED
    BY <2>1 DEF WakesRegistered, OwnId
<1>7. OneIdPerAddress'
  BY DEF RegistrationInv, OneIdPerAddress
<1> QED
  BY <1>3, <1>4, <1>5, <1>6, <1>7 DEF RegistrationInv

\* A run that ends takes nothing back.
LEMMA FinishKeeps ==
  ASSUME NEW c, Clients = {c}, Typed, RegistrationInv, NEW how \in Ended, Finish(c, how),
         UNCHANGED partner_information
  PROVE  RegistrationInv'
<1> DEFINE m == [type |-> "get", live |-> FALSE]
<1>1. Extends(m)
  BY QuietExtends DEF Finish
<1>2. m.type = "get" /\ ~m.live
  OBVIOUS
<1>3. step'[c] = how
  BY DEF Finish, Typed
<1>4. step'[c] \notin {"memory", "partners", "wake"}
  BY <1>3 DEF Ended
<1> HIDE DEF m
<1> QED
  BY <1>1, <1>2, <1>4, LookOrStop DEF Finish, Quiet

\* Nothing was under way when the client asks about a device that is not there.
LEMMA AskNew ==
  ASSUME NEW c, Clients = {c}, Typed, RegistrationInv, queue = <<>>,
         \A id \in Ids : partner_information[id] # device[c],
         NEW type \in {"get", "get_memory"}, NEW waiting \in {"memory", "partners"},
         waiting = "memory" <=> type = "get_memory",
         Request(c, type, waiting), device[c] \in Addresses,
         UNCHANGED <<device, partner_id, partner_information>>
  PROVE  RegistrationInv'
<1> DEFINE m == Message(c, type, 0)
<1>1. m \in Messages /\ m.type = type
  BY MessageTyped, PartnerMaxAssumption
<1>2. Extends(m)
  BY <1>1, PutExtends DEF Request
<1> HIDE DEF m
<1>3. DOMAIN queue' = 1..Len(queue') /\ \A i \in DOMAIN queue' : i = Len(queue') /\ i = 1 /\ queue'[i] = m
  BY <1>2 DEF Extends
<1>4. step'[c] = waiting /\ reply'[c] = NoReply
  BY DEF Request, Put, Typed, RepliesTyped
<1>5. NewestIsAsked'
  BY <1>1, <1>3, <1>4 DEF NewestIsAsked, Waiting
<1>6. AnswerIsCurrent'
  BY <1>4 DEF AnswerIsCurrent
<1>7. RegistersNew'
  BY <1>1, <1>3 DEF RegistersNew
<1>8. WakesRegistered'
  BY <1>1, <1>3, <1>4 DEF WakesRegistered
<1>9. OneIdPerAddress'
  BY DEF RegistrationInv, OneIdPerAddress
<1> QED
  BY <1>5, <1>6, <1>7, <1>8, <1>9 DEF RegistrationInv

\* An answer that is there: the dongle has nothing else to do.
LEMMA AnsweredFacts ==
  ASSUME NEW c, Clients = {c}, Typed, RegistrationInv, NEW waiting \in Waiting, Answered(c, waiting)
  PROVE  /\ queue = <<>> /\ device[c] \in Addresses
         /\ waiting # "memory" =>
              \A id \in Ids : partner_information[id] \in {reply[c].partners[id], NoPartner}
         /\ waiting = "partners" => \A id \in Ids : partner_information[id] # device[c]
         /\ waiting \in {"lookup", "lookup_again"} /\ Found(c) = {} =>
              \A id \in Ids : partner_information[id] # device[c]
         /\ waiting = "memory" => \A id \in Ids : partner_information[id] # device[c]
<1>1. step[c] = waiting /\ reply[c] # NoReply
  BY DEF Answered
<1>2. queue = <<>> /\ device[c] \in Addresses
  BY <1>1 DEF RegistrationInv, AnswerIsCurrent, Typed, ClientInv
<1>3. waiting # "memory" =>
        \A id \in Ids : partner_information[id] \in {reply[c].partners[id], NoPartner}
  BY <1>1 DEF RegistrationInv, AnswerIsCurrent
<1>4. waiting \in {"memory", "partners"} => \A id \in Ids : partner_information[id] # device[c]
  BY <1>1 DEF RegistrationInv, RegistersNew
<1> QED
  BY <1>2, <1>3, <1>4, NoPartnerAssumption DEF Found

\* A client that has the id of its device and sends nothing, or registers it.
LEMMA ToWake ==
  ASSUME NEW c, Clients = {c}, Typed, RegistrationInv, queue = <<>>, reply' = [reply EXCEPT ![c] = NoReply],
         step' = [step EXCEPT ![c] = "wake"], UNCHANGED <<device, partner_information>>,
         NEW id \in Ids, partner_id' = [partner_id EXCEPT ![c] = id],
         \/ queue' = <<>> /\ OwnId(id, device[c])
         \/ /\ Len(queue') = 1 /\ queue' \in Seq(Messages)
            /\ queue'[1].type = "set" /\ queue'[1].id = id
            /\ queue'[1].address = device[c] /\ ~queue'[1].live
            /\ partner_information[id] = NoPartner
            /\ \A j \in Ids : partner_information[j] # device[c]
  PROVE  RegistrationInv'
<1>1. step'[c] = "wake" /\ reply'[c] = NoReply /\ partner_id'[c] = id
  BY DEF Typed, RepliesTyped
<1>2. \A i \in DOMAIN queue' : i = 1
  OBVIOUS
<1>3. NewestIsAsked'
  BY <1>2 DEF NewestIsAsked
<1>4. AnswerIsCurrent'
  BY <1>1 DEF AnswerIsCurrent
<1>5. RegistersNew'
  BY <1>1, <1>2 DEF RegistersNew
<1>6. WakesRegistered'
  BY <1>1, <1>2 DEF WakesRegistered, OwnId
<1>7. OneIdPerAddress'
  BY DEF RegistrationInv, OneIdPerAddress
<1> QED
  BY <1>3, <1>4, <1>5, <1>6, <1>7 DEF RegistrationInv

\* With nothing under way a message is alone, or lost.
LEMMA PutAlone ==
  ASSUME NEW c, Clients = {c}, Typed, queue = <<>>, NEW m \in Messages, Put(c, m)
  PROVE  /\ queue' \in Seq(Messages)
         /\ queue' = <<>> \/ (Len(queue') = 1 /\ queue'[1] = m)
<1>1. Extends(m)
  BY PutExtends
<1> QED
  BY <1>1 DEF Extends

\* Every step of the client keeps the table in order for the next ones.
LEMMA ClientKeeps ==
  ASSUME NEW c, Clients = {c}, Typed, RegistrationInv, Client(c)
  PROVE  RegistrationInv'
<1>1. ASSUME NEW a \in Devices, Start(c, a) PROVE RegistrationInv'
  <2> DEFINE m == [type |-> "get", client |-> c, id |-> 0, address |-> a, live |-> TRUE]
  <2>1. a \in Addresses /\ 0 \in 0..PartnerMax
    BY DevicesAssumption, PartnerMaxAssumption
  <2>2. m \in Messages /\ m.type = "get"
    BY <2>1 DEF Messages
  <2>3. Put(c, m) /\ reply' = [reply EXCEPT ![c] = NoReply]
    BY <1>1 DEF Start, Put
  <2>4. step'[c] = "lookup" /\ UNCHANGED partner_information
    BY <1>1 DEF Start, Typed
  <2> HIDE DEF m
  <2>5. Extends(m)
    BY <2>2, <2>3, PutExtends
  <2> QED
    BY <2>2, <2>3, <2>4, <2>5, LookOrStop
<1>2. CASE Timeout(c)
  BY <1>2, FinishKeeps DEF Timeout, Ended
<1>3. CASE LookedUp(c)
  <2>1. Answered(c, "lookup") /\ "lookup" \in Waiting /\ "raised" \in Ended /\ UNCHANGED partner_information
    BY <1>3 DEF LookedUp, Waiting, Ended
  <2>2. /\ queue = <<>> /\ device[c] \in Addresses
        /\ \A id \in Ids : partner_information[id] \in {reply[c].partners[id], NoPartner}
    BY <2>1, AnsweredFacts
  <2>3. CASE Finish(c, "raised")
    BY <2>1, <2>3, FinishKeeps
  <2>4. CASE /\ \E id \in Found(c) : partner_id' = [partner_id EXCEPT ![c] = id]
             /\ Quiet(c)
             /\ step' = [step EXCEPT ![c] = "wake"]
             /\ UNCHANGED device
    <3>1. PICK id \in Found(c) : partner_id' = [partner_id EXCEPT ![c] = id]
      BY <2>4
    <3>2. id \in Ids /\ reply[c].partners[id] = device[c]
      BY <3>1 DEF Found
    <3>3. OwnId(id, device[c])
      BY <2>2, <3>2 DEF OwnId
    <3>4. queue' = <<>> /\ reply' = [reply EXCEPT ![c] = NoReply]
      BY <2>2, <2>4 DEF Quiet, Closed
    <3> QED
      BY <2>1, <2>2, <2>4, <3>1, <3>2, <3>3, <3>4, ToWake
  <2>5. CASE Request(c, "get", "lookup_again") /\ UNCHANGED <<device, partner_id>>
    <3> DEFINE m == Message(c, "get", 0)
    <3>1. m \in Messages /\ m.type = "get"
      BY <2>2, MessageTyped, PartnerMaxAssumption
    <3>2. Extends(m) /\ reply' = [reply EXCEPT ![c] = NoReply]
      BY <2>5, <3>1, PutExtends DEF Request, Put
    <3>3. step'[c] = "lookup_again"
      BY <2>5 DEF Request, Typed
    <3> HIDE DEF m
    <3> QED
      BY <2>1, <3>1, <3>2, <3>3, LookOrStop
  <2> QED
    BY <1>3, <2>3, <2>4, <2>5 DEF LookedUp
<1>4. CASE LookedUpAgain(c)
  <2>1. /\ Answered(c, "lookup_again") /\ "lookup_again" \in Waiting /\ "raised" \in Ended
        /\ "refused" \in Ended /\ UNCHANGED partner_information
    BY <1>4 DEF LookedUpAgain, Waiting, Ended
  <2>2. CASE Finish(c, "raised") \/ Finish(c, "refused")
    BY <2>1, <2>2, FinishKeeps
  <2>3. CASE Found(c) = {} /\ Request(c, "get_memory", "memory") /\ UNCHANGED <<device, partner_id>>
    BY <2>1, <2>3, AnsweredFacts, AskNew
  <2> QED
    BY <1>4, <2>2, <2>3 DEF LookedUpAgain
<1>5. CASE MemoryRead(c)
  <2>1. Answered(c, "memory") /\ "memory" \in Waiting /\ "refused" \in Ended /\ UNCHANGED partner_information
    BY <1>5 DEF MemoryRead, Waiting, Ended
  <2>2. CASE Finish(c, "refused")
    BY <2>1, <2>2, FinishKeeps
  <2>3. CASE Request(c, "get", "partners") /\ UNCHANGED <<device, partner_id>>
    BY <2>1, <2>3, AnsweredFacts, AskNew
  <2> QED
    BY <1>5, <2>2, <2>3 DEF MemoryRead
<1>6. CASE PartnersRead(c)
  <2>1. Answered(c, "partners") /\ "partners" \in Waiting /\ "raised" \in Ended /\ UNCHANGED partner_information
    BY <1>6 DEF PartnersRead, Waiting, Ended
  <2>2. /\ queue = <<>> /\ device[c] \in Addresses
        /\ \A id \in Ids : partner_information[id] \in {reply[c].partners[id], NoPartner}
        /\ \A id \in Ids : partner_information[id] # device[c]
    BY <2>1, AnsweredFacts
  <2>3. CASE Finish(c, "raised")
    BY <2>1, <2>3, FinishKeeps
  <2>4. CASE \E id \in FreeSlots(c) :
               /\ partner_id' = [partner_id EXCEPT ![c] = id]
               /\ Put(c, Message(c, "set", id))
               /\ step' = [step EXCEPT ![c] = "wake"]
               /\ UNCHANGED device
    <3>1. PICK id \in FreeSlots(c) : /\ partner_id' = [partner_id EXCEPT ![c] = id]
                                     /\ Put(c, Message(c, "set", id))
                                     /\ step' = [step EXCEPT ![c] = "wake"]
                                     /\ UNCHANGED device
      BY <2>4
    <3>2. id \in Ids /\ id \in 0..PartnerMax /\ partner_information[id] = NoPartner
      BY <2>2, PartnerMaxAssumption DEF FreeSlots, Used, Ids
    <3> DEFINE m == Message(c, "set", id)
    <3>3. m \in Messages /\ m.type = "set" /\ m.id = id /\ m.address = device[c] /\ ~m.live
      BY <2>2, <3>2, MessageTyped
    <3>4. OwnId(id, device[c])
      BY <3>2 DEF OwnId
    <3>5. reply' = [reply EXCEPT ![c] = NoReply]
      BY <3>1 DEF Put
    <3>6. Put(c, m)
      BY <3>1
    <3> HIDE DEF m
    <3>7. queue' \in Seq(Messages) /\ (queue' = <<>> \/ (Len(queue') = 1 /\ queue'[1] = m))
      BY <2>2, <3>3, <3>6, PutAlone
    <3> QED
      BY <2>1, <2>2, <3>1, <3>2, <3>3, <3>4, <3>5, <3>7, ToWake
  <2> QED
    BY <1>6, <2>3, <2>4 DEF PartnersRead
<1>7. CASE Wakeup(c)
  <2> DEFINE m == Message(c, "wakeup", partner_id[c])
  <2>1. /\ step[c] = "wake" /\ partner_id[c] \in 0..PartnerMax /\ device[c] \in Addresses
        /\ UNCHANGED <<device, partner_id, partner_information>>
    BY <1>7 DEF Wakeup, Typed, ClientInv
  <2>2. /\ m \in Messages /\ m.type = "wakeup" /\ m.id = partner_id[c] /\ m.address = device[c] /\ ~m.live
    BY <2>1, MessageTyped
  <2>3. Extends(m)
    BY <1>7, <2>2, PutExtends DEF Wakeup
  <2>4. step'[c] = "awake" /\ reply'[c] = NoReply
    BY <1>7 DEF Wakeup, Put, Typed, RepliesTyped
  <2>5. \/ queue = <<>> /\ OwnId(m.id, m.address)
        \/ /\ Len(queue) = 1 /\ queue[1].type = "set"
           /\ queue[1].id = m.id /\ queue[1].address = m.address
    BY <2>1, <2>2 DEF RegistrationInv, WakesRegistered
  <2> HIDE DEF m
  <2>6. \A i \in DOMAIN queue' :
          \/ /\ i = 1 /\ i \in DOMAIN queue /\ queue[1].type = "set"
             /\ queue'[1].type = "set" /\ queue'[1].id = queue[1].id
             /\ queue'[1].address = queue[1].address /\ ~queue'[1].live
          \/ i = 1 /\ queue = <<>> /\ queue'[1] = m
          \/ /\ i = 2 /\ queue'[2] = m /\ queue'[1].type = "set" /\ queue'[1].id = m.id
             /\ queue'[1].address = m.address
    BY <2>3, <2>5 DEF Extends
  <2>7. NewestIsAsked'
    BY <2>2, <2>6 DEF NewestIsAsked
  <2>8. AnswerIsCurrent'
    BY <2>4 DEF AnswerIsCurrent
  <2>9. RegistersNew'
    BY <2>1, <2>2, <2>4, <2>5, <2>6 DEF RegistrationInv, RegistersNew
  <2>10. WakesRegistered'
    BY <2>1, <2>2, <2>4, <2>5, <2>6 DEF WakesRegistered, OwnId
  <2>11. OneIdPerAddress'
    BY <2>1 DEF RegistrationInv, OneIdPerAddress
  <2> QED
    BY <2>7, <2>8, <2>9, <2>10, <2>11 DEF RegistrationInv
<1> QED
  BY <1>1, <1>2, <1>3, <1>4, <1>5, <1>6, <1>7 DEF Client

-----------------------------------------------------------------------------
(* One client: the dongle *)

\* The oldest message has no other one that changes the table before it.
LEMMA HeadFacts ==
  ASSUME NEW c, Clients = {c}, Typed, RegistrationInv, queue # <<>>
  PROVE  LET m == Head(queue) IN
         /\ m \in Messages /\ m.client = c /\ reply[c] = NoReply
         /\ m.type \in {"set", "wakeup"} => m.id \in Ids /\ step[c] \notin {"memory", "partners"}
         /\ m.type = "set" => /\ partner_information[m.id] = NoPartner
                              /\ \A id \in Ids : partner_information[id] # m.address
         /\ m.type = "wakeup" => OwnId(m.id, m.address)
<1>1. queue \in Seq(Messages) /\ Head(queue) = queue[1] /\ 1 \in DOMAIN queue
  BY DEF Typed, QueueTyped
<1>2. queue[1] \in Messages /\ queue[1].client = c
  <2>1. queue[1] \in Messages
    BY <1>1
  <2> QED
    BY <2>1 DEF Messages
<1>3. reply[c] = NoReply
  BY DEF RegistrationInv, AnswerIsCurrent
<1>4. queue[1].type \in {"set", "wakeup"} => queue[1].id \in Ids /\ step[c] \notin {"memory", "partners"}
  BY <1>1 DEF Typed, QueueTyped, RegistrationInv, RegistersNew
<1>5. queue[1].type = "set" => /\ partner_information[queue[1].id] = NoPartner
                               /\ \A id \in Ids : partner_information[id] # queue[1].address
  BY <1>1 DEF RegistrationInv, RegistersNew
<1>6. queue[1].type = "wakeup" => OwnId(queue[1].id, queue[1].address)
  BY <1>1 DEF RegistrationInv, WakesRegistered
<1> QED
  BY <1>1, <1>2, <1>3, <1>4, <1>5, <1>6

\* A request is handled: its answer, if it arrives, is what the table is now.
LEMMA AnswerKeeps ==
  ASSUME NEW c, Clients = {c}, Typed, RegistrationInv, HandleGet \/ HandleGetMemory
  PROVE  RegistrationInv'
<1>0. PICK answer : /\ Head(queue).type = "get" => answer.partners = partner_information
                    /\ Answer(answer)
  <2>1. CASE HandleGet
    BY <2>1 DEF HandleGet
  <2>2. CASE HandleGetMemory
    BY <2>2 DEF HandleGetMemory, Incoming
  <2> QED
    BY <2>1, <2>2
<1>a. queue # <<>> /\ Head(queue).type \in {"get", "get_memory"}
  BY DEF HandleGet, HandleGetMemory, Incoming
<1>1. /\ queue' = Tail(queue) /\ UNCHANGED <<partner_information, step, device, partner_id>>
      /\ Head(queue).client = c
  BY <1>0, <1>a, HeadFacts DEF Answer, clientVars
<1>2. /\ queue \in Seq(Messages) /\ queue' \in Seq(Messages) /\ 1 \in DOMAIN queue
      /\ queue[1] = Head(queue)
      /\ Len(queue') = Len(queue) - 1 /\ Len(queue) \in Nat
      /\ \A i \in DOMAIN queue' : i \in Nat /\ i >= 1 /\ i + 1 \in DOMAIN queue /\ queue'[i] = queue[i + 1]
  BY <1>1, <1>a DEF Typed, QueueTyped
<1>3. \A i \in DOMAIN queue' : queue'[i].type \in {"get", "get_memory"}
  <2>1. SUFFICES ASSUME NEW i \in DOMAIN queue', queue'[i].type \notin {"get", "get_memory"} PROVE FALSE
    OBVIOUS
  <2>2. i + 1 \in DOMAIN queue /\ i + 1 # 1 /\ queue[i + 1].type \in {"set", "wakeup"}
    <3>1. i + 1 \in DOMAIN queue /\ queue[i + 1] \in Messages /\ queue'[i] = queue[i + 1]
      BY <1>2
    <3> QED
      BY <1>2, <2>1, <3>1 DEF Messages
  <2> QED
    BY <1>2, <1>a, <2>2 DEF RegistrationInv, RegistersNew, WakesRegistered
<1>4. CASE UNCHANGED reply
  <2>1. NewestIsAsked'
    BY <1>1, <1>2, <1>4 DEF RegistrationInv, NewestIsAsked
  <2>2. AnswerIsCurrent'
    BY <1>4, <1>a, HeadFacts DEF AnswerIsCurrent
  <2>3. RegistersNew' /\ WakesRegistered' /\ OneIdPerAddress'
    <3>1. step[c] # "wake"
      BY <1>2, <1>a DEF RegistrationInv, WakesRegistered
    <3> QED
      BY <1>1, <1>3, <3>1 DEF RegistrationInv, RegistersNew, WakesRegistered, OneIdPerAddress
  <2> QED
    BY <2>1, <2>2, <2>3 DEF RegistrationInv
<1>5. CASE queue[1].live /\ reply' = [reply EXCEPT ![c] = answer]
  <2>1. Len(queue) = 1 /\ step[c] \in Waiting /\ queue[1].type = IF step[c] = "memory" THEN "get_memory" ELSE "get"
    BY <1>2, <1>5 DEF RegistrationInv, NewestIsAsked
  <2>2. queue' = <<>> /\ DOMAIN queue' = {}
    BY <1>2, <2>1
  <2>3. NewestIsAsked'
    BY <2>2 DEF NewestIsAsked
  <2>4. AnswerIsCurrent'
    BY <1>0, <1>1, <1>2, <1>5, <2>1, <2>2 DEF AnswerIsCurrent, Typed, RepliesTyped
  <2>5. RegistersNew' /\ WakesRegistered' /\ OneIdPerAddress'
    BY <1>1, <2>1, <2>2 DEF RegistrationInv, RegistersNew, WakesRegistered, OneIdPerAddress, Waiting
  <2> QED
    BY <2>3, <2>4, <2>5 DEF RegistrationInv
<1> QED
  BY <1>0, <1>1, <1>2, <1>4, <1>5 DEF Answer

\* A partner is registered or changed as the client meant it, in an empty queue
\* but for the wakeup of the same device.
LEMMA ChangeKeeps ==
  ASSUME NEW c, Clients = {c}, Typed, RegistrationInv, HandleSet \/ HandleWakeup
  PROVE  RegistrationInv'
<1> PICK m : m = Head(queue)
  OBVIOUS
<1>1. /\ queue' = Tail(queue) /\ queue # <<>> /\ UNCHANGED <<reply, step, device, partner_id>>
      /\ m.type \in {"set", "wakeup"}
  BY DEF HandleSet, HandleWakeup, Incoming, clientVars
<1>2. /\ queue \in Seq(Messages) /\ queue' \in Seq(Messages) /\ 1 \in DOMAIN queue /\ queue[1] = m
      /\ Len(queue') = Len(queue) - 1 /\ Len(queue) \in Nat
      /\ \A i \in DOMAIN queue' : i \in Nat /\ i >= 1 /\ i + 1 \in DOMAIN queue /\ queue'[i] = queue[i + 1]
  BY <1>1 DEF Typed, QueueTyped
<1>3. m.id \in Ids /\ reply[c] = NoReply /\ step[c] \notin {"memory", "partners"}
  BY <1>1, HeadFacts
<1>4. \/ /\ m.type = "set" /\ partner_information' = [partner_information EXCEPT ![m.id] = m.address]
         /\ partner_information[m.id] = NoPartner
         /\ \A id \in Ids : partner_information[id] # m.address
      \/ /\ m.type = "wakeup" /\ OwnId(m.id, m.address)
         /\ \/ partner_information' = partner_information
            \/ /\ partner_information[m.id] = NoPartner
               /\ partner_information' = [partner_information EXCEPT ![m.id] = NoAddress]
  BY <1>1, HeadFacts DEF HandleSet, HandleWakeup, SetAddress, SetWakeup, Incoming, Typed, Tables
<1>5. \A i \in DOMAIN queue' :
        \/ queue'[i].type \in {"get", "get_memory"}
        \/ /\ i = 1 /\ queue'[i].type = "wakeup" /\ m.type = "set"
           /\ queue'[i].id = m.id /\ queue'[i].address = m.address
  <2>1. SUFFICES ASSUME NEW i \in DOMAIN queue', queue'[i].type \notin {"get", "get_memory"}
                 PROVE  /\ i = 1 /\ queue'[i].type = "wakeup" /\ m.type = "set"
                        /\ queue'[i].id = m.id /\ queue'[i].address = m.address
    OBVIOUS
  <2>2. /\ i + 1 \in DOMAIN queue /\ i + 1 # 1 /\ i \in Nat /\ queue'[i] = queue[i + 1]
        /\ queue[i + 1].type \in {"set", "wakeup"}
    <3>1. i + 1 \in DOMAIN queue /\ queue[i + 1] \in Messages /\ queue'[i] = queue[i + 1]
      BY <1>2
    <3> QED
      BY <1>2, <2>1, <3>1 DEF Messages
  <2>3. queue[i + 1].type = "wakeup"
    BY <2>2 DEF RegistrationInv, RegistersNew
  <2>4. /\ i + 1 = 2 /\ queue[1].type = "set"
        /\ queue[1].id = queue[2].id /\ queue[1].address = queue[2].address
    BY <2>2, <2>3 DEF RegistrationInv, WakesRegistered
  <2> QED
    BY <1>2, <2>2, <2>3, <2>4
<1>6. NewestIsAsked'
  BY <1>1, <1>2 DEF RegistrationInv, NewestIsAsked
<1>7. AnswerIsCurrent'
  BY <1>1, <1>3 DEF AnswerIsCurrent
<1>8. RegistersNew'
  BY <1>1, <1>3, <1>5 DEF RegistersNew
<1>9. m.type = "set" => partner_information'[m.id] = m.address
  BY <1>3, <1>4 DEF Typed, Tables
<1>10. WakesRegistered'
  <2>1. ASSUME NEW i \in DOMAIN queue', queue'[i].type = "wakeup"
        PROVE  i = 1 /\ partner_information'[queue'[i].id] = queue'[i].address
    BY <1>5, <1>9, <2>1 DEF OwnId
  <2>2. ASSUME step[c] = "wake" PROVE queue' = <<>> /\ OwnId(partner_id[c], device[c])'
    <3>1. /\ Len(queue) = 1 /\ queue[1].type = "set"
          /\ queue[1].id = partner_id[c] /\ queue[1].address = device[c]
      BY <1>1, <2>2 DEF RegistrationInv, WakesRegistered
    <3> QED
      BY <1>1, <1>2, <1>9, <3>1 DEF OwnId
  <2> QED
    BY <1>1, <2>1, <2>2 DEF WakesRegistered, OwnId
<1>11. OneIdPerAddress'
  BY <1>3, <1>4, NoPartnerAssumption DEF RegistrationInv, OneIdPerAddress, Typed, Tables
<1> QED
  BY <1>6, <1>7, <1>8, <1>10, <1>11 DEF RegistrationInv

\* Partners that are removed are nobody's.
LEMMA RemoveKeeps ==
  ASSUME NEW c, Clients = {c}, Typed, RegistrationInv, Remove
  PROVE  RegistrationInv'
<1>1. /\ UNCHANGED <<queue, reply, step, device, partner_id>>
      /\ \A id \in Ids : partner_information'[id] \in {partner_information[id], NoPartner}
  BY DEF Remove, Delete, DeleteAll, clientVars, Typed, Tables
<1>2. NewestIsAsked' /\ AnswerIsCurrent'
  BY <1>1 DEF RegistrationInv, NewestIsAsked, AnswerIsCurrent
<1>3. \A i \in DOMAIN queue : queue[i].type \in {"set", "wakeup"} => queue[i].id \in Ids
  BY DEF Typed, QueueTyped
<1>4. \A i \in DOMAIN queue : queue[i].address \in Addresses
  <2>1. \A i \in DOMAIN queue : queue[i] \in Messages
    BY DEF Typed, QueueTyped
  <2> QED
    BY <2>1 DEF Messages
<1>5. step[c] \in Waiting \cup {"wake"} => device[c] \in Addresses
  BY DEF Typed, ClientInv
<1>6. RegistersNew'
  BY <1>1, <1>3, <1>4, <1>5, NoPartnerAssumption DEF RegistrationInv, RegistersNew, Waiting
<1>7. WakesRegistered'
  <2>1. ASSUME NEW id \in Ids, NEW a, OwnId(id, a) PROVE OwnId(id, a)'
    BY <1>1, <2>1 DEF OwnId
  <2>2. step[c] = "wake" => partner_id[c] \in Ids
    BY DEF Typed, ClientInv
  <2>3. ASSUME NEW i \in DOMAIN queue, queue[i].type = "wakeup", OwnId(queue[i].id, queue[i].address)
        PROVE  OwnId(queue[i].id, queue[i].address)'
    BY <1>1, <1>3, <2>3 DEF OwnId
  <2>4. step[c] = "wake" /\ OwnId(partner_id[c], device[c]) => OwnId(partner_id[c], device[c])'
    BY <1>1, <2>2 DEF OwnId
  <2> QED
    BY <1>1, <2>3, <2>4 DEF RegistrationInv, WakesRegistered
<1>8. OneIdPerAddress'
  BY <1>1, NoPartnerAssumption DEF RegistrationInv, OneIdPerAddress
<1> QED
  BY <1>2, <1>6, <1>7, <1>8 DEF RegistrationInv

-----------------------------------------------------------------------------
(* One client: the theorems *)

\* RegistrationInv is inductive for a client that is alone.
LEMMA RegistrationStep ==
  ASSUME NEW c, Clients = {c}, Typed, RegistrationInv, [Next]_vars
  PROVE  RegistrationInv'
<1>1. CASE Client(c)
  BY <1>1, ClientKeeps
<1>2. CASE HandleGet \/ HandleGetMemory
  BY <1>2, AnswerKeeps
<1>4. CASE HandleSet \/ HandleWakeup
  BY <1>4, ChangeKeeps
<1>5. CASE Remove
  BY <1>5, RemoveKeeps
<1>6. CASE UNCHANGED vars
  BY <1>6 DEF vars, clientVars, RegistrationInv, NewestIsAsked, AnswerIsCurrent, RegistersNew,
              WakesRegistered, OwnId, OneIdPerAddress
<1> QED
  BY <1>1, <1>2, <1>4, <1>5, <1>6 DEF Next, Dongle

\* What RegistrationInv says of the table, the queue and the answer holds always.
THEOREM RegistrationSafe ==
  ASSUME NEW c, Clients = {c}
  PROVE  Spec => []RegistrationInv
<1>1. Init => RegistrationInv
  BY NoPartnerAssumption
     DEF Init, TableInit, Tables, Used, RegistrationInv, NewestIsAsked, AnswerIsCurrent, RegistersNew,
         WakesRegistered, OneIdPerAddress
<1>2. Typed /\ RegistrationInv /\ [Next]_vars => RegistrationInv'
  BY RegistrationStep
<1> QED
  BY <1>1, <1>2, TypedAlways, PTL DEF Spec

\* A device is never registered twice, however many ids the dongle has and
\* whatever was lost, late or removed.
THEOREM OneId ==
  ASSUME NEW c, Clients = {c}
  PROVE  Spec => []OneIdPerAddress
<1>1. RegistrationInv => OneIdPerAddress
  BY DEF RegistrationInv
<1> QED
  BY <1>1, RegistrationSafe, PTL

\* A registration never takes the id of another device.
THEOREM KeepsAddresses ==
  ASSUME NEW c, Clients = {c}
  PROVE  Spec => AddressesStay
<1>1. ASSUME Typed, RegistrationInv, [Next]_vars
      PROVE  [\A id \in Ids : partner_information[id] \in Addresses =>
                partner_information'[id] \in {partner_information[id], NoPartner}]_vars
  <2>1. SUFFICES ASSUME NEW id \in Ids, partner_information[id] \in Addresses,
                        partner_information' # partner_information
                 PROVE  partner_information'[id] \in {partner_information[id], NoPartner}
    OBVIOUS
  <2>2. CASE Client(c)
    BY <2>1, <2>2 DEF Client, Start, Timeout, LookedUp, LookedUpAgain, MemoryRead, PartnersRead, Wakeup
  <2>3. CASE HandleGet \/ HandleGetMemory
    BY <2>1, <2>3 DEF HandleGet, HandleGetMemory, Answer
  <2>4. CASE HandleSet
    <3>1. queue # <<>> /\ Head(queue).type = "set" /\ SetAddress(Head(queue).id, Head(queue).address)
      BY <2>4 DEF HandleSet, Incoming
    <3>2. partner_information[Head(queue).id] = NoPartner
      BY <1>1, <3>1, HeadFacts
    <3> QED
      BY <1>1, <2>1, <3>1, <3>2, NoPartnerAssumption DEF SetAddress, Typed, Tables
  <2>5. CASE HandleWakeup
    BY <1>1, <2>1, <2>5, NoPartnerAssumption DEF HandleWakeup, SetWakeup, Typed, Tables
  <2>6. CASE Remove
    BY <1>1, <2>1, <2>6 DEF Remove, Delete, DeleteAll, Typed, Tables
  <2>7. CASE UNCHANGED vars
    BY <2>1, <2>7 DEF vars
  <2> QED
    BY <1>1, <2>2, <2>3, <2>4, <2>5, <2>6, <2>7 DEF Next, Dongle
<1> QED
  BY <1>1, TypedAlways, RegistrationSafe, PTL DEF Spec, AddressesStay

\* Whoever is woken up is the device that the run was started for, or nobody.
THEOREM WakesNobodyElse ==
  ASSUME NEW c, Clients = {c}
  PROVE  Spec => WakesOwnDevice
<1>1. ASSUME Typed, RegistrationInv
      PROVE  Incoming("wakeup") =>
               partner_information[Head(queue).id] \in {Head(queue).address, NoPartner, NoAddress}
  BY <1>1, HeadFacts DEF Incoming, OwnId
<1> QED
  BY <1>1, TypedAlways, RegistrationSafe, PTL DEF Spec, WakesOwnDevice
=============================================================================
