------------------------ MODULE UploadSessionProofs ------------------------
(***************************************************************************)
(* Proofs about UploadSession: what upload.py uploads is known to the      *)
(* device under the content tag that it announced, and the slots hold what *)
(* the store of FirmwareStore does, although the two ports of the device   *)
(* are served by two threads and are not in order.                         *)
(***************************************************************************)
EXTENDS UploadSession, FirmwareUploadProofs

USE DEF chunkVars, clientVars, deviceVars, channelVars, prepareVars, valueVars

-----------------------------------------------------------------------------
(* The value port *)

\* Closing the socket changes nothing of a value request but .live.
LEMMA ClosedValues ==
  ASSUME NEW q \in Seq(ValueRequests)
  PROVE  /\ ValuePort!Closed(q) \in Seq(ValueRequests)
         /\ Len(ValuePort!Closed(q)) = Len(q)
         /\ \A i \in 1..Len(q) :
              /\ ~ValuePort!Closed(q)[i].live
              /\ ValuePort!Closed(q)[i].type = q[i].type
<1>1. DOMAIN q = 1..Len(q) /\ Len(q) \in Nat /\ \A i \in 1..Len(q) : q[i] \in ValueRequests
  OBVIOUS
<1>2. \A i \in 1..Len(q) :
        /\ [q[i] EXCEPT !.live = FALSE] \in ValueRequests
        /\ ~[q[i] EXCEPT !.live = FALSE].live
        /\ [q[i] EXCEPT !.live = FALSE].type = q[i].type
  <2>1. \A m \in ValueRequests :
          /\ [m EXCEPT !.live = FALSE] \in ValueRequests
          /\ ~[m EXCEPT !.live = FALSE].live
          /\ [m EXCEPT !.live = FALSE].type = m.type
    BY DEF ValueRequests
  <2> QED
    BY <1>1, <2>1
<1>3. ValuePort!Closed(q) = [i \in 1..Len(q) |-> [q[i] EXCEPT !.live = FALSE]]
  BY <1>1 DEF ValuePort!Closed
<1>4. ValuePort!Closed(q) \in Seq(ValueRequests) /\ Len(ValuePort!Closed(q)) = Len(q)
  BY <1>1, <1>2, <1>3
<1> QED
  BY <1>2, <1>3, <1>4

\* What upload.py sends to the value port is a request.
LEMMA ValueRequestTypes ==
  /\ \A id \in Ids, tag \in Tags :
       [type |-> "set", value |-> <<id, tag>>, live |-> FALSE] \in ValueRequests
  /\ [type |-> "get", live |-> TRUE] \in ValueRequests
  BY DEF ValueRequests

\* Nobody waits for the requests that are left when the socket is closed.
LEMMA CloseValues ==
  ASSUME values \in Seq(ValueRequests), ValuePort!CloseSocket
  PROVE  /\ values' \in Seq(ValueRequests) /\ value_reply' = NoReply
         /\ \A i \in 1..Len(values') : ~values'[i].live
         /\ NothingAnnounced => NothingAnnounced'
<1>1. values' = ValuePort!Closed(values) /\ value_reply' = NoReply
  BY DEF ValuePort!CloseSocket
<1> QED
  BY <1>1, ClosedValues DEF NothingAnnounced

\* Nor for any but the request that is sent.
LEMMA SendValue ==
  ASSUME values \in Seq(ValueRequests), NEW m \in ValueRequests, ValuePort!SendRequest(m)
  PROVE  /\ values' \in Seq(ValueRequests) /\ value_reply' = NoReply
         /\ \A i \in 1..Len(values') : values'[i].live => i = Len(values') /\ values'[i] = m
<1>1. /\ ValuePort!Closed(values) \in Seq(ValueRequests)
      /\ Len(ValuePort!Closed(values)) = Len(values) /\ Len(values) \in Nat
      /\ \A i \in 1..Len(values) : ~ValuePort!Closed(values)[i].live
  BY ClosedValues
<1>2. CASE values' = ValuePort!Closed(values)
  BY <1>1, <1>2 DEF ValuePort!SendRequest
<1>3. CASE values' = Append(ValuePort!Closed(values), m)
  <2>1. /\ values' \in Seq(ValueRequests) /\ Len(values') = Len(values) + 1
        /\ \A i \in 1..Len(values) : values'[i] = ValuePort!Closed(values)[i]
        /\ values'[Len(values')] = m
    BY <1>1, <1>3
  <2>2. \A i \in 1..Len(values') : i \in 1..Len(values) \/ i = Len(values')
    BY <1>1, <2>1
  <2> QED
    BY <1>1, <2>1, <2>2 DEF ValuePort!SendRequest
<1> QED
  BY <1>2, <1>3 DEF ValuePort!SendRequest

\* A copy in front of the others.
LEMMA CopyInFront ==
  ASSUME NEW S, NEW c \in S, NEW t \in Seq(S)
  PROVE  /\ <<c>> \o t \in Seq(S) /\ Len(<<c>> \o t) = Len(t) + 1
         /\ (<<c>> \o t)[1] = c
         /\ \A i \in 2..Len(<<c>> \o t) : (<<c>> \o t)[i] = t[i - 1]
  OBVIOUS

\* The device takes the request at the head.
LEMMA TakeValue ==
  ASSUME values \in Seq(ValueRequests), LastGet, values # <<>>, ValuePort!TakeIncoming
  PROVE  /\ values' \in Seq(ValueRequests)
         /\ Head(values) = values[1] /\ 1 \in 1..Len(values) /\ Head(values) \in ValueRequests
         /\ Head(values).live => Len(values) = 1
         /\ \A i \in 1..Len(values') :
              /\ values'[i].live => i = Len(values') /\ Len(values) > 1 /\ values'[i] = values[Len(values)]
              /\ \E j \in 1..Len(values) : values'[i].type = values[j].type
<1>1. /\ Len(values) \in Nat \ {0} /\ 1 \in 1..Len(values)
      /\ Head(values) = values[1] /\ Head(values) \in ValueRequests
      /\ Tail(values) \in Seq(ValueRequests) /\ Len(Tail(values)) = Len(values) - 1
      /\ \A i \in 1..Len(values) - 1 : Tail(values)[i] = values[i + 1]
  OBVIOUS
<1>2. Head(values).live => Len(values) = 1
  BY <1>1 DEF LastGet
<1>3. CASE values' = Tail(values)
  <2>1. /\ Len(values') = Len(values) - 1 /\ values' \in Seq(ValueRequests)
        /\ \A i \in 1..Len(values') : i + 1 \in 1..Len(values) /\ values'[i] = values[i + 1]
    BY <1>1, <1>3
  <2>2. ASSUME NEW i \in 1..Len(values'), values[i + 1].live
        PROVE  i = Len(values') /\ Len(values) > 1 /\ values[i + 1] = values[Len(values)]
    <3>1. i + 1 \in 1..Len(values)
      BY <2>1
    <3>2. i + 1 = Len(values)
      BY <2>2, <3>1 DEF LastGet
    <3>3. Len(values) \in Nat /\ Len(values') = Len(values) - 1
      BY <1>1, <2>1
    <3> QED
      BY <3>2, <3>3
  <2> QED
    BY <1>1, <1>2, <2>1, <2>2
<1>4. CASE values' = <<[Head(values) EXCEPT !.live = FALSE]>> \o Tail(values)
  <2>1. PICK c : c = [Head(values) EXCEPT !.live = FALSE]
    OBVIOUS
  <2>2. c \in ValueRequests /\ ~c.live /\ c.type = values[1].type
    BY <1>1, <2>1 DEF ValueRequests
  <2>3. PICK t : t = Tail(values)
    OBVIOUS
  <2>4. PICK q : q = values'
    OBVIOUS
  <2>5. /\ q \in Seq(ValueRequests) /\ Len(q) = Len(t) + 1 /\ q[1] = c
        /\ \A i \in 2..Len(q) : q[i] = t[i - 1]
    <3>1. q = <<c>> \o t
      BY <1>4, <2>1, <2>3, <2>4
    <3>2. t \in Seq(ValueRequests) /\ c \in ValueRequests
      BY <1>1, <2>2, <2>3
    <3> QED
      BY <3>1, <3>2, CopyInFront
  <2>6. Len(q) = Len(values)
    BY <1>1, <2>3, <2>5
  <2>7. ASSUME NEW i \in 2..Len(q)
        PROVE  i \in 1..Len(values) /\ q[i] = values[i]
    <3>1. i - 1 \in 1..Len(values) - 1 /\ (i - 1) + 1 = i /\ i \in 1..Len(values)
      BY <1>1, <2>6
    <3>2. t[i - 1] = values[(i - 1) + 1]
      BY <1>1, <2>3, <3>1
    <3> QED
      BY <2>5, <3>1, <3>2
  <2>8. \A i \in 1..Len(q) : i = 1 \/ i \in 2..Len(q)
    BY <1>1, <2>6
  <2>9. ASSUME NEW i \in 1..Len(q)
        PROVE  /\ q[i].live => i = Len(q) /\ Len(values) > 1 /\ q[i] = values[Len(values)]
               /\ \E j \in 1..Len(values) : q[i].type = values[j].type
    <3>1. CASE i = 1
      BY <1>1, <2>2, <2>5, <3>1
    <3>2. CASE i \in 2..Len(q)
      <4>1. i \in 1..Len(values) /\ q[i] = values[i]
        BY <2>7, <3>2
      <4>2. values[i].live => i = Len(values)
        BY <4>1 DEF LastGet
      <4>3. Len(values) \in Nat /\ Len(q) = Len(values) /\ i > 1
        BY <1>1, <2>6, <3>2
      <4> QED
        BY <4>1, <4>2, <4>3
    <3> QED
      BY <2>8, <3>1, <3>2
  <2> QED
    BY <1>1, <1>2, <2>4, <2>5, <2>9
<1> QED
  BY <1>3, <1>4 DEF ValuePort!TakeIncoming

-----------------------------------------------------------------------------
(* Type correctness: upload.py *)

ValuesTypeOK == values \in Seq(ValueRequests)

TypedSession == SessionTypeOK /\ ValuesTypeOK /\ PrepareInv /\ ThreadInv

\* The part of SessionTypeOK about upload.py.
RunTypeOK ==
  /\ session \in Sessions \cup {NoSession}
  /\ preparing \in {"no", "announce", "skip", "set", "confirm"}
  /\ announcements \in 0..MAX_TRIES /\ tries \in 0..MAX_TRIES
  /\ (session # NoSession) <=> (preparing # "no" \/ phase # "idle")
  /\ preparing # "no" => phase = "idle"
  /\ phase # "idle" => file = session.file /\ firmware_id = session.id

PortTypeOK ==
  data_download_int \in (Ids \X Tags) \cup {NoValue} /\ thread \in Threads \cup {Waiting}

\* SessionTypeOK in the parts that a step may leave alone.
LEMMA SessionTypeParts == SessionTypeOK <=> TypeOK /\ RunTypeOK /\ PortTypeOK
  BY DEF SessionTypeOK, RunTypeOK, PortTypeOK

\* So is the invariant behind it.
LEMMA TypedParts ==
  TypedSession <=>
    TypeOK /\ RunTypeOK /\ PortTypeOK /\ ValuesTypeOK /\ PrepareInv /\ ThreadInv
  BY SessionTypeParts DEF TypedSession, ValuesTypeOK

\* What upload.py sends leaves the firmware thread's message where it is.
LEMMA ThreadStays ==
  ASSUME TypeOK, ThreadInv, UNCHANGED <<thread, firmware_update_current_id>>,
         \/ queue' = Closed(queue) \/ UNCHANGED queue
         \/ \E m \in Requests : SendRequest(m)
  PROVE  ThreadInv'
<1>1. CASE thread = Waiting
  BY <1>1 DEF ThreadInv, At
<1>2. CASE queue = <<>>
  BY <1>2 DEF ThreadInv, At, Incoming
<1>3. CASE queue # <<>> /\ thread # Waiting
  <2>1. queue \in Seq(Requests) /\ Len(queue) \in Nat \ {0} /\ 1 \in 1..Len(queue) /\ Head(queue) = queue[1]
    BY <1>3 DEF TypeOK
  <2>2. /\ Closed(queue) \in Seq(Requests) /\ Len(Closed(queue)) = Len(queue)
        /\ Closed(queue)[1].type = queue[1].type
    BY <2>1, ClosedRequest
  <2>3. /\ queue' \in Seq(Requests) /\ Len(queue') >= Len(queue)
        /\ queue'[1].type = queue[1].type
    <3>1. CASE queue' = Closed(queue)
      BY <2>1, <2>2, <3>1
    <3>2. CASE UNCHANGED queue
      BY <2>1, <3>2
    <3>3. CASE \E m \in Requests : SendRequest(m)
      BY <2>1, <2>2, <3>3, AfterSend
    <3> QED
      BY <3>1, <3>2, <3>3
  <2>4. Len(queue') # 0
    BY <2>1, <2>3
  <2>5. queue' # <<>> /\ Head(queue') = queue'[1]
    BY <2>3, <2>4
  <2> QED
    BY <2>1, <2>3, <2>5 DEF ThreadInv, At, Incoming
<1> QED
  BY <1>1, <1>2, <1>3

\* upload.py announces and asks with what it was run with.
LEMMA PreparationTypes ==
  ASSUME TypedSession, UNCHANGED <<data_download_int, thread>>,
         (\E s \in Sessions : Prepare(s)) \/ SetData \/ GetData \/ Retry \/ GiveUp \/ Killed
  PROVE  TypedSession'
<1>1. UNCHANGED vars
  BY DEF Prepare, SetData, SetDataAgain, GetData, Retry, GiveUp, Killed, EndSession
<1>2. TypeOK'
  BY <1>1, TypedParts DEF TypeOK, DeviceTypeOK, vars
<1>3. PortTypeOK'
  BY TypedParts DEF PortTypeOK
<1>4. ThreadInv'
  BY <1>1, TypedParts, ThreadStays DEF vars
<1>5. MAX_TRIES \in Nat \ {0} /\ RunTypeOK /\ PrepareInv /\ ValuesTypeOK
  BY RetriesAssumption, TypedParts
<1>6. CASE \E s \in Sessions : Prepare(s)
  <2>1. PICK s \in Sessions : Prepare(s)
    BY <1>6
  <2>2. s.id \in Nat /\ s # NoSession
    BY SessionsAssumption, IdsAssumption
  <2>3. phase = "idle" /\ preparing = "no" /\ phase' = "idle"
    BY <1>1, <1>5, <2>1 DEF RunTypeOK, Prepare, vars
  <2>4. /\ session' = s
        /\ preparing' \in {"announce", "skip"}
        /\ preparing' = "skip" => s.id < 257
        /\ announcements' = announcements /\ tries' = tries /\ values' = values
    BY <2>1, <2>2 DEF Prepare
  <2>5. RunTypeOK' /\ PrepareInv' /\ ValuesTypeOK'
    BY <1>5, <2>2, <2>3, <2>4 DEF RunTypeOK, PrepareInv, ValuesTypeOK
  <2> QED
    BY <1>2, <1>3, <1>4, <2>5, TypedParts, PTL
<1>7. CASE SetData \/ Retry
  <2>1. SetDataAgain /\ announcements + 1 \in 0..MAX_TRIES /\ preparing # "no"
    BY <1>5, <1>7 DEF SetData, Retry, Differs, Answer, PrepareInv, RunTypeOK
  <2>2. phase' = phase /\ file' = file /\ firmware_id' = firmware_id
    BY <1>1 DEF vars
  <2>3. RunTypeOK' /\ PrepareInv'
    BY <1>5, <2>1, <2>2 DEF RunTypeOK, PrepareInv, SetDataAgain
  <2>4. session \in Sessions
    BY <1>5, <2>1 DEF RunTypeOK
  <2>5. [type |-> "set", value |-> Announcement, live |-> FALSE] \in ValueRequests
    BY <2>4, SessionsAssumption, ValueRequestTypes DEF Announcement
  <2>6. ValuesTypeOK'
    BY <1>5, <2>1, <2>5, SendValue DEF SetDataAgain, ValuesTypeOK
  <2> QED
    BY <1>2, <1>3, <1>4, <2>3, <2>6, TypedParts, PTL
<1>8. CASE GetData
  <2>1. tries + 1 \in 0..MAX_TRIES /\ preparing # "no"
    BY <1>5, <1>8 DEF GetData, Unanswered, PrepareInv, RunTypeOK
  <2>2. phase' = phase /\ file' = file /\ firmware_id' = firmware_id
    BY <1>1 DEF vars
  <2>3. RunTypeOK' /\ PrepareInv'
    BY <1>5, <1>8, <2>1, <2>2 DEF RunTypeOK, PrepareInv, GetData, Unanswered
  <2>4. ValuesTypeOK'
    BY <1>5, <1>8, ValueRequestTypes, SendValue DEF GetData, ValuesTypeOK
  <2> QED
    BY <1>2, <1>3, <1>4, <2>3, <2>4, TypedParts, PTL
<1>9. CASE GiveUp \/ Killed
  <2>1. EndSession /\ preparing # "no"
    BY <1>9 DEF GiveUp, Killed, Unanswered, Differs, Answer
  <2>2. phase' = phase /\ file' = file /\ firmware_id' = firmware_id
    BY <1>1 DEF vars
  <2>3. RunTypeOK' /\ PrepareInv'
    BY <1>5, <2>1, <2>2 DEF RunTypeOK, PrepareInv, EndSession, EndPreparation
  <2>4. ValuesTypeOK'
    BY <1>5, <2>1, CloseValues DEF ValuesTypeOK, EndSession, EndPreparation
  <2> QED
    BY <1>2, <1>3, <1>4, <2>3, <2>4, TypedParts, PTL
<1> QED
  BY <1>6, <1>7, <1>8, <1>9

\* It begins the upload with that, too.
LEMMA BeginTypes ==
  ASSUME TypedSession, UNCHANGED <<data_download_int, thread>>, Begin
  PROVE  TypedSession'
<1>1. MAX_TRIES \in Nat \ {0} /\ TypeOK /\ RunTypeOK /\ ValuesTypeOK /\ ThreadInv /\ PrepareInv
  BY RetriesAssumption, TypedParts
<1>2. PICK c \in ChunkSizes : Start(session.file, session.id, c)
  BY DEF Begin
<1>3. session \in Sessions /\ session # NoSession
  BY <1>1 DEF RunTypeOK, Begin, Confirms, Answer
<1>4. session.file \in Files /\ session.id \in Ids
  BY <1>3, SessionsAssumption
<1>5. TypeOK'
  BY <1>1, <1>2, <1>4, StartTypes
<1>6. /\ phase' = "init" /\ file' = session.file /\ firmware_id' = session.id
      /\ SendRequest(InitRequest(session.file, session.id)) /\ UNCHANGED deviceVars
  BY <1>2 DEF Start
<1>7. InitRequest(session.file, session.id) \in Requests
  BY <1>4, RequestTypes
<1>8. ThreadInv'
  BY <1>1, <1>6, <1>7, ThreadStays
<1>9. PortTypeOK'
  BY TypedParts DEF PortTypeOK
<1>10. EndPreparation /\ UNCHANGED session
  BY DEF Begin
<1>11. RunTypeOK' /\ PrepareInv'
  BY <1>1, <1>3, <1>6, <1>10 DEF RunTypeOK, PrepareInv, EndPreparation
<1>12. ValuesTypeOK'
  BY <1>1, <1>10, CloseValues DEF ValuesTypeOK, EndPreparation
<1> QED
  BY <1>5, <1>8, <1>9, <1>11, <1>12, TypedParts, PTL

\* While it uploads it goes by the same session until it ends.
LEMMA UploadTypes ==
  ASSUME TypedSession, Upload
  PROVE  TypedSession'
<1>1. TypeOK /\ RunTypeOK /\ ThreadInv /\ PrepareInv /\ ValuesTypeOK
  BY TypedParts
<1>2. Client \/ StartFlash \/ Crash
  BY DEF Upload
<1>3. TypeOK'
  BY <1>1, <1>2, InitPhaseTypes, ReadTypes, DataPhaseTypes, FlashPhaseTypes, EndTypes
     DEF Client, Exit, Crash
<1>4. ThreadInv'
  BY <1>1, <1>2, ClientRequests, ThreadStays DEF Upload
<1>5. phase # "idle" /\ (phase' = "idle" \/ UNCHANGED <<file, firmware_id>>)
  BY <1>2, ClientGoesOn
<1>6. RunTypeOK' /\ PrepareInv' /\ ValuesTypeOK'
  BY <1>1, <1>5 DEF RunTypeOK, PrepareInv, ValuesTypeOK, Upload
<1>7. PortTypeOK'
  BY TypedParts DEF PortTypeOK, Upload
<1> QED
  BY <1>3, <1>4, <1>6, <1>7, TypedParts, PTL

-----------------------------------------------------------------------------
(* Type correctness: the device *)

\* A step of the value thread, or a restart.
LEMMA ValueThreadTypes ==
  ASSUME TypedSession, HandleSetValue \/ HandleGetValue \/ Restart, LastGet
  PROVE  TypedSession'
<1>1. /\ TypeOK /\ RunTypeOK /\ PortTypeOK /\ ThreadInv /\ PrepareInv
      /\ ValuesTypeOK /\ values \in Seq(ValueRequests)
  BY TypedParts DEF ValuesTypeOK
<1>2. UNCHANGED <<prepareVars, thread, clientVars, queue>>
  BY DEF HandleSetValue, HandleGetValue, Restart, SetDataDownloadInt, DeviceRestart, vars
<1>3. /\ thread # Waiting => UNCHANGED firmware_update_current_id
      /\ RunTypeOK' /\ PrepareInv' /\ ThreadInv'
  <2>1. thread # Waiting => UNCHANGED firmware_update_current_id
    BY DEF HandleSetValue, HandleGetValue, Restart, SetDataDownloadInt, vars
  <2>2. RunTypeOK' /\ PrepareInv'
    BY <1>1, <1>2 DEF RunTypeOK, PrepareInv
  <2> QED
    BY <1>1, <1>2, <2>1, <2>2 DEF ThreadInv, At, Incoming
<1>4. CASE HandleSetValue
  <2>1. /\ values # <<>> /\ Head(values).type = "set" /\ ValuePort!TakeIncoming
        /\ data_download_int' = Head(values).value
    BY <1>4 DEF HandleSetValue, ValuePort!Incoming, ValuePort!Ignore
  <2>2. Head(values) \in ValueRequests /\ ValuesTypeOK'
    BY <1>1, <2>1, TakeValue DEF ValuesTypeOK
  <2>3. Head(values).value \in Ids \X Tags
    BY <2>1, <2>2 DEF ValueRequests
  <2>4. PortTypeOK'
    BY <1>1, <1>2, <2>1, <2>3 DEF PortTypeOK
  <2>5. TypeOK'
    <3>1. PICK id, tag : /\ id = Head(values).value[1] /\ tag = Head(values).value[2]
                         /\ SetDataDownloadInt(id, tag) \/ UNCHANGED <<deviceVars, channelVars>>
      BY <1>4 DEF HandleSetValue
    <3>2. id \in Ids /\ tag \in Tags
      BY <2>3, <3>1
    <3>3. CASE SetDataDownloadInt(id, tag)
      BY <1>1, <1>2, <3>2, <3>3, EnvironmentTypes DEF Environment
    <3>4. CASE UNCHANGED <<deviceVars, channelVars>>
      BY <1>1, <1>2, <3>4 DEF TypeOK, DeviceTypeOK
    <3> QED
      BY <3>1, <3>3, <3>4
  <2> QED
    BY <1>3, <2>2, <2>4, <2>5, TypedParts, PTL
<1>5. CASE HandleGetValue
  <2>1. values # <<>> /\ ValuePort!TakeIncoming /\ UNCHANGED <<data_download_int, vars>>
    BY <1>5 DEF HandleGetValue, ValuePort!Incoming, ValuePort!Respond
  <2>2. ValuesTypeOK'
    BY <1>1, <2>1, TakeValue DEF ValuesTypeOK
  <2>3. TypeOK' /\ PortTypeOK'
    BY <1>1, <1>2, <2>1 DEF TypeOK, DeviceTypeOK, vars, PortTypeOK
  <2> QED
    BY <1>3, <2>2, <2>3, TypedParts, PTL
<1>6. CASE Restart
  <2>1. TypeOK'
    BY <1>1, <1>2, <1>6, EnvironmentTypes DEF Restart, Environment
  <2>2. PortTypeOK' /\ ValuesTypeOK'
    BY <1>1, <1>6 DEF PortTypeOK, ValuesTypeOK, Restart
  <2> QED
    BY <1>3, <2>1, <2>2, TypedParts, PTL
<1> QED
  BY <1>4, <1>5, <1>6

\* The message that the firmware thread takes or has.
LEMMA ThreadMessage ==
  ASSUME TypeOK, NEW type, Incoming(type)
  PROVE  /\ queue # <<>> /\ Head(queue) \in Requests
         /\ type = "firmware_init" => Head(queue) \in InitFirmware
         /\ type = "firmware_data" => Head(queue) \in FirmwareData
<1>1. queue # <<>> /\ Head(queue) \in Requests /\ Head(queue).type = type
  BY DEF Incoming, TypeOK
<1> QED
  BY <1>1 DEF Requests, InitFirmware, FirmwareData, UpdateStart

\* Steps that store nothing of an upload, or all of it at once.
LEMMA ThreadRequestTypes ==
  ASSUME TypedSession, CopyPrevious \/ RefuseData \/ LookUp \/ FlashStart
  PROVE  TypeOK' /\ PortTypeOK' /\ ThreadInv'
<1>1. TypeOK /\ PortTypeOK
  BY TypedParts
<1>2. CASE CopyPrevious
  <2>1. PICK m : m = Head(queue)
    OBVIOUS
  <2>2. m.id \in Ids
    BY <1>1, <1>2, <2>1, ThreadMessage DEF CopyPrevious, InitFirmware
  <2>3. firmware_update[m.id] \in Uploads \cup {NoUpload}
    BY <1>1, <2>2 DEF TypeOK, DeviceTypeOK
  <2>4. thread' = [at |-> "copied", held |-> firmware_update[m.id]]
    BY <1>2, <2>1 DEF CopyPrevious
  <2>5. PortTypeOK'
    BY <1>1, <1>2, <2>3, <2>4 DEF PortTypeOK, Threads, CopyPrevious, ThreadStep
  <2>6. TypeOK'
    BY <1>1, <1>2, <2>1, <2>2 DEF TypeOK, DeviceTypeOK, CopyPrevious, ThreadStep
  <2>7. ThreadInv'
    BY <1>2, <2>4 DEF CopyPrevious, ThreadInv, At, Incoming
  <2> QED
    BY <2>5, <2>6, <2>7
<1>3. CASE RefuseData \/ FlashStart
  <2>1. Device /\ thread = Waiting /\ UNCHANGED <<thread, data_download_int>>
    BY <1>3 DEF RefuseData, FlashStart, ThreadStep, Device, HandleFirmwareUpdate
  <2> QED
    BY <1>1, <2>1, DeviceTypes DEF PortTypeOK, ThreadInv, At
<1>4. CASE LookUp
  <2>1. Initialized /\ Incoming("firmware_data") /\ UNCHANGED <<deviceVars, channelVars, clientVars>>
    BY <1>4 DEF LookUp, Fits, ThreadStep
  <2>2. firmware_update_current_id \in Ids /\ current \in Uploads /\ current # NoUpload
    BY <1>1, <2>1, CurrentType DEF Initialized
  <2>3. thread' = [at |-> "looked up", held |-> current]
    BY <1>4 DEF LookUp
  <2>4. PortTypeOK'
    <3>1. thread' \in Threads
      BY <2>2, <2>3 DEF Threads
    <3> QED
      BY <1>1, <1>4, <3>1 DEF PortTypeOK, LookUp, ThreadStep
  <2>5. TypeOK'
    BY <1>1, <2>1 DEF TypeOK, DeviceTypeOK
  <2>6. ThreadInv'
    BY <2>1, <2>2, <2>3 DEF ThreadInv, At, Incoming
  <2> QED
    BY <2>4, <2>5, <2>6
<1> QED
  BY <1>2, <1>3, <1>4

\* Steps that change the upload that the thread holds, or put it back.
LEMMA ThreadUploadTypes ==
  ASSUME TypedSession, StoreFresh \/ AnswerInit \/ AnswerData
  PROVE  TypeOK' /\ PortTypeOK' /\ ThreadInv'
<1>1. TypeOK /\ PortTypeOK /\ ThreadInv
  BY TypedParts
<1>2. ASSUME thread # Waiting
      PROVE  thread \in Threads /\ thread.held \in Uploads \cup {NoUpload}
  BY <1>1, <1>2 DEF PortTypeOK, Threads
<1>3. PICK m : m = Head(queue)
  OBVIOUS
<1>4. CASE StoreFresh
  <2>1. m.id \in Ids /\ m.file \in Files /\ thread # Waiting /\ Incoming("firmware_init")
    BY <1>1, <1>3, <1>4, ThreadMessage DEF StoreFresh, At, ThreadInv, InitFirmware
  <2>2. FreshUpload(m.file) \in Uploads
    BY <2>1 DEF FreshUpload, Uploads
  <2>3. firmware_update' \in [Ids -> Uploads \cup {NoUpload}]
    BY <1>1, <1>3, <1>4, <2>1, <2>2 DEF TypeOK, DeviceTypeOK, StoreFresh
  <2>4. TypeOK'
    BY <1>1, <1>4, <2>3 DEF TypeOK, DeviceTypeOK, StoreFresh, ThreadStep
  <2>5. thread' \in Threads /\ thread'.at = "stored"
    BY <1>2, <1>4, <2>1 DEF StoreFresh, Threads
  <2>6. PortTypeOK' /\ ThreadInv'
    BY <1>1, <1>4, <2>1, <2>5 DEF PortTypeOK, StoreFresh, ThreadStep, ThreadInv, At, Incoming
  <2> QED
    BY <2>4, <2>6
<1>5. CASE AnswerInit \/ AnswerData
  <2>1. PICK id \in Ids, u \in Uploads :
          firmware_update' = Keep(id, u) /\ Respond(Report("OK", u.current_size)) /\ queue # <<>>
    <3>1. CASE AnswerInit
      <4>1. m.id \in Ids /\ m.file \in Files /\ thread # Waiting /\ queue # <<>>
        BY <1>1, <1>3, <3>1, ThreadMessage DEF AnswerInit, At, ThreadInv, InitFirmware
      <4>2. FreshUpload(m.file) \in Uploads
        BY <4>1 DEF FreshUpload, Uploads
      <4>3. (IF Resumes(m, thread.held) THEN thread.held ELSE FreshUpload(m.file)) \in Uploads
        BY <1>2, <4>1, <4>2 DEF Resumes
      <4> QED
        BY <1>3, <3>1, <4>1, <4>3 DEF AnswerInit
    <3>2. CASE AnswerData
      <4>1. /\ m.length \in Nat /\ thread # Waiting /\ queue # <<>>
            /\ firmware_update_current_id \in Ids /\ thread.held # NoUpload
        BY <1>1, <1>3, <3>2, ThreadMessage DEF AnswerData, At, ThreadInv, FirmwareData
      <4>2. Stored(thread.held, m) \in Uploads
        BY <1>2, <4>1, StoredType
      <4> QED
        BY <1>3, <3>2, <4>1, <4>2 DEF AnswerData
    <3> QED
      BY <1>5, <3>1, <3>2
  <2>2. firmware_update' \in [Ids -> Uploads \cup {NoUpload}]
    BY <1>1, <2>1 DEF TypeOK, DeviceTypeOK, Keep
  <2>3. u.current_size \in Nat
    BY DEF Uploads
  <2>4. ChannelTypeOK'
    BY <1>1, <2>1, <2>3, ReportTypes, RespondTypes DEF Status
  <2>5. UNCHANGED <<firmware_update_current_id, content_tag, flashed, clientVars, data_download_int>>
    BY <1>5 DEF AnswerInit, AnswerData, ThreadStep
  <2>6. TypeOK'
    BY <1>1, <2>2, <2>4, <2>5 DEF TypeOK, DeviceTypeOK, ChannelTypeOK
  <2>7. PortTypeOK' /\ ThreadInv'
    BY <1>1, <1>5, <2>5 DEF PortTypeOK, ThreadInv, At, AnswerInit, AnswerData
  <2> QED
    BY <2>6, <2>7
<1> QED
  BY <1>4, <1>5

\* The firmware thread finds the message, and the upload it works on, at each
\* place.
LEMMA FirmwareThreadTypes ==
  ASSUME TypedSession, FirmwareThread
  PROVE  TypedSession'
<1>1. TypeOK' /\ PortTypeOK' /\ ThreadInv'
  BY ThreadRequestTypes, ThreadUploadTypes DEF FirmwareThread
<1>2. UNCHANGED <<prepareVars, valueVars, clientVars>>
  BY DEF FirmwareThread, CopyPrevious, StoreFresh, AnswerInit, RefuseData, LookUp, AnswerData,
         FlashStart, ThreadStep
<1>3. RunTypeOK' /\ PrepareInv' /\ ValuesTypeOK'
  BY <1>2, TypedParts DEF RunTypeOK, PrepareInv, ValuesTypeOK
<1> QED
  BY <1>1, <1>3, TypedParts, PTL

-----------------------------------------------------------------------------
(* The announcements *)

\* An announcement of an earlier run is on its way before the get only.
LEMMA PreparationTags ==
  ASSUME TypedSession, LastGet, TagInv, UNCHANGED <<data_download_int, thread>>,
         (\E s \in Sessions : Prepare(s)) \/ SetData \/ GetData \/ Retry \/ GiveUp \/ Killed
  PROVE  LastGet' /\ TagInv'
<1>1. UNCHANGED <<phase, firmware_id, content_tag>>
  BY DEF Prepare, SetData, SetDataAgain, GetData, Retry, GiveUp, Killed, EndSession, vars
<1>2. RunTypeOK /\ values \in Seq(ValueRequests)
  BY TypedParts DEF ValuesTypeOK
<1>3. CASE \E s \in Sessions : Prepare(s)
  <2>1. /\ preparing = "no" /\ phase = "idle" /\ UNCHANGED <<values, value_reply>>
    BY <1>2, <1>3 DEF Prepare, RunTypeOK
  <2>2. value_reply = NoReply /\ \A i \in 1..Len(values) : ~values[i].live
    BY <2>1 DEF LastGet, TagInv
  <2>3. LastGet'
    BY <2>1, <2>2 DEF LastGet
  <2> QED
    BY <1>1, <2>1, <2>2, <2>3 DEF TagInv, Tagged
<1>4. CASE SetData \/ GetData \/ Retry
  <2>1. PICK m \in ValueRequests :
          /\ ValuePort!SendRequest(m)
          /\ m.live => m.type = "get" /\ preparing' = "confirm"
    <3>1. CASE SetData \/ Retry
      <4>1. SetDataAgain /\ session \in Sessions
        BY <1>2, <3>1 DEF SetData, Retry, Differs, Answer, RunTypeOK
      <4>2. [type |-> "set", value |-> Announcement, live |-> FALSE] \in ValueRequests
        BY <4>1, SessionsAssumption, ValueRequestTypes DEF Announcement
      <4> QED
        BY <4>1, <4>2 DEF SetDataAgain
    <3>2. CASE GetData
      BY <3>2, ValueRequestTypes DEF GetData
    <3> QED
      BY <1>4, <3>1, <3>2
  <2>2. preparing # "no" /\ phase = "idle"
    BY <1>2, <1>4 DEF SetData, GetData, Retry, Unanswered, Differs, Answer, RunTypeOK
  <2>3. /\ value_reply' = NoReply
        /\ \A i \in 1..Len(values') : values'[i].live => i = Len(values') /\ values'[i] = m
    BY <1>2, <2>1, SendValue
  <2>4. LastGet'
    BY <2>1, <2>3 DEF LastGet
  <2> QED
    BY <1>1, <2>2, <2>3, <2>4 DEF TagInv, Tagged
<1>5. CASE GiveUp \/ Killed
  <2>1. preparing # "no" /\ phase = "idle" /\ ValuePort!CloseSocket
    BY <1>2, <1>5
       DEF GiveUp, Killed, Unanswered, Differs, Answer, RunTypeOK, EndSession, EndPreparation
  <2>2. value_reply' = NoReply /\ \A i \in 1..Len(values') : ~values'[i].live
    BY <1>2, <2>1, CloseValues
  <2>3. LastGet'
    BY <2>2 DEF LastGet
  <2> QED
    BY <1>1, <2>1, <2>2, <2>3 DEF TagInv, Tagged
<1> QED
  BY <1>3, <1>4, <1>5

\* The init of a slot from 257 on is sent when the announcement was confirmed.
LEMMA BeginTags ==
  ASSUME TypedSession, LastGet, TagInv, UNCHANGED <<data_download_int, thread>>, Begin
  PROVE  LastGet' /\ TagInv'
<1>1. RunTypeOK /\ PrepareInv /\ values \in Seq(ValueRequests)
  BY TypedParts DEF ValuesTypeOK
<1>2. /\ UNCHANGED <<session, content_tag>> /\ ValuePort!CloseSocket
      /\ firmware_id' = session.id
      /\ preparing = "skip" \/ (value_reply # NoReply /\ value_reply = Announcement)
  BY DEF Begin, EndPreparation, Start, Confirms, Answer
<1>3. /\ value_reply' = NoReply /\ \A i \in 1..Len(values') : ~values'[i].live
      /\ NothingAnnounced => NothingAnnounced'
  BY <1>1, <1>2, CloseValues
<1>4. LastGet'
  BY <1>3 DEF LastGet
<1>5. session \in Sessions
  BY <1>1, <1>2 DEF RunTypeOK, Begin, Confirms, Answer
<1>6. session.id \in Nat
  BY <1>5, SessionsAssumption, IdsAssumption
<1>7. firmware_id' >= 257 => NothingAnnounced /\ Tagged(session.id, session.tag)
  BY <1>1, <1>2, <1>6 DEF PrepareInv, TagInv
<1>8. TagInv'
  BY <1>2, <1>3, <1>7 DEF TagInv, Tagged
<1> QED
  BY <1>4, <1>8

\* The upload announces nothing.
LEMMA UploadTags ==
  ASSUME TypedSession, LastGet, TagInv, Upload
  PROVE  LastGet' /\ TagInv'
<1>1. RunTypeOK /\ TypeOK
  BY TypedParts
<1>2. Client \/ StartFlash \/ Crash
  BY DEF Upload
<1>3. phase # "idle" /\ (phase' = "idle" \/ UNCHANGED <<firmware_id, session>>)
  BY <1>2, ClientGoesOn DEF Upload
<1>4. UNCHANGED <<preparing, values, value_reply, data_download_int, content_tag>>
  BY <1>1, <1>2, ClientRequests DEF Upload
<1>5. preparing = "no" /\ value_reply = NoReply
  BY <1>1, <1>3 DEF RunTypeOK, TagInv
<1>6. LastGet'
  BY <1>4, <1>5 DEF LastGet
<1> QED
  BY <1>3, <1>4, <1>5, <1>6 DEF TagInv, NothingAnnounced, Tagged

\* An announcement arrives: no answer has been waiting for it, and nobody
\* uploads to a slot that needs one.
LEMMA SetValueTags ==
  ASSUME TypedSession, LastGet, TagInv, HandleSetValue
  PROVE  LastGet' /\ TagInv'
<1>1. TypeOK /\ values \in Seq(ValueRequests)
  BY TypedParts DEF ValuesTypeOK
<1>2. /\ values # <<>> /\ Head(values).type = "set" /\ ValuePort!TakeIncoming
      /\ UNCHANGED <<value_reply, session, preparing, phase, firmware_id>>
      /\ data_download_int' = Head(values).value
  BY DEF HandleSetValue, ValuePort!Incoming, ValuePort!Ignore
<1>3. /\ Head(values) = values[1] /\ 1 \in 1..Len(values) /\ Head(values) \in ValueRequests
      /\ \A i \in 1..Len(values') : values'[i].live =>
           i = Len(values') /\ Len(values) > 1 /\ values'[i] = values[Len(values)]
  BY <1>1, <1>2, TakeValue
<1>4. ~NothingAnnounced
  BY <1>2, <1>3 DEF NothingAnnounced
<1>5. value_reply = NoReply /\ ~(phase # "idle" /\ firmware_id >= 257)
  BY <1>4 DEF TagInv
<1>6. LastGet'
  <2>1. Len(values) \in Nat
    BY <1>1
  <2>2. Len(values) > 1 => Len(values) \in 1..Len(values)
    BY <2>1
  <2> QED
    BY <1>2, <1>3, <2>2 DEF LastGet
<1>7. PICK id, tag : /\ Head(values).value = <<id, tag>> /\ id \in Ids /\ tag \in Tags
  BY <1>2, <1>3 DEF ValueRequests
<1>8. content_tag'[id] = tag
  <2>1. SetDataDownloadInt(id, tag) \/ (content_tag[id] = tag /\ UNCHANGED deviceVars)
    BY <1>7 DEF HandleSetValue
  <2> QED
    BY <1>1, <1>7, <2>1 DEF SetDataDownloadInt, TypeOK, DeviceTypeOK
<1>9. \A i \in Ids, t \in Tags : data_download_int' = <<i, t>> => content_tag'[i] = t
  BY <1>2, <1>7, <1>8
<1>10. TagInv'
  BY <1>2, <1>5, <1>9 DEF TagInv, Tagged
<1> QED
  BY <1>6, <1>10

\* The get is answered, to upload.py or to nobody.
LEMMA GetValueTags ==
  ASSUME TypedSession, LastGet, TagInv, HandleGetValue
  PROVE  LastGet' /\ TagInv'
<1>1. TypeOK /\ RunTypeOK /\ values \in Seq(ValueRequests)
  BY TypedParts DEF ValuesTypeOK
<1>2. /\ values # <<>> /\ Head(values).type = "get" /\ ValuePort!TakeIncoming
      /\ UNCHANGED <<session, preparing, phase, firmware_id, content_tag, data_download_int>>
      /\ (Head(values).live /\ value_reply' = data_download_int) \/ UNCHANGED value_reply
  BY DEF HandleGetValue, ValuePort!Incoming, ValuePort!Respond, vars
<1>3. /\ Head(values) = values[1] /\ 1 \in 1..Len(values)
      /\ Head(values).live => Len(values) = 1
      /\ \A i \in 1..Len(values') :
           /\ values'[i].live =>
                i = Len(values') /\ Len(values) > 1 /\ values'[i] = values[Len(values)]
           /\ \E j \in 1..Len(values) : values'[i].type = values[j].type
  BY <1>1, <1>2, TakeValue
<1>4. NothingAnnounced => NothingAnnounced'
  BY <1>3 DEF NothingAnnounced
<1>5. CASE Head(values).live
  <2>1. preparing = "confirm" /\ Len(values) = 1
    BY <1>3, <1>5 DEF LastGet
  <2>2. NothingAnnounced
    BY <1>2, <1>3, <2>1 DEF NothingAnnounced
  <2>3. session \in Sessions /\ phase = "idle"
    BY <1>1, <2>1 DEF RunTypeOK
  <2>4. session.id \in Ids /\ session.tag \in Tags
    BY <2>3, SessionsAssumption
  <2>5. data_download_int = Announcement => Tagged(session.id, session.tag)
    BY <2>4 DEF TagInv, Announcement
  <2>6. LastGet'
    BY <1>3, <2>1 DEF LastGet
  <2>7. TagInv'
    BY <1>2, <1>4, <2>1, <2>2, <2>3, <2>5 DEF TagInv, Tagged, Announcement
  <2> QED
    BY <2>6, <2>7
<1>6. CASE ~Head(values).live
  <2>1. UNCHANGED value_reply
    BY <1>2, <1>6
  <2>2. Len(values) \in Nat
    BY <1>1
  <2>3. Len(values) > 1 => Len(values) \in 1..Len(values)
    BY <2>2
  <2>4. LastGet'
    BY <1>2, <1>3, <2>1, <2>3 DEF LastGet
  <2>5. TagInv'
    BY <1>2, <1>4, <2>1 DEF TagInv, Tagged, Announcement
  <2> QED
    BY <2>4, <2>5
<1> QED
  BY <1>5, <1>6

\* The firmware thread tags nothing; a restart takes every tag.
LEMMA OtherTags ==
  ASSUME TypedSession, LastGet, TagInv, FirmwareThread \/ Restart
  PROVE  LastGet' /\ TagInv'
<1>1. UNCHANGED <<prepareVars, valueVars, clientVars>>
  BY DEF FirmwareThread, CopyPrevious, StoreFresh, AnswerInit, RefuseData, LookUp, AnswerData,
         FlashStart, ThreadStep, Restart
<1>2. LastGet'
  BY <1>1 DEF LastGet
<1>3. CASE FirmwareThread
  <2>1. UNCHANGED <<content_tag, data_download_int>>
    BY <1>3 DEF FirmwareThread, CopyPrevious, StoreFresh, AnswerInit, RefuseData, LookUp,
                AnswerData, FlashStart, ThreadStep, HandleFirmwareData, HandleUpdateStart
  <2> QED
    BY <1>1, <1>2, <2>1 DEF TagInv, NothingAnnounced, Tagged, Announcement
<1>4. CASE Restart
  <2>1. \A id \in Ids : \A tag : Tagged(id, tag)'
    BY <1>4 DEF Restart, DeviceRestart, Tagged
  <2>2. RunTypeOK /\ TypeOK
    BY TypedParts
  <2>3. preparing = "confirm" => session.id \in Ids
    BY <2>2, SessionsAssumption DEF RunTypeOK
  <2>4. phase # "idle" => firmware_id \in Ids
    BY <2>2 DEF TypeOK
  <2> QED
    BY <1>1, <1>2, <2>1, <2>3, <2>4 DEF TagInv, NothingAnnounced, Tagged, Announcement
<1> QED
  BY <1>3, <1>4

-----------------------------------------------------------------------------
(* The theorems *)

\* The invariant of the announcement in its parts.
LEMMA AnnouncementParts == AnnouncementInv <=> TypedSession /\ LastGet /\ TagInv
  BY DEF AnnouncementInv, TypedSession, ValuesTypeOK

\* At first nothing is announced.
LEMMA SessionInitially == SessionInit => AnnouncementInv
<1> SUFFICES ASSUME SessionInit PROVE AnnouncementInv
  OBVIOUS
<1>1. /\ Init /\ session = NoSession /\ preparing = "no" /\ announcements = 0 /\ tries = 0
      /\ values = <<>> /\ value_reply = NoReply /\ data_download_int = NoValue
      /\ thread = Waiting
  BY DEF SessionInit, ValuePort!ChannelInit
<1>2. MAX_TRIES \in Nat \ {0} /\ phase = "idle"
  BY <1>1, RetriesAssumption DEF Init, ClientInit
<1>3. TypeOK
  BY <1>1 DEF Init, ClientInit, DeviceInit, ChannelInit, TypeOK, DeviceTypeOK, Phases
<1>4. RunTypeOK
  BY <1>1, <1>2 DEF RunTypeOK
<1>5. PortTypeOK /\ ValuesTypeOK /\ PrepareInv /\ ThreadInv
  BY <1>1 DEF PortTypeOK, ValuesTypeOK, PrepareInv, ThreadInv, At
<1>6. \A id \in Ids : content_tag[id] = NoTag
  BY <1>1 DEF Init, DeviceInit
<1>7. LastGet /\ TagInv
  BY <1>1, <1>2, <1>6 DEF LastGet, TagInv, Tagged
<1> QED
  BY <1>3, <1>4, <1>5, <1>7, TypedParts, AnnouncementParts

\* It is a matter of the state alone.
LEMMA SessionStutters ==
  ASSUME TypedSession, LastGet, TagInv, UNCHANGED sessionVars
  PROVE  TypedSession' /\ LastGet' /\ TagInv'
<1>1. UNCHANGED <<prepareVars, valueVars, data_download_int, thread, vars>>
  BY DEF sessionVars
<1>2. TypeOK' /\ RunTypeOK' /\ PortTypeOK' /\ ValuesTypeOK' /\ PrepareInv' /\ ThreadInv'
  <2>1. TypeOK'
    BY <1>1, TypedParts DEF vars, TypeOK, DeviceTypeOK
  <2>2. RunTypeOK' /\ PrepareInv' /\ PortTypeOK' /\ ValuesTypeOK'
    BY <1>1, TypedParts DEF vars, RunTypeOK, PrepareInv, PortTypeOK, ValuesTypeOK
  <2>3. ThreadInv'
    BY <1>1, TypedParts DEF vars, ThreadInv, At, Incoming
  <2> QED
    BY <2>1, <2>2, <2>3
<1>3. LastGet' /\ TagInv'
  BY <1>1 DEF vars, LastGet, TagInv, NothingAnnounced, Tagged, Announcement
<1>4. TypedSession'
  BY <1>2, TypedParts, PTL
<1> QED
  BY <1>3, <1>4

\* It is inductive.
LEMMA SessionStep ==
  ASSUME AnnouncementInv, [SessionNext]_sessionVars
  PROVE  TypedSession' /\ LastGet' /\ TagInv'
<1>1. TypedSession /\ LastGet /\ TagInv
  BY AnnouncementParts
<1>2. CASE /\ (\E s \in Sessions : Prepare(s)) \/ SetData \/ GetData \/ Retry \/ GiveUp \/ Killed
           /\ UNCHANGED <<data_download_int, thread>>
  BY <1>1, <1>2, PreparationTypes, PreparationTags
<1>3. CASE Begin /\ UNCHANGED <<data_download_int, thread>>
  BY <1>1, <1>3, BeginTypes, BeginTags
<1>4. CASE Upload
  BY <1>1, <1>4, UploadTypes, UploadTags
<1>5. CASE HandleSetValue
  BY <1>1, <1>5, ValueThreadTypes, SetValueTags
<1>6. CASE HandleGetValue
  BY <1>1, <1>6, ValueThreadTypes, GetValueTags
<1>7. CASE FirmwareThread
  BY <1>1, <1>7, FirmwareThreadTypes, OtherTags
<1>8. CASE Restart
  BY <1>1, <1>8, ValueThreadTypes, OtherTags
<1>9. CASE UNCHANGED sessionVars
  BY <1>1, <1>9, SessionStutters
<1> QED
  BY <1>2, <1>3, <1>4, <1>5, <1>6, <1>7, <1>8, <1>9 DEF SessionNext, Preparation

\* The types of both ports, the last get and the tags: TagInv alone is not
\* inductive, it needs that only the answer to the last get reaches upload.py.
THEOREM AnnouncementAlways == SessionSpec => []AnnouncementInv
  BY SessionInitially, SessionStep, AnnouncementParts, PTL DEF SessionSpec

\* upload.py prepares or uploads exactly while it runs, with the file and the
\* slot that it was run with; and however the two threads take turns, the
\* variables of both ports stay of their types.
THEOREM SessionTypeCorrect == SessionSpec => []SessionTypeOK
<1>1. AnnouncementInv => SessionTypeOK
  BY DEF AnnouncementInv
<1> QED
  BY <1>1, AnnouncementAlways, PTL

\* What is uploaded to a slot from 257 on is known under the content tag that
\* this upload.py announced, and nothing that earlier runs left behind on the
\* other port can still drop it: the get was answered after all of it.
THEOREM UploadsAreTagged == SessionSpec => []TaggedAsUploaded
<1>1. AnnouncementInv => TaggedAsUploaded
  <2> SUFFICES ASSUME AnnouncementInv, phase # "idle", firmware_id >= 257
               PROVE  /\ content_tag[firmware_id] \in {session.tag, NoTag}
                      /\ \A i \in DOMAIN values : values[i].type # "set"
    BY DEF TaggedAsUploaded
  <2>1. NothingAnnounced /\ Tagged(firmware_id, session.tag)
    BY DEF AnnouncementInv, TagInv
  <2>2. DOMAIN values = 1..Len(values)
    BY DEF AnnouncementInv
  <2> QED
    BY <2>1, <2>2 DEF NothingAnnounced, Tagged
<1> QED
  BY <1>1, AnnouncementAlways, PTL

-----------------------------------------------------------------------------
(* The slots: the requests under way *)

\* Closing the socket leaves the place of a chunk.
LEMMA ClosedChunk ==
  ASSUME NEW q \in Seq(Requests), NEW i \in 1..Len(q), q[i].type = "firmware_data"
  PROVE  Closed(q)[i].offset = q[i].offset /\ Closed(q)[i].length = q[i].length
<1>1. DOMAIN q = 1..Len(q) /\ q[i] \in Requests
  OBVIOUS
<1>2. q[i] \in FirmwareData
  BY <1>1 DEF Requests, InitFirmware, FirmwareData, UpdateStart
<1>3. Closed(q)[i] = [q[i] EXCEPT !.live = FALSE]
  BY <1>1 DEF Closed
<1> QED
  BY <1>2, <1>3 DEF FirmwareData

\* What upload.py does leaves the request at the head.
LEMMA HeadStays ==
  ASSUME TypeOK, queue # <<>>,
         \/ queue' = Closed(queue) \/ UNCHANGED queue
         \/ \E m \in Requests : SendRequest(m)
  PROVE  /\ queue' # <<>> /\ Head(queue').type = Head(queue).type
         /\ Head(queue).type = "firmware_init" =>
              Head(queue').file = Head(queue).file /\ Head(queue').id = Head(queue).id
         /\ Head(queue).type = "firmware_data" =>
              Head(queue').offset = Head(queue).offset /\ Head(queue').length = Head(queue).length
<1>1. /\ queue \in Seq(Requests) /\ Len(queue) \in Nat \ {0} /\ 1 \in 1..Len(queue)
      /\ Head(queue) = queue[1]
  BY DEF TypeOK
<1>2. /\ Closed(queue) \in Seq(Requests) /\ Len(Closed(queue)) = Len(queue)
      /\ Closed(queue)[1].type = queue[1].type
      /\ queue[1].type = "firmware_init" =>
           Closed(queue)[1].file = queue[1].file /\ Closed(queue)[1].id = queue[1].id
      /\ queue[1].type = "firmware_data" =>
           Closed(queue)[1].offset = queue[1].offset /\ Closed(queue)[1].length = queue[1].length
  BY <1>1, ClosedRequest, ClosedChunk
<1>3. /\ queue' \in Seq(Requests) /\ Len(queue') >= Len(queue)
      /\ queue'[1] = Closed(queue)[1] \/ queue'[1] = queue[1]
  <2>1. CASE queue' = Closed(queue)
    BY <1>1, <1>2, <2>1
  <2>2. CASE UNCHANGED queue
    BY <1>1, <2>2
  <2>3. CASE \E m \in Requests : SendRequest(m)
    BY <1>1, <1>2, <2>3, AfterSend
  <2> QED
    BY <2>1, <2>2, <2>3
<1>4. Len(queue') # 0
  BY <1>1, <1>3
<1>5. queue' # <<>> /\ Head(queue') = queue'[1]
  BY <1>3, <1>4
<1> QED
  BY <1>1, <1>2, <1>3, <1>5

\* The inits before a chunk stay those that were before it, ...
LEMMA CarriedInits ==
  ASSUME InitsOfFile, NEW d \in {0, 1}, Carried(d)
  PROVE  InitsOfFile'
<1>1. SUFFICES ASSUME NEW i \in 1..Len(queue'), queue'[i].type = "firmware_data",
                      NEW j \in 1..i, queue'[j].type = "firmware_init"
               PROVE  queue'[j].file = queue'[i].file
  BY DEF InitsOfFile
<1>2. /\ i + d \in 1..Len(queue) /\ queue[i + d].type = "firmware_data"
      /\ queue'[i].file = queue[i + d].file
  BY <1>1 DEF Carried
<1>3. j \in 1..Len(queue') /\ j + d \in 1..(i + d)
  OBVIOUS
<1>4. queue[j + d].type = "firmware_init" /\ queue'[j].file = queue[j + d].file
  BY <1>1, <1>3 DEF Carried
<1> QED
  BY <1>2, <1>3, <1>4 DEF InitsOfFile

\* ... and a chunk that is sent has only inits of its own file before it.
LEMMA SentInits ==
  ASSUME TypeOK, InitsOfFile, NEW m \in Requests, SendRequest(m),
         m.type = "firmware_data" => m.file = file /\ \A i \in 1..Len(queue) : OwnInit(queue[i])
  PROVE  InitsOfFile'
<1>1. queue \in Seq(Requests) /\ Len(queue) \in Nat
  BY DEF TypeOK
<1>2. CASE queue' = Closed(queue)
  BY <1>2, CloseCarries, CarriedInits
<1>3. CASE /\ Len(queue') = Len(queue) + 1
           /\ \A i \in 1..Len(queue) : queue'[i] = Closed(queue)[i]
           /\ queue'[Len(queue')] = m
  <2>1. \A i \in 1..Len(queue') : i \in 1..Len(queue) \/ i = Len(queue')
    BY <1>1, <1>3
  <2>2. \A i \in 1..Len(queue) :
          /\ queue'[i].type = queue[i].type
          /\ queue[i].type # "firmware_update_start" => queue'[i].file = queue[i].file
    BY <1>1, <1>3, ClosedFile
  <2>3. SUFFICES ASSUME NEW i \in 1..Len(queue'), queue'[i].type = "firmware_data",
                        NEW j \in 1..i, queue'[j].type = "firmware_init"
                 PROVE  queue'[j].file = queue'[i].file
    BY DEF InitsOfFile
  <2>4. CASE i \in 1..Len(queue)
    <3>1. j \in 1..Len(queue)
      BY <1>1, <2>4
    <3>2. /\ queue[i].type = "firmware_data" /\ queue'[i].file = queue[i].file
          /\ queue[j].type = "firmware_init" /\ queue'[j].file = queue[j].file
      BY <2>2, <2>3, <2>4, <3>1
    <3> QED
      BY <2>4, <3>2 DEF InitsOfFile
  <2>5. CASE i = Len(queue')
    <3>1. j \in 1..Len(queue) \/ j = i
      BY <1>1, <1>3, <2>5
    <3>2. m.type = "firmware_data" /\ queue'[i] = m /\ j # i
      BY <1>3, <2>3, <2>5
    <3> QED
      BY <2>2, <2>3, <3>1, <3>2 DEF OwnInit
  <2> QED
    BY <2>1, <2>4, <2>5
<1> QED
  BY <1>1, <1>2, <1>3, AfterSend

\* ChunksOfFile, of the requests under way and of the upload at work.
LEMMA ChunkParts == ChunksOfFile <=> InitsOfFile /\ WorkOfFile
  BY DEF ChunksOfFile, InitsOfFile, WorkOfFile

\* Nobody but the firmware thread changes a slot without dropping it.
OnlyDropped ==
  \A id \in Ids : firmware_update'[id] # NoUpload => firmware_update'[id] = firmware_update[id]

\* So that what the thread holds is what the slot holds, if anything.
LEMMA HeldStays ==
  ASSUME TypeOK, ThreadInv, HeldInv, OnlyDropped, UNCHANGED thread,
         thread # Waiting => UNCHANGED firmware_update_current_id,
         \/ queue' = Closed(queue) \/ UNCHANGED queue
         \/ \E m \in Requests : SendRequest(m)
  PROVE  HeldInv'
<1>1. CASE thread = Waiting
  BY <1>1 DEF HeldInv, At
<1>2. CASE ~(At("copied") \/ At("stored") \/ At("looked up"))
  BY <1>2 DEF HeldInv, At
<1>3. CASE thread # Waiting /\ (At("copied") \/ At("stored"))
  <2>1. queue # <<>> /\ Head(queue).type = "firmware_init" /\ Head(queue).id \in Ids
    BY <1>3, ThreadMessage DEF ThreadInv, Incoming, InitFirmware
  <2>2. Head(queue').id = Head(queue).id /\ Head(queue').file = Head(queue).file
    BY <2>1, HeadStays
  <2>3. UNCHANGED <<thread, firmware_update_current_id>> /\ ~At("looked up")
    BY <1>3 DEF At
  <2> QED
    BY <1>3, <2>1, <2>2, <2>3 DEF HeldInv, At, OnlyDropped, current
<1>4. CASE thread # Waiting /\ At("looked up")
  <2>1. queue # <<>> /\ Head(queue).type = "firmware_data" /\ firmware_update_current_id \in Ids
    BY <1>4 DEF ThreadInv, Incoming
  <2>2. Head(queue').offset = Head(queue).offset /\ Head(queue').length = Head(queue).length
    BY <2>1, HeadStays
  <2>3. UNCHANGED <<thread, firmware_update_current_id>> /\ ~At("copied") /\ ~At("stored")
    BY <1>4 DEF At
  <2> QED
    BY <1>4, <2>1, <2>2, <2>3 DEF HeldInv, At, OnlyDropped, current
<1> QED
  BY <1>1, <1>2, <1>3, <1>4

\* To drop an upload makes none of them longer than its file.
LEMMA DroppedOverflow ==
  ASSUME NoOverflow, OnlyDropped
  PROVE  NoOverflow'
  BY DEF NoOverflow, OnlyDropped

-----------------------------------------------------------------------------
(* The slots: upload.py, the value thread and restarts *)

\* A chunk is sent while the device works on this upload.py's file.
LEMMA UploadSlots ==
  ASSUME TypeOK, ThreadInv, SafeInv, ThreadSlotInv, UNCHANGED thread,
         \/ Client \/ StartFlash \/ Crash
         \/ \E f \in Files, id \in Ids, c \in ChunkSizes : Start(f, id, c)
  PROVE  ThreadSlotInv'
<1>1. /\ UNCHANGED deviceVars
      /\ \/ queue' = Closed(queue) \/ UNCHANGED queue
         \/ \E m \in Requests :
              SendRequest(m) /\ (m.type = "firmware_data" => Established /\ m.file = file)
  BY ClientRequests
<1>2. OnlyDropped
  BY <1>1 DEF OnlyDropped
<1>3. HeldInv'
  BY <1>1, <1>2, HeldStays DEF ThreadSlotInv
<1>4. NoOverflow'
  BY <1>2, DroppedOverflow DEF ThreadSlotInv
<1>5. CASE ~At("copied")
  <2>1. SlotInv
    BY <1>5, ChunkParts DEF SlotInv, ThreadSlotInv
  <2>2. SlotInv'
    BY <2>1, ClientSlots
  <2>3. InitsOfFile' /\ WorkOfFile' /\ ResumableHoldsPrefix'
    BY <2>2 DEF SlotInv, ChunksOfFile, InitsOfFile, WorkOfFile
  <2> QED
    BY <1>3, <1>4, <2>3 DEF ThreadSlotInv
<1>6. CASE At("copied")
  <2>1. At("copied")'
    BY <1>6 DEF At
  <2>2. ResumableHoldsPrefix'
    BY <1>2, SlotsStay DEF OnlyDropped, ThreadSlotInv
  <2>3. InitsOfFile'
    <3>1. CASE queue' = Closed(queue) \/ UNCHANGED queue
      BY <3>1, CloseCarries, CarriedInits DEF ThreadSlotInv
    <3>2. CASE \E m \in Requests :
                 SendRequest(m) /\ (m.type = "firmware_data" => Established /\ m.file = file)
      BY <3>2, SentInits DEF ThreadSlotInv, SafeInv, SessionInv
    <3> QED
      BY <1>1, <3>1, <3>2
  <2> QED
    BY <1>3, <1>4, <2>1, <2>2, <2>3 DEF ThreadSlotInv
<1> QED
  BY <1>5, <1>6

\* A dropped slot is a slot less that somebody works on.
LEMMA DroppedSlots ==
  ASSUME TypeOK, ThreadInv, ThreadSlotInv, OnlyDropped, UNCHANGED <<thread, queue>>,
         firmware_update_current_id' \in {firmware_update_current_id, NoId},
         thread # Waiting => UNCHANGED firmware_update_current_id
  PROVE  ThreadSlotInv'
<1>1. HeldInv'
  BY HeldStays DEF ThreadSlotInv
<1>2. NoOverflow' /\ ResumableHoldsPrefix'
  BY DroppedOverflow, SlotsStay DEF ThreadSlotInv, OnlyDropped
<1>3. InitsOfFile'
  BY DEF ThreadSlotInv, InitsOfFile
<1>4. ASSUME ~At("copied") PROVE WorkOfFile'
  <2>1. \A f : WorksOn(f) => WorksOn(f)'
    BY WorkStays DEF OnlyDropped
  <2> QED
    BY <1>4, <2>1 DEF ThreadSlotInv, WorkOfFile
<1>5. At("copied") => At("copied")'
  BY DEF At
<1> QED
  BY <1>1, <1>2, <1>3, <1>4, <1>5 DEF ThreadSlotInv

\* Everybody else drops uploads, and does nothing else to them.
LEMMA EnvironmentDrops ==
  ASSUME TypeOK, (\E id \in Ids, tag \in Tags : SetDataDownloadInt(id, tag)) \/ DeviceRestart
  PROVE  OnlyDropped
  BY DEF OnlyDropped, SetDataDownloadInt, DeviceRestart, TypeOK, DeviceTypeOK

\* An announcement of another file, and a restart, drop slots.
LEMMA ValueThreadSlots ==
  ASSUME TypedSession, LastGet, SafeInv, ThreadSlotInv, HandleSetValue \/ HandleGetValue \/ Restart
  PROVE  SafeInv' /\ ThreadSlotInv'
<1>1. TypeOK /\ ThreadInv /\ values \in Seq(ValueRequests)
  BY TypedParts DEF ValuesTypeOK
<1>2. UNCHANGED <<thread, clientVars, channelVars>>
  BY DEF HandleSetValue, HandleGetValue, Restart, SetDataDownloadInt, DeviceRestart, vars
<1>3. \/ \E id \in Ids, tag \in Tags : SetDataDownloadInt(id, tag)
      \/ thread = Waiting /\ DeviceRestart
      \/ UNCHANGED deviceVars
  <2>1. CASE HandleSetValue
    <3>1. /\ values # <<>> /\ Head(values).type = "set" /\ ValuePort!TakeIncoming
      BY <2>1 DEF HandleSetValue, ValuePort!Incoming, ValuePort!Ignore
    <3>2. Head(values) \in ValueRequests
      BY <1>1, <3>1
    <3>3. Head(values).value \in Ids \X Tags
      BY <3>1, <3>2 DEF ValueRequests
    <3> QED
      BY <2>1, <3>3 DEF HandleSetValue
  <2>2. CASE HandleGetValue \/ Restart
    BY <2>2 DEF HandleGetValue, Restart, vars
  <2> QED
    BY <2>1, <2>2
<1>4. CASE UNCHANGED deviceVars
  <2>1. OnlyDropped
    BY <1>4 DEF OnlyDropped
  <2>2. ThreadSlotInv'
    BY <1>1, <1>2, <1>4, <2>1, DroppedSlots
  <2>3. SafeInv'
    BY <1>2, <1>4
       DEF SafeInv, LiveRequest, OwnInit, SessionInv, Established, FlashInv, ContentIs
  <2> QED
    BY <2>2, <2>3
<1>5. CASE \/ \E id \in Ids, tag \in Tags : SetDataDownloadInt(id, tag)
           \/ thread = Waiting /\ DeviceRestart
  <2>1. SafeInv'
    BY <1>1, <1>2, <1>5, EnvironmentSafe DEF Environment
  <2>2. /\ firmware_update_current_id' \in {firmware_update_current_id, NoId}
        /\ thread # Waiting => UNCHANGED firmware_update_current_id
    BY <1>5 DEF SetDataDownloadInt, DeviceRestart
  <2>3. ThreadSlotInv'
    BY <1>1, <1>2, <1>5, <2>2, EnvironmentDrops, DroppedSlots
  <2> QED
    BY <2>1, <2>3
<1> QED
  BY <1>3, <1>4, <1>5

-----------------------------------------------------------------------------
(* The slots: the firmware thread *)

\* The init that the thread takes or has.
LEMMA InitMessage ==
  ASSUME TypeOK, Incoming("firmware_init")
  PROVE  /\ Head(queue) = queue[1] /\ 1 \in 1..Len(queue)
         /\ Head(queue).type = "firmware_init"
         /\ Head(queue).file \in Files /\ Head(queue).id \in Ids
         /\ Size[Head(queue).file] \in Nat
<1>1. queue # <<>> /\ Head(queue) \in InitFirmware
  BY ThreadMessage
<1>2. queue \in Seq(Requests)
  BY DEF TypeOK
<1> QED
  BY <1>1, <1>2, SizeAssumption DEF InitFirmware

\* Steps that handle a message at once.
LEMMA AtomicSlots ==
  ASSUME TypedSession, SafeInv, ThreadSlotInv, RefuseData \/ FlashStart
  PROVE  SafeInv' /\ ThreadSlotInv'
<1>1. TypeOK /\ Device /\ thread = Waiting /\ thread' = Waiting
  BY TypedParts DEF RefuseData, FlashStart, ThreadStep, Device, HandleFirmwareUpdate
<1>2. SafeInv'
  BY <1>1, DeviceSafe
<1>3. SlotInv'
  <2>1. SlotInv
    BY <1>1, ChunkParts DEF SlotInv, ThreadSlotInv, At
  <2> QED
    BY <1>1, <2>1, DeviceSlots
<1>4. OnlyDropped
  BY <1>1 DEF RefuseData, FlashStart, HandleUpdateStart, StartUpdate, OnlyDropped, TypeOK, DeviceTypeOK
<1>5. NoOverflow' /\ HeldInv'
  BY <1>1, <1>4, DroppedOverflow DEF ThreadSlotInv, HeldInv, At
<1> QED
  BY <1>2, <1>3, <1>5 DEF SlotInv, ThreadSlotInv, ChunksOfFile, InitsOfFile, WorkOfFile

\* The init is of this upload.py, if the device has accepted its init already.
LEMMA CopySlots ==
  ASSUME TypedSession, SafeInv, ThreadSlotInv, CopyPrevious
  PROVE  SafeInv' /\ ThreadSlotInv'
<1>1. TypeOK /\ Incoming("firmware_init")
  BY TypedParts DEF CopyPrevious
<1>2. PICK m : m = Head(queue)
  OBVIOUS
<1>3. m = queue[1] /\ 1 \in 1..Len(queue) /\ m.type = "firmware_init" /\ m.id \in Ids
  BY <1>1, <1>2, InitMessage
<1>4. /\ UNCHANGED <<clientVars, channelVars, firmware_update, flashed>>
      /\ firmware_update_current_id' = m.id
      /\ thread' = [at |-> "copied", held |-> firmware_update[m.id]]
  BY <1>2 DEF CopyPrevious, ThreadStep
<1>5. LiveRequest' /\ FlashInv'
  BY <1>4 DEF SafeInv, LiveRequest, OwnInit, FlashInv, ContentIs
<1>6. SessionInv'
  <2>1. SUFFICES ASSUME Established'
                 PROVE  SessionInv'
    BY DEF SessionInv
  <2>2. Established
    BY <1>4, <2>1 DEF Established
  <2>3. m.id = firmware_id
    BY <1>3, <2>2 DEF SafeInv, SessionInv, OwnInit
  <2> QED
    BY <1>4, <2>2, <2>3 DEF SafeInv, SessionInv, OwnInit
<1>7. thread' # Waiting
  <2>1. firmware_update[m.id] \in Uploads \cup {NoUpload}
    BY <1>1, <1>3 DEF TypeOK, DeviceTypeOK
  <2>2. [at |-> "copied", held |-> firmware_update[m.id]] \in Threads
    BY <2>1 DEF Threads
  <2> QED
    BY <1>4, <2>2, WaitingAssumption
<1>8. HeldInv'
  <2>1. firmware_update[m.id] # NoUpload =>
          /\ firmware_update[m.id].current_size <= Size[firmware_update[m.id].checksum]
          /\ m.id >= 255 => firmware_update[m.id].checksum \in firmware_update[m.id].received
    BY <1>3 DEF ThreadSlotInv, NoOverflow, ResumableHoldsPrefix
  <2>2. ~At("stored")' /\ ~At("looked up")'
    BY <1>4 DEF At
  <2>3. thread'.held = firmware_update[m.id] /\ Head(queue') = m
    BY <1>2, <1>4
  <2>4. current' = firmware_update[m.id]
    BY <1>4 DEF current
  <2> QED
    BY <1>4, <2>1, <2>2, <2>3, <2>4 DEF HeldInv
<1>9. At("copied")'
  BY <1>4, <1>7 DEF At
<1>10. InitsOfFile' /\ ResumableHoldsPrefix' /\ NoOverflow'
  BY <1>4 DEF ThreadSlotInv, InitsOfFile, ResumableHoldsPrefix, NoOverflow
<1> QED
  BY <1>5, <1>6, <1>8, <1>9, <1>10 DEF SafeInv, ThreadSlotInv

\* The slot is now of the file that the init announces.
LEMMA FreshSlots ==
  ASSUME TypedSession, SafeInv, ThreadSlotInv, StoreFresh
  PROVE  SafeInv' /\ ThreadSlotInv'
<1>1. TypeOK /\ Incoming("firmware_init") /\ At("copied")
  BY TypedParts DEF StoreFresh, ThreadInv
<1>2. PICK m : m = Head(queue)
  OBVIOUS
<1>3. /\ m = queue[1] /\ 1 \in 1..Len(queue) /\ m.type = "firmware_init"
      /\ m.file \in Files /\ m.id \in Ids /\ Size[m.file] \in Nat
  BY <1>1, <1>2, InitMessage
<1>4. PICK u : u = FreshUpload(m.file)
  OBVIOUS
<1>5. u.checksum = m.file /\ u.current_size = 0 /\ m.file \in u.received
  BY <1>3, <1>4 DEF FreshUpload
<1>6. /\ UNCHANGED <<clientVars, channelVars, firmware_update_current_id, flashed>>
      /\ firmware_update' = [firmware_update EXCEPT ![m.id] = u]
      /\ thread' = [thread EXCEPT !.at = "stored"]
  BY <1>2, <1>4 DEF StoreFresh, ThreadStep
<1>7. /\ firmware_update'[m.id] = u
      /\ \A id \in Ids : id # m.id => firmware_update'[id] = firmware_update[id]
  BY <1>1, <1>3, <1>6 DEF TypeOK, DeviceTypeOK
<1>8. thread'.at = "stored" /\ thread'.held = thread.held
  <2>1. thread \in Threads
    BY <1>1, TypedParts DEF PortTypeOK, At
  <2> QED
    BY <1>6, <2>1 DEF Threads
<1>9. firmware_update_current_id = m.id
  BY <1>1, <1>2 DEF ThreadSlotInv, HeldInv
<1>10. LiveRequest' /\ FlashInv'
  BY <1>6 DEF SafeInv, LiveRequest, OwnInit, FlashInv, ContentIs
<1>11. SessionInv'
  <2>1. SUFFICES ASSUME Established'
                 PROVE  SessionInv'
    BY DEF SessionInv
  <2>2. Established
    BY <1>6, <2>1 DEF Established
  <2>3. m.id = firmware_id /\ m.file = file
    BY <1>3, <2>2 DEF SafeInv, SessionInv, OwnInit
  <2> QED
    BY <1>5, <1>6, <1>7, <2>2, <2>3 DEF SafeInv, SessionInv, OwnInit
<1>12. HeldInv'
  <2>1. ~At("copied")' /\ ~At("looked up")'
    BY <1>8 DEF At
  <2>2. current' = u
    BY <1>6, <1>7, <1>9 DEF current
  <2>3. Head(queue') = m /\ firmware_update_current_id' = m.id
    BY <1>2, <1>6, <1>9
  <2> QED
    BY <1>1, <1>2, <1>4, <1>8, <2>1, <2>2, <2>3 DEF ThreadSlotInv, HeldInv
<1>13. WorkOfFile'
  <2>1. SUFFICES ASSUME NEW i \in 1..Len(queue), queue[i].type = "firmware_data"
                 PROVE  WorksOn(queue[i].file)'
    BY <1>6 DEF WorkOfFile
  <2>2. 1 \in 1..i
    BY <1>3
  <2>3. queue[i].file = m.file
    BY <1>3, <2>1, <2>2 DEF ThreadSlotInv, InitsOfFile
  <2> QED
    BY <1>5, <1>6, <1>7, <1>9, <2>3 DEF WorksOn, current
<1>14. ResumableHoldsPrefix' /\ NoOverflow'
  BY <1>3, <1>5, <1>7 DEF ThreadSlotInv, ResumableHoldsPrefix, NoOverflow
<1>15. InitsOfFile'
  BY <1>6 DEF ThreadSlotInv, InitsOfFile
<1> QED
  BY <1>10, <1>11, <1>12, <1>13, <1>14, <1>15 DEF SafeInv, ThreadSlotInv

\* What the thread looks up is in the slot at that moment.
LEMMA LookUpSlots ==
  ASSUME TypedSession, SafeInv, ThreadSlotInv, LookUp
  PROVE  SafeInv' /\ ThreadSlotInv'
<1>1. /\ UNCHANGED <<clientVars, channelVars, deviceVars>>
      /\ thread' = [at |-> "looked up", held |-> current] /\ Fits(Head(queue))
      /\ thread = Waiting
  BY DEF LookUp, ThreadStep
<1>2. SafeInv'
  BY <1>1 DEF SafeInv, LiveRequest, OwnInit, SessionInv, Established, FlashInv, ContentIs
<1>3. HeldInv'
  BY <1>1 DEF HeldInv, At, Fits, NothingMissing, current
<1>4. InitsOfFile' /\ WorkOfFile' /\ ResumableHoldsPrefix' /\ NoOverflow'
  BY <1>1 DEF ThreadSlotInv, At, InitsOfFile, WorkOfFile, WorksOn, Initialized, current,
              ResumableHoldsPrefix, NoOverflow
<1> QED
  BY <1>2, <1>3, <1>4 DEF ThreadSlotInv

\* The init is answered: the slot holds what the thread held or the fresh
\* upload, both of the file of the init, or was dropped in between.
LEMMA AnswerInitSlots ==
  ASSUME TypedSession, SafeInv, ThreadSlotInv, AnswerInit
  PROVE  SafeInv' /\ ThreadSlotInv'
<1> DEFINE m == Head(queue)
           state == IF Resumes(m, thread.held) THEN thread.held ELSE FreshUpload(m.file)
<1>1. TypeOK /\ Incoming("firmware_init") /\ At("stored") /\ queue # <<>>
  BY TypedParts DEF AnswerInit, ThreadInv, Incoming
<1>2. /\ m = queue[1] /\ 1 \in 1..Len(queue) /\ m.type = "firmware_init"
      /\ m.file \in Files /\ m.id \in Ids /\ Size[m.file] \in Nat
  BY <1>1, InitMessage
<1>3. /\ UNCHANGED <<clientVars, firmware_update_current_id, flashed>> /\ thread' = Waiting
      /\ firmware_update' = Keep(m.id, state)
      /\ Respond(Report("OK", state.current_size))
  BY DEF AnswerInit, ThreadStep
<1>4. /\ state.checksum = m.file
      /\ m.id >= 255 => m.file \in state.received
      /\ state.current_size <= Size[m.file]
  <2>1. thread.held # NoUpload =>
          /\ thread.held.current_size <= Size[thread.held.checksum]
          /\ m.id >= 255 => thread.held.checksum \in thread.held.received
    BY <1>1 DEF ThreadSlotInv, HeldInv
  <2>2. CASE Resumes(m, thread.held)
    <3>1. thread.held # NoUpload /\ thread.held.checksum = m.file /\ state = thread.held
      BY <2>2 DEF Resumes
    <3> QED
      BY <2>1, <3>1
  <2>3. CASE ~Resumes(m, thread.held)
    <3>1. state = FreshUpload(m.file)
      BY <2>3
    <3> QED
      BY <1>2, <3>1 DEF FreshUpload
  <2> QED
    BY <2>2, <2>3
<1>5. /\ firmware_update_current_id = m.id
      /\ firmware_update[m.id] # NoUpload => firmware_update[m.id].checksum = m.file
  <2>1. firmware_update_current_id = m.id /\ current \in {NoUpload, FreshUpload(m.file)}
    BY <1>1 DEF ThreadSlotInv, HeldInv
  <2>2. FreshUpload(m.file).checksum = m.file
    BY DEF FreshUpload
  <2> QED
    BY <2>1, <2>2 DEF current
<1>6. PICK r : r = Report("OK", state.current_size)
  OBVIOUS
<1>7. /\ \A id \in Ids : id # m.id => firmware_update'[id] = firmware_update[id]
      /\ firmware_update'[m.id] # NoUpload =>
           firmware_update[m.id] # NoUpload /\ firmware_update'[m.id] = state
  BY <1>1, <1>2, <1>3 DEF Keep, TypeOK, DeviceTypeOK
<1> HIDE DEF state
<1>8. LiveRequest' /\ FlashInv'
  BY <1>1, <1>2, <1>3, DeviceLive, DeviceFlash DEF SafeInv
<1>9. ASSUME Established' PROVE SessionInv'
  <2>1. /\ \A i \in 1..Len(queue) : OwnInit(queue[i])
        /\ \A i \in 1..Len(queue') : OwnInit(queue'[i])
    BY <1>1, <1>3, <1>9, DeviceInits DEF SafeInv
  <2>2. m.file = file /\ m.id = firmware_id
    BY <1>2, <2>1 DEF OwnInit
  <2> QED
    BY <1>3, <1>4, <1>5, <1>7, <2>1, <2>2 DEF SessionInv, OwnInit
<1>10. PICK d \in {0, 1} : Carried(d)
  BY <1>1, <1>3, TakeCarries DEF Respond
<1>11. ChunksOfFile'
  <2>1. ChunksOfFile
    <3>1. ~At("copied")
      BY <1>1 DEF At
    <3> QED
      BY <3>1, ChunkParts DEF ThreadSlotInv
  <2>2. \A id \in Ids : firmware_update'[id] # NoUpload =>
          /\ firmware_update[id] # NoUpload
          /\ firmware_update'[id].checksum = firmware_update[id].checksum
    BY <1>4, <1>5, <1>7
  <2>3. \A f : WorksOn(f) => WorksOn(f)'
    BY <1>1, <1>3, <2>2, WorkStays
  <2> QED
    BY <1>1, <1>10, <2>1, <2>3, MovedChunks
<1>12. ResumableHoldsPrefix' /\ NoOverflow'
  BY <1>4, <1>7 DEF ThreadSlotInv, ResumableHoldsPrefix, NoOverflow
<1>13. HeldInv'
  BY <1>3 DEF HeldInv, At
<1> QED
  BY <1>8, <1>9, <1>11, <1>12, <1>13
     DEF SafeInv, SessionInv, ThreadSlotInv, ChunksOfFile, InitsOfFile, WorkOfFile

\* The head of a queue is its first element.
LEMMA HeadFirst ==
  ASSUME NEW S, NEW q \in Seq(S), q # <<>>
  PROVE  Head(q) = q[1] /\ 1 \in 1..Len(q)
  OBVIOUS

\* The chunk that the thread has, and the upload that it looked up for it.
LEMMA ChunkMessage ==
  ASSUME TypedSession, ThreadSlotInv, At("looked up")
  PROVE  /\ queue # <<>> /\ Head(queue) = queue[1] /\ 1 \in 1..Len(queue)
         /\ Head(queue).type = "firmware_data" /\ Head(queue).file \in Files
         /\ Head(queue).length \in Nat
         /\ firmware_update_current_id \in Ids
         /\ thread.held \in Uploads
         /\ current = firmware_update[firmware_update_current_id]
         /\ current # NoUpload => current = thread.held
         /\ Head(queue).offset = thread.held.current_size
         /\ thread.held.current_size + Head(queue).length <= Size[thread.held.checksum]
<1>1. TypeOK /\ ThreadInv /\ PortTypeOK
  BY TypedParts
<1>2. /\ Incoming("firmware_data") /\ firmware_update_current_id \in Ids
      /\ thread.held # NoUpload /\ thread \in Threads
  BY <1>1 DEF ThreadInv, PortTypeOK, At
<1>3. queue # <<>> /\ Head(queue) \in FirmwareData /\ queue \in Seq(Requests)
  BY <1>1, <1>2, ThreadMessage DEF TypeOK
<1>4. thread.held \in Uploads
  BY <1>2 DEF Threads
<1>5. /\ current \in {NoUpload, thread.held}
      /\ Head(queue).offset = thread.held.current_size
      /\ thread.held.current_size + Head(queue).length <= Size[thread.held.checksum]
  BY DEF ThreadSlotInv, HeldInv
<1>6. Head(queue) = queue[1] /\ 1 \in 1..Len(queue)
  BY <1>3, HeadFirst
<1>7. /\ Head(queue).type = "firmware_data" /\ Head(queue).file \in Files
      /\ Head(queue).length \in Nat
  BY <1>3 DEF FirmwareData
<1>8. current = firmware_update[firmware_update_current_id]
  BY DEF current
<1> QED
  BY <1>2, <1>3, <1>4, <1>5, <1>6, <1>7, <1>8

\* The chunk goes to the upload that was looked up, which is the slot's or
\* nobody's.
LEMMA AnswerDataSlots ==
  ASSUME TypedSession, SafeInv, ThreadSlotInv, AnswerData
  PROVE  SafeInv' /\ ThreadSlotInv'
<1> DEFINE m == Head(queue)
           upload == Stored(thread.held, m)
           slot == firmware_update_current_id
<1>1. TypeOK /\ At("looked up")
  BY TypedParts DEF AnswerData
<1>2. /\ queue # <<>> /\ m = queue[1] /\ 1 \in 1..Len(queue)
      /\ m.type = "firmware_data" /\ slot \in Ids /\ current = firmware_update[slot]
      /\ current # NoUpload => current = thread.held
      /\ m.offset = thread.held.current_size
      /\ thread.held.current_size + m.length <= Size[thread.held.checksum]
  BY <1>1, ChunkMessage
<1>3. /\ UNCHANGED <<clientVars, firmware_update_current_id, flashed>> /\ thread' = Waiting
      /\ firmware_update' = Keep(slot, upload)
      /\ Respond(Report("OK", upload.current_size))
  BY DEF AnswerData, ThreadStep
<1>4. /\ upload.checksum = thread.held.checksum
      /\ upload.current_size = thread.held.current_size + m.length
      /\ upload.received = {f \in thread.held.received : f = m.file /\ m.offset = thread.held.current_size}
  BY DEF Stored
<1> HIDE DEF upload
<1>5. /\ \A id \in Ids : id # slot => firmware_update'[id] = firmware_update[id]
      /\ firmware_update'[slot] # NoUpload =>
           /\ firmware_update[slot] = thread.held /\ thread.held # NoUpload
           /\ firmware_update'[slot] = upload
  BY <1>1, <1>2, <1>3 DEF Keep, TypeOK, DeviceTypeOK
<1>6. \A id \in Ids : firmware_update'[id] # NoUpload =>
        /\ firmware_update[id] # NoUpload
        /\ firmware_update'[id].checksum = firmware_update[id].checksum
  BY <1>4, <1>5
<1>7. LiveRequest' /\ FlashInv'
  BY <1>1, <1>2, <1>3, DeviceLive, DeviceFlash DEF SafeInv
<1>8. ASSUME Established' PROVE SessionInv'
  <2>1. /\ \A i \in 1..Len(queue') : OwnInit(queue'[i])
        /\ Established
    BY <1>1, <1>2, <1>3, <1>8, DeviceInits DEF SafeInv
  <2>2. firmware_id \in Ids
    BY <1>1, <2>1 DEF Established, TypeOK
  <2> QED
    BY <1>3, <1>6, <2>1, <2>2 DEF SafeInv, SessionInv, OwnInit
<1>9. ChunksOfFile
  <2>1. ~At("copied")
    BY <1>1 DEF At
  <2> QED
    BY <2>1, ChunkParts DEF ThreadSlotInv
<1>10. ChunksOfFile'
  <2>1. \A f : WorksOn(f) => WorksOn(f)'
    BY <1>1, <1>3, <1>6, WorkStays
  <2> QED
    BY <1>1, <1>2, <1>3, <1>9, <2>1, TakeCarries, MovedChunks DEF Respond
<1>11. ResumableHoldsPrefix'
  <2>1. ASSUME slot >= 255, firmware_update'[slot] # NoUpload
        PROVE  upload.checksum \in upload.received
    <3>1. WorksOn(m.file)
      BY <1>2, <1>9 DEF ChunksOfFile
    <3>2. slot # NoId
      BY <1>2, IdsAssumption
    <3>3. thread.held.checksum = m.file /\ thread.held.checksum \in thread.held.received
      BY <1>2, <1>5, <2>1, <3>1, <3>2
         DEF WorksOn, Initialized, ThreadSlotInv, ResumableHoldsPrefix
    <3> QED
      BY <1>2, <1>4, <3>3
  <2> QED
    BY <1>5, <2>1 DEF ThreadSlotInv, ResumableHoldsPrefix
<1>12. NoOverflow'
  BY <1>2, <1>4, <1>5 DEF ThreadSlotInv, NoOverflow
<1>13. HeldInv'
  BY <1>3 DEF HeldInv, At
<1> QED
  BY <1>7, <1>8, <1>10, <1>11, <1>12, <1>13
     DEF SafeInv, SessionInv, ThreadSlotInv, ChunksOfFile, InitsOfFile, WorkOfFile

-----------------------------------------------------------------------------
(* UploadedIsComplete with both threads *)

\* While an init is handled, no chunk of this upload.py was sent.
LEMMA BeforeChunks ==
  ASSUME TypeOK, UploadInv, Incoming("firmware_init")
  PROVE  reply = NoReply /\ phase \in {"idle", "init", "flash", "flashed"}
<1>1. queue # <<>> /\ Head(queue) = queue[1] /\ 1 \in 1..Len(queue) /\ queue[1].type = "firmware_init"
  BY InitMessage DEF Incoming
<1>2. phase # "data"
  BY <1>1 DEF UploadInv, OneChunk
<1> QED
  BY <1>1, <1>2 DEF UploadInv, NoneLeft, TypeOK, Phases

\* A fresh upload in the slot is nothing that this upload.py was told of.
LEMMA FreshComplete ==
  ASSUME TypedSession, UploadInv, CopyPrevious \/ StoreFresh \/ LookUp, NoOverflow'
  PROVE  UploadInv'
<1>1. UNCHANGED <<clientVars, channelVars>>
  BY DEF CopyPrevious, StoreFresh, LookUp, ThreadStep
<1>2. CASE UNCHANGED firmware_update
  BY <1>1, <1>2 DEF UploadInv, NoneLeft, OneChunk, NoOverflow, HoldsPrefix, InStep,
                    SizeAccepted, UploadedIsComplete, Established, ContentIs
<1>3. CASE StoreFresh
  <2>1. TypeOK /\ Incoming("firmware_init")
    BY <1>3, TypedParts DEF StoreFresh, ThreadInv
  <2>2. reply = NoReply /\ phase \in {"idle", "init", "flash", "flashed"}
    BY <2>1, BeforeChunks
  <2>3. NoneLeft' /\ OneChunk' /\ SizeAccepted'
    BY <1>1 DEF UploadInv, NoneLeft, OneChunk, SizeAccepted
  <2>4. HoldsPrefix' /\ InStep' /\ UploadedIsComplete'
    BY <1>1, <2>2 DEF UploadInv, HoldsPrefix, InStep, UploadedIsComplete, Established
  <2> QED
    BY <2>3, <2>4 DEF UploadInv
<1> QED
  BY <1>2, <1>3 DEF CopyPrevious, LookUp

\* The init that is answered says where the upload goes on, or the slot was
\* dropped.
LEMMA AnswerInitComplete ==
  ASSUME TypedSession, SafeInv, ThreadSlotInv, UploadInv, ~Duplication, AnswerInit, NoOverflow'
  PROVE  UploadInv'
<1> DEFINE m == Head(queue)
           state == IF Resumes(m, thread.held) THEN thread.held ELSE FreshUpload(m.file)
           r == Report("OK", state.current_size)
<1>1. TypeOK /\ Incoming("firmware_init") /\ At("stored") /\ queue # <<>>
  BY TypedParts DEF AnswerInit, ThreadInv, Incoming
<1>2. /\ m = queue[1] /\ 1 \in 1..Len(queue) /\ m.type = "firmware_init"
      /\ m.file \in Files /\ m.id \in Ids
  BY <1>1, InitMessage
<1>3. /\ UNCHANGED clientVars /\ firmware_update' = Keep(m.id, state) /\ Respond(r)
  BY DEF AnswerInit, ThreadStep
<1>4. m.file \in state.received
  BY <1>1, <1>2 DEF ThreadSlotInv, HeldInv, Resumes, FreshUpload
<1>5. r.status = "OK" /\ r.expected_offset = state.current_size
  BY DEF Report
<1>6. firmware_update'[m.id] # NoUpload => firmware_update'[m.id] = state
  BY <1>1, <1>2, <1>3 DEF Keep, TypeOK, DeviceTypeOK
<1> HIDE DEF state, r
<1>7. /\ phase \in {"idle", "init", "flash", "flashed"}
      /\ reply = NoReply /\ reply' \in {NoReply, r}
      /\ reply' # NoReply => phase \in {"init", "flash"}
      /\ NoneLeft' /\ OneChunk' /\ UploadedIsComplete'
  BY <1>1, <1>2, <1>3, BeforeChunks, TakeComplete
<1>8. SizeAccepted'
  BY <1>5, <1>7 DEF SizeAccepted
<1>9. ASSUME Established', phase \notin {"flash", "flashed"}
      PROVE  /\ phase = "init" /\ reply' = r
             /\ m.file = file /\ m.id = firmware_id
  <2>1. phase = "init" /\ reply' = r
    BY <1>3, <1>7, <1>9 DEF Established
  <2>2. \A i \in 1..Len(queue) : OwnInit(queue[i])
    BY <1>1, <1>3, <1>9, DeviceInits DEF SafeInv
  <2> QED
    BY <1>2, <2>1, <2>2 DEF OwnInit
<1>10. HoldsPrefix'
  BY <1>3, <1>4, <1>6, <1>9 DEF HoldsPrefix
<1>11. InStep'
  BY <1>3, <1>5, <1>6, <1>7, <1>9 DEF UploadInv, InStep
<1> QED
  BY <1>7, <1>8, <1>10, <1>11 DEF UploadInv

\* The answer to a chunk says how long the upload is, or the slot was dropped.
LEMMA AnswerDataComplete ==
  ASSUME TypedSession, SafeInv, ThreadSlotInv, UploadInv, ~Duplication, AnswerData, NoOverflow'
  PROVE  UploadInv'
<1> DEFINE m == Head(queue)
           upload == Stored(thread.held, m)
           slot == firmware_update_current_id
           r == Report("OK", upload.current_size)
<1>1. TypeOK /\ At("looked up")
  BY TypedParts DEF AnswerData
<1>2. /\ queue # <<>> /\ m.type = "firmware_data" /\ slot \in Ids
      /\ current = firmware_update[slot]
      /\ current # NoUpload => current = thread.held
      /\ m.offset = thread.held.current_size
  BY <1>1, ChunkMessage
<1>3. UNCHANGED clientVars /\ firmware_update' = Keep(slot, upload) /\ Respond(r)
  BY DEF AnswerData, ThreadStep
<1>4. /\ upload.current_size = thread.held.current_size + m.length
      /\ upload.received = {f \in thread.held.received : f = m.file /\ m.offset = thread.held.current_size}
  BY DEF Stored
<1>5. r.status = "OK"
  BY DEF Report
<1>6. /\ \A id \in Ids : id # slot => firmware_update'[id] = firmware_update[id]
      /\ firmware_update'[slot] # NoUpload =>
           firmware_update[slot] = thread.held /\ firmware_update[slot] # NoUpload
             /\ firmware_update'[slot] = upload
  BY <1>1, <1>2, <1>3 DEF Keep, TypeOK, DeviceTypeOK
<1> HIDE DEF upload, r
<1>7. /\ reply = NoReply /\ phase \notin {"read", "uploaded"} /\ reply' \in {NoReply, r}
      /\ reply' # NoReply => phase = "data"
      /\ NoneLeft' /\ OneChunk' /\ UploadedIsComplete'
      /\ phase = "data" =>
           /\ position = current_offset + length
           /\ m.file = file /\ m.offset = current_offset /\ m.length = length
  BY <1>1, <1>2, <1>3, TakeComplete
<1>8. SizeAccepted'
  BY <1>5, <1>7 DEF SizeAccepted
<1>9. Established' /\ phase \notin {"flash", "flashed"} =>
        phase = "data" /\ Established /\ firmware_id \in Ids
  BY <1>1, <1>3, <1>7 DEF Established, TypeOK
<1>10. phase = "data" => slot = firmware_id
  BY <1>2, IdsAssumption DEF SafeInv, SessionInv, Established
<1>11. HoldsPrefix'
  BY <1>3, <1>4, <1>6, <1>7, <1>9, <1>10, <1>2 DEF UploadInv, HoldsPrefix
<1>12. phase = "data" => position = upload.current_size
  BY <1>2, <1>4, <1>7
<1>13. InStep'
  BY <1>3, <1>5, <1>6, <1>7, <1>9, <1>10, <1>12 DEF UploadInv, InStep
<1> QED
  BY <1>7, <1>8, <1>11, <1>13 DEF UploadInv

-----------------------------------------------------------------------------
(* The theorems about the slots *)

\* What upload.py does before the init touches neither port nor slot.
LEMMA PreparationStays ==
  ASSUME (\E s \in Sessions : Prepare(s)) \/ SetData \/ GetData \/ Retry \/ GiveUp \/ Killed
  PROVE  UNCHANGED vars
  BY DEF Prepare, SetData, SetDataAgain, GetData, Retry, GiveUp, Killed, EndSession

\* Both invariants are matters of the device, the client and the thread's place.
LEMMA SlotsStutter ==
  ASSUME SafeInv, ThreadSlotInv, UNCHANGED <<thread, vars>>
  PROVE  SafeInv' /\ ThreadSlotInv'
<1> USE DEF vars
<1>1. SafeInv'
  BY DEF SafeInv, LiveRequest, OwnInit, SessionInv, Established, FlashInv, ContentIs
<1>2. HeldInv'
  BY DEF ThreadSlotInv, HeldInv, At, current
<1>3. InitsOfFile' /\ (At("copied")' \/ WorkOfFile') /\ ResumableHoldsPrefix' /\ NoOverflow'
  BY DEF ThreadSlotInv, At, InitsOfFile, WorkOfFile, WorksOn, Initialized, current,
         ResumableHoldsPrefix, NoOverflow
<1> QED
  BY <1>1, <1>2, <1>3 DEF ThreadSlotInv

\* They are inductive, with the types of the session.
LEMMA SlotStep ==
  ASSUME AnnouncementInv, SafeInv, ThreadSlotInv, [SessionNext]_sessionVars
  PROVE  SafeInv' /\ ThreadSlotInv'
<1>1. TypedSession /\ LastGet /\ TypeOK /\ ThreadInv /\ RunTypeOK
  BY AnnouncementParts, TypedParts
<1>2. CASE /\ (\E s \in Sessions : Prepare(s)) \/ SetData \/ GetData \/ Retry \/ GiveUp \/ Killed
           /\ UNCHANGED <<data_download_int, thread>>
  BY <1>2, PreparationStays, SlotsStutter
<1>3. CASE Begin /\ UNCHANGED <<data_download_int, thread>>
  <2>1. PICK c \in ChunkSizes : Start(session.file, session.id, c)
    BY <1>3 DEF Begin
  <2>2. session \in Sessions
    BY <1>1, <1>3 DEF RunTypeOK, Begin, Confirms, Answer
  <2>3. session.file \in Files /\ session.id \in Ids
    BY <2>2, SessionsAssumption
  <2>4. SafeInv'
    BY <1>1, <2>1, <2>3, SendInitSafe DEF Start
  <2> QED
    BY <1>1, <1>3, <2>1, <2>3, <2>4, UploadSlots
<1>4. CASE Upload
  BY <1>1, <1>4, ClientSafe, UploadSlots DEF Upload
<1>5. CASE HandleSetValue \/ HandleGetValue \/ Restart
  BY <1>1, <1>5, ValueThreadSlots
<1>6. CASE FirmwareThread
  BY <1>1, <1>6, CopySlots, FreshSlots, AnswerInitSlots, AtomicSlots, LookUpSlots, AnswerDataSlots
     DEF FirmwareThread
<1>7. CASE UNCHANGED sessionVars
  BY <1>7, SlotsStutter DEF sessionVars
<1> QED
  BY <1>2, <1>3, <1>4, <1>5, <1>6, <1>7 DEF SessionNext, Preparation

\* FirmwareUpload's SafeInv, and its invariant of the slots but for the moment
\* between the copy and the fresh upload, although the value thread takes turns
\* with the firmware thread within its handler.
THEOREM ThreadsAreSafe == SessionSpec => [](SafeInv /\ ThreadSlotInv)
<1>1. SessionInit => SafeInv /\ ThreadSlotInv
  <2> SUFFICES ASSUME SessionInit PROVE SafeInv /\ ThreadSlotInv
    OBVIOUS
  <2>1. Init /\ thread = Waiting
    BY DEF SessionInit
  <2>2. SafeInv
    BY <2>1, InitSafe
  <2> QED
    BY <2>1, <2>2 DEF Init, DeviceInit, ChannelInit, ThreadSlotInv, InitsOfFile, WorkOfFile,
                      ResumableHoldsPrefix, NoOverflow, HeldInv, At
<1> QED
  BY <1>1, SlotStep, AnnouncementAlways, PTL DEF SessionSpec

\* What is flashed is the whole file of the upload.py that asked for it, also
\* when the value thread drops a slot while the firmware thread works on it.
THEOREM SessionFlashesOwnFile == SessionSpec => []FlashedOwnFile
<1>1. SafeInv => FlashedOwnFile
  BY DEF SafeInv, FlashInv, FlashedOwnFile
<1> QED
  BY <1>1, ThreadsAreSafe, PTL

\* No turn of the two threads puts an upload back into a slot that was dropped,
\* or another file's bytes into one that may be resumed.
THEOREM SessionSlotsHoldPrefixes == SessionSpec => []ResumableHoldsPrefix
<1>1. ThreadSlotInv => ResumableHoldsPrefix
  BY DEF ThreadSlotInv
<1> QED
  BY <1>1, ThreadsAreSafe, PTL

\* UploadInv is inductive in the finer model too.
LEMMA CompleteStep ==
  ASSUME ~Duplication, AnnouncementInv, SafeInv, ThreadSlotInv, UploadInv, ThreadSlotInv',
         [SessionNext]_sessionVars
  PROVE  UploadInv'
<1>1. TypedSession /\ TypeOK /\ RunTypeOK /\ values \in Seq(ValueRequests)
  BY AnnouncementParts, TypedParts DEF ValuesTypeOK
<1>2. NoOverflow'
  BY DEF ThreadSlotInv
<1>3. ASSUME UNCHANGED vars PROVE UploadInv'
  BY <1>3 DEF vars, UploadInv, NoneLeft, OneChunk, NoOverflow, HoldsPrefix, InStep,
              SizeAccepted, UploadedIsComplete, Established, ContentIs
<1>4. CASE (\E s \in Sessions : Prepare(s)) \/ SetData \/ GetData \/ Retry \/ GiveUp \/ Killed
  BY <1>3, <1>4, PreparationStays
<1>5. CASE Begin
  <2>1. session \in Sessions
    BY <1>1, <1>5 DEF RunTypeOK, Begin, Confirms, Answer
  <2>2. session.file \in Files /\ session.id \in Ids
    BY <2>1, SessionsAssumption
  <2> QED
    BY <1>1, <1>5, <2>2, ClientComplete DEF Begin
<1>6. CASE Upload
  BY <1>1, <1>6, ClientComplete DEF Upload
<1>7. CASE HandleSetValue
  <2>1. UNCHANGED vars \/ UNCHANGED <<clientVars, deviceVars, channelVars>>
          \/ \E id \in Ids, tag \in Tags : SetDataDownloadInt(id, tag) /\ UNCHANGED clientVars
    <3>1. /\ values # <<>> /\ Head(values).type = "set"
      BY <1>7 DEF HandleSetValue, ValuePort!Incoming
    <3>2. Head(values) \in ValueRequests
      BY <1>1, <3>1
    <3>3. Head(values).value \in Ids \X Tags
      BY <3>1, <3>2 DEF ValueRequests
    <3> QED
      BY <1>7, <3>3 DEF HandleSetValue
  <2>2. UNCHANGED <<clientVars, deviceVars, channelVars>> => UNCHANGED vars
    BY DEF vars
  <2> QED
    BY <1>1, <1>3, <2>1, <2>2, EnvironmentComplete DEF Environment
<1>8. CASE HandleGetValue
  BY <1>3, <1>8 DEF HandleGetValue
<1>9. CASE Restart
  BY <1>1, <1>9, EnvironmentComplete DEF Restart, Environment
<1>10. CASE CopyPrevious \/ StoreFresh \/ LookUp
  BY <1>1, <1>2, <1>10, FreshComplete
<1>11. CASE AnswerInit \/ AnswerData
  BY <1>1, <1>2, <1>11, AnswerInitComplete, AnswerDataComplete
<1>12. CASE RefuseData \/ FlashStart
  BY <1>1, <1>12, DataComplete, StartComplete DEF RefuseData, FlashStart, ThreadStep
<1>13. CASE UNCHANGED sessionVars
  BY <1>3, <1>13 DEF sessionVars
<1> QED
  BY <1>4, <1>5, <1>6, <1>7, <1>8, <1>9, <1>10, <1>11, <1>12, <1>13
     DEF SessionNext, Preparation, FirmwareThread

\* When upload_firmware returns True, the slot holds all of the file or was
\* dropped since, also with both threads at work; provided that no request is
\* delivered twice.
THEOREM SessionUploadIsComplete ==
  ASSUME ~Duplication
  PROVE  SessionSpec => []UploadedIsComplete
<1>1. SessionInit => UploadInv
  BY DEF SessionInit, Init, ClientInit, DeviceInit, ChannelInit, UploadInv, NoneLeft, OneChunk,
         NoOverflow, HoldsPrefix, InStep, SizeAccepted, UploadedIsComplete, Established
<1>2. AnnouncementInv /\ SafeInv /\ ThreadSlotInv /\ ThreadSlotInv' /\ UploadInv
        /\ [SessionNext]_sessionVars => UploadInv'
  BY CompleteStep
<1>3. UploadInv => UploadedIsComplete
  BY DEF UploadInv
<1> QED
  BY <1>1, <1>2, <1>3, AnnouncementAlways, ThreadsAreSafe, PTL DEF SessionSpec

-----------------------------------------------------------------------------
(* The refinement: the slots as the threads leave them *)

\* A thread that waits keeps nothing but what is in the slots.
LEMMA WaitingKeeps ==
  ASSUME NEW id
  PROVE  /\ ~(At("copied") \/ At("stored")) => Kept(id) = firmware_update[id]
         /\ thread = Waiting => Kept(id) = firmware_update[id]
  BY DEF Kept, Resuming, At

\* So that the store has what FirmwareUpload's has.
LEMMA WaitingHolds == thread = Waiting => SessionHeld = Held
  BY WaitingKeeps DEF SessionHeld, Held

\* Slots that are kept are the same slots to the store.
LEMMA SameHeld ==
  ASSUME \A id \in Ids : Kept(id)' = Kept(id)
  PROVE  SessionHeld' = SessionHeld
  BY DEF SessionHeld, Holds

\* Slots that are kept or dropped are dropped by the store.
LEMMA KeptOrDropped ==
  ASSUME \A id \in Ids : Kept(id)' = Kept(id) \/ Kept(id)' = NoUpload,
         Image' = Image, SessionWanted' = SessionWanted, Reported' = Reported
  PROVE  SessionStore!Next
<1> DEFINE dropped == {id \in Ids : Kept(id)' = NoUpload}
<1>1. SessionHeld' = [id \in Ids |-> IF id \in dropped THEN NoFile ELSE SessionHeld[id]]
  BY DEF SessionHeld, Holds
<1>2. dropped \in SUBSET Ids
  OBVIOUS
<1> HIDE DEF dropped
<1>3. SessionStore!Drop(dropped)
  BY <1>1 DEF SessionStore!Drop
<1> QED
  BY <1>2, <1>3 DEF SessionStore!Next

\* What upload.py sends leaves what is kept.
LEMMA ClientKept ==
  ASSUME TypeOK, ThreadInv, UNCHANGED <<thread, firmware_update>>,
         \/ queue' = Closed(queue) \/ UNCHANGED queue
         \/ \E m \in Requests : SendRequest(m)
  PROVE  SessionHeld' = SessionHeld
<1>1. CASE At("copied") \/ At("stored")
  <2>1. queue # <<>> /\ Head(queue).type = "firmware_init"
    BY <1>1 DEF ThreadInv, Incoming
  <2>2. Head(queue').id = Head(queue).id /\ Head(queue').file = Head(queue).file
    BY <2>1, HeadStays
  <2>3. Resuming' <=> Resuming
    BY <2>2 DEF Resuming, Resumes, At
  <2> QED
    BY <2>2, <2>3, SameHeld DEF Kept
<1>2. CASE ~(At("copied") \/ At("stored"))
  <2>1. ~(At("copied") \/ At("stored"))'
    BY <1>2 DEF At
  <2>2. \A id : Kept(id) = firmware_update[id] /\ Kept(id)' = firmware_update[id]
    BY <1>2, <2>1 DEF Kept, Resuming
  <2> QED
    BY <2>2, SameHeld
<1> QED
  BY <1>1, <1>2

-----------------------------------------------------------------------------
(* The refinement: upload.py *)

\* It begins with its preparation, and ends with it or with its upload.
LEMMA PreparationMaps ==
  ASSUME TypedSession, UNCHANGED thread,
         (\E s \in Sessions : Prepare(s)) \/ SetData \/ GetData \/ Retry \/ GiveUp \/ Killed
  PROVE  [SessionStore!Next]_(SessionStore!storeVars)
<1>1. UNCHANGED vars
  BY PreparationStays
<1>2. SessionHeld' = SessionHeld /\ Image' = Image /\ Reported' = Reported
  <2>1. \A id \in Ids : Kept(id)' = Kept(id)
    BY <1>1 DEF vars, Kept, Resuming, At, Resumes
  <2> QED
    BY <1>1, <2>1, SameHeld DEF vars, Image, Reported
<1>3. CASE \E s \in Sessions : Prepare(s)
  <2>1. PICK s \in Sessions : Prepare(s)
    BY <1>3
  <2>2. SessionWanted = NoFile /\ SessionWanted' = s.file /\ s.file \in Files
    BY <2>1, SessionsAssumption DEF Prepare, SessionWanted
  <2> QED
    BY <1>2, <2>2 DEF SessionStore!Next, SessionStore!Begin
<1>4. CASE SetData \/ GetData \/ Retry
  <2>1. SessionWanted' = SessionWanted
    BY <1>4 DEF SetData, GetData, Retry, SetDataAgain, SessionWanted
  <2> QED
    BY <1>2, <2>1 DEF SessionStore!storeVars
<1>5. CASE GiveUp \/ Killed
  <2>1. SessionWanted' = NoFile
    BY <1>5 DEF GiveUp, Killed, EndSession, SessionWanted
  <2>2. preparing # "no"
    BY <1>5 DEF GiveUp, Killed, Unanswered, Differs, Answer
  <2>3. phase = "idle"
    BY <2>2, TypedParts DEF RunTypeOK
  <2>4. Reported' = FALSE
    BY <1>2, <2>3 DEF Reported
  <2> QED
    BY <1>2, <2>1, <2>4 DEF SessionStore!Next, SessionStore!End
<1> QED
  BY <1>3, <1>4, <1>5

\* The init that it sends changes nothing yet.
LEMMA BeginMaps ==
  ASSUME TypedSession, Begin, UNCHANGED thread
  PROVE  [SessionStore!Next]_(SessionStore!storeVars)
<1>1. TypeOK /\ ThreadInv /\ RunTypeOK
  BY TypedParts
<1>2. PICK c \in ChunkSizes : Start(session.file, session.id, c)
  BY DEF Begin
<1>3. session \in Sessions
  BY <1>1 DEF RunTypeOK, Begin, Confirms, Answer
<1>4. session.file \in Files /\ session.id \in Ids
  BY <1>3, SessionsAssumption
<1>5. InitRequest(session.file, session.id) \in Requests
  BY <1>4, RequestTypes
<1>6. SessionHeld' = SessionHeld
  BY <1>1, <1>2, <1>5, ClientKept DEF Start
<1>7. Image' = Image /\ SessionWanted' = SessionWanted /\ Reported' = Reported
  BY <1>2 DEF Start, Begin, Image, SessionWanted, Reported
<1> QED
  BY <1>6, <1>7 DEF SessionStore!storeVars

\* Its upload goes on, succeeds or ends.
LEMMA UploadMaps ==
  ASSUME TypedSession, SafeInv, Upload
  PROVE  [SessionStore!Next]_(SessionStore!storeVars)
<1>1. TypeOK /\ ThreadInv /\ RunTypeOK
  BY TypedParts
<1>2. /\ Client \/ StartFlash \/ Crash
      /\ session # NoSession /\ UNCHANGED thread
      /\ session' = IF phase' = "idle" THEN NoSession ELSE session
  BY DEF Upload
<1>3. /\ UNCHANGED deviceVars /\ phase # "idle"
      /\ \/ phase' = "idle"
         \/ /\ phase' # "idle" /\ ~Reported
            /\ Reported' => flashed # NoImage /\ flashed.checksum = file
  BY <1>2, ClientGoesOn DEF SafeInv, FlashInv
<1>4. SessionHeld' = SessionHeld
  BY <1>1, <1>2, <1>3, ClientRequests, ClientKept
<1>5. Image' = Image
  BY <1>3 DEF Image
<1>6. CASE phase' = "idle"
  <2>1. SessionWanted' = NoFile /\ Reported' = FALSE
    BY <1>2, <1>6 DEF SessionWanted, Reported
  <2> QED
    BY <1>4, <1>5, <2>1 DEF SessionStore!Next, SessionStore!End
<1>7. CASE phase' # "idle" /\ Reported'
  <2>1. /\ SessionWanted = file /\ SessionWanted' = SessionWanted
        /\ file \in Files /\ Reported' = TRUE
    BY <1>1, <1>2, <1>3, <1>7 DEF SessionWanted, Reported, RunTypeOK, TypeOK
  <2>2. SessionWanted # NoFile /\ Image = SessionWanted
    BY <1>3, <1>7, <2>1, NoFileAssumption DEF Image
  <2>3. SessionStore!Succeed
    BY <1>4, <1>5, <2>1, <2>2 DEF SessionStore!Succeed
  <2> QED
    BY <2>3 DEF SessionStore!Next
<1>8. CASE phase' # "idle" /\ ~Reported'
  <2>1. SessionWanted' = SessionWanted /\ Reported' = Reported
    BY <1>2, <1>3, <1>8 DEF SessionWanted, Reported
  <2> QED
    BY <1>4, <1>5, <2>1 DEF SessionStore!storeVars
<1> QED
  BY <1>3, <1>6, <1>7, <1>8

-----------------------------------------------------------------------------
(* The refinement: the value thread and restarts *)

\* An upload that is dropped while it is being resumed is dropped before or
\* after that.
LEMMA ValueThreadMaps ==
  ASSUME TypedSession, HandleSetValue \/ HandleGetValue \/ Restart
  PROVE  [SessionStore!Next]_(SessionStore!storeVars)
<1>1. TypeOK /\ values \in Seq(ValueRequests)
  BY TypedParts DEF ValuesTypeOK
<1>2. /\ UNCHANGED <<thread, clientVars, channelVars, session, flashed>>
      /\ thread # Waiting => UNCHANGED firmware_update_current_id
      /\ OnlyDropped
  <2>1. CASE HandleSetValue
    <3>1. /\ values # <<>> /\ Head(values).type = "set"
      BY <2>1 DEF HandleSetValue, ValuePort!Incoming
    <3>2. Head(values) \in ValueRequests
      BY <1>1, <3>1
    <3>3. Head(values).value \in Ids \X Tags
      BY <3>1, <3>2 DEF ValueRequests
    <3>4. \/ UNCHANGED deviceVars
          \/ \E id \in Ids, tag \in Tags : SetDataDownloadInt(id, tag)
      BY <2>1, <3>3 DEF HandleSetValue
    <3>5. OnlyDropped
      BY <1>1, <3>4, EnvironmentDrops DEF OnlyDropped
    <3> QED
      BY <2>1, <3>4, <3>5 DEF HandleSetValue, SetDataDownloadInt
  <2>2. CASE HandleGetValue
    BY <2>2 DEF HandleGetValue, OnlyDropped, vars
  <2>3. CASE Restart
    <3>1. OnlyDropped
      BY <1>1, <2>3, EnvironmentDrops DEF Restart
    <3> QED
      BY <2>3, <3>1 DEF Restart, DeviceRestart
  <2> QED
    BY <2>1, <2>2, <2>3
<1>3. Image' = Image /\ SessionWanted' = SessionWanted /\ Reported' = Reported
  BY <1>2 DEF Image, SessionWanted, Reported
<1>4. \A id \in Ids : firmware_update'[id] \in {firmware_update[id], NoUpload}
  BY <1>2 DEF OnlyDropped
<1>5. ASSUME NEW id \in Ids PROVE Kept(id)' = Kept(id) \/ Kept(id)' = NoUpload
  <2>1. CASE Resuming /\ id = Head(queue).id
    <3>1. CASE At("copied")
      <4>1. Resuming'
        BY <1>2, <2>1, <3>1 DEF Resuming, At, Resumes
      <4> QED
        BY <1>2, <2>1, <4>1 DEF Kept
    <3>2. CASE At("stored") /\ ~At("copied")
      <4>1. Resuming' \/ firmware_update'[id] = NoUpload
        BY <1>2, <2>1, <3>2 DEF Resuming, At, Resumes
      <4>2. ~Resuming' => Kept(id)' = firmware_update'[id]
        BY DEF Kept
      <4> QED
        BY <1>2, <2>1, <4>1, <4>2 DEF Kept
    <3> QED
      BY <2>1, <3>1, <3>2 DEF Resuming
  <2>2. CASE ~Resuming
    <3>1. ~Resuming'
      <4>1. CASE At("copied")
        BY <1>2, <2>2, <4>1 DEF Resuming, At, Resumes
      <4>2. CASE At("stored")
        <5>1. Head(queue).id \in Ids
          BY <1>1, <4>2, TypedParts, InitMessage DEF ThreadInv
        <5> QED
          BY <1>2, <1>4, <2>2, <4>2, <5>1 DEF Resuming, At, Resumes, OnlyDropped
      <4>3. CASE ~At("copied") /\ ~At("stored")
        BY <1>2, <4>3 DEF Resuming, At
      <4> QED
        BY <4>1, <4>2, <4>3
    <3> QED
      BY <1>4, <2>2, <3>1 DEF Kept
  <2>3. CASE id # Head(queue).id
    BY <1>2, <1>4, <2>3 DEF Kept
  <2> QED
    BY <2>1, <2>2, <2>3
<1> QED
  BY <1>3, <1>5, KeptOrDropped

-----------------------------------------------------------------------------
(* The refinement: the firmware thread *)

\* What the thread does to the slot that it works on is all that the store sees.
LEMMA SlotKept ==
  ASSUME NEW slot \in Ids, UNCHANGED <<clientVars, session, flashed>>,
         \A id \in Ids : id # slot => Kept(id)' = Kept(id)
  PROVE  /\ SessionHeld' = [SessionHeld EXCEPT ![slot] = Holds(Kept(slot)')]
         /\ SessionHeld[slot] = Holds(Kept(slot))
         /\ Image' = Image /\ SessionWanted' = SessionWanted /\ Reported' = Reported
  BY DEF SessionHeld, Holds, Image, SessionWanted, Reported

\* Where the slots keep what they have, the step stutters.
LEMMA KeptStutters ==
  ASSUME UNCHANGED <<clientVars, session, flashed>>, \A id \in Ids : Kept(id)' = Kept(id)
  PROVE  [SessionStore!Next]_(SessionStore!storeVars)
<1>1. SessionHeld' = SessionHeld
  BY SameHeld
<1> QED
  BY <1>1 DEF Image, SessionWanted, Reported, SessionStore!storeVars

\* The copy of the earlier upload stands for it from now on.
LEMMA CopyMaps ==
  ASSUME CopyPrevious
  PROVE  [SessionStore!Next]_(SessionStore!storeVars)
<1>1. /\ thread = Waiting /\ UNCHANGED <<clientVars, session, flashed, firmware_update, queue>>
      /\ thread'.held = firmware_update[Head(queue).id]
  BY DEF CopyPrevious, ThreadStep
<1>2. \A id : Kept(id) = firmware_update[id]
  BY <1>1, WaitingKeeps
<1>3. \A id : Kept(id)' = firmware_update[id]
  BY <1>1 DEF Kept
<1> QED
  BY <1>1, <1>2, <1>3, KeptStutters

\* The fresh upload is announced, unless the earlier one is going to take its
\* place.
LEMMA FreshMaps ==
  ASSUME TypedSession, ThreadSlotInv, StoreFresh
  PROVE  [SessionStore!Next]_(SessionStore!storeVars)
<1>1. TypeOK /\ Incoming("firmware_init") /\ At("copied")
  BY TypedParts DEF StoreFresh, ThreadInv
<1>2. PICK m : m = Head(queue)
  OBVIOUS
<1>3. m.file \in Files /\ m.id \in Ids
  BY <1>1, <1>2, InitMessage
<1>4. PICK u : u = FreshUpload(m.file)
  OBVIOUS
<1>5. u \in Uploads /\ Holds(u) = Content(m.file, 0) /\ u # NoUpload
  BY <1>3, <1>4, HoldsFresh, HoldsUpload
<1>6. /\ UNCHANGED <<clientVars, session, flashed, queue>> /\ Head(queue') = m
      /\ firmware_update' = [firmware_update EXCEPT ![m.id] = u]
      /\ thread' = [thread EXCEPT !.at = "stored"]
  BY <1>2, <1>4 DEF StoreFresh, ThreadStep
<1>7. /\ firmware_update'[m.id] = u
      /\ \A id \in Ids : id # m.id => firmware_update'[id] = firmware_update[id]
  BY <1>1, <1>3, <1>6 DEF TypeOK, DeviceTypeOK
<1>8. thread' # Waiting /\ thread'.at = "stored" /\ thread'.held = thread.held
  <2>1. thread \in Threads
    BY <1>1, TypedParts DEF PortTypeOK, At
  <2>2. thread'.at = "stored" /\ thread'.held = thread.held /\ thread' \in Threads
    BY <1>6, <2>1 DEF Threads
  <2> QED
    BY <2>2, WaitingAssumption
<1>9. /\ Resuming <=> Resumes(m, thread.held)
      /\ Resuming' <=> Resumes(m, thread.held)
  BY <1>1, <1>2, <1>5, <1>6, <1>7, <1>8 DEF Resuming, At, Resumes
<1>10. \A id \in Ids : id # m.id => Kept(id)' = Kept(id)
  BY <1>2, <1>6, <1>7 DEF Kept
<1>11. CASE Resumes(m, thread.held)
  <2>1. Kept(m.id)' = Kept(m.id)
    BY <1>2, <1>6, <1>8, <1>9, <1>11 DEF Kept
  <2> QED
    BY <1>6, <1>10, <2>1, KeptStutters
<1>12. CASE ~Resumes(m, thread.held)
  <2>1. Kept(m.id) = firmware_update[m.id] /\ Kept(m.id)' = u
    BY <1>7, <1>9, <1>12 DEF Kept
  <2>2. firmware_update[m.id] \in {NoUpload, thread.held}
    BY <1>1, <1>2 DEF ThreadSlotInv, HeldInv, current
  <2>3. ASSUME m.id \in Resumable
        PROVE  Holds(Kept(m.id)) = NoFile \/ Holds(Kept(m.id)).file # m.file
    <3>1. CASE firmware_update[m.id] = NoUpload
      BY <2>1, <3>1 DEF Holds
    <3>2. CASE firmware_update[m.id] # NoUpload
      <4>1. Kept(m.id) \in Uploads /\ Kept(m.id) = thread.held
        BY <1>1, <1>3, <2>1, <2>2, <3>2 DEF TypeOK, DeviceTypeOK
      <4>2. Kept(m.id).checksum # m.file
        BY <1>12, <2>1, <2>3, <3>2, <4>1 DEF Resumes, Resumable
      <4> QED
        BY <1>3, <4>1, <4>2, HoldsUpload, ContentParts, NoFileAssumption
    <3> QED
      BY <3>1, <3>2
  <2>4. /\ SessionHeld' = [SessionHeld EXCEPT ![m.id] = Content(m.file, 0)]
        /\ SessionHeld[m.id] = Holds(Kept(m.id))
        /\ Image' = Image /\ SessionWanted' = SessionWanted /\ Reported' = Reported
    BY <1>3, <1>5, <1>6, <1>10, <2>1, SlotKept
  <2>5. SessionStore!Announce(m.id, m.file)
    BY <2>3, <2>4 DEF SessionStore!Announce, SessionStore!Hold, Content
  <2> QED
    BY <1>3, <2>5 DEF SessionStore!Next
<1> QED
  BY <1>11, <1>12

\* The hook leaves the slot what the store has there, also if it was dropped.
LEMMA AnswerInitMaps ==
  ASSUME TypedSession, ThreadSlotInv, AnswerInit
  PROVE  [SessionStore!Next]_(SessionStore!storeVars)
<1>1. PICK m, state :
        m = Head(queue) /\ state = IF Resumes(m, thread.held) THEN thread.held ELSE FreshUpload(m.file)
  OBVIOUS
<1>2. /\ TypeOK /\ Incoming("firmware_init") /\ At("stored") /\ m.id \in Ids
      /\ UNCHANGED <<clientVars, session, flashed>> /\ thread' = Waiting
      /\ firmware_update' = Keep(m.id, state)
  BY <1>1, TypedParts, InitMessage DEF AnswerInit, ThreadInv, ThreadStep
<1>3. \A id : Kept(id)' = firmware_update'[id]
  BY <1>2 DEF Kept, Resuming, At
<1>4. ~At("copied") /\ current \in {NoUpload, FreshUpload(m.file)} /\ current = firmware_update[m.id]
  BY <1>1, <1>2 DEF At, ThreadSlotInv, HeldInv, current
<1>5. Resuming <=> firmware_update[m.id] # NoUpload /\ Resumes(m, thread.held)
  BY <1>1, <1>2, <1>4 DEF Resuming
<1>6. /\ \A id \in Ids : id # m.id => firmware_update'[id] = firmware_update[id]
      /\ firmware_update'[m.id] = IF firmware_update[m.id] = NoUpload THEN NoUpload ELSE state
  BY <1>1, <1>2 DEF Keep, TypeOK, DeviceTypeOK
<1>7. ASSUME NEW id \in Ids, id # m.id PROVE Kept(id)' = Kept(id)
  BY <1>1, <1>3, <1>6, <1>7 DEF Kept
<1>8. Kept(m.id)' = Kept(m.id)
  <2>1. CASE firmware_update[m.id] = NoUpload
    BY <1>1, <1>3, <1>5, <1>6, <2>1 DEF Kept
  <2>2. CASE firmware_update[m.id] # NoUpload /\ Resumes(m, thread.held)
    BY <1>1, <1>3, <1>5, <1>6, <2>2 DEF Kept
  <2>3. CASE firmware_update[m.id] # NoUpload /\ ~Resumes(m, thread.held)
    BY <1>1, <1>3, <1>4, <1>5, <1>6, <2>3 DEF Kept
  <2> QED
    BY <2>1, <2>2, <2>3
<1> QED
  BY <1>2, <1>7, <1>8, KeptStutters

\* What is not stored, or only looked up, is nothing to the store.
LEMMA ReadMaps ==
  ASSUME RefuseData \/ LookUp
  PROVE  [SessionStore!Next]_(SessionStore!storeVars)
<1>1. /\ thread = Waiting /\ UNCHANGED <<clientVars, session, flashed, firmware_update>>
      /\ thread' = Waiting \/ thread'.at = "looked up"
  <2>1. CASE RefuseData
    <3>1. UNCHANGED flashed
      BY <2>1 DEF RefuseData, HandleFirmwareData
    <3> QED
      BY <2>1, <3>1 DEF RefuseData, ThreadStep
  <2>2. CASE LookUp
    BY <2>2 DEF LookUp, ThreadStep
  <2> QED
    BY <2>1, <2>2
<1>2. \A id : Kept(id) = firmware_update[id] /\ Kept(id)' = firmware_update[id]
  BY <1>1 DEF Kept, Resuming, At
<1> QED
  BY <1>1, <1>2, KeptStutters

\* The chunk that is appended makes the file in the slot grow, or spoils it in a
\* slot that is never resumed; or it goes nowhere, with a dropped upload.
LEMMA AnswerDataMaps ==
  ASSUME TypedSession, ThreadSlotInv, AnswerData
  PROVE  [SessionStore!Next]_(SessionStore!storeVars)
<1>1. TypeOK /\ At("looked up") /\ ~At("copied") /\ ~At("stored")
  BY TypedParts DEF AnswerData, At
<1> PICK m, u, slot : m = Head(queue) /\ u = thread.held /\ slot = firmware_update_current_id
  OBVIOUS
<1>2. /\ m = queue[1] /\ 1 \in 1..Len(queue)
      /\ m.type = "firmware_data" /\ m.length \in Nat
      /\ slot \in Ids /\ u \in Uploads /\ current = firmware_update[slot]
      /\ current # NoUpload => current = u
      /\ m.offset = u.current_size /\ u.current_size + m.length <= Size[u.checksum]
  BY <1>1, ChunkMessage
<1>3. /\ UNCHANGED <<clientVars, session, flashed>> /\ thread' = Waiting
      /\ firmware_update' = Keep(slot, Stored(u, m))
  BY DEF AnswerData, ThreadStep
<1>4. \A id : Kept(id) = firmware_update[id] /\ Kept(id)' = firmware_update'[id]
  BY <1>1, <1>3 DEF Kept, Resuming, At
<1>5. CASE firmware_update[slot] = NoUpload
  <2>1. firmware_update' = firmware_update
    BY <1>3, <1>5 DEF Keep
  <2> QED
    BY <1>3, <1>4, <2>1, KeptStutters
<1>6. CASE firmware_update[slot] # NoUpload
  <2>1. /\ firmware_update[slot] = u /\ firmware_update'[slot] = Stored(u, m)
        /\ \A id \in Ids : id # slot => firmware_update'[id] = firmware_update[id]
    BY <1>1, <1>2, <1>3, <1>6 DEF Keep, TypeOK, DeviceTypeOK
  <2>2. slot \in Resumable => m.file = u.checksum
    <3>1. WorksOn(m.file)
      BY <1>1, <1>2 DEF ThreadSlotInv, WorkOfFile
    <3>2. slot # NoId
      BY <1>2, IdsAssumption
    <3> QED
      BY <1>2, <1>6, <2>1, <3>1, <3>2 DEF WorksOn, Initialized, Resumable
  <2>3. PICK before, after : before = Holds(u) /\ after = Holds(Stored(u, m))
    OBVIOUS
  <2>4. /\ before # NoFile
        /\ \/ after = before
           \/ /\ before.file # NoFile
              /\ \E n \in before.bytes..Size[before.file] : after = [before EXCEPT !.bytes = n]
           \/ m.file # u.checksum /\ after = [file |-> NoFile, bytes |-> 0]
    BY <1>2, <2>3, ChunkChanges
  <2>5. /\ SessionHeld' = [SessionHeld EXCEPT ![slot] = after] /\ SessionHeld[slot] = before
        /\ Image' = Image /\ SessionWanted' = SessionWanted /\ Reported' = Reported
    BY <1>2, <1>3, <1>4, <2>1, <2>3, SlotKept
  <2>6. after = before => SessionHeld' = SessionHeld
    BY <1>2, <2>5 DEF SessionHeld
  <2> QED
    BY <1>2, <2>2, <2>4, <2>5, <2>6
       DEF SessionStore!Next, SessionStore!storeVars, SessionStore!Grow, SessionStore!Spoil,
           SessionStore!Hold, SessionStore!Mixed
<1> QED
  BY <1>5, <1>6

\* The thread waits before and after it flashes a slot.
LEMMA FlashStartMaps ==
  ASSUME TypedSession, SafeInv, FlashStart
  PROVE  [SessionStore!Next]_(SessionStore!storeVars)
<1>1. TypeOK /\ RunTypeOK
  BY TypedParts
<1>2. /\ HandleUpdateStart /\ thread = Waiting /\ thread' = Waiting
      /\ UNCHANGED <<clientVars, session>>
  BY DEF FlashStart, ThreadStep
<1>3. SessionHeld = Held /\ SessionHeld' = Held'
  BY <1>2, WaitingKeeps DEF SessionHeld, Held, Kept, Resuming, At
<1>4. /\ SessionWanted' = SessionWanted /\ Reported' = Reported
      /\ Reported => SessionWanted = file
  BY <1>1, <1>2 DEF SessionWanted, Reported, RunTypeOK
<1>5. CASE UNCHANGED <<firmware_update, flashed>>
  BY <1>3, <1>4, <1>5 DEF Held, Image, SessionStore!storeVars
<1>6. CASE ~UNCHANGED <<firmware_update, flashed>>
  <2>1. PICK slot \in Ids :
          /\ Held[slot] # NoFile /\ Held[slot].file # NoFile
          /\ Held[slot].bytes = Size[Held[slot].file]
          /\ Reported => Held[slot].file = file
          /\ Image' = Held[slot].file
          /\ Held' = Held \/ Held' = [Held EXCEPT ![slot] = NoFile]
    BY <1>1, <1>2, <1>6, FlashChanges
  <2>2. SessionStore!Flash(slot)
    BY <1>3, <1>4, <2>1 DEF SessionStore!Flash
  <2> QED
    BY <2>2 DEF SessionStore!Next
<1> QED
  BY <1>5, <1>6

\* For all constants: a run of upload.py with its announcement, and a device
\* whose value thread drops slots between any two steps of its firmware thread,
\* are the store of FirmwareStore.
THEOREM SessionIsStore == SessionSpec => SessionImplementsStore
<1>1. SessionInit => SessionStore!Init
  <2> SUFFICES ASSUME SessionInit PROVE SessionStore!Init
    OBVIOUS
  <2>1. Init /\ thread = Waiting /\ session = NoSession
    BY DEF SessionInit
  <2>2. SessionHeld = Held
    BY <2>1, WaitingHolds
  <2> QED
    BY <2>1, <2>2 DEF Init, ClientInit, DeviceInit, Held, Holds, Image, SessionWanted, Reported,
                      SessionStore!Init
<1>2. AnnouncementInv /\ SafeInv /\ ThreadSlotInv /\ [SessionNext]_sessionVars
        => [SessionStore!Next]_(SessionStore!storeVars)
  <2> SUFFICES ASSUME AnnouncementInv, SafeInv, ThreadSlotInv, [SessionNext]_sessionVars
               PROVE  [SessionStore!Next]_(SessionStore!storeVars)
    OBVIOUS
  <2>1. TypedSession
    BY AnnouncementParts
  <2>2. CASE /\ (\E s \in Sessions : Prepare(s)) \/ SetData \/ GetData \/ Retry \/ GiveUp \/ Killed
             /\ UNCHANGED thread
    BY <2>1, <2>2, PreparationMaps
  <2>3. CASE Begin /\ UNCHANGED thread
    BY <2>1, <2>3, BeginMaps
  <2>4. CASE Upload
    BY <2>1, <2>4, UploadMaps
  <2>5. CASE HandleSetValue \/ HandleGetValue \/ Restart
    BY <2>1, <2>5, ValueThreadMaps
  <2>6. CASE FirmwareThread
    BY <2>1, <2>6, CopyMaps, FreshMaps, AnswerInitMaps, ReadMaps, AnswerDataMaps, FlashStartMaps
       DEF FirmwareThread
  <2>7. CASE UNCHANGED sessionVars
    <3>1. UNCHANGED <<clientVars, session, flashed, thread, firmware_update, queue>>
      BY <2>7 DEF sessionVars, vars
    <3>2. \A id : Kept(id)' = Kept(id)
      BY <3>1 DEF Kept, Resuming, At, Resumes
    <3> QED
      BY <3>1, <3>2, KeptStutters
  <2> QED
    BY <2>2, <2>3, <2>4, <2>5, <2>6, <2>7 DEF SessionNext, Preparation
<1> QED
  BY <1>1, <1>2, AnnouncementAlways, ThreadsAreSafe, PTL
     DEF SessionSpec, SessionImplementsStore, SessionStore!Spec
=============================================================================
