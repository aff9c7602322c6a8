------------------------ MODULE FirmwareUploadProofs ------------------------
(***************************************************************************)
(* Proofs about FirmwareUpload, for every set of files, sizes, firmware    *)
(* ids, chunk sizes and retry limits, for a network that loses and repeats *)
(* requests, and for a device that refuses data as it likes: what is       *)
(* flashed is the caller's file, what a slot holds is a beginning of the   *)
(* file that was announced for it, and all of it is the store of           *)
(* FirmwareStore.                                                          *)
(***************************************************************************)
EXTENDS FirmwareUpload, TLAPS

-----------------------------------------------------------------------------
(* Lemmas about the request channel *)

\* Closing the socket changes nothing of a request but .live.
LEMMA ClosedRequest ==
  ASSUME NEW q \in Seq(Requests)
  PROVE  /\ Closed(q) \in Seq(Requests)
         /\ Len(Closed(q)) = Len(q)
         /\ \A i \in 1..Len(q) :
              /\ ~Closed(q)[i].live
              /\ Closed(q)[i].type = q[i].type
              /\ q[i].type = "firmware_init" =>
                   Closed(q)[i].file = q[i].file /\ Closed(q)[i].id = q[i].id
<1>1. \A i \in 1..Len(q) : q[i] \in Requests
  OBVIOUS
<1>2. \A i \in 1..Len(q) :
        /\ [q[i] EXCEPT !.live = FALSE] \in Requests
        /\ ~[q[i] EXCEPT !.live = FALSE].live
        /\ [q[i] EXCEPT !.live = FALSE].type = q[i].type
        /\ q[i].type = "firmware_init" =>
             /\ [q[i] EXCEPT !.live = FALSE].file = q[i].file
             /\ [q[i] EXCEPT !.live = FALSE].id = q[i].id
  <2> SUFFICES ASSUME NEW m \in Requests
               PROVE  /\ [m EXCEPT !.live = FALSE] \in Requests
                      /\ ~[m EXCEPT !.live = FALSE].live
                      /\ [m EXCEPT !.live = FALSE].type = m.type
                      /\ m.type = "firmware_init" =>
                           /\ [m EXCEPT !.live = FALSE].file = m.file
                           /\ [m EXCEPT !.live = FALSE].id = m.id
    BY <1>1
  <2>1. CASE m \in InitFirmware
    BY <2>1 DEF Requests, InitFirmware
  <2>2. CASE m \in FirmwareData
    BY <2>2 DEF Requests, FirmwareData
  <2>3. CASE m \in UpdateStart
    BY <2>3 DEF Requests, UpdateStart
  <2> QED
    BY <2>1, <2>2, <2>3 DEF Requests
<1>3. DOMAIN q = 1..Len(q) /\ Len(q) \in Nat
  OBVIOUS
<1>4. Closed(q) = [i \in 1..Len(q) |-> [q[i] EXCEPT !.live = FALSE]]
  BY <1>3 DEF Closed
<1>5. Closed(q) \in Seq(Requests) /\ Len(Closed(q)) = Len(q)
  BY <1>2, <1>3, <1>4
<1> QED
  BY <1>2, <1>4, <1>5

\* What SendRequest(m) leaves in the queue: the closed requests and perhaps m.
LEMMA AfterSend ==
  ASSUME queue \in Seq(Requests), NEW m \in Requests, SendRequest(m)
  PROVE  /\ queue' \in Seq(Requests)
         /\ reply' = NoReply
         /\ \/ queue' = Closed(queue)
            \/ /\ Len(queue') = Len(queue) + 1
               /\ \A i \in 1..Len(queue) : queue'[i] = Closed(queue)[i]
               /\ queue'[Len(queue')] = m
<1>1. Closed(queue) \in Seq(Requests) /\ Len(Closed(queue)) = Len(queue)
  BY ClosedRequest
<1>2. CASE queue' = Closed(queue)
  BY <1>1, <1>2 DEF SendRequest
<1>3. CASE queue' = Append(Closed(queue), m)
  BY <1>1, <1>3 DEF SendRequest
<1> QED
  BY <1>2, <1>3 DEF SendRequest

\* What the responder leaves in the queue: the tail, perhaps behind a copy of
\* the head that nobody waits for.
LEMMA AfterTake ==
  ASSUME queue \in Seq(Requests), queue # <<>>, TakeIncoming
  PROVE  /\ queue' \in Seq(Requests)
         /\ Head(queue) \in Requests
         /\ Head(queue) = queue[1]
         /\ \/ /\ Len(queue') = Len(queue) - 1
               /\ \A i \in 1..Len(queue') : queue'[i] = queue[i + 1]
            \/ /\ Len(queue') = Len(queue)
               /\ queue'[1] = Closed(queue)[1]
               /\ \A i \in 2..Len(queue') : queue'[i] = queue[i]
<1>1. /\ Len(queue) \in Nat \ {0}
      /\ Head(queue) = queue[1]
      /\ Head(queue) \in Requests
      /\ Tail(queue) \in Seq(Requests)
      /\ Len(Tail(queue)) = Len(queue) - 1
      /\ \A i \in 1..Len(queue) - 1 : Tail(queue)[i] = queue[i + 1]
  OBVIOUS
<1>2. CASE queue' = Tail(queue)
  BY <1>1, <1>2
<1>3. CASE queue' = <<[Head(queue) EXCEPT !.live = FALSE]>> \o Tail(queue)
  <2>1. /\ Closed(queue) \in Seq(Requests) /\ Len(Closed(queue)) = Len(queue)
    BY ClosedRequest
  <2>8. Closed(queue)[1] = [Head(queue) EXCEPT !.live = FALSE]
    <3>1. DOMAIN queue = 1..Len(queue) /\ 1 \in 1..Len(queue)
      BY <1>1
    <3> QED
      BY <1>1, <3>1 DEF Closed
  <2>2. Closed(queue)[1] \in Requests
    BY <2>1, <1>1
  <2> DEFINE c == Closed(queue)[1]
             t == Tail(queue)
  <2>3. queue' = <<c>> \o t
    BY <1>3, <2>8
  <2> HIDE DEF c, t
  <2>4. c \in Requests /\ t \in Seq(Requests) /\ Len(t) = Len(queue) - 1
    BY <2>2, <1>1 DEF c, t
  <2>5. /\ queue' \in Seq(Requests) /\ Len(queue') = Len(queue)
        /\ queue'[1] = c
        /\ \A i \in 2..Len(queue') : queue'[i] = t[i - 1]
    BY <2>3, <2>4, <1>1
  <2>6. ASSUME NEW i \in 2..Len(queue') PROVE queue'[i] = queue[i]
    <3>1. i - 1 \in 1..Len(queue) - 1 /\ (i - 1) + 1 = i
      BY <2>5, <1>1
    <3>2. t[i - 1] = queue[(i - 1) + 1]
      BY <3>1, <1>1 DEF t
    <3> QED
      BY <2>5, <3>1, <3>2
  <2>7. queue' \in Seq(Requests) /\ Len(queue') = Len(queue) /\ queue'[1] = Closed(queue)[1]
    BY <2>5 DEF c
  <2> QED
    BY <1>1, <2>6, <2>7
<1> QED
  BY <1>2, <1>3 DEF TakeIncoming

\* What the client sends is a request of the protocol.
LEMMA RequestTypes ==
  /\ \A f \in Files, id \in Ids : InitRequest(f, id) \in Requests
  /\ \A f \in Files, o \in Nat, n \in Nat : DataRequest(f, o, n) \in Requests
  /\ StartRequest \in Requests
<1>1. \A f \in Files, id \in Ids : InitRequest(f, id) \in InitFirmware
  BY DEF InitRequest, InitFirmware
<1>2. \A f \in Files, o \in Nat, n \in Nat : DataRequest(f, o, n) \in FirmwareData
  BY DEF DataRequest, FirmwareData
<1>3. StartRequest \in UpdateStart
  BY DEF StartRequest, UpdateStart
<1> QED
  BY <1>1, <1>2, <1>3 DEF Requests

-----------------------------------------------------------------------------
(* Type correctness *)

USE DEF chunkVars, clientVars, deviceVars, channelVars

\* The part of TypeOK that only the client changes.
ClientTypeOK ==
  /\ phase \in Phases
  /\ file \in Files \cup {NoFile}
  /\ firmware_id \in Ids \cup {NoId}
  /\ phase # "idle" => file \in Files /\ firmware_id \in Ids
  /\ attempt \in Nat /\ position \in Nat /\ chunk \in Nat /\ repeat \in Nat
  /\ current_offset \in Nat /\ length \in Nat

ChannelTypeOK == queue \in Seq(Requests) /\ reply \in Reports \cup {NoReply}

\* TypeOK in the parts that a step may leave alone.
LEMMA TypeParts == TypeOK <=> ClientTypeOK /\ ChannelTypeOK /\ DeviceTypeOK
  BY DEF TypeOK, ClientTypeOK, ChannelTypeOK

\* Every end of upload.py forgets all of its local variables.
LEMMA EndTypes ==
  ASSUME TypeOK, End
  PROVE  TypeOK'
<1>1. ClientTypeOK'
  BY DEF End, ClientTypeOK, Phases
<1>2. ChannelTypeOK'
  BY ClosedRequest DEF TypeOK, End, CloseSocket, ChannelTypeOK
<1>3. DeviceTypeOK'
  BY DEF TypeOK, End, DeviceTypeOK
<1> QED
  BY <1>1, <1>2, <1>3, TypeParts, PTL

\* A step of the client that goes on: it sends a request, or closes the socket,
\* or leaves the channel alone.
LEMMA GoOnTypes ==
  ASSUME TypeOK, UNCHANGED deviceVars, ClientTypeOK',
         \/ \E m \in Requests : SendRequest(m)
         \/ CloseSocket
         \/ UNCHANGED channelVars
  PROVE  TypeOK'
<1>1. ChannelTypeOK'
  <2>1. CASE \E m \in Requests : SendRequest(m)
    BY <2>1, AfterSend DEF TypeOK, ChannelTypeOK
  <2>2. CASE CloseSocket
    BY <2>2, ClosedRequest DEF TypeOK, CloseSocket, ChannelTypeOK
  <2>3. CASE UNCHANGED channelVars
    BY <2>3 DEF TypeOK, ChannelTypeOK
  <2> QED
    BY <2>1, <2>2, <2>3
<1>2. DeviceTypeOK'
  BY DEF TypeOK, DeviceTypeOK
<1> QED
  BY <1>1, <1>2, TypeParts, PTL

\* upload.py starts with one init, sent once.
LEMMA StartTypes ==
  ASSUME TypeOK, NEW f \in Files, NEW id \in Ids, NEW c \in ChunkSizes, Start(f, id, c)
  PROVE  TypeOK'
<1>1. ClientTypeOK'
  BY ChunkSizesAssumption DEF Start, ClientTypeOK, Phases
<1>2. \E m \in Requests : SendRequest(m)
  BY RequestTypes DEF Start
<1> QED
  BY <1>1, <1>2, GoOnTypes DEF Start

\* The init is tried again within its number of tries, or answered.
LEMMA InitPhaseTypes ==
  ASSUME TypeOK, InitTimeout \/ InitAnswered
  PROVE  TypeOK'
<1>1. CASE End
  BY <1>1, EndTypes
<1>2. CASE InitTimeout /\ ~End
  <2>1. ClientTypeOK'
    BY <1>2 DEF InitTimeout, TimedOut, TypeOK, ClientTypeOK
  <2>2. \E m \in Requests : SendRequest(m)
    BY <1>2, RequestTypes DEF InitTimeout, TimedOut, TypeOK
  <2> QED
    BY <1>2, <2>1, <2>2, GoOnTypes DEF InitTimeout
<1>3. CASE InitAnswered /\ ~End
  <2>1. ClientTypeOK'
    BY <1>3 DEF InitAnswered, Answered, TypeOK, ClientTypeOK, Phases
  <2> QED
    BY <1>3, <2>1, GoOnTypes DEF InitAnswered
<1> QED
  BY <1>1, <1>2, <1>3

\* A chunk is sent again with one try less.
LEMMA RepeatChunkTypes ==
  ASSUME TypeOK, phase = "data", RepeatChunk
  PROVE  TypeOK'
<1>1. CASE End
  BY <1>1, EndTypes
<1>2. CASE ~End
  <2>1. ClientTypeOK'
    BY <1>2 DEF RepeatChunk, TypeOK, ClientTypeOK
  <2>2. \E m \in Requests : SendRequest(m)
    BY <1>2, RequestTypes DEF RepeatChunk, TypeOK
  <2> QED
    BY <1>2, <2>1, <2>2, GoOnTypes DEF RepeatChunk
<1> QED
  BY <1>1, <1>2

\* The next chunk is read from the position, and is within the file.
LEMMA ReadTypes ==
  ASSUME TypeOK, ReadChunk \/ ReadAll
  PROVE  TypeOK'
<1>1. CASE ReadChunk
  <2>1. /\ file \in Files /\ Size[file] \in Nat
        /\ position \in Nat /\ chunk \in Nat /\ Size[file] - position \in Nat
    BY <1>1, SizeAssumption DEF ReadChunk, TypeOK
  <2>2. current_offset' \in Nat /\ length' \in Nat /\ position' \in Nat
    BY <1>1, <2>1 DEF ReadChunk, Smaller
  <2>3. ClientTypeOK'
    BY <1>1, <2>1, <2>2 DEF ReadChunk, TypeOK, ClientTypeOK, Phases
  <2>4. \E m \in Requests : SendRequest(m)
    BY <1>1, <2>1, <2>2, RequestTypes DEF ReadChunk
  <2> QED
    BY <1>1, <2>3, <2>4, GoOnTypes DEF ReadChunk
<1>2. CASE ReadAll
  <2>1. ClientTypeOK'
    BY <1>2 DEF ReadAll, TypeOK, ClientTypeOK, Phases
  <2> QED
    BY <1>2, <2>1, GoOnTypes DEF ReadAll
<1> QED
  BY <1>1, <1>2

\* Whatever the answer to a chunk, position, size and tries remain numbers.
LEMMA DataPhaseTypes ==
  ASSUME TypeOK,
         DataTimeout \/ DataStored \/ DataFailed \/ WrongOffset \/ ChunkTooBig
           \/ ChunkTooSmall \/ Blocked
  PROVE  TypeOK'
<1> USE DEF Answered, TimedOut
<1>1. CASE End
  BY <1>1, EndTypes
<1>2. CASE DataTimeout \/ Blocked
  BY <1>2, RepeatChunkTypes DEF DataTimeout, Blocked
<1>3. CASE DataStored
  <2>1. ClientTypeOK'
    BY <1>3 DEF DataStored, TypeOK, ClientTypeOK, Phases
  <2> QED
    BY <1>3, <2>1, GoOnTypes DEF DataStored
<1>4. CASE WrongOffset /\ ~End
  <2>1. reply.expected_offset \in Nat
    BY <1>4 DEF WrongOffset, TypeOK, Reports
  <2>2. ClientTypeOK'
    BY <1>4, <2>1 DEF WrongOffset, TypeOK, ClientTypeOK, Phases
  <2> QED
    BY <1>4, <2>2, GoOnTypes DEF WrongOffset
<1>5. CASE (ChunkTooBig \/ ChunkTooSmall) /\ ~End
  <2>1. chunk \in Nat /\ HalfOf(chunk) \in Nat /\ OneAndAHalf(chunk) \in Nat
    BY DEF TypeOK, HalfOf, OneAndAHalf
  <2>2. PICK c \in Nat : Rechunk(c) /\ phase = "data"
    BY <1>5, <2>1 DEF ChunkTooBig, ChunkTooSmall
  <2>3. ClientTypeOK'
    BY <2>2 DEF Rechunk, TypeOK, ClientTypeOK, Phases
  <2> QED
    BY <2>2, <2>3, GoOnTypes DEF Rechunk
<1> QED
  BY <1>1, <1>2, <1>3, <1>4, <1>5 DEF DataFailed

\* The flash request is tried again within its number of tries, or answered.
LEMMA FlashPhaseTypes ==
  ASSUME TypeOK, StartFlash \/ FlashTimeout \/ FlashRefused \/ FlashAccepted
  PROVE  TypeOK'
<1> USE DEF Answered, TimedOut
<1>1. CASE End
  BY <1>1, EndTypes
<1>2. CASE StartFlash
  <2>1. ClientTypeOK'
    BY <1>2 DEF StartFlash, TypeOK, ClientTypeOK, Phases
  <2> QED
    BY <1>2, <2>1, GoOnTypes, RequestTypes DEF StartFlash
<1>3. CASE (FlashTimeout \/ FlashRefused) /\ ~End
  <2>1. ClientTypeOK'
    BY <1>3 DEF FlashTimeout, FlashRefused, RepeatFlash, TypeOK, ClientTypeOK
  <2> QED
    BY <1>3, <2>1, GoOnTypes, RequestTypes DEF FlashTimeout, FlashRefused, RepeatFlash
<1>4. CASE FlashAccepted
  <2>1. ClientTypeOK'
    BY <1>4 DEF FlashAccepted, TypeOK, ClientTypeOK, Phases
  <2> QED
    BY <1>4, <2>1, GoOnTypes DEF FlashAccepted
<1> QED
  BY <1>1, <1>2, <1>3, <1>4

\* A request that is answered, or not, is taken from the queue.
LEMMA RespondTypes ==
  ASSUME TypeOK, queue # <<>>, NEW r \in Reports, Respond(r) \/ Ignore
  PROVE  ChannelTypeOK'
  BY AfterTake DEF Respond, Ignore, TypeOK, ChannelTypeOK

\* What the device and its refusals answer is a report.
LEMMA ReportTypes == \A status \in Status, o \in Nat : Report(status, o) \in Reports
  BY DEF Report, Reports

\* The upload the device works on, when there is one.
LEMMA CurrentType ==
  ASSUME TypeOK, Initialized
  PROVE  /\ firmware_update_current_id \in Ids /\ current \in Uploads
         /\ current.current_size \in Nat /\ current.checksum \in Files
         /\ Size[current.checksum] \in Nat
<1>1. firmware_update_current_id \in Ids /\ current \in Uploads
  BY DEF TypeOK, DeviceTypeOK, Initialized, current
<1> QED
  BY <1>1, SizeAssumption DEF Uploads

\* A chunk that is stored makes an upload of an upload.
LEMMA StoredType ==
  ASSUME NEW u \in Uploads, NEW m, m.length \in Nat
  PROVE  Stored(u, m) \in Uploads
  BY DEF Stored, Uploads

\* Each handler keeps to the types of the slots and of the network.
LEMMA DeviceTypes ==
  ASSUME TypeOK, Device
  PROVE  TypeOK'
<1> USE DEF TypeOK, DeviceTypeOK, Status
<1>1. ClientTypeOK'
  BY DEF Device, ClientTypeOK
<1>2. queue # <<>>
  BY DEF Device, HandleFirmwareUpdate, HandleFirmwareInit, HandleFirmwareData,
         Refuse, HandleUpdateStart, Incoming
<1>3. CASE HandleFirmwareInit
  <2> DEFINE m == Head(queue)
             previous == firmware_update[m.id]
             state == IF Resumes(m, previous) THEN previous ELSE FreshUpload(m.file)
  <2>1. m \in Requests /\ m.type = "firmware_init"
    BY <1>2, <1>3 DEF HandleFirmwareInit, Incoming
  <2>2. m.file \in Files /\ m.id \in Ids
    BY <2>1 DEF Requests, InitFirmware, FirmwareData, UpdateStart
  <2>3. FreshUpload(m.file) \in Uploads
    BY <2>2 DEF FreshUpload, Uploads
  <2>4. state \in Uploads
    BY <2>2, <2>3 DEF Resumes
  <2>5. state.current_size \in Nat
    BY <2>4 DEF Uploads
  <2>6. /\ firmware_update_current_id' = m.id
        /\ firmware_update' = [firmware_update EXCEPT ![m.id] = state]
        /\ Respond(Report("OK", state.current_size))
        /\ UNCHANGED <<content_tag, flashed>>
    BY <1>3 DEF HandleFirmwareInit
  <2> HIDE DEF m, previous, state
  <2>7. DeviceTypeOK'
    BY <2>2, <2>4, <2>6
  <2>8. ChannelTypeOK'
    BY <1>2, <2>5, <2>6, RespondTypes, ReportTypes
  <2> QED
    BY <1>1, <2>7, <2>8, TypeParts, PTL
<1>4. CASE HandleFirmwareData
  <2> DEFINE m == Head(queue)
  <2>1. m \in Requests /\ m.type = "firmware_data"
    BY <1>2, <1>4 DEF HandleFirmwareData, Incoming
  <2>2. m.file \in Files /\ m.offset \in Nat /\ m.length \in Nat
    BY <2>1 DEF Requests, InitFirmware, FirmwareData, UpdateStart
  <2>3. ASSUME Initialized PROVE Stored(current, m) \in Uploads
    BY <2>2, <2>3, CurrentType, StoredType
  <2>4. \/ UNCHANGED firmware_update
        \/ /\ Initialized
           /\ firmware_update' =
                [firmware_update EXCEPT ![firmware_update_current_id] = Stored(current, m)]
    BY <1>4 DEF HandleFirmwareData, current
  <2>5. UNCHANGED <<firmware_update_current_id, content_tag, flashed>>
    BY <1>4 DEF HandleFirmwareData
  <2>6. \E r \in Reports : Respond(r)
    <3>1. CASE ~Initialized
      BY <1>4, <3>1, ReportTypes DEF HandleFirmwareData
    <3>2. CASE Initialized
      <4>1. current.current_size + m.length \in Nat /\ current.current_size \in Nat
        BY <3>2, <2>2, CurrentType
      <4> QED
        BY <1>4, <3>2, <4>1, ReportTypes DEF HandleFirmwareData
    <3> QED
      BY <3>1, <3>2
  <2> HIDE DEF m
  <2>7. DeviceTypeOK'
    BY <2>3, <2>4, <2>5, CurrentType
  <2>8. ChannelTypeOK'
    BY <1>2, <2>6, RespondTypes
  <2> QED
    BY <1>1, <2>7, <2>8, TypeParts, PTL
<1>5. CASE Refuse
  <2>1. (IF Initialized THEN current.current_size ELSE 0) \in Nat
    BY CurrentType
  <2>2. ChannelTypeOK'
    BY <1>2, <1>5, <2>1, RespondTypes, ReportTypes, RefusalsAssumption DEF Refuse
  <2>3. DeviceTypeOK'
    BY <1>5 DEF Refuse
  <2> QED
    BY <1>1, <2>2, <2>3, TypeParts, PTL
<1>6. CASE HandleUpdateStart
  <2>1. DeviceTypeOK'
    BY <1>6, CurrentType DEF HandleUpdateStart, StartUpdate
  <2>2. \/ Ignore
        \/ Initialized /\ \E status \in Status : Respond(Report(status, current.current_size))
    BY <1>6 DEF HandleUpdateStart
  <2>3. ChannelTypeOK'
    <3>1. CASE Ignore
      <4>1. Report("OK", 0) \in Reports
        BY ReportTypes
      <4> QED
        BY <1>2, <3>1, <4>1, RespondTypes
    <3>2. CASE ~Ignore
      <4>1. PICK status \in Status : Respond(Report(status, current.current_size))
        BY <2>2, <3>2
      <4>2. Report(status, current.current_size) \in Reports
        BY <2>2, <3>2, CurrentType, ReportTypes
      <4> QED
        BY <1>2, <4>1, <4>2, RespondTypes
    <3> QED
      BY <3>1, <3>2
  <2> QED
    BY <1>1, <2>1, <2>3, TypeParts, PTL
<1> QED
  BY <1>3, <1>4, <1>5, <1>6 DEF Device, HandleFirmwareUpdate

\* So does what others do to the device.
LEMMA EnvironmentTypes ==
  ASSUME TypeOK, Environment
  PROVE  TypeOK'
<1>1. ClientTypeOK'
  BY DEF Environment, TypeOK, ClientTypeOK
<1>2. ChannelTypeOK'
  BY DEF Environment, SetDataDownloadInt, EmulateReboot, DeviceRestart, TypeOK, ChannelTypeOK
<1>3. DeviceTypeOK'
  <2>1. CASE \E id \in Ids, tag \in Tags : SetDataDownloadInt(id, tag)
    BY <2>1 DEF SetDataDownloadInt, TypeOK, DeviceTypeOK
  <2>2. CASE EmulateReboot
    BY <2>2 DEF EmulateReboot, TypeOK, DeviceTypeOK
  <2>3. CASE DeviceRestart
    BY <2>3 DEF DeviceRestart, TypeOK, DeviceTypeOK
  <2> QED
    BY <2>1, <2>2, <2>3 DEF Environment
<1> QED
  BY <1>1, <1>2, <1>3, TypeParts, PTL

\* The client, the device and whoever else uses the device keep to their types:
\* in particular offsets stay natural numbers and the queue holds requests only.
THEOREM TypeCorrect == Spec => []TypeOK
<1>1. Init => TypeOK
  BY DEF Init, ClientInit, DeviceInit, ChannelInit, TypeOK, DeviceTypeOK, Phases
<1>2. TypeOK /\ [Next]_vars => TypeOK'
  <2> SUFFICES ASSUME TypeOK, [Next]_vars PROVE TypeOK'
    OBVIOUS
  <2>1. CASE \E f \in Files, id \in Ids, c \in ChunkSizes : Start(f, id, c)
    BY <2>1, StartTypes
  <2>2. CASE Client
    BY <2>2, InitPhaseTypes, ReadTypes, DataPhaseTypes, FlashPhaseTypes, EndTypes
       DEF Client, Exit
  <2>3. CASE StartFlash
    BY <2>3, FlashPhaseTypes
  <2>4. CASE Crash
    BY <2>4, EndTypes DEF Crash
  <2>5. CASE Device
    BY <2>5, DeviceTypes
  <2>6. CASE Environment
    BY <2>6, EnvironmentTypes
  <2>7. CASE UNCHANGED vars
    BY <2>7 DEF vars, TypeOK, DeviceTypeOK
  <2> QED
    BY <2>1, <2>2, <2>3, <2>4, <2>5, <2>6, <2>7 DEF Next
<1> QED
  BY <1>1, <1>2, PTL DEF Spec

-----------------------------------------------------------------------------
(* What happens to the requests under way *)

\* Once the socket is closed nobody waits, and the inits are those of before.
LEMMA NobodyWaits ==
  ASSUME TypeOK, queue' = Closed(queue)
  PROVE  /\ \A i \in 1..Len(queue') : ~queue'[i].live
         /\ \A i \in 1..Len(queue') : \E j \in 1..Len(queue) :
              /\ queue'[i].type = queue[j].type
              /\ queue[j].type = "firmware_init" =>
                   queue'[i].file = queue[j].file /\ queue'[i].id = queue[j].id
  BY ClosedRequest DEF TypeOK

\* A request that is sent has the only open socket.
LEMMA AfterSendLive ==
  ASSUME TypeOK, NEW m \in Requests, SendRequest(m)
  PROVE  /\ reply' = NoReply
         /\ \A i \in 1..Len(queue') : queue'[i].live => i = Len(queue') /\ queue'[i] = m
         /\ \A i \in 1..Len(queue') : queue'[i] = m \/ \E j \in 1..Len(queue) :
              /\ queue'[i].type = queue[j].type
              /\ queue[j].type = "firmware_init" =>
                   queue'[i].file = queue[j].file /\ queue'[i].id = queue[j].id
<1>1. queue \in Seq(Requests) /\ Len(queue) \in Nat
  BY DEF TypeOK
<1>2. CASE queue' = Closed(queue)
  BY <1>1, <1>2, AfterSend, NobodyWaits
<1>3. CASE /\ Len(queue') = Len(queue) + 1
           /\ \A i \in 1..Len(queue) : queue'[i] = Closed(queue)[i]
           /\ queue'[Len(queue')] = m
  <2>1. \A i \in 1..Len(queue') : i = Len(queue') \/ i \in 1..Len(queue)
    BY <1>1, <1>3
  <2> QED
    BY <1>1, <1>3, <2>1, AfterSend, ClosedRequest
<1> QED
  BY <1>1, <1>2, <1>3, AfterSend

\* When the device takes a request, the one waited for remains the last.
LEMMA AfterTakeLive ==
  ASSUME TypeOK, LiveRequest, queue # <<>>, TakeIncoming
  PROVE  /\ Head(queue) = queue[1] /\ 1 \in 1..Len(queue)
         /\ Head(queue).live => Len(queue) = 1
         /\ \A i \in 1..Len(queue') :
              queue'[i].live =>
                i = Len(queue') /\ Len(queue) > 1 /\ queue'[i] = queue[Len(queue)]
         /\ \A i \in 1..Len(queue') : \E j \in 1..Len(queue) :
              /\ queue'[i].type = queue[j].type
              /\ queue[j].type = "firmware_init" =>
                   queue'[i].file = queue[j].file /\ queue'[i].id = queue[j].id
<1>1. queue \in Seq(Requests) /\ Len(queue) \in Nat \ {0} /\ Head(queue) = queue[1]
  BY DEF TypeOK
<1>2. Head(queue).live => Len(queue) = 1
  <2>1. 1 \in 1..Len(queue)
    BY <1>1
  <2> QED
    BY <1>1, <2>1 DEF LiveRequest
<1>3. CASE /\ Len(queue') = Len(queue) - 1
           /\ \A i \in 1..Len(queue') : queue'[i] = queue[i + 1]
  <2>1. ASSUME NEW i \in 1..Len(queue')
        PROVE  /\ i + 1 \in 1..Len(queue) /\ queue'[i] = queue[i + 1]
               /\ queue'[i].live =>
                    i = Len(queue') /\ Len(queue) > 1 /\ queue'[i] = queue[Len(queue)]
    BY <1>1, <1>3 DEF LiveRequest
  <2>2. \A i \in 1..Len(queue') : \E j \in 1..Len(queue) :
          /\ queue'[i].type = queue[j].type
          /\ queue[j].type = "firmware_init" =>
               queue'[i].file = queue[j].file /\ queue'[i].id = queue[j].id
    BY <2>1
  <2>3. 1 \in 1..Len(queue)
    BY <1>1
  <2> QED
    BY <1>1, <1>2, <2>1, <2>2, <2>3
<1>4. CASE /\ Len(queue') = Len(queue)
           /\ queue'[1] = Closed(queue)[1]
           /\ \A i \in 2..Len(queue') : queue'[i] = queue[i]
  <2>1. /\ ~queue'[1].live /\ queue'[1].type = queue[1].type
        /\ queue[1].type = "firmware_init" =>
             queue'[1].file = queue[1].file /\ queue'[1].id = queue[1].id
    BY <1>1, <1>4, ClosedRequest
  <2>2. ASSUME NEW i \in 2..Len(queue')
        PROVE  /\ i \in 1..Len(queue) /\ queue'[i] = queue[i]
               /\ queue'[i].live =>
                    i = Len(queue') /\ Len(queue) > 1 /\ queue'[i] = queue[Len(queue)]
    BY <1>1, <1>4 DEF LiveRequest
  <2>3. \A i \in 1..Len(queue') : i = 1 \/ i \in 2..Len(queue')
    BY <1>1, <1>4
  <2> QED
    BY <1>1, <1>2, <2>1, <2>2, <2>3
<1> QED
  BY <1>1, <1>3, <1>4, AfterTake

-----------------------------------------------------------------------------
(* The steps of the client *)

USE DEF chunkVars, clientVars, deviceVars, channelVars

\* Nothing is claimed of an upload.py that has ended.
LEMMA EndSafe ==
  ASSUME TypeOK, End
  PROVE  SafeInv'
  BY NobodyWaits DEF End, CloseSocket, SafeInv, LiveRequest, SessionInv, FlashInv, Established

\* An init request is sent.
LEMMA SendInitSafe ==
  ASSUME TypeOK, NEW f \in Files, NEW id \in Ids, SendRequest(InitRequest(f, id)),
         phase' = "init", file' = f, firmware_id' = id
  PROVE  SafeInv'
<1> DEFINE m == InitRequest(f, id)
<1>1. m \in Requests /\ m.type = "firmware_init" /\ m.file = f /\ m.id = id
  BY RequestTypes DEF InitRequest
<1>2. reply' = NoReply /\ \A i \in 1..Len(queue') : queue'[i].live => i = Len(queue') /\ queue'[i] = m
  BY <1>1, AfterSendLive
<1>3. LiveRequest'
  BY <1>1, <1>2 DEF LiveRequest, OwnInit
<1> QED
  BY <1>2, <1>3 DEF SafeInv, SessionInv, FlashInv, Established

\* After the init was answered: the client goes on without a request, ...
LEMMA CloseSafe ==
  ASSUME TypeOK, SafeInv, Established, CloseSocket \/ (phase = "read" /\ UNCHANGED channelVars),
         UNCHANGED <<file, firmware_id>>, UNCHANGED deviceVars,
         phase' \in {"read", "uploaded", "flashed"},
         phase' = "flashed" => phase = "flash" /\ reply # NoReply /\ reply.status = "OK"
  PROVE  SafeInv'
<1>1. /\ \A i \in 1..Len(queue') : ~queue'[i].live
      /\ \A i \in 1..Len(queue') : \E j \in 1..Len(queue) :
           /\ queue'[i].type = queue[j].type
           /\ queue[j].type = "firmware_init" =>
                queue'[i].file = queue[j].file /\ queue'[i].id = queue[j].id
  <2>1. CASE CloseSocket
    BY <2>1, NobodyWaits DEF CloseSocket
  <2>2. CASE phase = "read" /\ UNCHANGED channelVars
    <3>1. queue' = queue /\ \A i \in 1..Len(queue) : ~queue[i].live
      BY <2>2 DEF SafeInv, LiveRequest
    <3> QED
      BY <3>1
  <2> QED
    BY <2>1, <2>2
<1>2. LiveRequest'
  BY <1>1 DEF LiveRequest
<1>3. SessionInv'
  <2>1. \A j \in 1..Len(queue) : OwnInit(queue[j])
    BY DEF SafeInv, SessionInv
  <2>2. \A i \in 1..Len(queue') : queue'[i].type = "firmware_init" =>
          queue'[i].file = file' /\ queue'[i].id = firmware_id'
    BY <1>1, <2>1 DEF OwnInit
  <2>3. /\ firmware_update_current_id' \in {firmware_id', NoId}
        /\ firmware_update'[firmware_id'] # NoUpload =>
             firmware_update'[firmware_id'].checksum = file'
    BY DEF SafeInv, SessionInv
  <2> QED
    BY <2>2, <2>3 DEF SessionInv, OwnInit
<1>4. FlashInv'
  BY DEF SafeInv, FlashInv, ContentIs
<1> QED
  BY <1>2, <1>3, <1>4 DEF SafeInv

\* ... or with a data or a start request.
LEMMA SendSafe ==
  ASSUME TypeOK, SafeInv, Established, NEW m \in Requests, SendRequest(m),
         UNCHANGED <<file, firmware_id>>, UNCHANGED deviceVars,
         \/ phase' = "data" /\ m.type = "firmware_data"
         \/ phase' = "flash" /\ m.type = "firmware_update_start"
  PROVE  SafeInv'
<1>1. /\ reply' = NoReply
      /\ \A i \in 1..Len(queue') : queue'[i].live => i = Len(queue') /\ queue'[i] = m
      /\ \A i \in 1..Len(queue') : queue'[i] = m \/ \E j \in 1..Len(queue) :
           /\ queue'[i].type = queue[j].type
           /\ queue[j].type = "firmware_init" =>
                queue'[i].file = queue[j].file /\ queue'[i].id = queue[j].id
  BY AfterSendLive
<1>2. LiveRequest'
  BY <1>1 DEF LiveRequest
<1>3. SessionInv'
  <2>1. \A j \in 1..Len(queue) : OwnInit(queue[j])
    BY DEF SafeInv, SessionInv
  <2>2. \A i \in 1..Len(queue') : queue'[i].type = "firmware_init" =>
          queue'[i].file = file' /\ queue'[i].id = firmware_id'
    BY <1>1, <2>1 DEF OwnInit
  <2>3. /\ firmware_update_current_id' \in {firmware_id', NoId}
        /\ firmware_update'[firmware_id'] # NoUpload =>
             firmware_update'[firmware_id'].checksum = file'
    BY DEF SafeInv, SessionInv
  <2> QED
    BY <2>2, <2>3 DEF SessionInv, OwnInit
<1>4. FlashInv'
  BY <1>1 DEF FlashInv
<1> QED
  BY <1>2, <1>3, <1>4 DEF SafeInv

\* The client waits for its last request only, and ends or goes on by the
\* answer to it.
LEMMA ClientSafe ==
  ASSUME TypeOK, SafeInv, Client \/ StartFlash \/ Crash
  PROVE  SafeInv'
<1> USE DEF Answered, TimedOut
<1>1. CASE End
  BY <1>1, EndSafe
<1>2. CASE InitTimeout /\ ~End
  BY <1>2, SendInitSafe DEF InitTimeout, TypeOK
<1>3. CASE InitAnswered /\ ~End
  BY <1>3, CloseSafe DEF InitAnswered, Established
<1>4. CASE ReadChunk
  <2>1. /\ file \in Files /\ Size[file] \in Nat
        /\ position \in Nat /\ chunk \in Nat /\ Size[file] - position \in Nat
    BY <1>4, SizeAssumption DEF ReadChunk, TypeOK
  <2>2. current_offset' \in Nat /\ length' \in Nat
    BY <1>4, <2>1 DEF ReadChunk, Smaller
  <2>3. /\ DataRequest(file, current_offset', length') \in Requests
        /\ DataRequest(file, current_offset', length').type = "firmware_data"
    BY <2>1, <2>2, RequestTypes DEF DataRequest
  <2> QED
    BY <1>4, <2>3, SendSafe DEF ReadChunk, Established
<1>5. CASE ReadAll
  BY <1>5, CloseSafe DEF ReadAll, Established
<1>6. CASE (DataTimeout \/ Blocked) /\ ~End
  <2>1. /\ DataRequest(file, current_offset, length) \in Requests
        /\ DataRequest(file, current_offset, length).type = "firmware_data"
    BY <1>6, RequestTypes DEF DataTimeout, Blocked, TypeOK, DataRequest
  <2> QED
    BY <1>6, <2>1, SendSafe DEF DataTimeout, Blocked, RepeatChunk, Established
<1>7. CASE (DataStored \/ WrongOffset) /\ ~End
  BY <1>7, CloseSafe DEF DataStored, WrongOffset, Established
<1>8. CASE (ChunkTooBig \/ ChunkTooSmall) /\ ~End
  BY <1>8, CloseSafe DEF ChunkTooBig, ChunkTooSmall, Rechunk, Established
<1>9. CASE (StartFlash \/ FlashTimeout \/ FlashRefused) /\ ~End
  <2>1. StartRequest \in Requests /\ StartRequest.type = "firmware_update_start"
    BY RequestTypes DEF StartRequest
  <2> QED
    BY <1>9, <2>1, SendSafe DEF StartFlash, FlashTimeout, FlashRefused, RepeatFlash, Established
<1>10. CASE FlashAccepted
  BY <1>10, CloseSafe DEF FlashAccepted, Established
<1> QED
  BY <1>1, <1>2, <1>3, <1>4, <1>5, <1>6, <1>7, <1>8, <1>9, <1>10
     DEF Client, Crash, Exit, DataFailed

-----------------------------------------------------------------------------
(* The steps of the device *)

\* Whatever the device answers, it answers the request that is waited for.
LEMMA DeviceLive ==
  ASSUME TypeOK, LiveRequest, queue # <<>>, NEW r, Respond(r) \/ Ignore,
         UNCHANGED <<phase, file, firmware_id>>
  PROVE  LiveRequest'
<1>1. TakeIncoming
  BY DEF Respond, Ignore
<1>2. SUFFICES ASSUME NEW i \in 1..Len(queue'), queue'[i].live
               PROVE  /\ i = Len(queue') /\ reply' = NoReply
                      /\ \/ phase = "init" /\ queue'[i].type = "firmware_init"
                              /\ queue'[i].file = file /\ queue'[i].id = firmware_id
                         \/ phase = "data" /\ queue'[i].type = "firmware_data"
                         \/ phase = "flash" /\ queue'[i].type = "firmware_update_start"
  BY DEF LiveRequest, OwnInit
<1>3. i = Len(queue') /\ Len(queue) > 1 /\ queue'[i] = queue[Len(queue)]
  BY <1>1, <1>2, AfterTakeLive
<1>4. ~Head(queue).live
  BY <1>1, <1>3, AfterTakeLive
<1>5. UNCHANGED reply
  BY <1>4 DEF Respond, Ignore
<1>6. Len(queue) \in 1..Len(queue)
  BY <1>3 DEF TypeOK
<1> QED
  BY <1>2, <1>3, <1>5, <1>6 DEF LiveRequest, OwnInit

\* When the session is established after a step of the device, its inits are
\* its own, before and after: either it was established before, or the device
\* has just answered its init.
LEMMA DeviceInits ==
  ASSUME TypeOK, LiveRequest, SessionInv, queue # <<>>, NEW r, Respond(r) \/ Ignore,
         UNCHANGED <<phase, file, firmware_id>>, Established'
  PROVE  /\ \A i \in 1..Len(queue) : OwnInit(queue[i])
         /\ \A i \in 1..Len(queue') : OwnInit(queue'[i])
         /\ ~Established => Head(queue).type = "firmware_init" /\ r.status = "OK"
<1>1. TakeIncoming
  BY DEF Respond, Ignore
<1>2. Head(queue) = queue[1] /\ 1 \in 1..Len(queue)
  BY <1>1, AfterTakeLive
<1>3. /\ \A i \in 1..Len(queue) : OwnInit(queue[i])
      /\ ~Established => Head(queue).type = "firmware_init" /\ r.status = "OK"
  <2>1. CASE Established
    BY <2>1 DEF SessionInv
  <2>2. CASE ~Established
    <3>1. phase = "init" /\ reply' # reply /\ reply'.status = "OK"
      BY <2>2 DEF Established
    <3>2. Head(queue).live /\ reply' = r
      BY <3>1 DEF Respond, Ignore
    <3>3. Len(queue) = 1 /\ queue[1].type = "firmware_init" /\ OwnInit(queue[1])
      BY <1>1, <1>2, <3>1, <3>2, AfterTakeLive DEF LiveRequest
    <3> QED
      BY <1>2, <3>1, <3>2, <3>3
  <2> QED
    BY <2>1, <2>2
<1>4. \A i \in 1..Len(queue') : OwnInit(queue'[i])
  BY <1>1, <1>3, AfterTakeLive DEF OwnInit
<1> QED
  BY <1>3, <1>4

\* A step that neither flashes nor answers a live start leaves FlashInv alone.
LEMMA DeviceFlash ==
  ASSUME TypeOK, LiveRequest, FlashInv, queue # <<>>, NEW r, Respond(r) \/ Ignore,
         UNCHANGED <<phase, file, firmware_id, flashed>>,
         Head(queue).type = "firmware_update_start" => (r.status # "OK" \/ Ignore)
  PROVE  FlashInv'
<1>1. TakeIncoming
  BY DEF Respond, Ignore
<1>2. Head(queue) = queue[1] /\ 1 \in 1..Len(queue)
  BY <1>1, AfterTakeLive
<1>3. ASSUME phase = "flash", reply' # NoReply, reply'.status = "OK"
      PROVE  reply # NoReply /\ reply.status = "OK"
  <2>1. CASE UNCHANGED reply
    BY <1>3, <2>1
  <2>2. CASE reply' # reply
    <3>1. Head(queue).live /\ reply' = r /\ ~Ignore
      BY <2>2 DEF Respond, Ignore
    <3>2. queue[1].type = "firmware_update_start"
      BY <1>2, <1>3, <3>1 DEF LiveRequest
    <3> QED
      BY <1>2, <1>3, <3>1, <3>2
  <2> QED
    BY <2>1, <2>2
<1> QED
  BY <1>3 DEF FlashInv, ContentIs

\* The device answers the own init with the own slot, and flashes what was
\* announced there.
LEMMA DeviceSafe ==
  ASSUME TypeOK, SafeInv, Device
  PROVE  SafeInv'
<1> USE DEF SafeInv
<1>1. UNCHANGED <<phase, file, firmware_id>>
  BY DEF Device
<1>2. queue # <<>>
  BY DEF Device, HandleFirmwareUpdate, HandleFirmwareInit, HandleFirmwareData,
         Refuse, HandleUpdateStart, Incoming
<1>3. Established' => firmware_id \in Ids
  BY <1>1 DEF TypeOK, Established
<1>4. CASE HandleFirmwareInit
  <2> DEFINE m == Head(queue)
             previous == firmware_update[m.id]
             state == IF Resumes(m, previous) THEN previous ELSE FreshUpload(m.file)
  <2>1. /\ firmware_update_current_id' = m.id
        /\ firmware_update' = [firmware_update EXCEPT ![m.id] = state]
        /\ Respond(Report("OK", state.current_size))
        /\ UNCHANGED flashed
        /\ m.type = "firmware_init"
    BY <1>4 DEF HandleFirmwareInit, Incoming
  <2>2. state.checksum = m.file
    BY DEF Resumes, FreshUpload
  <2> HIDE DEF previous, state
  <2>3. LiveRequest'
    BY <1>1, <1>2, <2>1, DeviceLive
  <2>4. FlashInv'
    BY <1>1, <1>2, <2>1, DeviceFlash
  <2>5. ASSUME Established' PROVE SessionInv'
    <3>1. /\ \A i \in 1..Len(queue) : OwnInit(queue[i])
          /\ \A i \in 1..Len(queue') : OwnInit(queue'[i])
      BY <1>1, <1>2, <2>1, <2>5, DeviceInits
    <3>2. m = queue[1] /\ 1 \in 1..Len(queue)
      BY <1>2, <2>1, AfterTakeLive DEF Respond
    <3>3. m.file = file /\ m.id = firmware_id
      BY <2>1, <3>1, <3>2 DEF OwnInit
    <3>4. firmware_update'[firmware_id] = state
      BY <1>3, <2>1, <2>5, <3>3 DEF TypeOK, DeviceTypeOK
    <3> QED
      BY <1>1, <2>1, <2>2, <3>1, <3>3, <3>4 DEF SessionInv, OwnInit
  <2> QED
    BY <2>3, <2>4, <2>5 DEF SessionInv
<1>5. CASE HandleFirmwareData \/ Refuse
  <2>1. PICK r : /\ Respond(r)
                 /\ Head(queue).type = "firmware_data" \/ r.status # "OK"
    <3>1. CASE HandleFirmwareData
      BY <3>1 DEF HandleFirmwareData, Incoming
    <3>2. CASE Refuse
      BY <3>2, RefusalsAssumption DEF Refuse, Report
    <3> QED
      BY <1>5, <3>1, <3>2
  <2>2. UNCHANGED <<firmware_update_current_id, flashed>>
    BY <1>5 DEF HandleFirmwareData, Refuse
  <2>3. \A id \in Ids : firmware_update'[id] # NoUpload =>
          /\ firmware_update[id] # NoUpload
          /\ firmware_update'[id].checksum = firmware_update[id].checksum
    <3>1. CASE UNCHANGED firmware_update
      BY <3>1
    <3>2. CASE /\ Initialized
               /\ firmware_update' = [firmware_update EXCEPT ![firmware_update_current_id] =
                                        Stored(current, Head(queue))]
      BY <3>2, CurrentType DEF TypeOK, DeviceTypeOK, Stored, Initialized, current
    <3> QED
      BY <1>5, <3>1, <3>2 DEF HandleFirmwareData, Refuse
  <2>4. LiveRequest'
    BY <1>1, <1>2, <2>1, DeviceLive
  <2>5. FlashInv'
    BY <1>1, <1>2, <2>1, <2>2, DeviceFlash
  <2>6. ASSUME Established' PROVE SessionInv'
    <3>1. /\ \A i \in 1..Len(queue) : OwnInit(queue[i])
          /\ \A i \in 1..Len(queue') : OwnInit(queue'[i])
          /\ Established
      BY <1>1, <1>2, <2>1, <2>6, DeviceInits
    <3> QED
      BY <1>1, <1>3, <2>2, <2>3, <2>6, <3>1 DEF SessionInv, OwnInit
  <2> QED
    BY <2>4, <2>5, <2>6 DEF SessionInv
<1>6. CASE HandleUpdateStart
  <2>1. /\ UNCHANGED firmware_update_current_id
        /\ Head(queue).type = "firmware_update_start"
        /\ \A id \in Ids : firmware_update'[id] # NoUpload => firmware_update'[id] = firmware_update[id]
    BY <1>6 DEF HandleUpdateStart, StartUpdate, Incoming, TypeOK, DeviceTypeOK
  <2>2. PICK r : Respond(r) \/ Ignore
    BY <1>6 DEF HandleUpdateStart
  <2>3. LiveRequest'
    BY <1>1, <1>2, <2>2, DeviceLive
  <2>4. ASSUME Established' PROVE SessionInv' /\ Established
    <3>1. /\ \A i \in 1..Len(queue') : OwnInit(queue'[i])
          /\ Established
      BY <1>1, <1>2, <2>1, <2>2, <2>4, DeviceInits
    <3> QED
      BY <1>1, <1>3, <2>1, <2>4, <3>1 DEF SessionInv, OwnInit
  <2>5. FlashInv'
    <3>1. CASE Ignore /\ UNCHANGED flashed
      BY <1>1, <1>2, <3>1, DeviceFlash
    <3>2. CASE /\ Respond(Report("CHECKSUM_ERROR_IN_RECEIVED_DATA", current.current_size))
               /\ UNCHANGED flashed
      <4>1. Report("CHECKSUM_ERROR_IN_RECEIVED_DATA", current.current_size).status # "OK"
        BY DEF Report
      <4> QED
        BY <1>1, <1>2, <3>2, <4>1, DeviceFlash
    <3>3. CASE flashed' = current /\ Initialized /\ ContentIs(current, current.checksum)
      <4>1. SUFFICES ASSUME phase \in {"flash", "flashed"}
                     PROVE  /\ flashed' # NoImage /\ flashed'.checksum = file'
                            /\ ContentIs(flashed', file')
        BY <1>1 DEF FlashInv, ContentIs
      <4>2. Established
        BY <4>1 DEF Established
      <4>3. firmware_update_current_id = firmware_id /\ current.checksum = file
        BY <3>3, <4>2 DEF SessionInv, Initialized, current
      <4>4. flashed' # NoImage
        BY <3>3, CurrentType, NoImageAssumption
      <4> QED
        BY <1>1, <3>3, <4>3, <4>4
    <3> QED
      BY <1>6, <3>1, <3>2, <3>3 DEF HandleUpdateStart, StartUpdate
  <2> QED
    BY <2>3, <2>4, <2>5 DEF SessionInv
<1> QED
  BY <1>4, <1>5, <1>6 DEF Device, HandleFirmwareUpdate

-----------------------------------------------------------------------------
(* The environment, and the theorem *)

\* Others drop an upload, they never put another file in its place.
LEMMA EnvironmentSafe ==
  ASSUME TypeOK, SafeInv, Environment
  PROVE  SafeInv'
<1>1. UNCHANGED <<clientVars, channelVars, flashed>>
  BY DEF Environment, SetDataDownloadInt, EmulateReboot, DeviceRestart
<1>2. LiveRequest' /\ FlashInv'
  BY <1>1 DEF SafeInv, LiveRequest, OwnInit, FlashInv, ContentIs
<1>3. ASSUME Established' PROVE SessionInv'
  <2>1. Established /\ phase # "idle" /\ firmware_id \in Ids
    BY <1>1, <1>3 DEF Established, TypeOK
  <2>2. /\ \A i \in 1..Len(queue) : OwnInit(queue[i])
        /\ firmware_update_current_id \in {firmware_id, NoId}
        /\ firmware_update[firmware_id] # NoUpload => firmware_update[firmware_id].checksum = file
    BY <2>1 DEF SafeInv, SessionInv
  <2>3. CASE \E id \in Ids, tag \in Tags : SetDataDownloadInt(id, tag)
    BY <1>1, <2>1, <2>2, <2>3
       DEF SetDataDownloadInt, SessionInv, OwnInit, TypeOK, DeviceTypeOK
  <2>4. CASE DeviceRestart
    BY <1>1, <2>1, <2>2, <2>4 DEF DeviceRestart, SessionInv, OwnInit
  <2> QED
    BY <2>1, <2>3, <2>4 DEF Environment
<1> QED
  BY <1>2, <1>3 DEF SafeInv, SessionInv

\* At first nobody has asked for anything.
LEMMA InitSafe == Init => SafeInv
  BY DEF Init, ClientInit, DeviceInit, ChannelInit, SafeInv, LiveRequest, SessionInv,
         Established, FlashInv

\* The request that is waited for is the last one sent; once the device has
\* answered the init, it works on nothing but this upload.py's slot and file.
THEOREM SessionSafe == Spec => []SafeInv
<1>1. TypeOK /\ SafeInv /\ [Next]_vars => SafeInv'
  <2> SUFFICES ASSUME TypeOK, SafeInv, [Next]_vars PROVE SafeInv'
    OBVIOUS
  <2>1. CASE \E f \in Files, id \in Ids, c \in ChunkSizes : Start(f, id, c)
    BY <2>1, SendInitSafe DEF Start
  <2>2. CASE Client \/ StartFlash \/ Crash
    BY <2>2, ClientSafe
  <2>3. CASE Device
    BY <2>3, DeviceSafe
  <2>4. CASE Environment
    BY <2>4, EnvironmentSafe
  <2>5. CASE UNCHANGED vars
    BY <2>5 DEF vars, SafeInv, LiveRequest, OwnInit, SessionInv, Established, FlashInv, ContentIs
  <2> QED
    BY <2>1, <2>2, <2>3, <2>4, <2>5 DEF Next
<1> QED
  BY <1>1, InitSafe, TypeCorrect, PTL DEF Spec

\* flash_firmware returns only when the device flashed the whole file of the
\* upload.py that called it, although earlier runs were killed at any point and
\* their requests were lost, repeated, or arrive only now.
THEOREM FlashIsOwnFile == Spec => []FlashedOwnFile
<1>1. SafeInv => FlashedOwnFile
  BY DEF SafeInv, FlashInv, FlashedOwnFile
<1> QED
  BY <1>1, SessionSafe, PTL

-----------------------------------------------------------------------------
(* The slots: an application slot only ever holds the beginning of the     *)
(* file that was announced for it, and all of the file is there when       *)
(* upload_firmware returns True.                                           *)

SlotInv == ChunksOfFile /\ ResumableHoldsPrefix

-----------------------------------------------------------------------------
(* The requests under way *)

\* Every request under way was so before, d places further behind.
Carried(d) ==
  \A i \in 1..Len(queue') :
    /\ i + d \in 1..Len(queue)
    /\ queue'[i].type = queue[i + d].type
    /\ queue[i + d].type # "firmware_update_start" => queue'[i].file = queue[i + d].file

\* Closing the socket leaves the file of a request.
LEMMA ClosedFile ==
  ASSUME NEW q \in Seq(Requests), NEW i \in 1..Len(q)
  PROVE  /\ Closed(q)[i].type = q[i].type
         /\ q[i].type # "firmware_update_start" => Closed(q)[i].file = q[i].file
<1>0. DOMAIN q = 1..Len(q) /\ q[i] \in Requests
  OBVIOUS
<1>1. Closed(q)[i] = [q[i] EXCEPT !.live = FALSE]
  BY <1>0 DEF Closed
<1>2. \A m \in Requests :
        /\ [m EXCEPT !.live = FALSE].type = m.type
        /\ m.type # "firmware_update_start" => [m EXCEPT !.live = FALSE].file = m.file
  BY DEF Requests, InitFirmware, FirmwareData, UpdateStart
<1> QED
  BY <1>0, <1>1, <1>2

\* When the socket is closed nothing moves.
LEMMA CloseCarries ==
  ASSUME TypeOK, queue' = Closed(queue) \/ UNCHANGED queue
  PROVE  Carried(0)
<1>1. queue \in Seq(Requests) /\ Len(queue') = Len(queue)
  BY ClosedRequest DEF TypeOK
<1>2. \A i \in 1..Len(queue) : i + 0 = i /\ i \in 1..Len(queue)
  BY <1>1
<1>3. CASE queue' = Closed(queue)
  BY <1>1, <1>2, <1>3, ClosedFile DEF Carried
<1>4. CASE UNCHANGED queue
  BY <1>1, <1>2, <1>4 DEF Carried
<1> QED
  BY <1>3, <1>4

\* When the device takes the request at the head, the others move up, or it
\* leaves a copy of it.
LEMMA TakeCarries ==
  ASSUME TypeOK, queue # <<>>, TakeIncoming
  PROVE  /\ Head(queue) = queue[1] /\ 1 \in 1..Len(queue) /\ Head(queue) \in Requests
         /\ \E d \in {0, 1} : Carried(d)
<1>1. queue \in Seq(Requests) /\ Len(queue) \in Nat \ {0} /\ 1 \in 1..Len(queue)
  BY DEF TypeOK
<1>2. /\ queue' \in Seq(Requests)
      /\ Head(queue) \in Requests
      /\ Head(queue) = queue[1]
      /\ \/ /\ Len(queue') = Len(queue) - 1
            /\ \A i \in 1..Len(queue') : queue'[i] = queue[i + 1]
         \/ /\ Len(queue') = Len(queue)
            /\ queue'[1] = Closed(queue)[1]
            /\ \A i \in 2..Len(queue') : queue'[i] = queue[i]
  BY <1>1, AfterTake
<1>3. CASE /\ Len(queue') = Len(queue) - 1
           /\ \A i \in 1..Len(queue') : queue'[i] = queue[i + 1]
  BY <1>1, <1>3 DEF Carried
<1>4. CASE /\ Len(queue') = Len(queue)
           /\ queue'[1] = Closed(queue)[1]
           /\ \A i \in 2..Len(queue') : queue'[i] = queue[i]
  <2>1. ASSUME NEW i \in 1..Len(queue')
        PROVE  /\ i + 0 = i /\ i \in 1..Len(queue)
               /\ i = 1 \/ i \in 2..Len(queue')
    BY <1>1, <1>4
  <2>2. /\ queue'[1].type = queue[1].type
        /\ queue[1].type # "firmware_update_start" => queue'[1].file = queue[1].file
    BY <1>1, <1>4, ClosedFile
  <2>3. Carried(0)
    BY <1>4, <2>1, <2>2 DEF Carried
  <2> QED
    BY <1>1, <1>2, <2>3
<1> QED
  BY <1>1, <1>2, <1>3, <1>4

\* The inits before a chunk stay those that were before it.
LEMMA CarriedChunks ==
  ASSUME TypeOK, ChunksOfFile, NEW d \in {0, 1}, Carried(d),
         \A i \in 1..Len(queue') : queue'[i].type = "firmware_data" =>
           \E f : f = queue'[i].file /\ WorksOn(f)'
  PROVE  ChunksOfFile'
<1>1. SUFFICES ASSUME NEW i \in 1..Len(queue'), queue'[i].type = "firmware_data",
                      NEW j \in 1..i, queue'[j].type = "firmware_init"
               PROVE  queue'[j].file = queue'[i].file
  BY DEF ChunksOfFile, WorksOn
<1>2. /\ i + d \in 1..Len(queue) /\ queue[i + d].type = "firmware_data"
      /\ queue'[i].file = queue[i + d].file
  BY <1>1 DEF Carried
<1>3. j \in 1..Len(queue') /\ j + d \in 1..(i + d)
  OBVIOUS
<1>4. queue[j + d].type = "firmware_init" /\ queue'[j].file = queue[j + d].file
  BY <1>1, <1>3 DEF Carried
<1> QED
  BY <1>2, <1>3, <1>4 DEF ChunksOfFile

-----------------------------------------------------------------------------
(* The slots *)

\* A step that stores nothing and continues no other application slot leaves
\* what the device works on.
LEMMA WorkStays ==
  ASSUME TypeOK, NEW f, WorksOn(f),
         firmware_update_current_id' \in {firmware_update_current_id, NoId, 1},
         \A id \in Ids : firmware_update'[id] # NoUpload =>
           /\ firmware_update[id] # NoUpload
           /\ firmware_update'[id].checksum = firmware_update[id].checksum
  PROVE  WorksOn(f)'
<1>1. SUFFICES ASSUME Initialized', firmware_update_current_id' >= 255
               PROVE  current'.checksum = f
  BY DEF WorksOn
<1>2. firmware_update_current_id' # NoId /\ firmware_update_current_id' # 1
  BY <1>1 DEF Initialized
<1>3. firmware_update_current_id' = firmware_update_current_id
  BY <1>2
<1>4. firmware_update_current_id \in Ids
  BY <1>2, <1>3 DEF TypeOK, DeviceTypeOK
<1> QED
  BY <1>1, <1>2, <1>3, <1>4 DEF WorksOn, Initialized, current

\* So the chunks remain chunks of the file that the device works on.
LEMMA MovedChunks ==
  ASSUME TypeOK, ChunksOfFile, NEW d \in {0, 1}, Carried(d), \A f : WorksOn(f) => WorksOn(f)'
  PROVE  ChunksOfFile'
<1>1. SUFFICES ASSUME NEW i \in 1..Len(queue'), queue'[i].type = "firmware_data"
               PROVE  \E f : f = queue'[i].file /\ WorksOn(f)'
  BY CarriedChunks
<1>2. /\ i + d \in 1..Len(queue) /\ queue[i + d].type = "firmware_data"
      /\ queue'[i].file = queue[i + d].file
  BY <1>1 DEF Carried
<1> QED
  BY <1>2 DEF ChunksOfFile

\* Slots that are kept as they are, or dropped.
LEMMA SlotsStay ==
  ASSUME ResumableHoldsPrefix,
         \A id \in Ids : firmware_update'[id] # NoUpload => firmware_update'[id] = firmware_update[id]
  PROVE  ResumableHoldsPrefix'
  BY DEF ResumableHoldsPrefix

-----------------------------------------------------------------------------
(* The steps of the client *)

\* A chunk is only sent when the device has accepted the init of its file.
LEMMA ClientRequests ==
  ASSUME TypeOK,
         \/ Client \/ StartFlash \/ Crash
         \/ \E f \in Files, id \in Ids, c \in ChunkSizes : Start(f, id, c)
  PROVE  /\ UNCHANGED deviceVars
         /\ \/ queue' = Closed(queue) \/ UNCHANGED queue
            \/ \E m \in Requests :
                 SendRequest(m) /\ (m.type = "firmware_data" => Established /\ m.file = file)
<1> USE DEF Answered, TimedOut
<1>1. CASE End
  BY <1>1 DEF End, CloseSocket
<1>2. CASE \/ InitTimeout /\ ~End
           \/ \E f \in Files, id \in Ids, c \in ChunkSizes : Start(f, id, c)
  <2>1. PICK f \in Files, id \in Ids : SendRequest(InitRequest(f, id)) /\ UNCHANGED deviceVars
    BY <1>2 DEF InitTimeout, Start, TypeOK
  <2>2. InitRequest(f, id) \in Requests /\ InitRequest(f, id).type # "firmware_data"
    BY RequestTypes DEF InitRequest
  <2> QED
    BY <2>1, <2>2
<1>3. CASE \/ InitAnswered /\ ~End
           \/ ReadAll \/ DataStored \/ (WrongOffset /\ ~End)
           \/ ((ChunkTooBig \/ ChunkTooSmall) /\ ~End) \/ FlashAccepted
  BY <1>3 DEF InitAnswered, ReadAll, DataStored, WrongOffset, ChunkTooBig, ChunkTooSmall,
              Rechunk, FlashAccepted, CloseSocket
<1>4. CASE ReadChunk \/ ((DataTimeout \/ Blocked) /\ ~End)
  <2>1. PICK o \in Nat, n \in Nat : SendRequest(DataRequest(file, o, n))
    <3>1. CASE ReadChunk
      <4>1. /\ file \in Files /\ Size[file] \in Nat
            /\ position \in Nat /\ chunk \in Nat /\ Size[file] - position \in Nat
        BY <3>1, SizeAssumption DEF ReadChunk, TypeOK
      <4>2. current_offset' \in Nat /\ length' \in Nat
        BY <3>1, <4>1 DEF ReadChunk, Smaller
      <4> QED
        BY <3>1, <4>2 DEF ReadChunk
    <3>2. CASE (DataTimeout \/ Blocked) /\ ~End
      BY <3>2 DEF DataTimeout, Blocked, RepeatChunk, TypeOK
    <3> QED
      BY <1>4, <3>1, <3>2
  <2>2. Established /\ file \in Files /\ UNCHANGED deviceVars
    BY <1>4 DEF ReadChunk, DataTimeout, Blocked, RepeatChunk, Established, TypeOK
  <2>3. DataRequest(file, o, n) \in Requests /\ DataRequest(file, o, n).file = file
    BY <2>2, RequestTypes DEF DataRequest
  <2> QED
    BY <2>1, <2>2, <2>3
<1>5. CASE (StartFlash \/ FlashTimeout \/ FlashRefused) /\ ~End
  <2>1. StartRequest \in Requests /\ StartRequest.type # "firmware_data"
    BY RequestTypes DEF StartRequest
  <2>2. SendRequest(StartRequest) /\ UNCHANGED deviceVars
    BY <1>5 DEF StartFlash, FlashTimeout, FlashRefused, RepeatFlash
  <2> QED
    BY <2>1, <2>2
<1> QED
  BY <1>1, <1>2, <1>3, <1>4, <1>5 DEF Client, Crash, Exit, DataFailed

\* A request put behind the others.
LEMMA SendSlots ==
  ASSUME TypeOK, SafeInv, SlotInv, UNCHANGED deviceVars, NEW m \in Requests, SendRequest(m),
         m.type = "firmware_data" => Established /\ m.file = file
  PROVE  SlotInv'
<1>1. queue \in Seq(Requests) /\ Len(queue) \in Nat
  BY DEF TypeOK
<1>2. ResumableHoldsPrefix'
  BY SlotsStay DEF SlotInv
<1>3. \A f : WorksOn(f) => WorksOn(f)'
  BY DEF WorksOn, Initialized, current
<1>4. CASE queue' = Closed(queue)
  <2>1. Carried(0)
    BY <1>4, CloseCarries
  <2> QED
    BY <1>2, <1>3, <2>1, MovedChunks DEF SlotInv
<1>5. CASE /\ Len(queue') = Len(queue) + 1
           /\ \A i \in 1..Len(queue) : queue'[i] = Closed(queue)[i]
           /\ queue'[Len(queue')] = m
  <2>1. \A i \in 1..Len(queue') : i \in 1..Len(queue) \/ i = Len(queue')
    BY <1>1, <1>5
  <2>2. \A i \in 1..Len(queue) :
          /\ queue'[i].type = queue[i].type
          /\ queue[i].type # "firmware_update_start" => queue'[i].file = queue[i].file
    BY <1>1, <1>5, ClosedFile
  <2>3. ASSUME NEW i \in 1..Len(queue), queue'[i].type = "firmware_data"
        PROVE  /\ \E f : f = queue'[i].file /\ WorksOn(f)'
               /\ \A j \in 1..i : queue'[j].type = "firmware_init" =>
                    queue'[j].file = queue'[i].file
    <3>1. \A j \in 1..i : j \in 1..Len(queue)
      BY <1>1
    <3>2. queue[i].type = "firmware_data" /\ queue'[i].file = queue[i].file
      BY <2>2, <2>3
    <3> QED
      BY <1>3, <2>2, <3>1, <3>2 DEF SlotInv, ChunksOfFile
  <2>4. ASSUME m.type = "firmware_data"
        PROVE  /\ WorksOn(m.file)
               /\ \A j \in 1..Len(queue) : queue'[j].type = "firmware_init" =>
                    queue'[j].file = m.file
    <3>1. Established /\ m.file = file /\ firmware_id \in Ids
      BY <2>4 DEF Established, TypeOK
    <3>2. /\ \A i \in 1..Len(queue) : OwnInit(queue[i])
          /\ firmware_update_current_id \in {firmware_id, NoId}
          /\ firmware_update[firmware_id] # NoUpload =>
               firmware_update[firmware_id].checksum = file
      BY <3>1 DEF SafeInv, SessionInv
    <3> QED
      BY <2>2, <3>1, <3>2 DEF WorksOn, Initialized, current, OwnInit
  <2>5. ASSUME NEW i \in 1..Len(queue'), queue'[i].type = "firmware_data"
        PROVE  /\ \E f : f = queue'[i].file /\ WorksOn(f)'
               /\ \A j \in 1..i : queue'[j].type = "firmware_init" =>
                    queue'[j].file = queue'[i].file
    <3>1. CASE i \in 1..Len(queue)
      BY <2>3, <2>5, <3>1
    <3>2. CASE i = Len(queue')
      <4>1. \A j \in 1..i : j \in 1..Len(queue) \/ j = i
        BY <1>1, <1>5, <3>2
      <4>2. m.type = "firmware_data" /\ queue'[i] = m
        BY <1>5, <2>5, <3>2
      <4>3. \E f : f = queue'[i].file /\ WorksOn(f)'
        BY <1>3, <2>4, <4>2
      <4> QED
        BY <2>4, <4>1, <4>2, <4>3
    <3> QED
      BY <2>1, <3>1, <3>2
  <2>6. ChunksOfFile'
    BY <2>5 DEF ChunksOfFile, WorksOn
  <2> QED
    BY <1>2, <2>6 DEF SlotInv
<1> QED
  BY <1>1, <1>4, <1>5, AfterSend

\* The client sends chunks behind an init that announced their file.
LEMMA ClientSlots ==
  ASSUME TypeOK, SafeInv, SlotInv,
         \/ Client \/ StartFlash \/ Crash
         \/ \E f \in Files, id \in Ids, c \in ChunkSizes : Start(f, id, c)
  PROVE  SlotInv'
<1>1. CASE queue' = Closed(queue) \/ UNCHANGED queue
  <2>1. Carried(0) /\ UNCHANGED deviceVars
    BY <1>1, CloseCarries, ClientRequests
  <2>2. \A f : WorksOn(f) => WorksOn(f)'
    BY <2>1 DEF WorksOn, Initialized, current
  <2> QED
    BY <2>1, <2>2, MovedChunks, SlotsStay DEF SlotInv
<1>2. CASE \E m \in Requests :
             SendRequest(m) /\ (m.type = "firmware_data" => Established /\ m.file = file)
  BY <1>2, SendSlots, ClientRequests
<1> QED
  BY <1>1, <1>2, ClientRequests

-----------------------------------------------------------------------------
(* The steps of the device *)

\* A step that stores nothing.
LEMMA NothingStored ==
  ASSUME TypeOK, SlotInv, queue # <<>>, TakeIncoming,
         firmware_update_current_id' = firmware_update_current_id,
         \A id \in Ids : firmware_update'[id] # NoUpload => firmware_update'[id] = firmware_update[id]
  PROVE  SlotInv'
<1>1. PICK d \in {0, 1} : Carried(d)
  BY TakeCarries
<1>2. \A f : WorksOn(f) => WorksOn(f)'
  BY WorkStays
<1> QED
  BY <1>1, <1>2, MovedChunks, SlotsStay DEF SlotInv

\* An init empties the slot or resumes what has its file's size and checksum.
LEMMA InitSlots ==
  ASSUME TypeOK, SlotInv, HandleFirmwareInit
  PROVE  SlotInv'
<1> DEFINE m == Head(queue)
           previous == firmware_update[m.id]
           state == IF Resumes(m, previous) THEN previous ELSE FreshUpload(m.file)
<1>1. /\ firmware_update_current_id' = m.id
      /\ firmware_update' = [firmware_update EXCEPT ![m.id] = state]
      /\ m.type = "firmware_init" /\ queue # <<>> /\ TakeIncoming
  BY DEF HandleFirmwareInit, Incoming, Respond
<1>2. m = queue[1] /\ 1 \in 1..Len(queue) /\ m \in Requests
  BY <1>1, TakeCarries
<1>3. PICK d \in {0, 1} : Carried(d)
  BY <1>1, TakeCarries
<1>4. m.file \in Files /\ m.id \in Ids
  BY <1>1, <1>2 DEF Requests, InitFirmware, FirmwareData, UpdateStart
<1>5. /\ state.checksum = m.file
      /\ m.id >= 255 => m.file \in state.received
  BY <1>4 DEF Resumes, FreshUpload, SlotInv, ResumableHoldsPrefix
<1> HIDE DEF previous, state
<1>6. firmware_update'[m.id] = state
  BY <1>1, <1>4 DEF TypeOK, DeviceTypeOK
<1>7. \A f : f = m.file => WorksOn(f)'
  BY <1>1, <1>5, <1>6 DEF WorksOn, current
<1>8. ASSUME NEW i \in 1..Len(queue'), queue'[i].type = "firmware_data"
      PROVE  \E f : f = queue'[i].file /\ WorksOn(f)'
  <2>1. /\ i + d \in 1..Len(queue) /\ queue[i + d].type = "firmware_data"
        /\ queue'[i].file = queue[i + d].file
    BY <1>3, <1>8 DEF Carried
  <2>2. 1 \in 1..(i + d)
    BY <2>1
  <2>3. queue[i + d].file = m.file
    BY <1>1, <1>2, <2>1, <2>2 DEF SlotInv, ChunksOfFile
  <2> QED
    BY <1>7, <2>1, <2>3
<1>9. ChunksOfFile'
  BY <1>3, <1>8, CarriedChunks DEF SlotInv
<1>10. ResumableHoldsPrefix'
  BY <1>1, <1>4, <1>5, <1>6 DEF SlotInv, ResumableHoldsPrefix, TypeOK, DeviceTypeOK
<1> QED
  BY <1>9, <1>10 DEF SlotInv

\* A chunk goes to the slot whose init came before it, at the offset where it
\* belongs.
LEMMA DataSlots ==
  ASSUME TypeOK, SlotInv, HandleFirmwareData
  PROVE  SlotInv'
<1> DEFINE m == Head(queue)
<1>1. /\ m.type = "firmware_data" /\ queue # <<>> /\ TakeIncoming
      /\ UNCHANGED firmware_update_current_id
  BY DEF HandleFirmwareData, Incoming, Respond
<1>2. m = queue[1] /\ 1 \in 1..Len(queue) /\ m \in Requests
  BY <1>1, TakeCarries
<1>3. CASE UNCHANGED firmware_update
  BY <1>1, <1>3, NothingStored
<1>4. CASE /\ Initialized /\ NothingMissing(m)
           /\ firmware_update' =
                [firmware_update EXCEPT ![firmware_update_current_id] = Stored(current, m)]
  <2>1. /\ firmware_update_current_id \in Ids /\ current \in Uploads
        /\ current = firmware_update[firmware_update_current_id] /\ current # NoUpload
    BY <1>4, CurrentType DEF current, Initialized
  <2>2. /\ \A id \in Ids : id # firmware_update_current_id =>
             firmware_update'[id] = firmware_update[id]
        /\ firmware_update'[firmware_update_current_id] = Stored(current, m)
    BY <1>4, <2>1 DEF TypeOK, DeviceTypeOK
  <2>3. Stored(current, m).checksum = current.checksum
    BY DEF Stored
  <2>4. \A f : WorksOn(f) => WorksOn(f)'
    <3>1. \A id \in Ids : firmware_update'[id] # NoUpload =>
            /\ firmware_update[id] # NoUpload
            /\ firmware_update'[id].checksum = firmware_update[id].checksum
      BY <2>1, <2>2, <2>3
    <3> QED
      BY <1>1, <3>1, WorkStays
  <2>5. ChunksOfFile'
    BY <1>1, <2>4, TakeCarries, MovedChunks DEF SlotInv
  <2>6. ASSUME firmware_update_current_id >= 255
        PROVE  current.checksum \in Stored(current, m).received
    <3>1. WorksOn(m.file)
      BY <1>1, <1>2 DEF SlotInv, ChunksOfFile
    <3>2. current.checksum = m.file
      BY <1>4, <2>6, <3>1 DEF WorksOn
    <3>3. current.checksum \in current.received
      BY <2>1, <2>6 DEF SlotInv, ResumableHoldsPrefix
    <3> QED
      BY <1>4, <3>2, <3>3 DEF Stored, NothingMissing
  <2>7. ResumableHoldsPrefix'
    BY <2>1, <2>2, <2>3, <2>6 DEF SlotInv, ResumableHoldsPrefix
  <2> QED
    BY <2>5, <2>7 DEF SlotInv
<1> QED
  BY <1>3, <1>4 DEF HandleFirmwareData

\* So no request puts foreign bytes into a slot; a refusal changes none.
LEMMA DeviceSlots ==
  ASSUME TypeOK, SlotInv, Device
  PROVE  SlotInv'
<1>1. CASE Refuse
  <2>1. queue # <<>> /\ TakeIncoming /\ UNCHANGED deviceVars
    BY <1>1 DEF Refuse, Respond
  <2> QED
    BY <2>1, NothingStored
<1>2. CASE HandleUpdateStart
  <2>1. /\ queue # <<>> /\ TakeIncoming
        /\ firmware_update_current_id' = firmware_update_current_id
    BY <1>2 DEF HandleUpdateStart, Incoming, Respond, Ignore
  <2>2. \A id \in Ids : firmware_update'[id] # NoUpload => firmware_update'[id] = firmware_update[id]
    BY <1>2 DEF HandleUpdateStart, StartUpdate, TypeOK, DeviceTypeOK
  <2> QED
    BY <2>1, <2>2, NothingStored
<1> QED
  BY <1>1, <1>2, InitSlots, DataSlots DEF Device, HandleFirmwareUpdate

-----------------------------------------------------------------------------
(* The environment, and the theorem *)

\* What others drop is not resumed.
LEMMA EnvironmentSlots ==
  ASSUME TypeOK, SlotInv, Environment
  PROVE  SlotInv'
<1>1. /\ UNCHANGED queue
      /\ firmware_update_current_id' \in {firmware_update_current_id, NoId, 1}
  BY DEF Environment, SetDataDownloadInt, EmulateReboot, DeviceRestart
<1>2. \A id \in Ids : firmware_update'[id] # NoUpload => firmware_update'[id] = firmware_update[id]
  BY DEF Environment, SetDataDownloadInt, EmulateReboot, DeviceRestart, TypeOK, DeviceTypeOK
<1>3. \A f : WorksOn(f) => WorksOn(f)'
  BY <1>1, <1>2, WorkStays
<1>4. Carried(0)
  BY <1>1, CloseCarries
<1> QED
  BY <1>2, <1>3, <1>4, MovedChunks, SlotsStay DEF SlotInv

\* A chunk under way, however late, is of the file that the device works on when
\* it arrives, if that may be resumed.
THEOREM SlotInvariant == Spec => []SlotInv
<1>1. Init => SlotInv
  BY DEF Init, DeviceInit, ChannelInit, SlotInv, ChunksOfFile, ResumableHoldsPrefix
<1>2. TypeOK /\ SafeInv /\ SlotInv /\ [Next]_vars => SlotInv'
  <2> SUFFICES ASSUME TypeOK, SafeInv, SlotInv, [Next]_vars PROVE SlotInv'
    OBVIOUS
  <2>1. CASE \/ Client \/ StartFlash \/ Crash
             \/ \E f \in Files, id \in Ids, c \in ChunkSizes : Start(f, id, c)
    BY <2>1, ClientSlots
  <2>2. CASE Device
    BY <2>2, DeviceSlots
  <2>3. CASE Environment
    BY <2>3, EnvironmentSlots
  <2>4. CASE UNCHANGED vars
    BY <2>4 DEF vars, SlotInv, ChunksOfFile, WorksOn, Initialized, current, ResumableHoldsPrefix
  <2> QED
    BY <2>1, <2>2, <2>3, <2>4 DEF Next
<1> QED
  BY <1>1, <1>2, TypeCorrect, SessionSafe, PTL DEF Spec

\* Whatever requests of killed runs still arrive, and however often: what an
\* application slot holds is the beginning of the file that was announced for
\* it, so that continuing it (firmware_init_hook) completes this file.
THEOREM SlotsHoldPrefixes == Spec => []ResumableHoldsPrefix
<1>1. SlotInv => ResumableHoldsPrefix
  BY DEF SlotInv
<1> QED
  BY <1>1, SlotInvariant, PTL

-----------------------------------------------------------------------------
(* UploadedIsComplete: the steps of the client *)

\* The upload.py ends, or is at a request of its init or its flash.
LEMMA ElsewhereComplete ==
  ASSUME UploadInv, UNCHANGED deviceVars, reply' = NoReply,
         phase' \in {"idle", "init", "flash", "flashed"}, phase' = "init" => position' = 0
  PROVE  UploadInv'
  BY DEF UploadInv, NoneLeft, OneChunk, NoOverflow, HoldsPrefix, InStep, SizeAccepted,
         UploadedIsComplete, Established

\* After an answer, or with nothing more to read, it goes on with an empty channel.
LEMMA GoOnComplete ==
  ASSUME TypeOK, UploadInv, UNCHANGED deviceVars, UNCHANGED <<file, firmware_id>>,
         Established, phase \notin {"flash", "flashed"}, reply # NoReply \/ phase = "read",
         queue' = Closed(queue) \/ UNCHANGED queue, reply' \in {reply, NoReply},
         phase' \in {"read", "uploaded"},
         firmware_update[firmware_id] # NoUpload =>
           LET size == firmware_update[firmware_id].current_size
           IN  /\ phase' = "read" => position' \in {0, size}
               /\ phase' = "uploaded" => size = Size[file]
  PROVE  UploadInv'
<1>1. queue = <<>>
  BY DEF UploadInv, NoneLeft
<1>2. queue' = <<>>
  <2>1. queue \in Seq(Requests) /\ Len(queue) = 0
    BY <1>1 DEF TypeOK
  <2>2. queue' \in Seq(Requests) /\ Len(queue') = 0
    BY <2>1, ClosedRequest
  <2> QED
    BY <2>2
<1>3. NoneLeft' /\ OneChunk' /\ NoOverflow' /\ SizeAccepted'
  BY <1>2 DEF UploadInv, NoneLeft, OneChunk, NoOverflow, SizeAccepted
<1>4. HoldsPrefix' /\ InStep'
  BY DEF UploadInv, HoldsPrefix, InStep, Established
<1>5. UploadedIsComplete'
  BY DEF UploadInv, HoldsPrefix, UploadedIsComplete, ContentIs
<1> QED
  BY <1>3, <1>4, <1>5 DEF UploadInv

\* A chunk is sent, the first time or again.
LEMMA SendChunkComplete ==
  ASSUME TypeOK, UploadInv, UNCHANGED deviceVars, UNCHANGED <<file, firmware_id>>,
         phase = "read" \/ (phase = "data" /\ UNCHANGED <<position, current_offset, length>>),
         phase' = "data", file \in Files, current_offset' \in Nat, length' \in Nat,
         position' = current_offset' + length',
         NEW o, NEW n, o = current_offset', n = length', SendRequest(DataRequest(file, o, n))
  PROVE  UploadInv'
<1> DEFINE m == DataRequest(file, o, n)
<1>1. m \in Requests
  BY RequestTypes
<1>2. /\ m.type = "firmware_data" /\ m.file = file
      /\ m.offset = current_offset' /\ m.length = length'
  BY DEF DataRequest
<1>3. SendRequest(m)
  OBVIOUS
<1> HIDE DEF m
<1>4. reply' = NoReply
  BY <1>1, <1>3, AfterSendLive
<1>5. OneChunk'
  <2>1. queue \in Seq(Requests) /\ Len(queue) \in Nat
    BY DEF TypeOK
  <2>2. ASSUME NEW i \in 1..Len(queue)
        PROVE  /\ Closed(queue)[i].type = "firmware_data" /\ Closed(queue)[i].file = file
               /\ Closed(queue)[i].offset = current_offset' /\ Closed(queue)[i].length = length'
    <3>1. phase = "data"
      BY <2>1, <2>2 DEF UploadInv, NoneLeft
    <3>2. /\ queue[i].type = "firmware_data" /\ queue[i].file = file
          /\ queue[i].offset = current_offset' /\ queue[i].length = length'
      BY <3>1 DEF UploadInv, OneChunk
    <3>3. queue[i] \in FirmwareData
      BY <2>1, <3>2 DEF Requests, InitFirmware, FirmwareData, UpdateStart
    <3>4. DOMAIN queue = 1..Len(queue)
      BY <2>1
    <3>5. Closed(queue)[i] = [queue[i] EXCEPT !.live = FALSE]
      BY <3>4 DEF Closed
    <3> QED
      BY <3>2, <3>3, <3>5 DEF FirmwareData
  <2>3. Closed(queue) \in Seq(Requests) /\ Len(Closed(queue)) = Len(queue)
    BY <2>1, ClosedRequest
  <2>4. CASE queue' = Closed(queue)
    BY <2>2, <2>3, <2>4 DEF OneChunk
  <2>5. CASE /\ Len(queue') = Len(queue) + 1
             /\ \A i \in 1..Len(queue) : queue'[i] = Closed(queue)[i]
             /\ queue'[Len(queue')] = m
    <3>1. \A i \in 1..Len(queue') : i \in 1..Len(queue) \/ i = Len(queue')
      BY <2>1, <2>5
    <3> QED
      BY <1>2, <2>2, <2>5, <3>1 DEF OneChunk
  <2> QED
    BY <1>1, <1>3, <2>1, <2>4, <2>5, AfterSend
<1> QED
  BY <1>4, <1>5 DEF UploadInv, NoneLeft, NoOverflow, HoldsPrefix, InStep, SizeAccepted,
                    UploadedIsComplete, Established

\* The position is where the device's upload ends, but for the chunk that is
\* under way.
LEMMA ClientComplete ==
  ASSUME TypeOK, SafeInv, UploadInv,
         \/ Client \/ StartFlash \/ Crash
         \/ \E f \in Files, id \in Ids, c \in ChunkSizes : Start(f, id, c)
  PROVE  UploadInv'
<1> USE DEF Answered, TimedOut
<1>1. CASE End
  BY <1>1, ElsewhereComplete DEF End, CloseSocket
<1>2. CASE \/ InitTimeout /\ ~End
           \/ \E f \in Files, id \in Ids, c \in ChunkSizes : Start(f, id, c)
  <2>1. phase' = "init" /\ position' = 0 /\ reply' = NoReply /\ UNCHANGED deviceVars
    BY <1>2 DEF InitTimeout, Start, SendRequest, UploadInv, InStep
  <2> QED
    BY <2>1, ElsewhereComplete
<1>3. CASE InitAnswered /\ ~End
  <2>1. position' = 0 /\ Established
    BY <1>3 DEF InitAnswered, UploadInv, InStep, Established
  <2>2. phase' = "uploaded" /\ firmware_update[firmware_id] # NoUpload =>
          firmware_update[firmware_id].current_size = Size[file]
    BY <1>3, <2>1 DEF InitAnswered, UploadInv, InStep
  <2> QED
    BY <1>3, <2>1, <2>2, GoOnComplete DEF InitAnswered, CloseSocket
<1>4. CASE ReadChunk
  <2>1. /\ file \in Files /\ Size[file] \in Nat
        /\ position \in Nat /\ chunk \in Nat /\ Size[file] - position \in Nat
    BY <1>4, SizeAssumption DEF ReadChunk, TypeOK
  <2>2. /\ current_offset' \in Nat /\ length' \in Nat
        /\ position' = current_offset' + length'
    BY <1>4, <2>1 DEF ReadChunk, Smaller
  <2>3. PICK o, n : o = current_offset' /\ n = length'
    OBVIOUS
  <2> QED
    BY <1>4, <2>1, <2>2, <2>3, SendChunkComplete DEF ReadChunk
<1>5. CASE ReadAll
  <2>1. /\ file \in Files /\ firmware_id \in Ids /\ Size[file] \in Nat /\ position \in Nat
        /\ Established
    BY <1>5, SizeAssumption DEF ReadAll, TypeOK, Established
  <2>2. ASSUME firmware_update[firmware_id] # NoUpload
        PROVE  firmware_update[firmware_id].current_size = Size[file]
    <3>1. firmware_update[firmware_id] \in Uploads
      BY <2>1, <2>2 DEF TypeOK, DeviceTypeOK
    <3>2. firmware_update[firmware_id].current_size \in Nat
      BY <3>1 DEF Uploads
    <3>3. firmware_update[firmware_id].checksum = file
      BY <2>1, <2>2 DEF SafeInv, SessionInv
    <3>4. firmware_update[firmware_id].current_size <= Size[file]
      BY <2>1, <2>2, <3>3 DEF UploadInv, NoOverflow
    <3>5. position \in {0, firmware_update[firmware_id].current_size}
      BY <1>5, <2>1, <2>2 DEF ReadAll, UploadInv, InStep
    <3> QED
      BY <1>5, <2>1, <3>2, <3>4, <3>5 DEF ReadAll
  <2> QED
    BY <1>5, <2>1, <2>2, GoOnComplete DEF ReadAll
<1>6. CASE (DataTimeout \/ Blocked) /\ ~End
  <2>1. /\ file \in Files /\ current_offset \in Nat /\ length \in Nat
        /\ position = current_offset + length /\ phase = "data"
    BY <1>6 DEF DataTimeout, Blocked, TypeOK, UploadInv, OneChunk
  <2> QED
    BY <1>6, <2>1, SendChunkComplete DEF DataTimeout, Blocked, RepeatChunk
<1>7. CASE (DataStored \/ WrongOffset) /\ ~End
  <2>1. Established /\ phase = "data" /\ reply # NoReply
    BY <1>7 DEF DataStored, WrongOffset, Established
  <2>2. firmware_update[firmware_id] # NoUpload =>
          position' = firmware_update[firmware_id].current_size
    BY <1>7, <2>1 DEF DataStored, WrongOffset, UploadInv, InStep
  <2> QED
    BY <1>7, <2>1, <2>2, GoOnComplete DEF DataStored, WrongOffset, CloseSocket
<1>8. CASE ChunkTooBig \/ ChunkTooSmall
  BY <1>8 DEF ChunkTooBig, ChunkTooSmall, UploadInv, SizeAccepted
<1>9. CASE ((StartFlash \/ FlashTimeout \/ FlashRefused) /\ ~End) \/ FlashAccepted
  <2>1. phase' \in {"flash", "flashed"} /\ reply' = NoReply /\ UNCHANGED deviceVars
    BY <1>9 DEF StartFlash, FlashTimeout, FlashRefused, RepeatFlash, FlashAccepted,
                SendRequest, CloseSocket
  <2> QED
    BY <2>1, ElsewhereComplete
<1> QED
  BY <1>1, <1>2, <1>3, <1>4, <1>5, <1>6, <1>7, <1>8, <1>9 DEF Client, Crash, Exit, DataFailed

-----------------------------------------------------------------------------
(* UploadedIsComplete: the steps of the device *)

\* When the device takes a request, no answer has arrived; it leaves the rest.
LEMMA TakeComplete ==
  ASSUME TypeOK, SafeInv, UploadInv, ~Duplication, queue # <<>>,
         NEW r, Respond(r) \/ Ignore, UNCHANGED clientVars
  PROVE  /\ reply = NoReply /\ phase \notin {"read", "uploaded"}
         /\ reply' \in {NoReply, r}
         /\ reply' # NoReply =>
              \/ phase = "init" /\ Head(queue).type = "firmware_init"
              \/ phase = "data" /\ Head(queue).type = "firmware_data"
              \/ phase = "flash" /\ Head(queue).type = "firmware_update_start"
         /\ NoneLeft' /\ OneChunk' /\ UploadedIsComplete'
         /\ phase = "data" =>
              /\ position = current_offset + length
              /\ Head(queue).type = "firmware_data" /\ Head(queue).file = file
              /\ Head(queue).offset = current_offset /\ Head(queue).length = length
<1>1. /\ queue \in Seq(Requests) /\ Len(queue) \in Nat \ {0} /\ 1 \in 1..Len(queue)
      /\ Head(queue) = queue[1]
  BY DEF TypeOK
<1>2. queue' = Tail(queue)
  BY DEF Respond, Ignore, TakeIncoming
<1>3. /\ queue' \in Seq(Requests) /\ Len(queue') = Len(queue) - 1
      /\ \A i \in 1..Len(queue) - 1 : queue'[i] = queue[i + 1]
  BY <1>1, <1>2
<1>4. reply = NoReply /\ phase \notin {"read", "uploaded"}
  BY DEF UploadInv, NoneLeft
<1>5. /\ reply' \in {NoReply, r}
      /\ reply' # NoReply => queue[1].live
  BY <1>1, <1>4 DEF Respond, Ignore
<1>6. reply' # NoReply =>
        /\ Len(queue) = 1
        /\ \/ phase = "init" /\ queue[1].type = "firmware_init"
           \/ phase = "data" /\ queue[1].type = "firmware_data"
           \/ phase = "flash" /\ queue[1].type = "firmware_update_start"
  BY <1>1, <1>5 DEF SafeInv, LiveRequest
<1>7. NoneLeft'
  <2>1. Len(queue) = 1 => Len(queue') = 0
    BY <1>3
  <2>2. Len(queue') = 0 => queue' = <<>>
    BY <1>3
  <2>3. reply' # NoReply => queue' = <<>>
    BY <1>6, <2>1, <2>2
  <2> QED
    BY <1>4, <2>3 DEF NoneLeft
<1>8. OneChunk'
  <2>1. \A i \in 1..Len(queue') :
          i + 1 \in 1..Len(queue) /\ queue'[i] = queue[i + 1]
    BY <1>1, <1>3
  <2> QED
    BY <2>1 DEF UploadInv, OneChunk
<1>9. UploadedIsComplete'
  BY <1>4 DEF UploadedIsComplete
<1>10. phase = "data" =>
         /\ position = current_offset + length
         /\ queue[1].type = "firmware_data" /\ queue[1].file = file
         /\ queue[1].offset = current_offset /\ queue[1].length = length
  BY <1>1 DEF UploadInv, OneChunk
<1> QED
  BY <1>1, <1>4, <1>5, <1>6, <1>7, <1>8, <1>9, <1>10

\* The init that is answered says where the upload goes on; no copy of it
\* comes later.
LEMMA InitComplete ==
  ASSUME TypeOK, SafeInv, SlotInv, UploadInv, ~Duplication, HandleFirmwareInit,
         UNCHANGED clientVars
  PROVE  UploadInv'
<1> DEFINE m == Head(queue)
           previous == firmware_update[m.id]
           state == IF Resumes(m, previous) THEN previous ELSE FreshUpload(m.file)
           r == Report("OK", state.current_size)
<1>1. /\ firmware_update' = [firmware_update EXCEPT ![m.id] = state]
      /\ m.type = "firmware_init" /\ queue # <<>> /\ Respond(r)
  BY DEF HandleFirmwareInit, Incoming
<1>2. /\ reply = NoReply /\ phase \notin {"read", "uploaded", "data"}
      /\ reply' \in {NoReply, r}
      /\ reply' # NoReply => phase \in {"init", "flash"}
      /\ NoneLeft' /\ OneChunk' /\ UploadedIsComplete'
  BY <1>1, TakeComplete
<1>3. m = queue[1] /\ 1 \in 1..Len(queue) /\ m \in Requests
  BY <1>1, TakeCarries DEF Respond
<1>4. m.file \in Files /\ m.id \in Ids /\ Size[m.file] \in Nat
  BY <1>1, <1>3, SizeAssumption DEF Requests, InitFirmware, FirmwareData, UpdateStart
<1>5. /\ state.checksum = m.file
      /\ m.file \in state.received
      /\ state.current_size <= Size[m.file]
  BY <1>4 DEF Resumes, FreshUpload, SlotInv, ResumableHoldsPrefix, UploadInv, NoOverflow
<1>6. r.status = "OK" /\ r.expected_offset = state.current_size
  BY DEF Report
<1> HIDE DEF previous, state, r
<1>7. /\ firmware_update'[m.id] = state
      /\ \A id \in Ids : id # m.id => firmware_update'[id] = firmware_update[id]
  BY <1>1, <1>4 DEF TypeOK, DeviceTypeOK
<1>8. NoOverflow' /\ SizeAccepted'
  BY <1>2, <1>5, <1>6, <1>7 DEF UploadInv, NoOverflow, SizeAccepted
<1>9. ASSUME Established', phase \notin {"flash", "flashed"}
      PROVE  /\ phase = "init" /\ reply' = r
             /\ m.file = file /\ m.id = firmware_id
  <2>1. phase = "init" /\ reply' = r /\ ~Established
    BY <1>2, <1>9 DEF Established
  <2>2. \A i \in 1..Len(queue) : OwnInit(queue[i])
    BY <1>1, <1>9, DeviceInits DEF SafeInv
  <2> QED
    BY <1>1, <1>3, <2>1, <2>2 DEF OwnInit
<1>10. HoldsPrefix'
  BY <1>5, <1>7, <1>9 DEF HoldsPrefix
<1>11. InStep'
  BY <1>2, <1>6, <1>7, <1>9 DEF UploadInv, InStep
<1> QED
  BY <1>2, <1>8, <1>10, <1>11 DEF UploadInv

\* An upload only grows, and OK or WRONG_OFFSET tells the client how far it has.
LEMMA DataComplete ==
  ASSUME TypeOK, SafeInv, UploadInv, ~Duplication, HandleFirmwareData, UNCHANGED clientVars
  PROVE  UploadInv'
<1> DEFINE m == Head(queue)
<1>1. PICK r : Respond(r) /\ m.type = "firmware_data" /\ queue # <<>>
  BY DEF HandleFirmwareData, Incoming
<1>2. /\ reply = NoReply /\ phase \notin {"read", "uploaded"}
      /\ NoneLeft' /\ OneChunk' /\ UploadedIsComplete'
      /\ phase = "data" =>
           /\ position = current_offset + length
           /\ m.file = file /\ m.offset = current_offset /\ m.length = length
  BY <1>1, TakeComplete
<1>3. m \in Requests
  BY <1>1, TakeCarries DEF Respond
<1>4. m.file \in Files /\ m.offset \in Nat /\ m.length \in Nat
  BY <1>1, <1>3 DEF Requests, InitFirmware, FirmwareData, UpdateStart
<1>5. \/ /\ UNCHANGED firmware_update
         /\ \/ Respond(Report("NOT_INITIALIZED", 0))
            \/ Initialized /\ Respond(Report("WRONG_OFFSET", current.current_size))
            \/ Respond(Report("DATA_OVERFLOW", current.current_size))
      \/ /\ Initialized /\ NothingMissing(m)
         /\ current.current_size + m.length <= Size[current.checksum]
         /\ firmware_update' =
              [firmware_update EXCEPT ![firmware_update_current_id] = Stored(current, m)]
         /\ Respond(Report("OK", current.current_size + m.length))
  BY DEF HandleFirmwareData
<1> HIDE DEF m
<1>6. ASSUME Initialized
      PROVE  /\ firmware_update_current_id \in Ids /\ current \in Uploads
             /\ current = firmware_update[firmware_update_current_id] /\ current # NoUpload
             /\ current.current_size \in Nat
  BY <1>6, CurrentType DEF current, Initialized
<1>7. phase = "data" =>
        /\ firmware_id \in Ids
        /\ Initialized => current = firmware_update[firmware_id]
                          /\ firmware_update_current_id = firmware_id
  BY DEF TypeOK, SafeInv, SessionInv, Established, Initialized, current
<1>8. Established' /\ phase \notin {"flash", "flashed"} => phase = "data" /\ Established
  <2>1. Established' => Established
    BY <1>1, DeviceInits DEF SafeInv, m
  <2> QED
    BY <1>2, <2>1 DEF Established
<1>9. CASE /\ UNCHANGED firmware_update
           /\ \/ Respond(Report("NOT_INITIALIZED", 0))
              \/ Initialized /\ Respond(Report("WRONG_OFFSET", current.current_size))
              \/ Respond(Report("DATA_OVERFLOW", current.current_size))
  <2>1. NoOverflow'
    BY <1>9 DEF UploadInv, NoOverflow
  <2>2. HoldsPrefix'
    BY <1>8, <1>9 DEF UploadInv, HoldsPrefix
  <2>3. PICK s, o : /\ Respond(Report(s, o))
                    /\ \/ s \in {"NOT_INITIALIZED", "DATA_OVERFLOW"}
                       \/ s = "WRONG_OFFSET" /\ Initialized /\ o = current.current_size
    BY <1>9
  <2>4. /\ reply' \in {NoReply, Report(s, o)}
        /\ Report(s, o).status = s /\ Report(s, o).expected_offset = o
    BY <1>1, <2>3, TakeComplete DEF Report
  <2>5. SizeAccepted'
    BY <2>3, <2>4 DEF SizeAccepted
  <2>6. InStep'
    BY <1>2, <1>7, <1>8, <1>9, <2>3, <2>4 DEF UploadInv, InStep
  <2> QED
    BY <1>2, <2>1, <2>2, <2>5, <2>6 DEF UploadInv
<1>10. CASE /\ Initialized /\ NothingMissing(m)
            /\ current.current_size + m.length <= Size[current.checksum]
            /\ firmware_update' =
                 [firmware_update EXCEPT ![firmware_update_current_id] = Stored(current, m)]
            /\ Respond(Report("OK", current.current_size + m.length))
  <2>1. PICK u : u = Stored(current, m)
    OBVIOUS
  <2>2. /\ u.checksum = current.checksum
        /\ u.current_size = current.current_size + m.length
        /\ u.received = {f \in current.received : f = m.file /\ m.offset = current.current_size}
    BY <2>1 DEF Stored
  <2>3. /\ firmware_update'[firmware_update_current_id] = u
        /\ \A id \in Ids : id # firmware_update_current_id =>
             firmware_update'[id] = firmware_update[id]
    BY <1>6, <1>10, <2>1 DEF TypeOK, DeviceTypeOK
  <2>4. NoOverflow'
    BY <1>10, <2>2, <2>3 DEF UploadInv, NoOverflow
  <2>5. HoldsPrefix'
    BY <1>2, <1>6, <1>7, <1>8, <1>10, <2>2, <2>3
       DEF UploadInv, HoldsPrefix, NothingMissing
  <2>6. PICK o : o = current.current_size + m.length /\ Respond(Report("OK", o))
    BY <1>10
  <2>7. reply' \in {NoReply, Report("OK", o)} /\ Report("OK", o).status = "OK"
    BY <1>1, <2>6, TakeComplete DEF Report
  <2>8. SizeAccepted'
    BY <2>7 DEF SizeAccepted
  <2>9. phase = "data" => position = u.current_size
    BY <1>2, <1>10, <2>2 DEF NothingMissing
  <2>10. InStep'
    BY <1>2, <1>7, <1>8, <1>10, <2>3, <2>7, <2>9 DEF UploadInv, InStep
  <2> QED
    BY <1>2, <2>4, <2>5, <2>8, <2>10 DEF UploadInv
<1> QED
  BY <1>5, <1>9, <1>10

\* A step of the device that stores nothing and answers neither an init nor a
\* chunk with OK or WRONG_OFFSET.
LEMMA OtherComplete ==
  ASSUME TypeOK, SafeInv, UploadInv, ~Duplication, queue # <<>>,
         NEW r, Respond(r) \/ Ignore, UNCHANGED clientVars,
         \A id \in Ids : firmware_update'[id] # NoUpload => firmware_update'[id] = firmware_update[id],
         r.status \notin {"CHUNK_SIZE_IS_TOO_BIG", "CHUNK_SIZE_IS_TOO_SMALL"},
         Head(queue).type = "firmware_update_start" \/ r.status \notin {"OK", "WRONG_OFFSET"}
  PROVE  UploadInv'
<1>1. /\ reply = NoReply /\ phase \notin {"read", "uploaded"}
      /\ reply' \in {NoReply, r}
      /\ reply' # NoReply /\ Head(queue).type = "firmware_update_start" => phase = "flash"
      /\ NoneLeft' /\ OneChunk' /\ UploadedIsComplete'
  BY TakeComplete
<1>2. Established' /\ phase \notin {"flash", "flashed"} =>
        phase = "data" /\ Established /\ firmware_id \in Ids
  BY <1>1 DEF Established, TypeOK
<1>3. NoOverflow' /\ HoldsPrefix' /\ SizeAccepted'
  BY <1>1, <1>2 DEF UploadInv, NoOverflow, HoldsPrefix, SizeAccepted
<1>4. InStep'
  BY <1>1, <1>2 DEF UploadInv, InStep
<1> QED
  BY <1>1, <1>3, <1>4 DEF UploadInv

\* The request to flash takes the whole upload away, or leaves it.
LEMMA StartComplete ==
  ASSUME TypeOK, SafeInv, UploadInv, ~Duplication, HandleUpdateStart, UNCHANGED clientVars
  PROVE  UploadInv'
<1>1. /\ queue # <<>> /\ Head(queue).type = "firmware_update_start"
      /\ \A id \in Ids :
           firmware_update'[id] # NoUpload => firmware_update'[id] = firmware_update[id]
  BY DEF HandleUpdateStart, StartUpdate, Incoming, TypeOK, DeviceTypeOK
<1>2. PICK s, o :
        /\ s \in {"OK", "CHECKSUM_ERROR_IN_RECEIVED_DATA"}
        /\ Respond(Report(s, o)) \/ Ignore
  BY DEF HandleUpdateStart
<1>3. Report(s, o).status \notin {"CHUNK_SIZE_IS_TOO_BIG", "CHUNK_SIZE_IS_TOO_SMALL"}
  BY <1>2 DEF Report
<1> QED
  BY <1>1, <1>2, <1>3, OtherComplete

\* A device that does not refuse a size keeps the client's position true.
LEMMA DeviceComplete ==
  ASSUME TypeOK, SafeInv, SlotInv, UploadInv, ~Duplication,
         Refusals \cap {"CHUNK_SIZE_IS_TOO_BIG", "CHUNK_SIZE_IS_TOO_SMALL"} = {}, Device
  PROVE  UploadInv'
<1>1. UNCHANGED clientVars
  BY DEF Device
<1>2. CASE Refuse
  <2>1. PICK s, o :
          s \in Refusals /\ Respond(Report(s, o)) /\ queue # <<>> /\ UNCHANGED deviceVars
    BY <1>2 DEF Refuse
  <2>2. /\ Report(s, o).status = s
        /\ s \notin {"CHUNK_SIZE_IS_TOO_BIG", "CHUNK_SIZE_IS_TOO_SMALL", "OK", "WRONG_OFFSET"}
    BY <2>1, RefusalsAssumption DEF Report
  <2> QED
    BY <1>1, <2>1, <2>2, OtherComplete
<1> QED
  BY <1>1, <1>2, InitComplete, DataComplete, StartComplete DEF Device, HandleFirmwareUpdate

-----------------------------------------------------------------------------
(* UploadedIsComplete: the environment, and the theorem *)

\* Who drops an upload drops all of it: the next chunk finds an error.
LEMMA EnvironmentComplete ==
  ASSUME TypeOK, UploadInv, Environment
  PROVE  UploadInv'
<1>1. UNCHANGED <<clientVars, channelVars>>
  BY DEF Environment, SetDataDownloadInt, EmulateReboot, DeviceRestart
<1>2. \A id \in Ids : firmware_update'[id] # NoUpload => firmware_update'[id] = firmware_update[id]
  BY DEF Environment, SetDataDownloadInt, EmulateReboot, DeviceRestart, TypeOK, DeviceTypeOK
<1>3. phase # "idle" => firmware_id \in Ids
  BY DEF TypeOK
<1>4. NoneLeft' /\ OneChunk' /\ NoOverflow' /\ SizeAccepted'
  BY <1>1, <1>2 DEF UploadInv, NoneLeft, OneChunk, NoOverflow, SizeAccepted
<1>5. Established' <=> Established
  BY <1>1 DEF Established
<1>6. Established => phase # "idle"
  BY DEF Established
<1>7. HoldsPrefix' /\ InStep' /\ UploadedIsComplete'
  BY <1>1, <1>2, <1>3, <1>5, <1>6
     DEF UploadInv, HoldsPrefix, InStep, UploadedIsComplete, ContentIs
<1> QED
  BY <1>4, <1>7 DEF UploadInv

\* When upload_firmware returns True, the slot holds the whole file, whatever
\* was lost or repeated, wherever the upload was resumed, and whatever killed
\* runs left behind; provided that no request is delivered twice (a copy of the
\* init would take back an upload that began) and that no chunk is refused for
\* its size (upload_firmware goes on behind it, see the finding).
THEOREM UploadIsComplete ==
  ASSUME ~Duplication, Refusals \cap {"CHUNK_SIZE_IS_TOO_BIG", "CHUNK_SIZE_IS_TOO_SMALL"} = {}
  PROVE  Spec => []UploadedIsComplete
<1>1. Init => UploadInv
  BY DEF Init, ClientInit, DeviceInit, ChannelInit, UploadInv, NoneLeft, OneChunk, NoOverflow,
         HoldsPrefix, InStep, SizeAccepted, UploadedIsComplete, Established
<1>2. TypeOK /\ SafeInv /\ SlotInv /\ UploadInv /\ [Next]_vars => UploadInv'
  <2> SUFFICES ASSUME TypeOK, SafeInv, SlotInv, UploadInv, [Next]_vars PROVE UploadInv'
    OBVIOUS
  <2>1. CASE \/ Client \/ StartFlash \/ Crash
             \/ \E f \in Files, id \in Ids, c \in ChunkSizes : Start(f, id, c)
    BY <2>1, ClientComplete
  <2>2. CASE Device
    BY <2>2, DeviceComplete
  <2>3. CASE Environment
    BY <2>3, EnvironmentComplete
  <2>4. CASE UNCHANGED vars
    BY <2>4 DEF vars, UploadInv, NoneLeft, OneChunk, NoOverflow, HoldsPrefix, InStep,
                SizeAccepted, UploadedIsComplete, Established, ContentIs
  <2> QED
    BY <2>1, <2>2, <2>3, <2>4 DEF Next
<1>3. UploadInv => UploadedIsComplete
  BY DEF UploadInv
<1> QED
  BY <1>1, <1>2, <1>3, TypeCorrect, SessionSafe, SlotInvariant, PTL DEF Spec

-----------------------------------------------------------------------------
(* The refinement: what a slot holds *)

\* An upload is its file and size if its bytes are the file's.
LEMMA HoldsUpload ==
  ASSUME NEW u \in Uploads
  PROVE  /\ u.checksum \in u.received => Holds(u) = Content(u.checksum, u.current_size)
         /\ u.checksum \notin u.received => Holds(u) = Content(NoFile, 0)
         /\ u # NoUpload /\ Holds(u) # NoFile
<1>1. u # NoUpload
  BY NoUploadAssumption
<1>2. u.checksum \in Files /\ u.current_size \in Nat
  BY DEF Uploads
<1>3. \A f \in Files \cup {NoFile}, n \in Nat : Content(f, n) # NoFile
  BY NoContentAssumption DEF Content
<1> QED
  BY <1>1, <1>2, <1>3 DEF Holds

\* What is in a slot has these two parts.
LEMMA ContentParts == \A f, n : Content(f, n).file = f /\ Content(f, n).bytes = n
  BY DEF Content

\* A fresh upload holds no bytes, of the right file.
LEMMA HoldsFresh ==
  ASSUME NEW f \in Files
  PROVE  Holds(FreshUpload(f)) = Content(f, 0) /\ FreshUpload(f) \in Uploads
<1>1. FreshUpload(f) \in Uploads /\ FreshUpload(f).checksum = f
      /\ FreshUpload(f).current_size = 0 /\ f \in FreshUpload(f).received
  BY DEF FreshUpload, Uploads
<1> QED
  BY <1>1, HoldsUpload

\* A chunk that fits adds to its file, or spoils what another began.
LEMMA HoldsStored ==
  ASSUME NEW u \in Uploads, NEW m, m.length \in Nat, m.offset = u.current_size,
         u.current_size + m.length <= Size[u.checksum]
  PROVE  \/ Holds(Stored(u, m)) = Holds(u)
         \/ /\ Holds(u) = Content(u.checksum, u.current_size)
            /\ u.current_size + m.length \in u.current_size..Size[u.checksum]
            /\ Holds(Stored(u, m)) = Content(u.checksum, u.current_size + m.length)
         \/ /\ Holds(Stored(u, m)) = Content(NoFile, 0)
            /\ m.file # u.checksum
<1>1. Stored(u, m) \in Uploads
  BY StoredType
<1>2. /\ Stored(u, m).checksum = u.checksum
      /\ Stored(u, m).current_size = u.current_size + m.length
      /\ u.checksum \in Stored(u, m).received <=> u.checksum \in u.received /\ u.checksum = m.file
  BY DEF Stored
<1>3. u.current_size \in Nat /\ Size[u.checksum] \in Nat
  BY SizeAssumption DEF Uploads
<1> QED
  BY <1>1, <1>2, <1>3, HoldsUpload

\* Only the whole file in the slot is an upload that may be flashed.
LEMMA HoldsComplete ==
  ASSUME NEW u \in Uploads, ContentIs(u, u.checksum)
  PROVE  Holds(u) = Content(u.checksum, Size[u.checksum]) /\ u.checksum \in Files
  BY HoldsUpload DEF ContentIs, Uploads

-----------------------------------------------------------------------------
(* The refinement: the client *)

\* upload.py ends or goes on with its file, or is told that it was flashed.
LEMMA ClientGoesOn ==
  ASSUME Client \/ StartFlash \/ Crash
  PROVE  /\ UNCHANGED deviceVars
         /\ phase # "idle"
         /\ \/ phase' = "idle"
            \/ /\ phase' # "idle" /\ ~Reported /\ UNCHANGED <<file, firmware_id>>
               /\ Reported' => phase = "flash" /\ reply # NoReply /\ reply.status = "OK"
<1> USE DEF Answered, TimedOut
<1>1. CASE End
  <2>1. phase # "idle"
    BY DEF Client, StartFlash, Crash, InitTimeout, InitAnswered, ReadChunk, ReadAll, DataTimeout,
           DataStored, DataFailed, WrongOffset, ChunkTooBig, ChunkTooSmall, Blocked,
           FlashTimeout, FlashRefused, FlashAccepted, Exit
  <2> QED
    BY <1>1, <2>1 DEF End
<1>2. CASE (InitTimeout \/ InitAnswered) /\ ~End
  BY <1>2 DEF InitTimeout, InitAnswered, Reported
<1>3. CASE ReadChunk \/ ReadAll \/ DataStored
  BY <1>3 DEF ReadChunk, ReadAll, DataStored, Reported
<1>4. CASE (DataTimeout \/ Blocked) /\ ~End
  BY <1>4 DEF DataTimeout, Blocked, RepeatChunk, Reported
<1>5. CASE WrongOffset /\ ~End
  BY <1>5 DEF WrongOffset, Reported
<1>6. CASE (ChunkTooBig \/ ChunkTooSmall) /\ ~End
  BY <1>6 DEF ChunkTooBig, ChunkTooSmall, Rechunk, Reported
<1>7. CASE StartFlash
  BY <1>7 DEF StartFlash, Reported
<1>8. CASE (FlashTimeout \/ FlashRefused) /\ ~End
  BY <1>8 DEF FlashTimeout, FlashRefused, RepeatFlash, Reported
<1>9. CASE FlashAccepted
  BY <1>9 DEF FlashAccepted, Reported
<1> QED
  BY <1>1, <1>2, <1>3, <1>4, <1>5, <1>6, <1>7, <1>8, <1>9 DEF Client, Crash, Exit, DataFailed

\* A step of the client that leaves the device alone leaves the slots alone.
LEMMA ClientMaps ==
  ASSUME TypeOK, SafeInv, Client \/ StartFlash \/ Crash
  PROVE  [Store!Next]_(Store!storeVars)
<1>1. /\ UNCHANGED deviceVars /\ phase # "idle"
      /\ \/ phase' = "idle"
         \/ /\ phase' # "idle" /\ file' = file /\ ~Reported
            /\ Reported' => flashed # NoImage /\ flashed.checksum = file
  BY ClientGoesOn DEF SafeInv, FlashInv
<1>2. UNCHANGED <<Held, Image>>
  BY <1>1 DEF Held, Image
<1>3. CASE phase' = "idle"
  <2>1. Wanted' = NoFile /\ Reported' = FALSE
    BY <1>3 DEF Wanted, Reported
  <2> QED
    BY <1>2, <2>1 DEF Store!Next, Store!End
<1>4. CASE phase' # "idle" /\ Reported'
  <2>1. Wanted = file /\ Wanted' = Wanted /\ file \in Files /\ Reported' = TRUE
    BY <1>1, <1>4 DEF Wanted, Reported, TypeOK
  <2>2. Wanted # NoFile /\ Image = Wanted
    BY <1>1, <1>4, <2>1, NoFileAssumption DEF Image
  <2>3. Store!Succeed
    BY <1>2, <2>1, <2>2 DEF Store!Succeed
  <2> QED
    BY <2>3 DEF Store!Next
<1>5. CASE phase' # "idle" /\ ~Reported'
  <2>1. Wanted' = Wanted /\ Reported' = Reported
    BY <1>1, <1>5 DEF Wanted, Reported
  <2> QED
    BY <1>2, <2>1 DEF Store!storeVars
<1> QED
  BY <1>1, <1>3, <1>4, <1>5

\* Its start gives the store a file.
LEMMA StartMaps ==
  ASSUME NEW f \in Files, NEW id, NEW c, Start(f, id, c)
  PROVE  Store!Next
<1>1. Wanted = NoFile /\ Wanted' = f /\ UNCHANGED <<Held, Image>> /\ Reported' = Reported
  BY DEF Start, Wanted, Held, Image, Reported
<1> QED
  BY <1>1 DEF Store!Next, Store!Begin

-----------------------------------------------------------------------------
(* The refinement: the slots *)

\* Where one slot gets another upload, the store holds something else there.
LEMMA HeldUpdate ==
  ASSUME TypeOK, NEW id \in Ids, NEW u, firmware_update' = [firmware_update EXCEPT ![id] = u]
  PROVE  /\ Held' = [Held EXCEPT ![id] = Holds(u)]
         /\ Held[id] = Holds(firmware_update[id])
         /\ firmware_update[id] = u => Held' = Held
  BY DEF TypeOK, DeviceTypeOK, Held

\* Who is no client leaves the program of the store alone.
LEMMA ProgramStays ==
  ASSUME UNCHANGED clientVars
  PROVE  Wanted' = Wanted /\ Reported' = Reported
  BY DEF Wanted, Reported

\* An init announces its file, unless the slot may be resumed and has it already.
LEMMA InitMaps ==
  ASSUME TypeOK, HandleFirmwareInit, UNCHANGED clientVars
  PROVE  [Store!Next]_(Store!storeVars)
<1> DEFINE m == Head(queue)
           previous == firmware_update[m.id]
           state == IF Resumes(m, previous) THEN previous ELSE FreshUpload(m.file)
<1>1. /\ firmware_update' = [firmware_update EXCEPT ![m.id] = state]
      /\ UNCHANGED flashed
      /\ m.type = "firmware_init" /\ queue # <<>> /\ TakeIncoming
  BY DEF HandleFirmwareInit, Incoming, Respond
<1>2. m.file \in Files /\ m.id \in Ids
  BY <1>1, TakeCarries DEF Requests, InitFirmware, FirmwareData, UpdateStart
<1>3. /\ Held' = [Held EXCEPT ![m.id] = Holds(state)]
      /\ Held[m.id] = Holds(previous)
      /\ previous = state => Held' = Held
  BY <1>1, <1>2, HeldUpdate
<1>4. Image' = Image /\ Wanted' = Wanted /\ Reported' = Reported
  BY <1>1, ProgramStays DEF Image
<1>5. CASE Resumes(m, previous)
  BY <1>3, <1>4, <1>5 DEF Store!storeVars
<1>6. CASE ~Resumes(m, previous)
  <2>1. Holds(state) = Content(m.file, 0)
    BY <1>2, <1>6, HoldsFresh
  <2>2. ASSUME m.id \in Resumable PROVE Held[m.id] = NoFile \/ Held[m.id].file # m.file
    <3>1. previous = NoUpload \/ previous.checksum # m.file
      BY <1>6, <2>2 DEF Resumes, Resumable
    <3>2. CASE previous = NoUpload
      BY <1>3, <3>2 DEF Holds
    <3>3. CASE previous # NoUpload
      <4>1. previous \in Uploads
        BY <1>2, <3>3 DEF TypeOK, DeviceTypeOK
      <4> QED
        BY <1>2, <1>3, <3>1, <3>3, <4>1, HoldsUpload, ContentParts, NoFileAssumption
    <3> QED
      BY <3>2, <3>3
  <2> HIDE DEF m, previous, state
  <2>3. Store!Announce(m.id, m.file)
    BY <1>3, <1>4, <2>1, <2>2 DEF Store!Announce, Store!Hold, Content
  <2> QED
    BY <1>2, <2>3 DEF Store!Next
<1> QED
  BY <1>5, <1>6

\* A chunk that is stored makes what the slot holds of its file grow, or spoils
\* the file of another.
LEMMA ChunkChanges ==
  ASSUME NEW u \in Uploads, NEW m, m.length \in Nat, m.offset = u.current_size,
         u.current_size + m.length <= Size[u.checksum],
         NEW before, before = Holds(u), NEW after, after = Holds(Stored(u, m))
  PROVE  /\ before # NoFile
         /\ \/ after = before
            \/ /\ before.file # NoFile
               /\ \E n \in before.bytes..Size[before.file] : after = [before EXCEPT !.bytes = n]
            \/ m.file # u.checksum /\ after = [file |-> NoFile, bytes |-> 0]
<1>1. \/ after = before
      \/ /\ before = Content(u.checksum, u.current_size)
         /\ u.current_size + m.length \in u.current_size..Size[u.checksum]
         /\ after = Content(u.checksum, u.current_size + m.length)
      \/ after = Content(NoFile, 0) /\ m.file # u.checksum
  BY HoldsStored
<1>2. before # NoFile /\ u.checksum \in Files
  BY HoldsUpload DEF Uploads
<1>3. CASE /\ before = Content(u.checksum, u.current_size)
           /\ u.current_size + m.length \in u.current_size..Size[u.checksum]
           /\ after = Content(u.checksum, u.current_size + m.length)
  <2>1. PICK n : n = u.current_size + m.length
    OBVIOUS
  <2>2. before.file # NoFile /\ n \in before.bytes..Size[before.file]
    BY <1>2, <1>3, <2>1, ContentParts, NoFileAssumption
  <2>3. after = [before EXCEPT !.bytes = n]
    BY <1>3, <2>1 DEF Content
  <2> QED
    BY <1>2, <2>2, <2>3
<1> QED
  BY <1>1, <1>2, <1>3 DEF Content

\* Where no chunk is stored, the store stutters.
LEMMA DataMaps ==
  ASSUME TypeOK, SlotInv, HandleFirmwareData, UNCHANGED clientVars
  PROVE  [Store!Next]_(Store!storeVars)
<1> DEFINE m == Head(queue)
           slot == firmware_update_current_id
<1>1. /\ m.type = "firmware_data" /\ queue # <<>> /\ TakeIncoming /\ UNCHANGED flashed
      /\ \/ UNCHANGED firmware_update
         \/ /\ Initialized /\ NothingMissing(m)
            /\ current.current_size + m.length <= Size[current.checksum]
            /\ firmware_update' = [firmware_update EXCEPT ![slot] = Stored(current, m)]
  BY DEF HandleFirmwareData, Incoming, Respond
<1>2. Image' = Image /\ Wanted' = Wanted /\ Reported' = Reported
  BY <1>1, ProgramStays DEF Image
<1>3. CASE UNCHANGED firmware_update
  BY <1>2, <1>3 DEF Held, Store!storeVars
<1>4. CASE /\ Initialized /\ NothingMissing(m)
           /\ current.current_size + m.length <= Size[current.checksum]
           /\ firmware_update' = [firmware_update EXCEPT ![slot] = Stored(current, m)]
  <2>1. m = queue[1] /\ 1 \in 1..Len(queue) /\ m \in Requests
    BY <1>1, TakeCarries
  <2>2. m.length \in Nat
    BY <1>1, <2>1 DEF Requests, InitFirmware, FirmwareData, UpdateStart
  <2>3. /\ slot \in Ids /\ current \in Uploads /\ current = firmware_update[slot]
        /\ m.offset = current.current_size
    BY <1>4, CurrentType DEF current, NothingMissing
  <2>4. /\ Held' = [Held EXCEPT ![slot] = Holds(Stored(current, m))]
        /\ Held[slot] = Holds(current)
    BY <1>4, <2>3, HeldUpdate
  <2>5. slot \in Resumable => m.file = current.checksum
    <3>1. WorksOn(m.file)
      BY <1>1, <2>1 DEF SlotInv, ChunksOfFile
    <3> QED
      BY <1>4, <3>1 DEF WorksOn, Resumable
  <2>6. PICK before, after : before = Holds(current) /\ after = Holds(Stored(current, m))
    OBVIOUS
  <2>7. /\ before # NoFile
        /\ \/ after = before
           \/ /\ before.file # NoFile
              /\ \E n \in before.bytes..Size[before.file] : after = [before EXCEPT !.bytes = n]
           \/ m.file # current.checksum /\ after = [file |-> NoFile, bytes |-> 0]
    BY <1>4, <2>2, <2>3, <2>6, ChunkChanges
  <2>8. Held' = [Held EXCEPT ![slot] = after] /\ Held[slot] = before
    BY <2>4, <2>6
  <2>9. after = before => Held' = Held
    BY <2>3, <2>8 DEF Held
  <2> QED
    BY <1>2, <2>3, <2>5, <2>7, <2>8, <2>9
       DEF Store!Next, Store!storeVars, Store!Grow, Store!Spoil, Store!Hold, Store!Mixed
<1> QED
  BY <1>1, <1>3, <1>4

\* What is flashed is a whole file; while a success is reported, the same one.
LEMMA FlashChanges ==
  ASSUME TypeOK, SafeInv, HandleUpdateStart
  PROVE  \/ UNCHANGED <<firmware_update, flashed>>
         \/ \E slot \in Ids :
              /\ Held[slot] # NoFile /\ Held[slot].file # NoFile
              /\ Held[slot].bytes = Size[Held[slot].file]
              /\ Reported => Held[slot].file = file
              /\ Image' = Held[slot].file
              /\ Held' = Held \/ Held' = [Held EXCEPT ![slot] = NoFile]
<1> DEFINE slot == firmware_update_current_id
<1>1. CASE UNCHANGED <<firmware_update, flashed>>
  BY <1>1
<1>2. CASE Initialized /\ ContentIs(current, current.checksum) /\ StartUpdate
  <2>1. slot \in Ids /\ current \in Uploads /\ current = firmware_update[slot]
    BY <1>2, CurrentType DEF current
  <2>2. /\ Held[slot] = Content(current.checksum, Size[current.checksum])
        /\ current.checksum \in Files
    BY <1>2, <2>1, HoldsComplete DEF Held
  <2>3. /\ Held[slot].file = current.checksum
        /\ Held[slot].bytes = Size[Held[slot].file]
        /\ Held[slot] # NoFile /\ Held[slot].file # NoFile
    BY <2>1, <2>2, ContentParts, HoldsUpload, NoFileAssumption DEF Held
  <2>4. Image' = Held[slot].file
    BY <1>2, <2>1, <2>3, NoImageAssumption DEF StartUpdate, Image
  <2>5. Held' = Held \/ Held' = [Held EXCEPT ![slot] = NoFile]
    BY <1>2, <2>1 DEF StartUpdate, Held, Holds, TypeOK, DeviceTypeOK
  <2>6. ASSUME Reported PROVE Held[slot].file = file
    <3>1. Established
      BY <2>6 DEF Reported, Established
    <3>2. current.checksum = file
      BY <1>2, <3>1 DEF SafeInv, SessionInv, Initialized, current
    <3> QED
      BY <2>3, <3>2
  <2> QED
    BY <2>1, <2>3, <2>4, <2>5, <2>6
<1> QED
  BY <1>1, <1>2 DEF HandleUpdateStart

\* The store flashes the slot, where the device does.
LEMMA FlashMaps ==
  ASSUME TypeOK, SafeInv, HandleUpdateStart, UNCHANGED clientVars
  PROVE  [Store!Next]_(Store!storeVars)
<1>1. Wanted' = Wanted /\ Reported' = Reported /\ (Reported => Wanted = file)
  BY ProgramStays DEF Wanted, Reported
<1>2. CASE UNCHANGED <<firmware_update, flashed>>
  BY <1>1, <1>2 DEF Held, Image, Store!storeVars
<1>3. CASE ~UNCHANGED <<firmware_update, flashed>>
  <2>1. PICK slot \in Ids :
          /\ Held[slot] # NoFile /\ Held[slot].file # NoFile
          /\ Held[slot].bytes = Size[Held[slot].file]
          /\ Reported => Held[slot].file = file
          /\ Image' = Held[slot].file
          /\ Held' = Held \/ Held' = [Held EXCEPT ![slot] = NoFile]
    BY <1>3, FlashChanges
  <2>2. Store!Flash(slot)
    BY <1>1, <2>1 DEF Store!Flash
  <2> QED
    BY <2>2 DEF Store!Next
<1> QED
  BY <1>2, <1>3

\* What others drop is dropped in the store.
LEMMA DropMaps ==
  ASSUME TypeOK, Environment
  PROVE  [Store!Next]_(Store!storeVars)
<1>1. /\ Wanted' = Wanted /\ Reported' = Reported /\ Image' = Image
  <2>1. UNCHANGED <<clientVars, flashed>>
    BY DEF Environment, SetDataDownloadInt, EmulateReboot, DeviceRestart
  <2> QED
    BY <2>1, ProgramStays DEF Image
<1>2. CASE UNCHANGED firmware_update
  BY <1>1, <1>2 DEF Held, Store!storeVars
<1>3. ASSUME NEW dropped \in SUBSET Ids,
             \A id \in Ids : firmware_update'[id] = IF id \in dropped THEN NoUpload
                                                    ELSE firmware_update[id]
      PROVE  Store!Next
  <2>1. Held' = [s \in Ids |-> IF s \in dropped THEN NoFile ELSE Held[s]]
    BY <1>3 DEF Held, Holds
  <2>2. Store!Drop(dropped)
    BY <1>1, <2>1 DEF Store!Drop
  <2> QED
    BY <2>2 DEF Store!Next
<1>4. ASSUME NEW id \in Ids, NEW tag, SetDataDownloadInt(id, tag)
      PROVE  Store!Next
  <2>1. {id} \in SUBSET Ids
    OBVIOUS
  <2>2. \A i \in Ids : firmware_update'[i] = IF i \in {id} THEN NoUpload ELSE firmware_update[i]
    BY <1>4 DEF SetDataDownloadInt, TypeOK, DeviceTypeOK
  <2> QED
    BY <1>3, <2>1, <2>2
<1>5. CASE DeviceRestart
  <2>1. \A i \in Ids : firmware_update'[i] = IF i \in Ids THEN NoUpload ELSE firmware_update[i]
    BY <1>5 DEF DeviceRestart
  <2> QED
    BY <1>3, <2>1
<1> QED
  BY <1>2, <1>4, <1>5 DEF Environment, EmulateReboot

\* For all constants: whatever is lost, repeated, late, refused, killed or
\* restarted, the two sides of a firmware update and the network between them
\* are the store of FirmwareStore.
THEOREM UploadImplementsStore == Spec => ImplementsStore
<1>1. Init => Store!Init
  BY DEF Init, ClientInit, DeviceInit, Held, Holds, Image, Wanted, Reported, Store!Init
<1>2. TypeOK /\ SafeInv /\ SlotInv /\ [Next]_vars => [Store!Next]_(Store!storeVars)
  <2> SUFFICES ASSUME TypeOK, SafeInv, SlotInv, [Next]_vars
               PROVE  [Store!Next]_(Store!storeVars)
    OBVIOUS
  <2>1. CASE \E f \in Files, id \in Ids, c \in ChunkSizes : Start(f, id, c)
    BY <2>1, StartMaps
  <2>2. CASE Client \/ StartFlash \/ Crash
    BY <2>2, ClientMaps
  <2>3. CASE Device
    <3>1. CASE Refuse
      <4>1. UNCHANGED <<deviceVars, clientVars>>
        BY <2>3, <3>1 DEF Device, Refuse
      <4> QED
        BY <4>1 DEF Held, Image, Wanted, Reported, Store!storeVars
    <3> QED
      BY <2>3, <3>1, InitMaps, DataMaps, FlashMaps DEF Device, HandleFirmwareUpdate
  <2>4. CASE Environment
    BY <2>4, DropMaps
  <2>5. CASE UNCHANGED vars
    BY <2>5 DEF vars, Held, Image, Wanted, Reported, Store!storeVars
  <2> QED
    BY <2>1, <2>2, <2>3, <2>4, <2>5 DEF Next
<1> QED
  BY <1>1, <1>2, TypeCorrect, SessionSafe, SlotInvariant, PTL
     DEF Spec, ImplementsStore, Store!Spec
=============================================================================
