--------------------------- MODULE FirmwareUpload ---------------------------
(***************************************************************************)
(* The client's side of a firmware update, composed with the device and    *)
(* the network: one run after the other of examples/gateway_scripts/       *)
(* upload.py (init, upload, flash), which may be killed at any point and   *)
(* started again with any file, over FirmwareMixin.update_firmware_init,   *)
(* upload_firmware and flash_firmware.                                     *)
(***************************************************************************)
EXTENDS FirmwareDevice

CONSTANTS
  ChunkSizes,    \* the chunk sizes upload.py is started with
  MAX_TRIES,     \* upload.py: tries for the init request
  max_retries,   \* upload_firmware
  FLASH_RETRIES, \* flash_firmware's max_retries
  NoFile         \* no upload.py is running

ASSUME ChunkSizesAssumption == ChunkSizes \subseteq Nat \ {0}
ASSUME RetriesAssumption ==
  MAX_TRIES \in Nat \ {0} /\ max_retries \in Nat /\ FLASH_RETRIES \in Nat \ {0}
ASSUME NoFileAssumption == NoFile \notin Files

VARIABLES
  phase,          \* what the running upload.py is doing
  file,           \* its -file
  firmware_id,    \* its -firmware-id
  attempt,        \* the attempt of the init or the flash request
  position,       \* firmware.tell()
  chunk,          \* upload_firmware's chunk
  repeat,         \* upload_firmware's repeat
  current_offset, \* upload_firmware's current_offset
  length          \* len(bin_chunk)

chunkVars == <<position, chunk, repeat, current_offset, length>>
clientVars == <<phase, file, firmware_id, attempt, chunkVars>>
vars == <<clientVars, deviceVars, channelVars>>

\* idle: no upload.py runs.  init, data, flash: a request is being waited for.
\* read: at the outer loop of upload_firmware.  uploaded: it returned True, or
\* was skipped.  flashed: flash_firmware returned.
Phases == {"idle", "init", "read", "data", "uploaded", "flash", "flashed"}

InitRequest(f, id) == [type |-> "firmware_init", file |-> f, id |-> id, live |-> TRUE]
DataRequest(f, o, n) ==
  [type |-> "firmware_data", file |-> f, offset |-> o, length |-> n, live |-> TRUE]
StartRequest == [type |-> "firmware_update_start", live |-> TRUE]

-----------------------------------------------------------------------------
(* The process *)

ClientInit ==
  /\ phase = "idle" /\ file = NoFile /\ firmware_id = NoId /\ attempt = 0
  /\ position = 0 /\ chunk = 0 /\ repeat = 0 /\ current_offset = 0 /\ length = 0

\* The process is over: whatever socket it had is closed.
End ==
  /\ phase' = "idle" /\ file' = NoFile /\ firmware_id' = NoId /\ attempt' = 0
  /\ position' = 0 /\ chunk' = 0 /\ repeat' = 0 /\ current_offset' = 0 /\ length' = 0
  /\ CloseSocket
  /\ UNCHANGED deviceVars

\* upload.py is started; its first request is the init.
Start(f, id, c) ==
  /\ phase = "idle"
  /\ phase' = "init" /\ file' = f /\ firmware_id' = id /\ attempt' = 1
  /\ position' = 0 /\ chunk' = c /\ repeat' = 0 /\ current_offset' = 0 /\ length' = 0
  /\ SendRequest(InitRequest(f, id))
  /\ UNCHANGED deviceVars

\* It ends after the upload (no -flash), after the flash, or is killed.
Exit == phase \in {"uploaded", "flashed"} /\ End
Crash == phase # "idle" /\ End

Answered(in) == phase = in /\ reply # NoReply
TimedOut(in) == phase = in /\ reply = NoReply

-----------------------------------------------------------------------------
(* firmware_init, through upload.py's retry *)

InitTimeout ==
  /\ TimedOut("init")
  /\ \/ /\ attempt < MAX_TRIES
        /\ attempt' = attempt + 1
        /\ SendRequest(InitRequest(file, firmware_id))
        /\ UNCHANGED <<phase, file, firmware_id, chunkVars, deviceVars>>
     \/ attempt = MAX_TRIES /\ End

\* A device that already holds all of the file is not sent it again.
InitAnswered ==
  /\ Answered("init")
  /\ \/ reply.status # "OK" /\ End
     \/ /\ reply.status = "OK"
        /\ phase' = IF reply.expected_offset = Size[file] THEN "uploaded" ELSE "read"
        /\ CloseSocket
        /\ UNCHANGED <<file, firmware_id, attempt, chunkVars, deviceVars>>

-----------------------------------------------------------------------------
(* upload_firmware *)

Smaller(m, n) == IF m < n THEN m ELSE n

\* The outer loop: read the next chunk and send it, ...
ReadChunk ==
  /\ phase = "read" /\ position < Size[file]
  /\ phase' = "data"
  /\ current_offset' = position
  /\ length' = Smaller(chunk, Size[file] - position)
  /\ position' = position + length'
  /\ SendRequest(DataRequest(file, current_offset', length'))
  /\ UNCHANGED <<file, firmware_id, attempt, chunk, repeat, deviceVars>>

\* ... or return True.
ReadAll ==
  /\ phase = "read" /\ position >= Size[file]
  /\ phase' = "uploaded"
  /\ UNCHANGED <<file, firmware_id, attempt, chunkVars, deviceVars, channelVars>>

\* Faulty: repeat is not counted up.
RepeatChunkUncounted ==
  /\ SendRequest(DataRequest(file, current_offset, length))
  /\ UNCHANGED <<phase, file, firmware_id, attempt, chunkVars, deviceVars>>

\* The inner loop sends the same chunk again, or gives up.
RepeatChunk ==
  \/ /\ repeat + 1 <= max_retries
     /\ repeat' = repeat + 1
     /\ SendRequest(DataRequest(file, current_offset, length))
     /\ UNCHANGED <<phase, file, firmware_id, attempt, position, chunk, current_offset,
                    length, deviceVars>>
  \/ repeat + 1 > max_retries /\ End

DataTimeout == TimedOut("data") /\ RepeatChunk

DataStored ==
  /\ Answered("data") /\ reply.status = "OK"
  /\ repeat' = 0
  /\ phase' = "read"
  /\ CloseSocket
  /\ UNCHANGED <<file, firmware_id, attempt, position, chunk, current_offset, length,
                 deviceVars>>

DataFailed ==
  /\ Answered("data")
  /\ reply.status \in {"NOT_INITIALIZED", "SIZE_TOO_BIG", "CHECKSUM_ERROR_IN_RECEIVED_DATA",
                       "DATA_OVERFLOW", "DATA_IS_MISSING"}
  /\ End

WrongOffset ==
  /\ Answered("data") /\ reply.status = "WRONG_OFFSET"
  /\ \/ /\ repeat + 1 <= max_retries
        /\ position' = reply.expected_offset
        /\ repeat' = repeat + 1
        /\ phase' = "read"
        /\ CloseSocket
        /\ UNCHANGED <<file, firmware_id, attempt, chunk, current_offset, length, deviceVars>>
     \/ repeat + 1 > max_retries /\ End

\* The next chunk is read with another size; the file is not sought back.
Rechunk(c) ==
  /\ chunk' = c
  /\ phase' = "read"
  /\ CloseSocket
  /\ UNCHANGED <<file, firmware_id, attempt, position, repeat, current_offset, length,
                 deviceVars>>

HalfOf(n) == (n + 1) \div 2                  \* math.ceil(n / 2)
OneAndAHalf(n) == (3 * n + 1) \div 2         \* math.ceil(n * 1.5)

ChunkTooBig ==
  /\ Answered("data") /\ reply.status = "CHUNK_SIZE_IS_TOO_BIG"
  /\ \/ chunk > 1 /\ Rechunk(HalfOf(chunk))
     \/ chunk <= 1 /\ End

ChunkTooSmall ==
  /\ Answered("data") /\ reply.status = "CHUNK_SIZE_IS_TOO_SMALL"
  /\ Rechunk(OneAndAHalf(chunk))

Blocked ==
  /\ Answered("data") /\ reply.status = "BLOCKED_BY_APPLICATION"
  /\ RepeatChunk

-----------------------------------------------------------------------------
(* flash_firmware *)

StartFlash ==
  /\ phase = "uploaded"
  /\ phase' = "flash" /\ attempt' = 1
  /\ SendRequest(StartRequest)
  /\ UNCHANGED <<file, firmware_id, chunkVars, deviceVars>>

RepeatFlash ==
  \/ /\ attempt < FLASH_RETRIES
     /\ attempt' = attempt + 1
     /\ SendRequest(StartRequest)
     /\ UNCHANGED <<phase, file, firmware_id, chunkVars, deviceVars>>
  \/ attempt = FLASH_RETRIES /\ End

FlashTimeout == TimedOut("flash") /\ RepeatFlash
FlashRefused == Answered("flash") /\ reply.status # "OK" /\ RepeatFlash

FlashAccepted ==
  /\ Answered("flash") /\ reply.status = "OK"
  /\ phase' = "flashed"
  /\ CloseSocket
  /\ UNCHANGED <<file, firmware_id, attempt, chunkVars, deviceVars>>

-----------------------------------------------------------------------------
(* The system *)

Init == ClientInit /\ DeviceInit /\ ChannelInit

Client ==
  \/ InitTimeout \/ InitAnswered
  \/ ReadChunk \/ ReadAll
  \/ DataTimeout \/ DataStored \/ DataFailed \/ WrongOffset
  \/ ChunkTooBig \/ ChunkTooSmall \/ Blocked
  \/ FlashTimeout \/ FlashRefused \/ FlashAccepted
  \/ Exit

Device == HandleFirmwareUpdate /\ UNCHANGED clientVars

\* Somebody else announces another file for a slot, restarts the device, or,
\* while nobody uploads, reboots the mower.
Environment ==
  /\ \/ \E id \in Ids, tag \in Tags : SetDataDownloadInt(id, tag)
     \/ phase = "idle" /\ EmulateReboot
     \/ DeviceRestart
  /\ UNCHANGED clientVars

Next ==
  \/ \E f \in Files, id \in Ids, c \in ChunkSizes : Start(f, id, c)
  \/ Client
  \/ StartFlash
  \/ Crash
  \/ Device
  \/ Environment

Spec == Init /\ [][Next]_vars

\* The client's code runs on; its timeouts elapse.  Nothing is assumed of the
\* network and of the device.
FairSpec == Spec /\ WF_vars(Client)

-----------------------------------------------------------------------------
(* Properties *)

TypeOK ==
  /\ phase \in Phases
  /\ file \in Files \cup {NoFile}
  /\ firmware_id \in Ids \cup {NoId}
  /\ phase # "idle" => file \in Files /\ firmware_id \in Ids
  /\ attempt \in Nat /\ position \in Nat /\ chunk \in Nat /\ repeat \in Nat
  /\ current_offset \in Nat /\ length \in Nat
  /\ queue \in Seq(Requests)
  /\ reply \in Reports \cup {NoReply}
  /\ DeviceTypeOK

\* When flash_firmware returned, what the device flashed is all of the file of
\* this upload.py and nothing else: not the file of an earlier run that was
\* killed, not a mix, not a part, whatever was lost, repeated or restarted.
FlashedOwnFile ==
  phase = "flashed" => flashed # NoImage /\ ContentIs(flashed, file)

\* When upload_firmware returned True, the slot holds all of the file, unless
\* the slot was dropped (or flashed) on the device since.
UploadedIsComplete ==
  phase = "uploaded" /\ firmware_update[firmware_id] # NoUpload
    => ContentIs(firmware_update[firmware_id], file)

\* Every run of upload.py comes to an end, whatever the device answers.
UploadEnds == phase # "idle" ~> phase = "idle"

\* What an application slot (id from 255) holds is always the beginning of the
\* file that was announced for it, so that firmware_init_hook may continue it:
\* no request of a killed upload.py ever writes another file's bytes into it.
ResumableHoldsPrefix ==
  \A id \in Ids :
    id >= 255 /\ firmware_update[id] # NoUpload
      => firmware_update[id].checksum \in firmware_update[id].received

-----------------------------------------------------------------------------
(* Why FlashedOwnFile holds: its inductive strengthening *)

\* m does not announce anything but the file of this upload.py.
OwnInit(m) == m.type = "firmware_init" => m.file = file /\ m.id = firmware_id

\* Only the request that was sent last is waited for, and only until it is
\* answered.
LiveRequest ==
  \A i \in 1..Len(queue) :
    queue[i].live =>
      /\ i = Len(queue) /\ reply = NoReply
      /\ \/ phase = "init" /\ queue[i].type = "firmware_init" /\ OwnInit(queue[i])
         \/ phase = "data" /\ queue[i].type = "firmware_data"
         \/ phase = "flash" /\ queue[i].type = "firmware_update_start"

\* The device has accepted this upload.py's init.
Established ==
  \/ phase \in {"read", "data", "uploaded", "flash", "flashed"}
  \/ phase = "init" /\ reply # NoReply /\ reply.status = "OK"

\* From then on every older init is gone, and the device works on this
\* upload.py's slot and file, if on any.
SessionInv ==
  Established =>
    /\ \A i \in 1..Len(queue) : OwnInit(queue[i])
    /\ firmware_update_current_id \in {firmware_id, NoId}
    /\ firmware_update[firmware_id] # NoUpload => firmware_update[firmware_id].checksum = file

\* So what it flashed, if it answered OK, is this upload.py's file.
FlashInv ==
  (phase = "flashed" \/ (phase = "flash" /\ reply # NoReply /\ reply.status = "OK"))
    => flashed # NoImage /\ flashed.checksum = file /\ ContentIs(flashed, file)

SafeInv == LiveRequest /\ SessionInv /\ FlashInv

-----------------------------------------------------------------------------
(* Why ResumableHoldsPrefix holds *)

\* What the device works on, if it can be resumed, is f.
WorksOn(f) ==
  Initialized /\ firmware_update_current_id >= 255 => current.checksum = f

\* A chunk was sent when the device had accepted the init of its file, so that
\* all inits that the device takes until the chunk arrives are of that file.
ChunksOfFile ==
  \A i \in 1..Len(queue) :
    queue[i].type = "firmware_data" =>
      /\ WorksOn(queue[i].file)
      /\ \A j \in 1..i : queue[j].type = "firmware_init" => queue[j].file = queue[i].file

-----------------------------------------------------------------------------
(* Why UploadedIsComplete holds when no request is delivered twice and no    *)
(* chunk is refused for its size                                             *)

\* An answer is to the last request, so that none is left behind it.
NoneLeft == reply # NoReply \/ phase \in {"read", "uploaded"} => queue = <<>>

\* While a chunk is sent, only copies of it are under way.
OneChunk ==
  phase = "data" =>
    /\ position = current_offset + length
    /\ \A i \in 1..Len(queue) :
         /\ queue[i].type = "firmware_data"
         /\ queue[i].file = file /\ queue[i].offset = current_offset /\ queue[i].length = length

\* The device keeps to the announced size, ...
NoOverflow ==
  \A id \in Ids :
    firmware_update[id] # NoUpload =>
      firmware_update[id].current_size <= Size[firmware_update[id].checksum]

\* ... and what it holds of this upload.py's upload is the beginning of its file.
HoldsPrefix ==
  Established /\ phase \notin {"flash", "flashed"} /\ firmware_update[firmware_id] # NoUpload =>
    file \in firmware_update[firmware_id].received

\* The client's position is the device's when the device has told it.
InStep ==
  /\ phase = "init" => position = 0
  /\ Established /\ firmware_update[firmware_id] # NoUpload =>
       LET size == firmware_update[firmware_id].current_size
       IN  /\ phase = "init" => reply.expected_offset = size
           /\ phase = "read" => position \in {0, size}
           /\ phase = "data" /\ reply # NoReply =>
                /\ reply.status = "OK" => position = size
                /\ reply.status = "WRONG_OFFSET" => reply.expected_offset = size

SizeAccepted ==
  reply # NoReply => reply.status \notin {"CHUNK_SIZE_IS_TOO_BIG", "CHUNK_SIZE_IS_TOO_SMALL"}

UploadInv ==
  /\ NoneLeft /\ OneChunk /\ NoOverflow /\ HoldsPrefix /\ InStep /\ SizeAccepted
  /\ UploadedIsComplete

-----------------------------------------------------------------------------
(* The store of files that all of this implements *)

Content(f, n) == [file |-> f, bytes |-> n]

ASSUME NoContentAssumption == NoFile \notin [file: Files \cup {NoFile}, bytes: Nat]

\* What the upload of a slot is good for.
Holds(upload) ==
  CASE upload = NoUpload -> NoFile
    [] upload # NoUpload /\ upload.checksum \in upload.received ->
         Content(upload.checksum, upload.current_size)
    [] upload # NoUpload /\ upload.checksum \notin upload.received -> Content(NoFile, 0)

Held == [id \in Ids |-> Holds(firmware_update[id])]
Resumable == {id \in Ids : Mower /\ id >= 255}
Image == IF flashed = NoImage THEN NoFile ELSE flashed.checksum
Wanted == IF phase = "idle" THEN NoFile ELSE file
Reported == phase = "flashed"

Store == INSTANCE FirmwareStore WITH
  Slots <- Ids, Nothing <- NoFile,
  held <- Held, image <- Image, wanted <- Wanted, reported <- Reported

\* Requests, answers and runs of upload.py come to no more than the store: what
\* a resumable slot holds of its file only grows until all of it is dropped,
\* only a whole file is flashed, and flash_firmware returns only when it was the
\* caller's, which no late request then replaces.
ImplementsStore == Store!Spec
=============================================================================
