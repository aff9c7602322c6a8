--------------------------- MODULE FirmwareDevice ---------------------------
(***************************************************************************)
(* The device's side of a firmware update:                                 *)
(* DeviceEmulation.handle_firmware_update, with the hooks of the           *)
(* MowerEmulation of examples/mock_rm_and_mower when Mower is TRUE.        *)
(*                                                                         *)
(* A file stands for its bytes.  Two files differ in every chunk and have  *)
(* different checksums, so the CRC of what was received is the checksum    *)
(* of f exactly when all bytes of f, and only these, were received.        *)
(***************************************************************************)
EXTENDS RequestChannel

CONSTANTS
  Files,         \* the firmware and data files that clients upload
  Size,          \* [Files -> Nat], their sizes in bytes
  Ids,           \* the firmware ids (slots) in use
  Tags,          \* the content tags of data_download_int
  Mower,         \* TRUE: MowerEmulation; FALSE: DeviceEmulation without hooks
  Refusals,      \* statuses a device may answer with instead of handling a request
  NoId,          \* None, in firmware_update_current_id
  NoUpload,      \* a firmware id that is not in the dictionary firmware_update
  NoTag,         \* a slot that is not in the dictionary content_tag
  NoImage        \* the device never flashed anything

ASSUME SizeAssumption == Size \in [Files -> Nat]
ASSUME IdsAssumption == Ids \subseteq Nat /\ NoId \notin Ids
ASSUME MowerAssumption == Mower \in BOOLEAN
ASSUME RefusalsAssumption ==
  Refusals \subseteq {"SIZE_TOO_BIG", "CHUNK_SIZE_IS_TOO_BIG", "CHUNK_SIZE_IS_TOO_SMALL",
                      "DATA_IS_MISSING", "BLOCKED_BY_APPLICATION"}

VARIABLES
  firmware_update_current_id,
  firmware_update,
  content_tag,
  flashed        \* history: the upload that was flashed last

deviceVars == <<firmware_update_current_id, firmware_update, content_tag, flashed>>

-----------------------------------------------------------------------------
(* Messages and state *)

Status == {"OK", "NOT_INITIALIZED", "SIZE_TOO_BIG", "CHECKSUM_ERROR_IN_RECEIVED_DATA",
           "DATA_OVERFLOW", "WRONG_OFFSET", "CHUNK_SIZE_IS_TOO_BIG", "DATA_IS_MISSING",
           "CHUNK_SIZE_IS_TOO_SMALL", "BLOCKED_BY_APPLICATION"}

Reports == [status: Status, expected_offset: Nat]
Report(status, expected_offset) == [status |-> status, expected_offset |-> expected_offset]

InitFirmware == [type: {"firmware_init"}, file: Files, id: Ids, live: BOOLEAN]
FirmwareData == [type: {"firmware_data"}, file: Files, offset: Nat, length: Nat, live: BOOLEAN]
UpdateStart == [type: {"firmware_update_start"}, live: BOOLEAN]
Requests == InitFirmware \cup FirmwareData \cup UpdateStart

\* checksum names the file that was announced, and with it the size;
\* received holds the files that begin with the bytes behind running_crc16.
Uploads == [checksum: Files, current_size: Nat, received: SUBSET Files]

ASSUME NoUploadAssumption == NoUpload \notin Uploads /\ NoReply \notin Reports
ASSUME NoImageAssumption == NoImage \notin Uploads

FreshUpload(f) == [checksum |-> f, current_size |-> 0, received |-> Files]

\* running_crc16 is the checksum of f.
ContentIs(upload, f) == f \in upload.received /\ upload.current_size = Size[f]

Complete(upload) == upload.current_size = Size[upload.checksum]

current == firmware_update[firmware_update_current_id]

\* `self.firmware_update_current_id in self.firmware_update'
Initialized ==
  firmware_update_current_id # NoId /\ current # NoUpload

DeviceInit ==
  /\ firmware_update_current_id = NoId
  /\ firmware_update = [id \in Ids |-> NoUpload]
  /\ content_tag = [id \in Ids |-> NoTag]
  /\ flashed = NoImage

DeviceTypeOK ==
  /\ firmware_update_current_id \in Ids \cup {NoId}
  /\ firmware_update \in [Ids -> Uploads \cup {NoUpload}]
  /\ content_tag \in [Ids -> Tags \cup {NoTag}]
  /\ flashed \in Uploads \cup {NoImage}

-----------------------------------------------------------------------------
(* handle_firmware_update *)

\* Faulty: the slot's earlier upload is continued, whatever file it was.
ResumesAnyFile(m, previous_state) ==
  /\ Mower /\ m.id >= 255
  /\ previous_state # NoUpload

\* firmware_init_hook: an upload of the same file to a slot of the application
\* (ids from 255) is continued where it stopped.
Resumes(m, previous_state) ==
  /\ Mower /\ m.id >= 255
  /\ previous_state # NoUpload
  /\ previous_state.checksum = m.file

HandleFirmwareInit ==
  /\ Incoming("firmware_init")
  /\ LET m == Head(queue)
         previous_state == firmware_update[m.id]
         state == IF Resumes(m, previous_state) THEN previous_state ELSE FreshUpload(m.file)
     IN /\ firmware_update_current_id' = m.id
        /\ firmware_update' = [firmware_update EXCEPT ![m.id] = state]
        /\ Respond(Report("OK", state.current_size))
  /\ UNCHANGED <<content_tag, flashed>>

\* The upload once the chunk of m was appended to it.
Stored(upload, m) ==
  [checksum |-> upload.checksum,
   current_size |-> upload.current_size + m.length,
   received |-> {f \in upload.received : f = m.file /\ m.offset = upload.current_size}]

\* Faulty: a later chunk is taken as well.
NothingMissingOrLater(m) == m.offset >= current.current_size

NothingMissing(m) == m.offset = current.current_size

HandleFirmwareData ==
  /\ Incoming("firmware_data")
  /\ LET m == Head(queue) IN
     \/ /\ ~Initialized
        /\ Respond(Report("NOT_INITIALIZED", 0))
        /\ UNCHANGED firmware_update
     \/ /\ Initialized /\ ~NothingMissing(m)
        /\ Respond(Report("WRONG_OFFSET", current.current_size))
        /\ UNCHANGED firmware_update
     \/ /\ Initialized /\ NothingMissing(m)
        /\ current.current_size + m.length > Size[current.checksum]
        /\ Respond(Report("DATA_OVERFLOW", current.current_size))
        /\ UNCHANGED firmware_update
     \/ /\ Initialized /\ NothingMissing(m)
        /\ current.current_size + m.length <= Size[current.checksum]
        /\ firmware_update' =
             [firmware_update EXCEPT ![firmware_update_current_id] = Stored(current, m)]
        /\ Respond(Report("OK", current.current_size + m.length))
  /\ UNCHANGED <<firmware_update_current_id, content_tag, flashed>>

\* External: a device answers a request with a status that the client handles
\* but the emulation never sends, and leaves everything as it is.
Refuse ==
  /\ queue # <<>>
  /\ \E status \in Refusals :
       Respond(Report(status, IF Initialized THEN current.current_size ELSE 0))
  /\ UNCHANGED deviceVars

\* Faulty: the slot is reset before its image is taken.
ResetAndStartUpdate ==
  /\ firmware_update' = [firmware_update EXCEPT ![firmware_update_current_id] = NoUpload]
  /\ flashed' = firmware_update'[firmware_update_current_id]

\* The upload is flashed; the mower's firmware_update_start_hook resets the slot.
StartUpdate ==
  /\ flashed' = current
  /\ firmware_update' = [firmware_update EXCEPT ![firmware_update_current_id] =
                           IF Mower THEN NoUpload ELSE @]

\* No answer while the upload is incomplete, nor when the slot is empty (the
\* KeyError ends in the service listener's log).
HandleUpdateStart ==
  /\ Incoming("firmware_update_start")
  /\ \/ /\ ~(Initialized /\ Complete(current))
        /\ Ignore
        /\ UNCHANGED <<firmware_update, flashed>>
     \/ /\ Initialized /\ Complete(current) /\ ~ContentIs(current, current.checksum)
        /\ Respond(Report("CHECKSUM_ERROR_IN_RECEIVED_DATA", current.current_size))
        /\ UNCHANGED <<firmware_update, flashed>>
     \/ /\ Initialized /\ Complete(current) /\ ContentIs(current, current.checksum)
        /\ StartUpdate
        /\ Respond(Report("OK", current.current_size))
  /\ UNCHANGED <<firmware_update_current_id, content_tag>>

HandleFirmwareUpdate ==
  \/ HandleFirmwareInit
  \/ HandleFirmwareData
  \/ Refuse
  \/ HandleUpdateStart

-----------------------------------------------------------------------------
(* set_value_hook of the mower, and the process itself *)

\* data_download_int announces another file for a slot: its upload is dropped.
SetDataDownloadInt(slot_number, tag) ==
  /\ Mower /\ content_tag[slot_number] # tag
  /\ content_tag' = [content_tag EXCEPT ![slot_number] = tag]
  /\ firmware_update' = [firmware_update EXCEPT ![slot_number] = NoUpload]
  /\ UNCHANGED <<firmware_update_current_id, flashed, channelVars>>

\* command 31
EmulateReboot ==
  /\ Mower /\ 1 \in Ids /\ firmware_update[1] # NoUpload
  /\ firmware_update_current_id' = 1
  /\ UNCHANGED <<firmware_update, content_tag, flashed, channelVars>>

\* The process of the device ends and is started again (__init__).
DeviceRestart ==
  /\ firmware_update_current_id' = NoId
  /\ firmware_update' = [id \in Ids |-> NoUpload]
  /\ content_tag' = [id \in Ids |-> NoTag]
  /\ UNCHANGED <<flashed, channelVars>>
=============================================================================
