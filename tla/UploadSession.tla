---------------------------- MODULE UploadSession ----------------------------
(***************************************************************************)
(* A whole run of upload.py: before the init it announces, for a slot from *)
(* 257 on, which file will come (data_download_int), and goes on when the  *)
(* device confirms it.  The device serves its value port and its firmware  *)
(* port in two listener threads: requests of the same run, and late ones   *)
(* of runs that were killed, overtake each other on their way, and the     *)
(* value thread drops an upload between two steps of the firmware thread.  *)
(*                                                                         *)
(* Both threads read and write the dictionary firmware_update only one     *)
(* item at a time.  What the value thread does for one message is a single *)
(* step: the firmware thread sees no more of it than the dropped item.     *)
(***************************************************************************)
EXTENDS FirmwareUpload

CONSTANTS
  Sessions,           \* the -file, -firmware-id and -content-tag that upload.py is run with
  MaxValuesInFlight,  \* bound: requests to the value port that are under way at once
  NoSession,          \* no upload.py is running
  NoValue,            \* data_download_int was not set since the device was started
  Waiting             \* the firmware thread waits for a message

ASSUME SessionsAssumption ==
  Sessions \subseteq [file : Files, id : Ids, tag : Tags] /\ NoSession \notin Sessions

VARIABLES
  session,            \* what upload.py was run with
  preparing,          \* what it does before the init; "no" if it does not run, or after it
  announcements,      \* how often it set data_download_int
  tries,              \* how often it asked for it since
  values, value_reply,
  data_download_int,  \* the device's cache of the value
  thread              \* where the firmware thread is, and the upload that it holds

ValuePort ==
  INSTANCE RequestChannel
    WITH queue <- values, reply <- value_reply, MaxInFlight <- MaxValuesInFlight

prepareVars == <<session, preparing, announcements, tries>>
valueVars == <<values, value_reply>>
sessionVars == <<prepareVars, valueVars, data_download_int, thread, vars>>

\* DataDownloadInt(args.firmware_id, content_tag)
Announcement == <<session.id, session.tag>>

SessionInit ==
  /\ Init
  /\ session = NoSession /\ preparing = "no" /\ announcements = 0 /\ tries = 0
  /\ ValuePort!ChannelInit /\ data_download_int = NoValue /\ thread = Waiting

-----------------------------------------------------------------------------
(* upload.py before the init *)

EndPreparation ==
  /\ preparing' = "no" /\ announcements' = 0 /\ tries' = 0
  /\ ValuePort!CloseSocket

\* The process is over.
EndSession == EndPreparation /\ session' = NoSession /\ UNCHANGED vars

\* The device was woken up and answers a ping, where asked for: upload.py would
\* have ended otherwise.  The init is next, unless there is a file to announce.
Prepare(s) ==
  /\ session = NoSession
  /\ session' = s
  /\ preparing' = IF s.id >= 257 THEN "announce" ELSE "skip"
  /\ UNCHANGED <<announcements, tries, valueVars, vars>>

SetDataAgain ==
  /\ ValuePort!SendRequest([type |-> "set", value |-> Announcement, live |-> FALSE])
  /\ preparing' = "set" /\ announcements' = announcements + 1 /\ tries' = 0
  /\ UNCHANGED <<session, vars>>

SetData == preparing = "announce" /\ SetDataAgain

Unanswered == preparing = "confirm" /\ value_reply = NoReply

GetData ==
  /\ preparing = "set" \/ (Unanswered /\ tries < MAX_TRIES)
  /\ ValuePort!SendRequest([type |-> "get", live |-> TRUE])
  /\ preparing' = "confirm" /\ tries' = tries + 1
  /\ UNCHANGED <<session, announcements, vars>>

Answer == preparing = "confirm" /\ value_reply # NoReply

\* Faulty: any answer will do.
AnyAnswer == Answer

Confirms == Answer /\ value_reply = Announcement

Differs == Answer /\ value_reply # Announcement

\* The announcement is confirmed, or there is none to make: the init is sent.
Begin ==
  /\ preparing = "skip" \/ Confirms
  /\ EndPreparation
  /\ \E c \in ChunkSizes : Start(session.file, session.id, c)
  /\ UNCHANGED session

\* Faulty: the attempts are not counted.
RetryForever == Differs /\ SetDataAgain

Retry == Differs /\ announcements < MAX_TRIES /\ SetDataAgain

GiveUp ==
  /\ \/ Unanswered /\ tries = MAX_TRIES
     \/ Differs /\ announcements = MAX_TRIES
  /\ EndSession

Preparation == SetData \/ GetData \/ Begin \/ Retry \/ GiveUp

-----------------------------------------------------------------------------
(* The threads of the device *)

\* handle_value and the mower's set_value_hook: another file drops the upload.
HandleSetValue ==
  /\ ValuePort!Incoming("set") /\ ValuePort!Ignore
  /\ data_download_int' = Head(values).value
  /\ LET slot_number == Head(values).value[1]
         tag == Head(values).value[2]
     IN  \/ SetDataDownloadInt(slot_number, tag)
         \/ content_tag[slot_number] = tag /\ UNCHANGED <<deviceVars, channelVars>>
  /\ UNCHANGED <<prepareVars, thread, clientVars>>

HandleGetValue ==
  /\ ValuePort!Incoming("get") /\ ValuePort!Respond(data_download_int)
  /\ UNCHANGED <<prepareVars, data_download_int, thread, vars>>

ThreadStep == UNCHANGED <<prepareVars, valueVars, data_download_int, clientVars>>

At(place) == thread # Waiting /\ thread.at = place

\* firmware_init: the earlier upload is copied, ...
CopyPrevious ==
  /\ thread = Waiting /\ Incoming("firmware_init")
  /\ firmware_update_current_id' = Head(queue).id
  /\ thread' = [at |-> "copied", held |-> firmware_update[Head(queue).id]]
  /\ UNCHANGED <<firmware_update, content_tag, flashed, channelVars>>
  /\ ThreadStep

\* ... the slot gets a new one, ...
StoreFresh ==
  /\ At("copied")
  /\ firmware_update' = [firmware_update EXCEPT ![Head(queue).id] = FreshUpload(Head(queue).file)]
  /\ thread' = [thread EXCEPT !.at = "stored"]
  /\ UNCHANGED <<firmware_update_current_id, content_tag, flashed, channelVars>>
  /\ ThreadStep

\* Faulty: an upload that the value thread dropped comes back.
KeepDropped(id, upload) == [firmware_update EXCEPT ![id] = upload]

\* An upload that the value thread dropped is changed, but in no slot any more.
Keep(id, upload) ==
  IF firmware_update[id] = NoUpload THEN firmware_update
  ELSE [firmware_update EXCEPT ![id] = upload]

\* ... which the hook, that may sleep, makes the earlier one where it resumes.
AnswerInit ==
  /\ At("stored")
  /\ LET m == Head(queue)
         state == IF Resumes(m, thread.held) THEN thread.held ELSE FreshUpload(m.file)
     IN  firmware_update' = Keep(m.id, state) /\ Respond(Report("OK", state.current_size))
  /\ thread' = Waiting
  /\ UNCHANGED <<firmware_update_current_id, content_tag, flashed>>
  /\ ThreadStep

\* firmware_data: what is not stored is answered at once; ...
RefuseData ==
  /\ thread = Waiting /\ HandleFirmwareData /\ firmware_update' = firmware_update
  /\ UNCHANGED thread /\ ThreadStep

Fits(m) ==
  Initialized /\ NothingMissing(m) /\ current.current_size + m.length <= Size[current.checksum]

\* ... or the upload is looked up, ...
LookUp ==
  /\ thread = Waiting /\ Incoming("firmware_data") /\ Fits(Head(queue))
  /\ thread' = [at |-> "looked up", held |-> current]
  /\ UNCHANGED <<deviceVars, channelVars>>
  /\ ThreadStep

\* ... and the chunk is appended to it.
AnswerData ==
  /\ At("looked up")
  /\ LET upload == Stored(thread.held, Head(queue))
     IN  /\ firmware_update' = Keep(firmware_update_current_id, upload)
         /\ Respond(Report("OK", upload.current_size))
  /\ thread' = Waiting
  /\ UNCHANGED <<firmware_update_current_id, content_tag, flashed>>
  /\ ThreadStep

\* firmware_update_start deletes the item that it looked up: dropped before or
\* after, it is gone.
FlashStart == thread = Waiting /\ HandleUpdateStart /\ UNCHANGED thread /\ ThreadStep

FirmwareThread ==
  CopyPrevious \/ StoreFresh \/ AnswerInit \/ RefuseData \/ LookUp \/ AnswerData \/ FlashStart

\* All that the device holds is lost: a restart while a message is handled is
\* one after an answer that was lost.
Restart ==
  /\ thread = Waiting /\ DeviceRestart /\ data_download_int' = NoValue
  /\ UNCHANGED <<prepareVars, valueVars, thread, clientVars>>

-----------------------------------------------------------------------------
(* upload.py from the init on is FirmwareUpload's. *)

Upload ==
  /\ session # NoSession
  /\ Client \/ StartFlash \/ Crash
  /\ session' = IF phase' = "idle" THEN NoSession ELSE session
  /\ UNCHANGED <<preparing, announcements, tries, valueVars, data_download_int, thread>>

Killed == preparing # "no" /\ EndSession

SessionNext ==
  \/ /\ \/ \E s \in Sessions : Prepare(s)
        \/ Preparation
        \/ Killed
     /\ UNCHANGED <<data_download_int, thread>>
  \/ Upload
  \/ HandleSetValue \/ HandleGetValue
  \/ FirmwareThread
  \/ Restart

SessionSpec == SessionInit /\ [][SessionNext]_sessionVars

-----------------------------------------------------------------------------
Threads == [at : {"copied", "stored", "looked up"}, held : Uploads \cup {NoUpload}]

ASSUME WaitingAssumption == Waiting \notin Threads

\* The type invariant: FirmwareUpload's, and that upload.py is preparing or
\* uploading exactly while it runs.
SessionTypeOK ==
  /\ TypeOK
  /\ session \in Sessions \cup {NoSession}
  /\ preparing \in {"no", "announce", "skip", "set", "confirm"}
  /\ announcements \in 0..MAX_TRIES /\ tries \in 0..MAX_TRIES
  /\ (session # NoSession) <=> (preparing # "no" \/ phase # "idle")
  /\ preparing # "no" => phase = "idle"
  /\ phase # "idle" => file = session.file /\ firmware_id = session.id
  /\ data_download_int \in (Ids \X Tags) \cup {NoValue}
  /\ thread \in Threads \cup {Waiting}

\* What is uploaded to a slot from 257 on is known to the device under the
\* content tag of this upload.py (or under none, after a restart), and no other
\* announcement for the slot is on its way: whatever earlier runs left behind,
\* and although the two ports are not in order.
TaggedAsUploaded ==
  phase # "idle" /\ firmware_id >= 257 =>
    /\ content_tag[firmware_id] \in {session.tag, NoTag}
    /\ \A i \in DOMAIN values :
         values[i].type = "set" /\ values[i].value[1] = firmware_id => values[i].value = Announcement

-----------------------------------------------------------------------------
(* Why SessionTypeOK and TaggedAsUploaded hold *)

ValueRequests ==
  [type : {"set"}, value : Ids \X Tags, live : BOOLEAN] \cup [type : {"get"}, live : BOOLEAN]

\* Only a slot from 257 on has an announcement, and its attempts are counted.
PrepareInv ==
  /\ preparing = "skip" => session.id < 257
  /\ preparing \notin {"set", "confirm"} => announcements = 0
  /\ preparing # "confirm" => tries = 0

\* The firmware thread has the message at the head, and an upload to append to.
ThreadInv ==
  /\ At("copied") \/ At("stored") => Incoming("firmware_init")
  /\ At("looked up") =>
       /\ Incoming("firmware_data")
       /\ firmware_update_current_id \in Ids /\ thread.held # NoUpload

\* upload.py waits for the answer to nothing but the last get.
LastGet ==
  \A i \in 1..Len(values) :
    values[i].live =>
      /\ i = Len(values) /\ values[i].type = "get"
      /\ preparing = "confirm" /\ value_reply = NoReply

NothingAnnounced == \A i \in 1..Len(values) : values[i].type # "set"

Tagged(id, tag) == content_tag[id] \in {tag, NoTag}

\* The device answers the get when every earlier announcement has arrived, so
\* that a slot that is known under the right tag stays so.
TagInv ==
  /\ \A id \in Ids, tag \in Tags : data_download_int = <<id, tag>> => Tagged(id, tag)
  /\ value_reply # NoReply =>
       /\ preparing = "confirm" /\ NothingAnnounced
       /\ value_reply = Announcement => Tagged(session.id, session.tag)
  /\ phase # "idle" /\ firmware_id >= 257 =>
       NothingAnnounced /\ Tagged(firmware_id, session.tag)

AnnouncementInv ==
  SessionTypeOK /\ values \in Seq(ValueRequests) /\ PrepareInv /\ ThreadInv /\ LastGet /\ TagInv

-----------------------------------------------------------------------------
(* Why the slots of both threads hold what they should *)

\* The two parts of ChunksOfFile.
InitsOfFile ==
  \A i \in 1..Len(queue) :
    queue[i].type = "firmware_data" =>
      \A j \in 1..i : queue[j].type = "firmware_init" => queue[j].file = queue[i].file

WorkOfFile ==
  \A i \in 1..Len(queue) : queue[i].type = "firmware_data" => WorksOn(queue[i].file)

\* What the firmware thread read is still so when it writes, or the value thread
\* has dropped the slot in between.
HeldInv ==
  /\ At("copied") \/ At("stored") =>
       /\ firmware_update_current_id = Head(queue).id
       /\ thread.held # NoUpload =>
            /\ thread.held.current_size <= Size[thread.held.checksum]
            /\ Head(queue).id >= 255 => thread.held.checksum \in thread.held.received
  /\ At("stored") => current \in {NoUpload, FreshUpload(Head(queue).file)}
  /\ At("copied") \/ At("looked up") => current \in {NoUpload, thread.held}
  /\ At("looked up") =>
       /\ Head(queue).offset = thread.held.current_size
       /\ thread.held.current_size + Head(queue).length <= Size[thread.held.checksum]

\* Between the copy and the fresh upload the slot is not yet of the file that
\* was announced.
ThreadSlotInv ==
  /\ InitsOfFile /\ (At("copied") \/ WorkOfFile)
  /\ ResumableHoldsPrefix /\ NoOverflow /\ HeldInv

-----------------------------------------------------------------------------
(* The store of files that the two threads implement *)

\* From the copy of the earlier upload on, unless a fresh one is dropped that
\* stands for it, the thread is going to continue it.
Resuming ==
  /\ At("copied") \/ (At("stored") /\ firmware_update[Head(queue).id] # NoUpload)
  /\ Resumes(Head(queue), thread.held)

Kept(id) == IF Resuming /\ id = Head(queue).id THEN thread.held ELSE firmware_update[id]

SessionHeld == [id \in Ids |-> Holds(Kept(id))]
SessionWanted == IF session = NoSession THEN NoFile ELSE session.file

SessionStore == INSTANCE FirmwareStore WITH
  Slots <- Ids, Nothing <- NoFile,
  held <- SessionHeld, image <- Image, wanted <- SessionWanted, reported <- Reported

\* The store again, for upload.py from its preparation on and for handlers that
\* interleave: an upload that the value thread drops while it is being resumed
\* is dropped afterwards or not at all, never in part.
SessionImplementsStore == SessionStore!Spec
=============================================================================
