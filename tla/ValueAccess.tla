----------------------------- MODULE ValueAccess -----------------------------
(***************************************************************************)
(* A program that sets and gets one value of a device: with the property   *)
(* that ValueProperties makes from the value's description, and packing    *)
(* and unpacking the structures of a mower; or, like upload.py with        *)
(* data_download_int, setting it and getting it until it is what was set.  *)
(* The device is a DeviceEmulation, which keeps the value in its cache.    *)
(* Instead of a value it may be one of the device's descriptions, or its   *)
(* time zone, that the program gets in the same way from another service.  *)
(***************************************************************************)
EXTENDS RequestChannel, MessageElements

CONSTANTS
  Descriptions,   \* of the value; .mode: "R", "RW" or "W"; .kind: "number", a structure of a mower, or "download"
  Initially(_),   \* the value at first, packed, and what it means
  Inputs(_),      \* what the program may set the value to
  MAX_TRIES

INSTANCE MowerCodec

ASSUME StepAssumption ==
  \A d \in Descriptions : d.kind = "number" /\ d.step # None => Round(d.step) > 0

\* A limit is a number or is not there.
ASSUME LimitsAssumption ==
  \A d \in Descriptions : d.kind = "number" => {d.min, d.max, d.step} \subseteq Int \cup {None}

ASSUME TriesAssumption == MAX_TRIES \in Nat \ {0}

MAX_WORD == 65535

Byte == 0..255

\* The fields of the named tuples, as struct.pack takes them; a start has an
\* hour, a minute and a second, and a duration is in seconds.
Downloads == [slot_number : 0..MAX_WORD, content_tag : [1..4 -> Byte]]
Points ==
  [loop_wire : Byte, distance : 0..MAX_WORD, proportion : Byte, enabled : BOOLEAN, corridor_cut : BOOLEAN \cup {None}]
Durations == 0..(60 * MAX_WORD + 59)
Tasks == [id : Byte, weekdays : SUBSET (1..7), start : (0..23) \X (0..59) \X (0..59), duration : Durations,
          a_id : Byte]
Dates ==
  {d \in [year : 1..9999, month : 1..12, day : 1..31, hour : 0..23, minute : 0..59, second : 0..59] :
     IsDate(d.year, d.month, d.day)}
Shortened == [id : Byte, duration : Durations]
States == [id : Byte, state : DOMAIN ScheduleStateEnum, update : BOOLEAN]

SettingValues(i) ==
  CASE i = 1 -> 0..MAX_WORD
    [] i = 2 -> Byte
    [] i = 3 -> DOMAIN SensorControl
    [] i = 5 -> DOMAIN SecurityLevel
    [] OTHER -> BOOLEAN

\* What may be set to a value of that kind.
Settable(kind, x) ==
  CASE kind = "number" -> x = NaN \/ x \in Int
    [] kind = "points" -> x \in Seq(Points)
    [] kind = "schedule" -> x \in Seq(Tasks)
    [] kind = "settings" -> x = [i \in 1..8 |-> x[i]] /\ \A i \in 1..8 : x[i] \in SettingValues(i) \cup {None}
    [] kind = "date" -> x \in Dates
    [] kind = "skip" -> x \in Seq([id : Byte])
    [] kind = "shorten" -> x \in Seq(Shortened)
    [] kind = "lona_control" -> x \subseteq {Flags[i] : i \in 1..5}
    [] kind = "download" -> x \in Downloads
    [] kind = "schedule_state" -> x \in Seq(States)
    [] OTHER -> TRUE

ASSUME InputAssumption == \A d \in Descriptions : \A x \in Inputs(d) : Settable(d.kind, x)

\* There is room for a data_download_int of 8 bytes; the device has been told
\* what file comes, or has not.
ASSUME DownloadAssumption ==
  \A d \in Descriptions :
    d.kind = "download" =>
      /\ d.max_length # None => d.max_length \in Nat /\ d.max_length >= 8
      /\ \A v \in Initially(d) : v.value = None \/ (v.meant \in Downloads /\ v.value = PackDownload(v.meant))

\* None is not a buffer and not a number.
ASSUME NoneAssumption == None \notin Seq(Nat) /\ None \notin Int

VARIABLES
  description,
  value,     \* the device's cache
  meant,     \* what the program that set it meant by it; history
  at,        \* what the program waits for: "idle", "get", "set", "confirm", "confirmed"
  setting,   \* what it sets and confirms
  attempt,   \* how often it set it
  tries      \* how often it asked for it since

programVars == <<at, setting, attempt, tries>>
vars == <<queue, reply, description, value, meant, programVars>>

-----------------------------------------------------------------------------
(* What the program sets, what is sent, and what the program gets *)

Packed(x) ==
  CASE description.kind = "points" -> PackPoints(x)
    [] description.kind = "schedule" -> PackSchedule(x)
    [] description.kind = "settings" -> PackSettings(x)
    [] description.kind = "date" -> PackDate(x)
    [] description.kind = "skip" -> PackSkip(x)
    [] description.kind = "shorten" -> PackShorten(x)
    [] description.kind = "lona_control" -> PackLonaControl(x)
    [] description.kind = "download" -> PackDownload(x)
    [] description.kind = "schedule_state" -> PackScheduleStates(x)
    [] description.kind \in {"number", "timezone"} -> x

Unpacked(d, x) ==
  CASE d.kind = "points" -> UnpackPoints(x)
    [] d.kind = "schedule" -> UnpackSchedule(x)
    [] d.kind = "settings" -> UnpackSettings(x)
    [] d.kind = "date" -> UnpackDate(x)
    [] d.kind = "skip" -> UnpackSkip(x)
    [] d.kind = "shorten" -> UnpackShorten(x)
    [] d.kind = "lona_control" -> UnpackLonaControl(x)
    [] d.kind = "download" -> UnpackDownload(x)
    [] d.kind = "timestamp" -> UnpackTimestamp(x)
    [] d.kind = "schedule_state" -> UnpackScheduleStates(x)
    [] d.kind = "position" -> UnpackPosition(x)
    [] d.kind = "lona_mcu_fw_version" -> UnpackLonaMcuFwVersion(x)
    [] d.kind = "data_download" -> UnpackDataDownload(x)
    [] d.kind = "data_download_int" -> UnpackDataDownloadInt(x)
    [] d.kind = "lona_status" -> UnpackLonaStatus(x)
    [] d.kind = "timezone" -> x
    [] d.kind = "number" -> Converted(d, x)

\* What is set by programs, but starting points, the lengths of which differ.
WrittenKinds ==
  {"number", "timezone", "schedule", "settings", "date", "skip", "shorten", "lona_control", "download",
   "schedule_state"}

\* What is in the device at first is read as what it means, and is bytes.
ASSUME InitialAssumption ==
  \A d \in Descriptions :
    d.kind \in WrittenKinds \cup {"points"} =>
      \A v \in Initially(d) :
        IF v.value = None THEN v.meant = None
        ELSE IF d.kind = "number" THEN v.meant = v.value /\ v.value \in Int
        ELSE v.meant = Unpacked(d, v.value) /\ (d.kind # "timezone" => v.value \in Seq(Byte))

\* The attribute of value_set and value_report; None has none.
AttributeName ==
  CASE description.kind = "number" -> "number"
    [] description.kind = "timezone" -> "offset"
    [] OTHER -> "hexBinary"

Attributes(x) == IF x = None THEN <<>> ELSE <<AttributeName, x>>

FromAttributes(attributes) == IF attributes = <<>> THEN None ELSE attributes[2]

Accepted(x) ==
  CASE description.kind = "number" -> Valid(description, x)
    [] description.kind = "timezone" -> TRUE
    [] OTHER -> ValidLength(description.max_length, Packed(x))

\* What a device says of itself instead of a value.
OwnDescriptions == {"device_description", "value_description", "service_description", "memory_information"}

\* What the device answers to the get of its service.
Reported(x) ==
  CASE description.kind = "device_description" -> ReportDeviceDescription(x)
    [] description.kind = "value_description" -> [id \in DOMAIN x |-> ValueDescriptionElement(x[id])]
    [] description.kind = "service_description" -> ReportServiceDescription(x)
    [] description.kind = "memory_information" -> ReportMemoryInformation(x)
    [] OTHER -> Attributes(x)

\* The getter of a value warns of an invalid one, and returns it; None raises TypeError.
Read(report) ==
  CASE description.kind = "device_description" -> ParseDeviceDescription(report)
    [] description.kind = "value_description" -> [id \in DOMAIN report |-> ParseValueDescription(report[id])]
    [] description.kind \in {"service_description", "memory_information"} -> report
    [] OTHER -> IF report = <<>> THEN Raised ELSE Unpacked(description, FromAttributes(report))

-----------------------------------------------------------------------------
(* The control messages that come with an answer *)

ControlMessages == {"encrypted", "plain", "error"}

\* What _send leaves of the list a at its entry i: it deletes the traffic class
\* from the list that it goes through, and takes no answer that is not encrypted.
Entry(a, i) ==
  IF i > Len(a) THEN a
  ELSE CASE a[i] = "encrypted" -> RemoveAt(a, i)
         [] a[i] = "plain" -> <<"plain">>
         [] a[i] = "error" -> a

\* Faulty: what is left of the control messages is not looked at.
TakenWithErrors(ancdata) ==
  ancdata # <<>> /\ Entry(Entry(ancdata, 1), 2) # <<"plain">>

\* _send takes the answer: of its control messages, two at most, nothing is left.
Taken(ancdata) == ancdata # <<>> /\ Entry(Entry(ancdata, 1), 2) = <<>>

-----------------------------------------------------------------------------
(* The program *)

SetMessage(x) == [type |-> "set", value |-> Attributes(Packed(x)), meant |-> x, live |-> FALSE]

SendSet(x) == SendRequest(SetMessage(x))

SendGet == SendRequest([type |-> "get", live |-> TRUE])

\* The properties that are generated have a getter, a setter or both.
Readable == description.mode \in {"R", "RW"}

Writable == description.mode \in {"RW", "W"}

\* The property is assigned; what is not valid raises ValueError instead.
SetProperty ==
  /\ at = "idle" /\ description.kind # "download" /\ Writable
  /\ \E x \in Inputs(description) : Accepted(x) /\ SendSet(x)
  /\ UNCHANGED <<description, value, meant, programVars>>

GetProperty ==
  /\ at = "idle" /\ description.kind # "download" /\ Readable
  /\ SendGet /\ at' = "get"
  /\ UNCHANGED <<description, value, meant, setting, attempt, tries>>

\* The getter returns, or raises: RequestTimeoutError, or what _send and the
\* conversion raise.
GetEnds ==
  /\ at = "get"
  /\ CloseSocket /\ at' = "idle"
  /\ UNCHANGED <<description, value, meant, setting, attempt, tries>>

\* upload.py sets data_download_int, once more if another value came back ...
SetData(x, n) ==
  /\ SendSet(x)
  /\ at' = "set" /\ setting' = x /\ attempt' = n /\ tries' = 0
  /\ UNCHANGED <<description, value, meant>>

StartConfirm ==
  /\ at \in {"idle", "confirmed"} /\ description.kind = "download"
  /\ \E x \in Inputs(description) : SetData(x, 1)

\* A message that is not of the format <network><device>...: MessageFormatError.
Unusable == reply # NoReply /\ Taken(reply.ancdata) /\ ~reply.format

\* retry tries again after a timeout and after MessageFormatError.
Unanswered == at = "confirm" /\ (reply = NoReply \/ Unusable)

\* ... and gets it, with a number of tries.
GetData ==
  /\ at = "set" \/ (Unanswered /\ tries < MAX_TRIES)
  /\ SendGet
  /\ at' = "confirm" /\ tries' = tries + 1
  /\ UNCHANGED <<description, value, meant, setting, attempt>>

\* upload.py has an answer that says something.
Answered ==
  /\ at = "confirm" /\ reply # NoReply
  /\ Taken(reply.ancdata) /\ reply.format /\ Read(reply.value) # Raised

Confirms == Answered /\ Read(reply.value) = setting

Differs == Answered /\ Read(reply.value) # setting

Confirmed ==
  /\ Confirms
  /\ CloseSocket /\ at' = "confirmed" /\ attempt' = 0 /\ tries' = 0
  /\ UNCHANGED <<description, value, meant, setting>>

\* Faulty: the attempts are not counted.
SetDataForever == Differs /\ SetData(setting, attempt + 1)

SetDataAgain == Differs /\ attempt < MAX_TRIES /\ SetData(setting, attempt + 1)

\* upload.py exits, or dies of an exception.
GiveUp ==
  /\ \/ Unanswered /\ tries = MAX_TRIES
     \/ at = "confirm" /\ ~Unanswered /\ ~Answered
     \/ Differs /\ attempt = MAX_TRIES
  /\ CloseSocket /\ at' = "idle" /\ setting' = None /\ attempt' = 0 /\ tries' = 0
  /\ UNCHANGED <<description, value, meant>>

-----------------------------------------------------------------------------
(* The device: handle_value, and the handlers of its descriptions *)

HandleSet ==
  /\ Incoming("set") /\ Ignore
  /\ value' = FromAttributes(Head(queue).value) /\ meant' = Head(queue).meant
  /\ UNCHANGED <<description, programVars>>

\* One description that cannot be serialized, and none is reported.
Reportable == description.kind = "value_description" => \A id \in DOMAIN value : Serializable(value[id])

HandleGet ==
  /\ Incoming("get") /\ Reportable
  /\ \E ancdata \in SeqOf(ControlMessages, 2), format \in BOOLEAN :
       Respond([value |-> Reported(value), meant |-> meant, ancdata |-> ancdata, format |-> format])
  /\ UNCHANGED <<description, value, meant, programVars>>

\* toetree raises, which the listener logs.
HandleGetFails ==
  /\ Incoming("get") /\ ~Reportable /\ Ignore
  /\ UNCHANGED <<description, value, meant, programVars>>

-----------------------------------------------------------------------------
Init ==
  /\ ChannelInit
  /\ description \in Descriptions
  /\ \E v \in Initially(description) : value = v.value /\ meant = v.meant
  /\ at = "idle" /\ setting = None /\ attempt = 0 /\ tries = 0

Program ==
  \/ SetProperty \/ GetProperty \/ GetEnds
  \/ StartConfirm \/ GetData \/ Confirmed \/ SetDataAgain \/ GiveUp

Next == Program \/ HandleSet \/ HandleGet \/ HandleGetFails

Spec == Init /\ [][Next]_vars

-----------------------------------------------------------------------------
Places == {"idle", "get", "set", "confirm", "confirmed"}

Messages == {SetMessage(x) : x \in Inputs(description)} \cup [type : {"get"}, live : BOOLEAN]

\* The type invariant of upload.py's loop and of the device's cache: both
\* loops count to MAX_TRIES, and what is set and read comes from Inputs.
TypeOK ==
  /\ description \in Descriptions /\ at \in Places
  /\ \/ \E v \in Initially(description) : value = v.value /\ meant = v.meant
     \/ meant \in Inputs(description) /\ value = Packed(meant)
  /\ setting \in Inputs(description) \cup {None}
  /\ attempt \in 0..MAX_TRIES /\ tries \in 0..MAX_TRIES
  /\ queue \in Seq(Messages)

\* All limits are there and fit together.
Complete(d) == None \notin {d.min, d.max, d.step} /\ Limits(d).step # None

\* As far as the range goes, and one more.
Multiples(d) == {d.min + k * Round(d.step) : k \in 0..((Round(d.max - d.min) \div Round(d.step)) + 1)}

Distance(x, y) == IF x < y THEN y - x ELSE x - y

\* How much farther from a multiple of a step of 2.0 or more a number may be,
\* relative to the step, as the quotient is rounded; a smaller one leaves nothing.
Slack(step) == IF step < 2 * One THEN 0 ELSE step

\* What the description d allows to be stored.
Fits(d, x) ==
  CASE x = None \/ d.kind \in OwnDescriptions \cup {"timezone"} -> TRUE
    [] x # None /\ d.kind = "number" ->
         /\ (d.min # None /\ d.max # None /\ d.min <= d.max) => (x = NaN \/ x \in d.min..d.max)
         /\ Complete(d) =>
              /\ x # NaN
              /\ \E n \in Multiples(d) : 2 * One * Distance(x, n) <= Quantum * (One + Slack(Round(d.step)))
    [] OTHER -> d.max_length # None => Len(x) <= d.max_length

\* What the device has at first is what its own description allows.
ASSUME FitsAssumption == \A d \in Descriptions : \A v \in Initially(d) : Fits(d, v.value)

\* What the setter of value_properties.py lets through to the device is what
\* the description allows: a number in the range (if it is not empty), and up
\* to rounding a multiple of the step (if that fits the range), even where the
\* type is int; a buffer that is not too long.
WithinDescription == Fits(description, value)

\* The type that a description is read with, where it is not the one that the
\* device has: numbers are integers if their limits are, and only then.
OfLimits(d) ==
  [k \in Present(d) |->
     IF k = "type" /\ d.type \in {"int", "float"}
     THEN IF Integral(Restrict(d, Present(d))) THEN "int" ELSE "float"
     ELSE d[k]]

\* Times are sent in minutes.
WholeMinutes(seconds) == 60 * (seconds \div 60)

TaskInMinutes(t) ==
  [t EXCEPT !.start = <<t.start[1], t.start[2], 0>>, !.duration = WholeMinutes(t.duration)]

\* What is left of x when the seconds of its starts, durations or date are cut off.
InMinutes(kind, x) ==
  CASE kind = "schedule" -> [i \in DOMAIN x |-> TaskInMinutes(x[i])]
    [] kind = "shorten" -> [i \in DOMAIN x |-> [x[i] EXCEPT !.duration = WholeMinutes(x[i].duration)]]
    [] kind = "date" -> [x EXCEPT !.second = 0]
    [] kind \notin {"schedule", "shorten", "date"} -> x

\* Some starting points have a corridor cut and some have not.
TwoSizes(points) ==
  \E i, j \in DOMAIN points : points[i].corridor_cut = None /\ points[j].corridor_cut # None

\* A device description that Device has no type for: it has a number that is no
\* integer, or something else than a radio mode for its radio mode.
Strange(dict) ==
  \E k \in DOMAIN dict :
    (dict[k] # None /\ dict[k][1] = "float") \/ (k = RADIO_MODE /\ dict[k] \notin RadioModes)

CannotBeRead(answer) ==
  \/ answer.value = <<>>
  \/ description.kind = "points" /\ TwoSizes(answer.meant)
  \/ description.kind = "device_description" /\ Strange(answer.meant)

\* What the program makes of an answer, with the getter of value_properties.py
\* and mower_helpers or with Device's parsers, is what was meant when it was
\* set, and not something else that happens to have the same bytes or the same
\* text.  The conversion raises for three things only: for a value that was
\* never set, for starting points of two sizes, and for a description of a
\* device that has an entry of a wrong type.  An empty list reads as None, a
\* number of type int is cut off, and so are the seconds of times and dates; of
\* a value's description only the type may change; and 30 bytes of starting
\* points may be anything if the description has no max_length.
ReadsWhatWasMeant ==
  reply # NoReply =>
    LET read == Read(reply.value)
        kind == description.kind
    IN  \/ read = Raised /\ CannotBeRead(reply)
        \/ kind # "value_description" /\ read = reply.meant
        \/ kind \in {"schedule", "shorten", "date"} /\ read = InMinutes(kind, reply.meant)
        \/ kind = "value_description"
              /\ read = [id \in DOMAIN reply.meant |-> OfLimits(reply.meant[id])]
        \/ kind \notin {"number", "device_description"} /\ reply.meant = <<>> /\ read = None
        \/ kind = "number" /\ IsInt(description) /\ Distance(read, reply.meant) < One
        \/ kind = "points" /\ description.max_length = None /\ Len(PackPoints(reply.meant)) >= 30

\* _send returns an answer if it came encrypted as the request was, and without
\* any socket error, in whichever order the control messages are listed.
TakesEncrypted ==
  reply # NoReply => (Taken(reply.ancdata) <=> reply.ancdata = <<"encrypted">>)

\* When a mower runs: its schedule, whatever the tasks it is written with.
Runs(schedule) == UNION {{<<d, t.start, t.duration, t.a_id>> : d \in t.weekdays} : t \in ToSet(schedule)}

\* mower_compare_schedules says that the schedule in the device and one that
\* is on its way are identical if and only if the mower runs at the same times,
\* which it knows to the minute.
IdenticalSchedules ==
  description.kind = "schedule" /\ meant \notin {None, Raised} =>
    \A i \in DOMAIN queue :
      queue[i].type = "set" =>
        (Canonical(Read(Attributes(value))) = Canonical(Read(queue[i].value))
           <=> Runs(InMinutes("schedule", meant)) = Runs(InMinutes("schedule", queue[i].meant)))

\* When upload.py goes on to the upload, the device has its data_download_int,
\* and no earlier one that is on its way will replace it.
ConfirmedIsStored ==
  at = "confirmed" =>
    /\ value = Packed(setting)
    /\ \A i \in DOMAIN queue : queue[i].type = "set" => FromAttributes(queue[i].value) = value

-----------------------------------------------------------------------------
(* Why TypeOK and ConfirmedIsStored hold *)

LoopInv ==
  /\ at \in {"set", "confirm", "confirmed"} =>
       description.kind = "download" /\ setting \in Inputs(description)
  /\ at # "confirm" => tries = 0

\* Only the answer to the get that was sent last is waited for.
LastGet ==
  \A i \in 1..Len(queue) :
    queue[i].live =>
      /\ i = Len(queue) /\ queue[i].type = "get"
      /\ at \in {"get", "confirm"} /\ reply = NoReply

NothingSet == \A i \in 1..Len(queue) : queue[i].type # "set"

\* What arrived before that get is stored when it is answered, and the answer
\* is what is stored then.
ConfirmInv ==
  /\ at = "confirm" /\ reply # NoReply => NothingSet /\ reply.value = Reported(value)
  /\ at = "confirmed" => NothingSet /\ value = Packed(setting)

AccessInv == TypeOK /\ LoopInv /\ LastGet /\ ConfirmInv
=============================================================================
