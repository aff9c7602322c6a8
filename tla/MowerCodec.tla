----------------------------- MODULE MowerCodec -----------------------------
(***************************************************************************)
(* mower_helpers.py: how the values that a program sets in a mower are     *)
(* packed to bytes and unpacked, and mower_compare_schedules, which says   *)
(* whether two schedules are the same.  A struct is a sequence of bytes, a *)
(* named tuple a record; Settings are a sequence, flags a set.             *)
(***************************************************************************)
EXTENDS Naturals, Sequences, SequencesExt

CONSTANTS
  None,
  Raised   \* struct.error, and the ValueError of datetime for what is no time or date

LittleEndian(n) == <<n % 256, n \div 256>>
BigEndian(n) == <<n \div 256, n % 256>>
Bit(b) == IF b THEN 1 ELSE 0

\* Structs of the same size, one behind the other.
Joined(structs, size) ==
  [k \in 1..(size * Len(structs)) |-> structs[(k - 1) \div size + 1][((k - 1) % size) + 1]]

\* The structs that struct.iter_unpack unpacks.
Structs(bytes, size) ==
  [i \in 1..(Len(bytes) \div size) |-> SubSeq(bytes, size * (i - 1) + 1, size * i)]

\* A buffer of one struct: none if it is empty, and of no other length.
Struct(bytes, size, fields(_)) ==
  CASE bytes = <<>> -> None
    [] Len(bytes) = size -> fields(bytes)
    [] Len(bytes) \notin {0, size} -> Raised

\* A buffer of any number of structs of that size; an empty one is no list.
StructList(bytes, size, fields(_)) ==
  LET structs == Structs(bytes, size) IN
  CASE bytes = <<>> -> None
    [] Len(bytes) % size # 0 -> Raised
    [] OTHER -> [i \in DOMAIN structs |-> fields(structs[i])]

\* basic_from_id: the number itself if it has no name.
NameOf(enum, n) ==
  IF \E name \in DOMAIN enum : enum[name] = n
  THEN CHOOSE name \in DOMAIN enum : enum[name] = n
  ELSE n

-----------------------------------------------------------------------------
(* Starting points; a mower without corridor cut has no sixth byte *)

PackPoint(p) ==
  <<p.loop_wire>> \o LittleEndian(p.distance) \o <<p.proportion, Bit(p.enabled)>>
    \o (IF p.corridor_cut = None THEN <<>> ELSE <<Bit(p.corridor_cut)>>)

\* How many bytes lie before those of the i-th point.
Before(points, i) == 5 * (i - 1) + Cardinality({j \in 1..(i - 1) : points[j].corridor_cut # None})

PackPoints(points) ==
  [k \in 1..Before(points, Len(points) + 1) |->
     LET i == CHOOSE i \in DOMAIN points : Before(points, i) < k /\ k <= Before(points, i + 1)
     IN  PackPoint(points[i])[k - Before(points, i)]]

UnpackPoint(b) ==
  [loop_wire |-> b[1], distance |-> b[2] + 256 * b[3], proportion |-> b[4], enabled |-> b[5] # 0,
   corridor_cut |-> IF Len(b) = 5 THEN None ELSE b[6] # 0]

UnpackPoints(bytes) ==
  IF bytes = <<>> THEN None
  ELSE LET size == IF Len(bytes) % 6 = 0 THEN 6 ELSE 5
           structs == Structs(bytes, size)
       IN  IF Len(bytes) % size # 0 THEN Raised
           ELSE [i \in DOMAIN structs |-> UnpackPoint(structs[i])]

-----------------------------------------------------------------------------
(* Schedules; the weekdays are the last seven bits of a byte, the first of   *)
(* which a mower does not set.  A start has an hour, a minute and a second,  *)
(* a duration is in seconds; the seconds are not packed.                     *)

PackTask(t) ==
  LET day(d) == IF d \in t.weekdays THEN 2 ^ (7 - d) ELSE 0
  IN  <<t.id, day(1) + day(2) + day(3) + day(4) + day(5) + day(6) + day(7)>>
        \o <<t.start[1], t.start[2]>> \o LittleEndian(t.duration \div 60) \o <<t.a_id>>

PackSchedule(schedule) == Joined([i \in DOMAIN schedule |-> PackTask(schedule[i])], 7)

UnpackTask(b) ==
  [id |-> b[1], weekdays |-> {d \in 1..7 : (b[2] \div 2 ^ (7 - d)) % 2 = 1},
   start |-> <<b[3], b[4], 0>>, duration |-> 60 * (b[5] + 256 * b[6]), a_id |-> b[7]]

\* datetime.time takes no other hour and minute.
IsTime(hour, minute) == hour < 24 /\ minute < 60

UnpackSchedule(bytes) ==
  LET structs == Structs(bytes, 7) IN
  CASE bytes = <<255>> -> None
    [] bytes # <<255>> /\ (Len(bytes) % 7 # 0 \/ \E i \in DOMAIN structs : ~IsTime(structs[i][3], structs[i][4])) ->
         Raised
    [] OTHER -> [i \in DOMAIN structs |-> UnpackTask(structs[i])]

\* Faulty: tasks that differ in their duration only are combined.
CanonicalByStart(schedule) ==
  LET tasks == {t \in ToSet(schedule) : t.weekdays # {}}
      key(t) == <<t.start, t.a_id>>
  IN  {[key |-> key(t), weekdays |-> UNION {u.weekdays : u \in {v \in tasks : key(v) = key(t)}}] : t \in tasks}

\* schedule_to_canonical: one task for each start, duration and a_id.
Canonical(schedule) ==
  LET tasks == {t \in ToSet(schedule) : t.weekdays # {}}
      key(t) == <<t.start, t.duration, t.a_id>>
  IN  {[key |-> key(t), weekdays |-> UNION {u.weekdays : u \in {v \in tasks : key(v) = key(t)}}] : t \in tasks}

-----------------------------------------------------------------------------
(* A date without its second, tasks to be skipped or shortened by whole        *)
(* minutes, data_download_int                                                  *)

DaysOf(year, month) ==
  CASE month = 2 -> IF year % 4 = 0 /\ (year % 100 # 0 \/ year % 400 = 0) THEN 29 ELSE 28
    [] month \in {4, 6, 9, 11} -> 30
    [] month \notin {2, 4, 6, 9, 11} -> 31

\* datetime.datetime takes no other date.
IsDate(year, month, day) == year \in 1..9999 /\ month \in 1..12 /\ day \in 1..DaysOf(year, month)

PackDate(d) == LittleEndian(d.year) \o <<d.month, d.day, d.hour, d.minute>>

UnpackDate(bytes) ==
  Struct(bytes, 6, LAMBDA b :
    IF IsDate(b[1] + 256 * b[2], b[3], b[4]) /\ IsTime(b[5], b[6])
    THEN [year |-> b[1] + 256 * b[2], month |-> b[3], day |-> b[4], hour |-> b[5], minute |-> b[6], second |-> 0]
    ELSE Raised)

PackSkip(skip) == [i \in DOMAIN skip |-> skip[i].id]

UnpackSkip(bytes) == StructList(bytes, 1, LAMBDA b : [id |-> b[1]])

PackShorten(shorten) ==
  Joined([i \in DOMAIN shorten |-> <<shorten[i].id>> \o LittleEndian(shorten[i].duration \div 60)], 3)

UnpackShorten(bytes) ==
  StructList(bytes, 3, LAMBDA b : [id |-> b[1], duration |-> 60 * (b[2] + 256 * b[3])])

PackDownload(d) == <<0, 0>> \o BigEndian(d.slot_number) \o d.content_tag

UnpackDownload(b) ==
  IF Len(b) # 8 THEN None
  ELSE [slot_number |-> 256 * b[3] + b[4], content_tag |-> SubSeq(b, 5, 8)]

-----------------------------------------------------------------------------
(* LONA control: five flags, of which the first is the last bit *)

Flags == <<"global_enable", "data_collection", "debug_events", "debug_data_collection",
           "sensor_position_mapping">>

PackLonaControl(set) ==
  LET bit(i) == IF Flags[i] \in set THEN 2 ^ (i - 1) ELSE 0
  IN  <<0, 0, 0, 0, 0, 0, 0, bit(1) + bit(2) + bit(3) + bit(4) + bit(5)>>

UnpackLonaControl(bytes) ==
  CASE bytes = <<>> -> None
    [] Len(bytes) > 8 -> Raised
    [] OTHER -> {Flags[i] : i \in {j \in 1..5 : (Last(bytes) \div 2 ^ (j - 1)) % 2 = 1}}

-----------------------------------------------------------------------------
(* Settings: a mask of the settings that are there, and their values *)

SensorControl ==
  [disabled |-> 0, reserved_1 |-> 1, low_cutting_time |-> 2, medium |-> 3, high_cutting_time |-> 4,
   reserved_5 |-> 5]
SecurityLevel == [low |-> 3, medium |-> 7, high |-> 63]

\* The values of the settings 2..8 as a byte each; setting 1 has two.
SettingByte(i, x) ==
  IF x = None THEN 0
  ELSE CASE i = 3 -> SensorControl[x]
         [] i = 5 -> SecurityLevel[x]
         [] i \in {4, 6, 7, 8} -> Bit(x)
         [] OTHER -> x

PackSettings(s) ==
  BigEndian(IF s[1] = None THEN 0 ELSE 65535)
    \o [i \in 1..7 |-> IF s[i + 1] = None THEN 0 ELSE 255]
    \o BigEndian(IF s[1] = None THEN 0 ELSE s[1])
    \o [i \in 1..7 |-> SettingByte(i + 1, s[i + 1])]

SettingOf(i, byte) ==
  CASE i = 3 -> NameOf(SensorControl, byte)
    [] i = 5 -> NameOf(SecurityLevel, byte)
    [] i \in {4, 6, 7, 8} -> byte # 0
    [] OTHER -> byte

\* A mower without zone generator has the first seven settings only.
UnpackSettings(bytes) ==
  LET half == Len(bytes) \div 2
      mask == SubSeq(bytes, 1, half)
      raw == SubSeq(bytes, half + 1, Len(bytes))
  IN  IF bytes = <<>> THEN None
      ELSE IF Len(bytes) \notin {16, 18} THEN Raised
      ELSE [i \in 1..8 |->
              IF i = 1 THEN IF mask[1] = 255 /\ mask[2] = 255 THEN 256 * raw[1] + raw[2] ELSE None
              ELSE IF i < half /\ mask[i + 1] = 255 THEN SettingOf(i, raw[i + 1])
              ELSE None]

-----------------------------------------------------------------------------
(* What a mower only reports.  A number of 32 bits is a pair of halves. *)

Half(b, i) == 256 * b[i] + b[i + 1]
Word(b, i) == <<Half(b, i), Half(b, i + 2)>>
Signed(n) == IF n < 32768 THEN n ELSE n - 65536
SignedWord(b, i) == <<Signed(Half(b, i)), Half(b, i + 2)>>
Flag(byte, i) == (byte \div 2 ^ i) % 2 = 1

\* The seconds since 1970.
UnpackTimestamp(bytes) == Struct(bytes, 4, LAMBDA b : Word(b, 1))

ScheduleStateEnum ==
  [idle |-> 0, scheduled |-> 1, will_start |-> 2, skipped |-> 3, shorten_duration |-> 4, running |-> 5,
   stopped |-> 6, error |-> 7, overwritten |-> 8, done |-> 9, will_continue |-> 10]

PackScheduleStates(states) ==
  Joined([i \in DOMAIN states |->
    <<states[i].id, ScheduleStateEnum[states[i].state], Bit(states[i].update)>>], 3)

UnpackScheduleStates(bytes) ==
  StructList(bytes, 3, LAMBDA b :
    [id |-> b[1], state |-> NameOf(ScheduleStateEnum, b[2]), update |-> b[3] # 0])

\* Degrees and metres are left in the units that they are sent in.
UnpackPosition(b) ==
  CASE b = <<>> -> None
    [] Len(b) \in {25, 26} ->
         [gnssLatitude |-> SignedWord(b, 1), gnssLongitude |-> SignedWord(b, 5),
          gnssHorizontalAccuracy |-> Word(b, 9),
          realTimeLatitude |-> SignedWord(b, 13), realTimeLongitude |-> SignedWord(b, 17),
          realTimeHeading |-> Signed(Half(b, 21)), realTimeIsReady |-> b[23] # 0,
          compassHeading |-> Signed(Half(b, 24)),
          compassIsCalibrated |-> IF Len(b) = 26 THEN b[26] # 0 ELSE None]
    [] Len(b) \notin {0, 25, 26} -> Raised

\* A version of a developer has a hash of seven digits, and says whether the
\* working tree was clean.
UnpackLonaMcuFwVersion(bytes) ==
  Struct(bytes, 8, LAMBDA b :
    [version |-> <<b[1], b[2], b[3]>>,
     dev |-> IF b[4] = 0 THEN None
             ELSE [git |-> <<b[5], b[6], b[7], b[8] \div 16>>, dirty |-> b[8] % 16 # 0]])

UnpackDataDownload(bytes) ==
  StructList(bytes, 15, LAMBDA b :
    [slot_number |-> Word(b, 1), content_tag |-> SubSeq(b, 5, 8), size |-> Word(b, 9),
     checksum |-> SubSeq(b, 13, 14), status |-> b[15]])

\* Not None but an exception if the length is not the right one.
UnpackDataDownloadInt(bytes) ==
  Struct(bytes, 8, LAMBDA b : [slot_number |-> Word(b, 1), content_tag |-> SubSeq(b, 5, 8)])

LonaErrorCodeEnum ==
  [no_error |-> 0, lonanavigator_trapped_in_zone |-> 1, unused_2 |-> 2, lonanavigator_no_local_position |-> 3,
   lonanavigator_outside_working_area_not_ready |-> 4, lonanavigator_outside_working_area_stop_following |-> 5]

HeadingSource(bit) == IF bit THEN "gnss" ELSE "compass"

UnpackLonaStatus(bytes) ==
  Struct(bytes, 12, LAMBDA b :
    [last_lona_error_code |-> NameOf(LonaErrorCodeEnum, b[2]),
     active_zones |-> SubSeq(b, 3, 6), active_map |-> SubSeq(b, 7, 10),
     rt_position_ready |-> Flag(b[11], 0), zones_active |-> Flag(b[11], 1),
     heading_source |-> HeadingSource(Flag(b[11], 2)), stay_in_ignored |-> Flag(b[11], 3),
     gnss_ready |-> Flag(b[12], 0), imu_ready |-> Flag(b[12], 1), compass_ready |-> Flag(b[12], 2),
     wheels_sensor_ready |-> Flag(b[12], 3), loop_sensor_ready |-> Flag(b[12], 4)])
=============================================================================
