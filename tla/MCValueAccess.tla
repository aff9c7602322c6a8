---------------------------- MODULE MCValueAccess ----------------------------
(* Descriptions, initial and new values for TLC; 40 units are 1.0. *)
EXTENDS ValueAccess

number(mode, min, max, step) == [kind |-> "number", mode |-> mode, min |-> min, max |-> max, step |-> step]

buffer(kind, max_length) == [kind |-> kind, mode |-> "RW", max_length |-> max_length]

\* The slot whose bytes are numbered from n.
slot(n) == [slot_number |-> <<257 * n + 1, 257 * n + 515>>, content_tag |-> <<n + 4, n + 5, n + 6, n + 7>>,
            size |-> <<257 * n + 2057, 257 * n + 2571>>, checksum |-> <<n + 12, n + 13>>, status |-> n + 14]

MCDeviceDescriptions ==
  {[INCLUDED |-> <<"int", 0>>, RADIO_MODE |-> mode, NAME |-> <<"str", "mower">>, SGTIN |-> sgtin] :
     mode \in {<<"int", 1>>, <<"int", 5>>, <<"float", 1>>, None}, sgtin \in {<<"Hex", <<48>>>>, None}}
  \cup {[WAKEUP_INTERVAL |-> <<type, 3>>] : type \in {"int", "float", "str"}}

format(type, min, max, step, virtual) ==
  [mode |-> "RW", type |-> type, min |-> min, max |-> max, step |-> step, virtual |-> virtual,
   min_log_interval |-> None, max_log_values |-> None]

MCValueDescriptions ==
  {(1 :> format(type, 0, max, step, None)) : type \in {"int", "float"}, max \in {120, 130}, step \in {40, 20, None}}
  \cup {(1 :> format("int", None, 120, 40, None)), (1 :> format("float", 0, 120, 40, TRUE)),
        (1 :> format("float", 0, 120, 40, None) @@ 2 :> format("int", 0, 40, 40, FALSE)),
        (1 :> [mode |-> "R", type |-> "Hex", max_length |-> 8, min_log_interval |-> None,
               max_log_values |-> None, virtual |-> None] @@ 2 :> format("int", 0, 40, 40, None))}

bytes(n, b) == [i \in 1..n |-> b]

\* What a mower reports, and what it means by that.
Reports ==
  [timestamp |->
     {[value |-> <<99, 1, 255, 0>>, meant |-> <<25345, 65280>>], [value |-> bytes(4, 255), meant |-> <<65535, 65535>>]},
   schedule_state |->
     {[value |-> <<1, 5, 0, 2, 10, 1>>,
       meant |-> <<[id |-> 1, state |-> "running", update |-> FALSE],
                   [id |-> 2, state |-> "will_continue", update |-> TRUE]>>],
      [value |-> <<0, 11, 1>>, meant |-> <<[id |-> 0, state |-> 11, update |-> TRUE]>>]},
   position |->
     {[value |-> bytes(8, 255) \o <<0, 0, 3, 232>> \o bytes(8, 1) \o <<255, 166, 1, 14, 16>> \o calibrated.bytes,
       meant |-> [gnssLatitude |-> <<-1, 65535>>, gnssLongitude |-> <<-1, 65535>>,
                  gnssHorizontalAccuracy |-> <<0, 1000>>,
                  realTimeLatitude |-> <<257, 257>>, realTimeLongitude |-> <<257, 257>>,
                  realTimeHeading |-> -90, realTimeIsReady |-> TRUE, compassHeading |-> 3600,
                  compassIsCalibrated |-> calibrated.is]] :
        calibrated \in {[bytes |-> <<>>, is |-> None], [bytes |-> <<1>>, is |-> TRUE], [bytes |-> <<0>>, is |-> FALSE]}},
   lona_mcu_fw_version |->
     {[value |-> <<1, 2, 3, 0, 9, 9, 9, 9>>, meant |-> [version |-> <<1, 2, 3>>, dev |-> None]]}
     \cup {[value |-> <<1, 2, 3, 1, 171, 205, 239, 208 + dirty>>,
            meant |-> [version |-> <<1, 2, 3>>, dev |-> [git |-> <<171, 205, 239, 13>>, dirty |-> dirty # 0]]] :
              dirty \in {0, 1}},
   data_download |->
     {[value |-> [i \in 1..15 * n |-> i - 1], meant |-> [i \in 1..n |-> slot(15 * (i - 1))]] : n \in 1..2}
     \cup {[value |-> [i \in 1..14 |-> i - 1], meant |-> Raised]},
   data_download_int |->
     {[value |-> bytes(8, 1), meant |-> [slot_number |-> <<257, 257>>, content_tag |-> bytes(4, 1)]],
      [value |-> bytes(2, 1), meant |-> Raised]},
   lona_status |->
     {[value |-> <<0, code>> \o bytes(8, 0) \o <<1 + 4 + 8, 2 + 16>>,
       meant |-> [last_lona_error_code |-> IF code = 1 THEN "lonanavigator_trapped_in_zone" ELSE code,
                  active_zones |-> bytes(4, 0), active_map |-> bytes(4, 0),
                  rt_position_ready |-> TRUE, zones_active |-> FALSE, heading_source |-> "gnss",
                  stay_in_ignored |-> TRUE, gnss_ready |-> FALSE, imu_ready |-> TRUE, compass_ready |-> FALSE,
                  wheels_sensor_ready |-> FALSE, loop_sensor_ready |-> TRUE]] : code \in {1, 6}},
   device_description |-> {[value |-> d, meant |-> d] : d \in MCDeviceDescriptions},
   value_description |-> {[value |-> d, meant |-> d] : d \in MCValueDescriptions},
   service_description |->
     {[value |-> [VALUE |-> 2, STATUS |-> 1], meant |-> [VALUE |-> [version |-> 2], STATUS |-> [version |-> 1]]]},
   memory_information |->
     {[value |-> [values |-> 3, partner_information_count |-> 2, partners |-> n, mock_memory_information |-> <<>>],
       meant |-> [VALUE |-> [count |-> 3, free_count |-> 0],
                  PARTNER_INFORMATION |-> [count |-> 2, free_count |-> 2 - n]]] : n \in {2, 3}}]

MCDescriptions ==
  {number("RW", 0, 120, 40), number("R", -80, 40, 40), number("RW", -80, 40, 40), number("W", 0, 120, 12),
   number("RW", -12, 12, 8), number("RW", 4, 40, 13), number("RW", 0, 40, None), number("RW", None, 40, 20),
   number("RW", 40, 0, 20), number("RW", 0, 40, 12), number("RW", 0, 120, 120),
   buffer("points", 18), buffer("points", None), buffer("schedule", 98), buffer("settings", 32), buffer("download", 8),
   buffer("schedule_state", 42), [kind |-> "timezone", mode |-> "RW"],
   buffer("date", 6), buffer("skip", 14), buffer("shorten", 42), buffer("lona_control", 8)}
  \cup {[kind |-> kind, mode |-> "R", max_length |-> 128] : kind \in DOMAIN Reports \ {"schedule_state"}}

point(wire, distance, corridor_cut) ==
  [loop_wire |-> wire, distance |-> distance, proportion |-> 100, enabled |-> wire = 1, corridor_cut |-> corridor_cut]

MCPoints ==
  {<<>>, <<point(1, 300, TRUE), point(2, 7, None)>>}
  \cup {<<point(1, 300, cc), point(2, 7, cc)>> : cc \in BOOLEAN \cup {None}}
  \cup {[i \in 1..n |-> point(1, i, None)] : n \in {1, 3, 6}}
  \cup {[i \in 1..n |-> point(0, 256 * i, i = 2)] : n \in {1, 3, 4}}

\* Points of either size are packed one behind the other.
ASSUME PointsInOrder ==
  \A n \in 0..5 : \A ps \in [1..n -> {point(1, 300, TRUE), point(2, 7, None)}] :
    PackPoints(ps) = FlattenSeq([i \in 1..n |-> PackPoint(ps[i])])

task(weekdays, minutes) ==
  [id |-> 0, weekdays |-> weekdays, start |-> <<7, 30, 0>>, duration |-> 60 * minutes, a_id |-> 0]

MCSchedules ==
  {<<>>} \cup {<<task(days, 180)>> : days \in {{}, {1}, {1, 7}}}
  \cup {<<task({1}, 180), task(days, minutes)>> : days \in {{7}, {1, 7}}, minutes \in {180, 300}}
  \cup {<<task({7}, 300), task({1}, 300)>>, <<task({1, 7}, 300)>>}
  \cup {<<[task({1}, 180) EXCEPT !.start = <<7, 30, 15>>, !.duration = @ + seconds]>> : seconds \in {59, 60}}

unset == [i \in 1..8 |-> None]

MCSettings ==
  {unset, [unset EXCEPT ![1] = 300, ![3] = "medium"],
   <<42, 255, "disabled", FALSE, "high", TRUE, FALSE, TRUE>>, [unset EXCEPT ![8] = FALSE]}

files == {[slot_number |-> 257, content_tag |-> <<0, 0, 0, n>>] : n \in 1..2}

MCInputs(d) ==
  CASE d.kind = "number" -> {-81, -80, -12, -4, 0, 1, 4, 8, 12, 13, 16, 24, 36, 38, 39, 40, 60, 79, 80, 120, 160, NaN}
    [] d.kind = "points" -> MCPoints
    [] d.kind = "schedule" -> MCSchedules
    [] d.kind = "settings" -> MCSettings
    [] d.kind = "date" -> {[year |-> 2024, month |-> 2, day |-> 29, hour |-> 23, minute |-> 59, second |-> s] : s \in {0, 59}}
    [] d.kind = "skip" -> {<<>>, <<[id |-> 7]>>, <<[id |-> 7], [id |-> 0]>>}
    [] d.kind = "shorten" -> {<<>>, <<[id |-> 7, duration |-> 300 * 60], [id |-> 0, duration |-> 90]>>}
    [] d.kind = "lona_control" -> {{}, {"global_enable"}, {"debug_events", "sensor_position_mapping"}}
    [] d.kind = "download" -> files
    [] d.kind = "schedule_state" -> {<<>>, <<[id |-> 1, state |-> "running", update |-> FALSE],
                                            [id |-> 2, state |-> "will_continue", update |-> TRUE]>>}
    [] d.kind = "timezone" -> {-3600, 0, 7200}
    [] d.kind \in DOMAIN Reports \ {"schedule_state"} -> {}

never == [value |-> None, meant |-> None]

\* The descriptions are there from the beginning.
MCInitially(d) ==
  (IF d.kind \in OwnDescriptions \cup {"timezone"} THEN {} ELSE {never}) \cup
  CASE d.kind \in DOMAIN Reports -> Reports[d.kind]
    [] d.kind = "number" /\ d.min # None -> {[value |-> d.min, meant |-> d.min]}
    [] d.kind = "schedule" -> {[value |-> <<255>>, meant |-> None]}
    [] d.kind = "settings" ->
         {[value |-> <<255, 255, 0, 255, 0, 0, 0, 0, 0, 60, 32, 0, 7, 0, 0, 0>>,
           meant |-> [unset EXCEPT ![1] = 60, ![3] = "disabled"]]}
    [] d.kind = "timezone" -> {[value |-> 0, meant |-> 0]}
    [] d.kind = "download" -> {[value |-> PackDownload(f), meant |-> f] : f \in files}
    [] d.kind \in {"points", "skip", "shorten", "date", "lona_control"} -> {[value |-> <<>>, meant |-> None]}
    [] OTHER -> {}
=============================================================================
