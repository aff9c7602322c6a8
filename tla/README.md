# Formal models of the Lemonbeat library

TLA+ models of `lemonbeat`, the Python library that talks to smart garden
devices over the Lemonbeat protocol, and of the programs in `examples/` that
are built on it: TLC checks them on small instances, TLAPS proves the theorems
for all values of the constants.

Paths such as `_firmware.py` are relative to `src/lemonbeat/`; `upload.py` is
`src/examples/gateway_scripts/upload.py` and `mock_rm_and_mower` is
`src/examples/mock_rm_and_mower`.

## The system

A *gateway* reaches *devices* through a radio *dongle*. All of them exchange
XML messages, compressed to EXI, in UDP datagrams over IPv6, one port per
*service* (value, firmware update, partner information, ...). `Gateway`
(`_gateway.py`) and `Device` (`_device.py`, `_firmware.py`, `_partner.py`) are
the client's view: each request opens a socket, sends one datagram and waits
for one answer. A gateway can also *listen* on services, one thread each.
`DeviceEmulation` (`device_emulation.py`) is a device in software, built on the
same listeners; `mock_rm_and_mower` derives an emulated mower from it.

| Component | State | Operations | Interaction |
|---|---|---|---|
| request/answer exchange (`_message.py`, `_device.py`) | the socket of the request | `_send`, `_send_request`, `_send_message` | used by everything below; datagrams may be lost, late, repeated |
| firmware update, client (`_firmware.py`, `upload.py`) | file position, chunk size, retry counters | `update_firmware_init`, `upload_firmware`, `flash_firmware`, `upload.py` | requests to the device |
| firmware update, device (`device_emulation.py`, `mock_rm_and_mower`) | `firmware_update_current_id`, `firmware_update`, `content_tag` | `handle_firmware_update`, the mower's hooks | answers; changed by values that others set |
| service listener (`_gateway.py`) | `_listener_threads`, one thread and socket per service | `start_service_listener`, `stop_service_listener`, `_service_listener`, `service_listeners` | calls the handler on the listener's thread |
| partner information (`_partner.py`, `device_emulation.py`) | the dongle's partner table | `get_partner_id`, `register_partner`, `wakeup_partner`, `set_`/`remove_` | unacknowledged sets and raw gets; several clients, one table |
| inclusion (`_device.py`, `device_emulation.py`) | `included`, the sender's `Event` | `include`, `exclude`, `start_device_description_sender`, `handle_network_management`, `handle_device_description` | a sender thread and listener threads share the device description |
| values (`_device.py`, `value_properties.py`, `device_emulation.py`) | value caches | `get_value`, `set_value`, validation, `_generic_handle_commands` | requests, reports |
| configuration file (`config_file.py`) | the file, gateway and devices | `load`, `save`, `load_or_create`, `add_device` | read-modify-write of one file by several processes |
| mower helpers (`mower_helpers.py`) | none | `unpack_*`, `pack_*` | pure conversions |
| schedule comparison (`examples/mower_compare_schedules.py`) | none | `schedule_to_canonical` | pure |
| simple value listener (`examples/simple_value_listener`) | `devices`, a cache per device | `device_description_handler`, `value_handler` | two listener threads, includes devices |
| service listener example (`examples/service_listener`) | `device_infos`, `report_queues`, a lock | `conditionally_get_device_info_and_continue`, `get_device_info` | two listener threads, a request thread per unknown device |
| descriptions and memory (`_types.py`, `_device_emulation_types.py`, `_memory_information.py`) | the device's dictionaries | `toetree`, `_parse_*` | conversions on the way from a device to a program |
| serializer (`lsdl_serializer.py`) | one C library behind a mutex | `compress`, `decompress` | every message |
| remote gateway, inclusion message, status, HTML output | | ssh forwarding, key derivation, enumerations | not modelled: I/O, cryptography, formatting |

### What is hard, and what would make it correct

- **Firmware update.** A file goes out in chunks over a lossy network, each
  with a sequence of statuses that move the position and the chunk size; the
  process may be killed and restarted with another file, the device restarted,
  its slot reassigned. Correct: what is reported as flashed is the caller's
  whole file; `True` from `upload_firmware` means complete; a slot is resumed
  only with bytes of the same file; every upload ends.
- **Request/answer.** Late answers and retries. Correct: an answer is never
  taken for the answer to another request.
- **Service listener.** Starts and stops from several threads, also from a
  handler; a thread that dies. Correct: at most one thread serves a service,
  a stop ends the thread, the list of listeners tells what runs.
- **Partner table.** Free slots are computed from three answers and written
  without acknowledgement. Correct: no partner is overwritten, an id that is
  returned belongs to the address.
- **Inclusion.** The sender checks `included` and sends later; descriptions and
  include messages are lost, and answered with each other. Correct: a device
  that is wanted gets included, and the traffic ends.
- **Configuration file.** Read-modify-write, truncate-then-write, two
  directories. Correct: for one process the file in its two places is one
  store, the inclusion message stays until another gateway is saved, and what a
  crash can take is the whole store, while a save writes.
- **Service listener example.** Reports queue up per device while its
  descriptions are requested; the queue is looked up under a lock and filled
  without. Correct: a device is asked by one thread at a time, what was queued
  is printed, a failed request is repeated.
- **Values and mower helpers.** Limits, steps, lengths; buffers whose layout
  depends on their length; a set that is not acknowledged. Correct: what passes
  validation is in range; what `pack` writes `unpack` reads; what was confirmed
  is stored.

## The firmware update

### Modules

| Module | Models |
|---|---|
| `RequestChannel` | the network between one requester and one responder: `_send`'s socket per request, and the answer |
| `FirmwareDevice` | `handle_firmware_update` with the hooks of `MowerEmulation`, and the operations that change its state from outside |
| `FirmwareUpload` | runs of `upload.py` (init, upload, flash) one after the other, composed with the device; the properties |
| `UploadSession` | `FirmwareUpload` with what `upload.py` does before the init (`data_download_int`) over a second `RequestChannel`, and with the device's value and firmware threads interleaved inside of their handlers |
| `FirmwareStore` | what a firmware update promises: a store of files, the abstract specification of both |
| `MCFirmwareUpload` | two files of 3 and 2 bytes |
| `MCUploadSession` | two files of 2 and 1 bytes, four sessions that differ in file, content tag and slot |
| `FirmwareUploadProofs`, `UploadSessionProofs` | the theorems |

**State.** `queue` holds the requests under way, oldest first, each with
`live`: whether its socket is still open. `reply` is what has arrived on the
open socket. The device's `firmware_update_current_id`, `firmware_update` and
`content_tag` are its attributes; `flashed` is a history variable, the upload
that was flashed last. Of the client, `phase` is the place in the program and
`position`, `chunk`, `repeat`, `current_offset`, `length` are the local
variables of `upload_firmware`; `attempt` counts the tries of the init
(`upload.py`'s `retry`) and of the flash request.

**Data.** A file stands for its bytes. `received` is the set of files that
begin with what the device has stored; it takes the place of `running_crc16`
and makes the checksum ideal: two files never collide, and differ in every
chunk. The checksum that is announced names the file and, with it, its size.
`max_chunk_size` is written but never read and is left out.

**The store.** `FirmwareStore` knows no requests, retries or threads. A slot
holds nothing, so many bytes of the file announced for it, or a mixture; a
program wants one file and may be told of success. Of its steps these say what
matters: `Announce` takes nothing from a resumable slot that has bytes of the
same file; `Grow` only adds; `Spoil` is for slots that are never resumed; `Drop`
drops all; `Flash` takes a whole file, and after a success no other than the
one reported; `Succeed` needs the program's file in the device. In
`FirmwareUpload` (`ImplementsStore`) a slot is what `Holds` makes of its upload.
In `UploadSession` (`SessionImplementsStore`) the earlier upload that the
firmware thread copied stands for the slot (`Kept`) until the hook put it back,
although a fresh one is stored in between; if the value thread drops that one,
the store drops the slot. If it deletes the slot after the copy and before the
fresh one is stored, the deletion has no effect: the copy, which is of the file
that the init announces, is resumed all the same. The store loses nothing then.

**Steps.** A client action is what happens between two waits: it reads the
answer, or its absence, does all the code does up to the next request, and
sends that. The sleep before a chunk is no state. `Crash` ends the process
anywhere. A device action is one whole handler call. `Refuse` answers with a
status the emulation never sends but the client handles; it is external, as is
the network. `Environment` is everybody else: a new content tag for a slot
drops its upload, the device restarts, and, only while no `upload.py` runs, a
reboot command makes slot 1 current.

**Assumptions.** Requests to one device stay in order (one radio hop); they
may be lost, repeated and arbitrarily late. A closed port is not reused while
an answer to it is under way. Nobody else uploads at the same time, and nobody
reboots the mower during an upload: both would send chunks to another slot, and
nothing in the code claims otherwise.

### Runs

| Run | Question | Bounds |
|---|---|---|
| `firmware_upload` | `SafeInv` (the invariant behind the proof), `FlashedOwnFile`, `ResumableHoldsPrefix`, `ImplementsStore`, `UploadEnds`: with duplicates, refusals, restarts, reboots and slot changes by others | 2 files, slots 1 and 257, 2 requests under way, 1 try of the init and the flash, 2 of a chunk |
| `upload_session` | `TaggedAsUploaded`, `UploadedIsComplete`, `FlashedOwnFile`, `ResumableHoldsPrefix`, `SessionImplementsStore` with the announcement of the file and both threads of the device | as above for each port, without duplicates and refusals, 2 tries of everything, chunks of 1 byte |
| `chunk_too_big` | finding: `True` for a file the device does not have | |

Two files and two slots let a late request meet another file's upload in the
same and in another slot; three bytes in chunks of two have a shorter last
chunk; two requests under way are an original and its repetition, or one left
over from a killed run and one of the next. The number of runs of `upload.py`
is not bounded. Two tries of a chunk are a budget that one packet uses and the
next has lost, which is the case that `UploadEnds` is about; halved and grown
chunk sizes come from one size of two.

`UploadSession` is finer than `FirmwareUpload` where two threads of the device
meet: `handle_firmware_update` copies the earlier upload, stores a fresh one,
and resumes the earlier in its hook; or it looks the upload up and stores the
longer one. `Keep` says what is left when the value thread deleted the slot in
between: Python then changes a dictionary that is no slot's any more. The two
ports are not in order, so `TaggedAsUploaded` needs that `upload.py` only goes
on when it read its own announcement back. With duplicates an init that comes
twice resets the slot, and `UploadedIsComplete` does not hold; a single radio
hop does not duplicate what it confirmed, so the run leaves them out.

**Fairness.** `FairSpec` assumes `WF_vars(Client)` only: `upload.py` runs on
and its timeouts elapse, because `select` is called with one. Nothing is
assumed of the network and the device.

### Findings

- `chunk_too_big`: after CHUNK_SIZE_IS_TOO_BIG or TOO_SMALL
  (`_firmware.py:144-155`) the refused chunk is not read again. The next chunk
  then meets WRONG_OFFSET and the position is corrected; but if it was the last
  chunk, the loop ends and `upload_firmware` returns `True`.

Not a run of its own: `repeat` is not reset when WRONG_OFFSET moves on to
another packet (`_firmware.py:141`), although the comment at `_firmware.py:87`
counts retries per packet.

### Proofs

`TypeCorrect` (`Spec => []TypeOK`) goes action by action.

`FlashIsOwnFile` (`Spec => []FlashedOwnFile`) is not inductive by itself:
that OK came back says nothing unless one knows which request was answered and
what the device worked on then. `SafeInv` adds this in three parts:

1. `LiveRequest`: only the last request in the queue can be waited for, only
   until it is answered, and it is the one the phase asks for. This is where
   the fresh socket per request is needed.
2. `SessionInv`: once the init was accepted, no init of another run is under
   way, and the device works on this run's slot, which holds this run's file
   or is empty. This is where order is needed: whatever a killed run left over
   precedes the init. It is preserved by duplicates because a copy of the own
   init announces the same file.
3. `FlashInv`: an OK to the start request that is still unread, or was read,
   comes with `flashed` being the whole of this run's file, announced as such,
   because the device compares size and checksum before it flashes.

The proofs hold for all sets of files, sizes, slots, chunk sizes and retry
limits, with and without duplicates and refusals, with and without the mower's
hooks.

`SlotsHoldPrefixes` (`Spec => []ResumableHoldsPrefix`) needs to know that a
chunk is stored in the upload of its own file. `ChunksOfFile` says why: a chunk
is only sent when the device had accepted its file's init, so in front of a
chunk that is under way there is no init of another file, and the device works
on the chunk's file, if on any. A new run's init comes behind all chunks of the
runs before. Both conjuncts are inductive together (`SlotInvariant`), with any
mixture of runs, duplicates, refusals and restarts.

`UploadIsComplete` (`Spec => []UploadedIsComplete`) has two hypotheses:
`~Duplication`, because a copy of the init would take back an upload that began,
and no refusals for the chunk size, which are the finding above. `UploadInv` is
inductive then: an answer leaves nothing behind it in the queue, while a chunk is
sent only copies of that chunk (repeated after a timeout) are under way, the
device stores no more than was announced, what it holds of this run's upload
is the beginning of its file, and `InStep`: the client's position is where the
device's upload ends, except for the chunk under way, which may have been stored
already.

`UploadSessionProofs` proves the same for the finer model, and the tag:

- `UploadsAreTagged` (`TaggedAsUploaded`). When the answer to the last get
  arrived, all earlier announcements had been taken, as one port keeps order; so
  from the comparison on, the value under the tag is this run's and no
  announcement can change it (`LastGet`, `TagInv`). With `SessionTypeOK` this
  needs what `upload.py` has while it prepares (`PrepareInv`) and which message
  and upload the firmware thread holds at each of its places (`ThreadInv`).
- `SessionSlotsHoldPrefixes`, `SessionFlashesOwnFile`, `SessionUploadIsComplete`:
  between two steps of the firmware thread the value thread can only drop
  uploads. `HeldInv` says what the thread's copy is worth then: the slot holds
  the same, or nothing. `WorkOfFile`, a half of `ChunksOfFile`, is suspended from
  the copy to the fresh upload, when the device's current id is set and the slot
  is still the earlier file's. The proofs go back to the lemmas about
  `FirmwareUpload` for each step that is atomic in both models.

`UploadImplementsStore` and `SessionIsStore` are the refinements, `Spec =>
Store!Spec`, step by step. What the steps need is in the invariants above:
`FlashInv` makes the reported success the store's, `SessionInv` keeps a late
request from flashing another file after it, and `ChunksOfFile` leaves `Spoil`
to slots that are never resumed. For the two threads `HeldInv` says in addition
that the slot still has what was copied, or nothing, until the fresh upload
takes its place, so that the file is announced only where it was not.
`NoContentAssumption` keeps an empty slot apart from one with bytes.

Only `UploadEnds` is left to TLC; liveness is beyond the prover.

## The service listeners

`ServiceListener` is `_gateway.py:151-240`; `MCServiceListener` names the
services; `ServiceListenerProofs` holds the theorems.

**State.** `listener_threads` is the attribute of that name; `at` is the place
of each thread in `_service_listener`, `serves` the service it was started
for, and `call` the start or stop call that a thread of the program or a
handler is in. There is no lock in the code, so every access to
`_listener_threads` is a step: start is check, register, start; stop is flag,
join, delete, and reads the entry again each time.

**Bounds.** `Threads` bounds the `Thread` objects in use at once; an object
nobody refers to any more stands for a new one. With one user three suffice
for two services. `listener_races` has four for one service; a fifth could only
be another orphan of the same kind.

| Run | Question |
|---|---|
| `service_listener` | `TypeOK`, `OneListener`, `CallsReturn`: one user thread, handlers that stop their own service, datagrams that kill the thread, a port held by another process |
| `listener_races` | `OrphansEnd`: two users start and stop the same service at once |
| `listed_is_running` | finding: a dead listener stays in `service_listeners` |

**Fairness.** `WF_vars` of each caller inside a call and of each listener
thread: threads are scheduled, `select` has a timeout of one second, handlers
return.

**Finding.** `service_listeners` says "running listeners"
(`_gateway.py:237`), but a datagram that the serializer or the XML parser does
not accept ends the thread outside of the `try`, and the entry stays.

**Proofs.** `TypeCorrect` and `ListenersAreSingle` (`OneListener`) for all sets
of services, threads and handlers; the latter for a single user whose handlers
stop at most their own listener (`OneCaller`). `OneListener` becomes inductive with three
more parts: `EntriesMatch` (the entry of a service names a thread made for that
service), `UserCall` (what the user's call knows at each place: before register
the service is not listed, before start its thread is new, between join and
delete the thread of the entry has finished) and `HandlerCall` (a handler's stop of its own listener
never gets past join). `CallsReturn` and `OrphansEnd` are liveness and stay with
TLC.

**Limits.** `CallsReturn` does not hold if a handler of one service stops
another while the program restarts that one: the join waits for the new thread.
No text of the repository allows or forbids it, so the run leaves it out.

## Partner information

`PartnerTable` is the table of a dongle, `PartnerRegistration` the clients: the
wakeup of `upload.py` (258-273) with `get_partner_id`, `register_partner` and
`wakeup_partner` of `_partner.py`. Messages wait in `queue` with the same
socket-per-request rule as in `RequestChannel`; `set` and `wakeup` are not
acknowledged. `Remove` is anybody who removes partners. Of a partner only the
address is kept. The dongle's memory answer is external: the emulation ignores
`partner_information_get_memory`; `free_count` has the meaning of
`device_emulation.py:161`.

| Run | Question |
|---|---|
| `partner_registration` | `OneIdPerAddress`, `AddressesStay`, `WakesOwnDevice`, with three ids, two devices and a third that may be registered, three messages under way |
| `refuses_when_full` | finding: the registration is refused if and only if the table is empty (`_partner.py:131`) |

The properties are for one client at a time, as the code has no protection
against two: with two, both find the same id free. Three messages are a
registration, a wakeup and the next run's lookup; three ids leave one free when
two devices are known. A wakeup whose registration was lost stores a partner
without address, which makes `get_partner_id` raise for later partners; the
model takes the exception.

**Proofs.** `TypeCorrect` holds for any set of clients. `OneId`, `KeepsAddresses`
and `WakesNobodyElse` assume a single client (`Clients = {c}`), which is what the
properties are about, and hold for all numbers of ids, devices and messages
under way. `RegistrationInv` is inductive: the newest message is the one asked
for (`NewestIsAsked`); when an answer is there, everything that was sent before
has been handled, so that the table is what it says but for removals
(`AnswerIsCurrent`); a registration under way is for a free id and for a device
that is not in the table (`RegistersNew`); a wakeup is for an id that is the
device's or nobody's, or is behind its registration (`WakesRegistered`).

## The configuration file

`ConfigFile` is `config_file.py`: the user's and the system's directory, each
without directory, without file or with data; saving is making the directory,
truncating, writing; `Crash` kills the process between any two of these steps.
`session` is what the program goes by: the message of its gateway, if it has one
that has a message, and its dictionary of devices, which it may edit. `load`
takes a gateway (`load(gateway=...)`, which wins over the file) or a message
(`load(inclusion_message=...)`, over which the file wins) as `MessageOf` says;
`load_or_create` refuses both. `save` writes the process's devices with the
message of any gateway that the caller passes, its own, another one, or none.
The history variable `persisted` remembers whether the program may rely on its
message being in the file: after `load_or_create`, after a `load` that took it
from the file, and after a `save` of it.

`ConfigStore` is what that amounts to: one store of a message and of devices. A
call that saves begins, takes effect at one moment, and returns; a crash loses
nothing, except after the save took effect and before the call returned, when it
may lose everything. The run `config_file` checks, from all contents of both
directories, that one process sees such a store (`ImplementsStore`), and that
the message it may rely on is the one it will find the next time, until it saves
with another gateway or with none (`MessagePersisted`). In the refinement
mapping a save takes effect when the file is truncated, or, if there was only a
system file, when making the user's directory hides it (`TookEffect`): until
`Write`, `saving` is what a reader that waits would see. Two names, two
addresses, two messages and one process are enough: devices are independent of
each other, and a store that mixed up messages would need no third.

**A docstring that the code does not keep.** `add_device` says (`config_file.py:155`)
that "the config file is created with a random inclusion message if it does not
exist, similar to `load_or_create()`". The code creates it without a message
(line 171), and the test `test_add_device_without_config_file`
(`tests/test_config_file.py:173`) asserts that it does. `AddDevice`, of
`ConfigFile` and of `ConfigStore`, is what the code does: `ImplementsStore` does
not say that the docstring is kept. What was promised, a saved message after
`add_device` on a missing file, is false in the first step of the model; the
next `load_or_create` creates the message, while `load` returns no gateway.

The file is small, so reading is one step, and its content is written when it
is closed. Two processes at once lose updates; the code promises nothing there
(the docstring at `config_file.py:89` warns of the parallel case), so this is
listed as a hazard and not run.

**Proofs.** `TypeCorrect` holds for any set of processes; `MessageStays`
(`MessagePersisted`) and `ConfigFileIsStore`, the refinement `Spec =>
Store!Spec`, for a process that is alone (`Processes = {p}`), any messages and
any devices. The refinement goes step by step: making the directory and
truncating map to the save's effect or to a stutter, writing to the return, and
a crash while the file is empty to the store's crash that loses all. It needs
`SavedMessage`: a file that is being written is empty, and the message that
the process may rely on is in the file or in what it saves. The assumption
`NoneAssumption` keeps a missing file and a missing directory apart from data.

## Inclusion

`InclusionDevice` is the device: the sender thread
(`start_device_description_sender`), and the handlers of network management and
device description on the listener threads. `Inclusion` composes it with
`examples/simple_value_listener`, whose description and value threads both run
`device_description_handler`; a place in the handler per access to `devices`.

The run `inclusion` checks, for one device on or off the whitelist,
`GetsIncluded` and `Settles`, with losses, stale descriptions and exclusions at
any time. Two datagrams under way per direction are a stale description and
the current one. **Fairness:** weak for the threads, because `Event.wait` has a
timeout and requests too; strong for the arrival of descriptions and include
messages, which are sent again and again: a radio link that loses every one of
them cannot include a device. `StopSender` sets the event itself because the
attribute hides the method of the same name. The wakeup channel and main's
printing are left out.

**Proofs.** `InclusionProofs` has `TypeCorrect` and `UpdatesFindEntry`, for any
bound and any value ids: a thread that found the device's entry finds it when it
updates it, because an entry is replaced, possibly by the other thread, and never
removed. `TypeOK` needs it: an update of an entry that is not there would be a
KeyError.

## The service listener example

`ReportQueues` is `examples/service_listener`. All accesses to `device_infos`
and `report_queues` are under one lock, so each critical section is one step;
`queue.Queue` objects have an identity, because a handler fills the queue it
looked up after it released the lock, when that queue may have been emptied or
forgotten and another registered. A request thread waits for both descriptions
in one step, answered or failed, and prints what it finds; a report whose
decoding raises ends it. A report that is nowhere any more stands for a new one.

| Property | Says |
|---|---|
| `OneRequest` | a device is asked by one thread at a time, exactly while it has a queue, so `del` and `pop` never raise and no queue is orphaned |
| `QueuedIsPrinted` | what is in the queue when the descriptions arrive, behind nothing undecodable, is printed |
| `EventuallyKnown` | a device whose reports keep arriving becomes known, although requests fail |

The run `report_queues` has the two listener threads of the example and three
reports of one device, one of them undecodable: devices share nothing but the
lock. **Fairness:** weak for the threads, as requests have timeouts; strong for
the answer, since a device that never answers is never known. That reports
keep arriving is a premise of `EventuallyKnown`, not of the specification.

What is *not* true of the code, and promised nowhere: a report that is put into
a queue after it was emptied is never printed, nor is one behind an undecodable
report or in the queue of a failed request; and a report that finds the
descriptions known may be printed before older ones.

**Proofs.** `ReportQueuesProofs` has `TypeCorrect` and `SingleRequester`
(`OneRequest`) for any listeners, devices, reports and queues, with reports of
different devices interleaved. Behind `OneRequest` is `SingleRequest`: while a
device has a queue, either one listener thread is about to start the request or
one request thread asks, never both and never two; without a queue, nobody. And
`QueueOfDevice`: a listener thread fills the queue it looked up with a report of
that queue's device. Both are inductive with the types, as a request thread
finds its queue only because no other can have removed it.

## Values

`ValueProperties` is the validation of `value_properties.py`, `MowerCodec` the
packing and unpacking of `mower_helpers.py` with the comparison of schedules,
`MessageElements` the way of descriptions from a device's dictionaries through
the elements of a message to the program's (`_device_emulation_types.py`,
`_types.py`, `_device.py`), and `ValueAccess` a program that sets and gets one
value of a device, or gets one of its descriptions, over `RequestChannel`:
through the generated property, or, as `upload.py` does with
`data_download_int` (286-311), setting and getting it until it is what it set.
`meant` is history: what the program meant by the value that is stored.

Numbers are integers in a finest unit. In the run, 40 units are 1.0 and 4 units
take the place of 10^-6, the last digit that `round` leaves; descriptions with
whole and broken steps, missing limits, empty ranges and steps that do not fit;
inputs at, next to and between the limits and multiples, and NaN. Infinity is
left out. Of floating point only the rounding is modelled: a number may be off by
less than the last digit. A value that nobody set is None in a
`DeviceEmulation`, and its report raises in the getter. An answer carries the
control messages that came with it, up to two, in any order.

A start is an hour, a minute and a second, a duration a number of seconds, and a
date has its second, as `datetime` has them; `mower_helpers.py` packs hours and
whole minutes (189, 201, 280), so that 90 seconds are read back as 60. The
inputs of the run have seconds, and the properties say "to the minute"
(`InMinutes`). Unpacking raises where `datetime` would, for an hour of 24 or the
30th of February (`IsTime`, `IsDate`). Left out are microseconds, time zones and
negative durations, and the eighth digit that `_parse_task` (196) makes of a
weekday byte with its first bit set. A description may have no `max_length`
(value_properties.py:82-84); then a buffer of any length is let through.

| Property | Says |
|---|---|
| `WithinDescription` | the setter lets nothing through that the description excludes |
| `ReadsWhatWasMeant` | no byte sequence or element is read as something else, in any structure of a mower, the time zone and the four descriptions; times and dates lose their seconds and nothing else; the conversion raises for a value that was never set, for starting points of two sizes and for a device description with an entry of a wrong type, and otherwise not; 30 bytes of starting points (five points of six bytes, or six of five) are kept out by `max_length` alone, and may be anything if there is none; the type of a number in a value description follows from its limits, as it is not transmitted |
| `TakesEncrypted` | deleting from the list of control messages while going through it still gives the right verdict |
| `IdenticalSchedules` | schedules compare equal if and only if the mower runs at the same times, to the minute |
| `ConfirmedIsStored` | a confirmed `data_download_int` is stored and not replaced by an older one |

What a mower only reports is given as bytes together with what they mean,
taken from the layout of the structure, so that the decoder is checked against
vectors; what a program sets goes through `Pack` and `Unpack`. Numbers of 32
bits are pairs of halves, because TLC's are of 31. A description that `toetree`
cannot write (`_types.py:210`) makes the handler raise, and the get stays
unanswered.

Two requests under way are a set and a get, or one of each of two attempts.
An `int` property cuts off: 0.9999999 is accepted as 1 and read as 0;
`ReadsWhatWasMeant` allows less than 1. `pack_settings_control` returns 18
bytes, its docstring says 16.

**Proofs.** All are for any descriptions, inputs, retry limits and numbers of
requests under way, with duplicates.

- `ConfirmedStays` (`ConfirmedIsStored`) and `TypeCorrect`. `AccessInv` is
  inductive: only the answer to the last get is waited for (`LastGet`), and when
  it is there, no set is left under way and the answer is what is stored
  (`ConfirmInv`), as one port keeps order. That the comparison of what was
  *read* says something of what is *stored* is `DownloadRoundTrip`.
- `WrittenIsRead`: `ReadsWhatWasMeant` for whatever can be set (`WrittenKinds`)
  but starting points. `AnswerInv` says that an answer is what was stored when
  it was given, together with what that meant, and that it fits the
  description; the rest is one round trip per
  structure (`ScheduleRoundTrip`, `SettingsRoundTrip`, `ShortenRoundTrip`, ...):
  what is packed is unpacked as it was, for every value of the fields and lists
  of every length, but for the seconds of starts, durations and dates, which are
  cut off; and the getter raises for a value that was never set only. Structs of one size lie one behind the other (`Joined`), so
  that they come apart again (`ComeApart`) without any recursion; weekdays and
  flags are the bits of a byte.
- `PointsAreRead`: the same for starting points, if the description leaves less
  than 30 bytes (the one in the tests has 18). Points have five or six bytes,
  so where one begins depends on those before it (`Before`, with which
  `PackPoints` needs no recursion; `PointsInOrder` checks it against
  `FlattenSeq`). In less than 30 bytes a length is a multiple of six only if
  all points are long, and of five only if all are short (`PointsRoundTrip`);
  what is neither raises, which is so for points of two sizes and for no
  others. With 30 the theorem would be false.
- `SchedulesIdentical` (`IdenticalSchedules`) rests on `ScheduleRoundTrip`, on
  `NoSeconds` (what the device has from the beginning has no seconds to lose)
  and on `SchedulesCompare`: two schedules combine to the same tasks if and only
  if they run at the same times.
- `StoredFits` (`WithinDescription`): `FitInv` says that what is stored fits,
  and that every set under way was let through. A number is within half of the
  last digit of its rounding (`Rounds`), and rounding keeps the order
  (`RoundsInOrder`), so that a multiple is in the range with the number. For a
  step below 2.0 the check leaves nothing over (`StepChecked`); from 2.0 on
  `_check_step` compares a quotient that is *rounded*, and lets through what
  is off by half of the last digit times the step (`Slack`): with six digits
  and a step of 1000.0, by 0.0005. The property says so, and one description
  of the run has such a step.
- `EncryptedIsTaken` (`TakesEncrypted`): `Taken` is the loop of `_send` for the
  two control messages it may see, entry by entry.

The assumptions are what `struct.pack` and the named tuples admit
(`InputAssumption`: bytes, words, names of the enumerations), that the device's
own value is bytes, which read as what they mean (`InitialAssumption`; for
`data_download_int`, that it was packed, and that its description has room for
the 8 bytes if it has a `max_length`, `DownloadAssumption`) and fits its own
description (`FitsAssumption`), that a limit is a number or missing, and that
None is no buffer and no number.

Left to TLC: `ReadsWhatWasMeant` for what a device only reports, which is
vectors, and for its descriptions.

## What is proved and what is only checked

| Theorem | Module | Property | Holds for |
|---|---|---|---|
| `TypeCorrect` | `FirmwareUploadProofs` | `TypeOK` | all |
| `SessionSafe`, `FlashIsOwnFile` | `FirmwareUploadProofs` | `SafeInv`, `FlashedOwnFile` | all |
| `SlotsHoldPrefixes` | `FirmwareUploadProofs` | `ResumableHoldsPrefix` | all |
| `UploadIsComplete` | `FirmwareUploadProofs` | `UploadedIsComplete` | no duplicates, no refusals for size |
| `UploadImplementsStore` | `FirmwareUploadProofs` | `ImplementsStore` | all |
| `SessionTypeCorrect`, `UploadsAreTagged` | `UploadSessionProofs` | `SessionTypeOK`, `TaggedAsUploaded` | all |
| `SessionFlashesOwnFile`, `SessionSlotsHoldPrefixes` | `UploadSessionProofs` | `FlashedOwnFile`, `ResumableHoldsPrefix` | all |
| `SessionUploadIsComplete` | `UploadSessionProofs` | `UploadedIsComplete` | no duplicates |
| `SessionIsStore` | `UploadSessionProofs` | `SessionImplementsStore` | all |
| `TypeCorrect`, `ListenersAreSingle` | `ServiceListenerProofs` | `TypeOK`, `OneListener` | all; one caller |
| `TypeCorrect` | `PartnerRegistrationProofs` | `TypeOK` | all |
| `OneId`, `KeepsAddresses`, `WakesNobodyElse` | `PartnerRegistrationProofs` | `OneIdPerAddress`, `AddressesStay`, `WakesOwnDevice` | one client |
| `TypeCorrect` | `ConfigFileProofs` | `TypeOK` | all |
| `MessageStays`, `ConfigFileIsStore` | `ConfigFileProofs` | `MessagePersisted`, `ImplementsStore` | one process |
| `TypeCorrect`, `UpdatesFindEntry` | `InclusionProofs` | `TypeOK`, `EntryStays` | all |
| `TypeCorrect`, `SingleRequester` | `ReportQueuesProofs` | `TypeOK`, `OneRequest` | all |
| `TypeCorrect`, `ConfirmedStays` | `ValueAccessProofs` | `TypeOK`, `ConfirmedIsStored` | all |
| `StoredFits` | `ValueAccessProofs` | `WithinDescription` | all |
| `EncryptedIsTaken`, `SchedulesIdentical` | `ValueAccessProofs` | `TakesEncrypted`, `IdenticalSchedules` | all |
| `WrittenIsRead` | `ValueAccessProofs` | `ReadsWhatWasMeant` | what is set, but starting points |
| `PointsAreRead` | `ValueAccessProofs` | `ReadsWhatWasMeant` | starting points in less than 30 bytes |

"All" is all values of the constants that their assumptions admit. These say
that bounds are natural numbers, that a constant which stands for nothing
(`NoUpload`, `NoThread`, `NoEntry`, `None`, `Waiting` ...) is not one of the
things, and what the code guarantees: chunk sizes and numbers of tries are
positive, a step is positive, what is packed fits its fields, the device's
value was packed.

Model checked only: `ReadsWhatWasMeant` for what is only reported (see Values),
and liveness under fairness (`UploadEnds`,
`CallsReturn`, `OrphansEnd`, `GetsIncluded`, `Settles`, `QueuedIsPrinted`,
`EventuallyKnown`), which is beyond the prover.

## Not modelled

- The serializer (a native library), the remote gateway (ssh), the content of
  the inclusion message (cryptography), HTML output and logging.
- `Status` and the decoding of status reports: tables of names, which only the
  examples print. `handle_status` answers a constant, `handle_configuration`
  only logs.
- Several commands in one message of `_generic_handle_commands`, and its delete:
  no client here sends either. (`has_delete is not None` at
  `device_emulation.py:225` is true of the default `False` too, so that an
  emulated device lets its values and value descriptions be deleted.)
- How names become identifiers in `value_properties.py`.
- Several processes on one configuration file, several clients of one dongle,
  several uploads to one device: the properties do not hold there and nothing
  in the repository says they should. They are listed as hazards.
- Examples that print what they receive or send one command.

## Plan

Done: the firmware update (1), the service listeners (2), partner information
(3), the configuration file with crashes (4), inclusion (5), values and mower
helpers with all decoders and the descriptions (6), `UploadSession` (7), the
service listener example (8); every safety invariant that can be stated for all
values of the constants, and the refinement of `ConfigStore`, as theorems (9);
`FirmwareStore`, which `FirmwareUpload` and `UploadSession` implement (10).

Left:

11. An abstract specification of the partner table (each address has one slot, a
    wakeup goes to it or fails) that `PartnerRegistration` implements for one
    client.
