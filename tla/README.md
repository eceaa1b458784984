# A TLA+ verification of mtp-rs

mtp-rs talks MTP/PTP to phones and cameras over USB (`nusb`), over Windows
Portable Devices (WPD), and to a virtual device used in tests. This directory
holds TLA+ models of the program from the USB endpoints up to the commands of
the command-line tool, the TLC runs that check them on small instances, and
TLAPS proofs of what they promise for instances of any size.

Paths below are relative to `src/crates/mtp-rs/src` unless they start with
another crate. `PROJECT.json` maps every definition to the lines it models.

## 1. The system

### Components, their state and their operations

| component | state | operations |
|---|---|---|
| PTP session (`ptp/session/mod.rs`, `ptp/mod.rs`) | operation lock, transaction counter, recovery flag with the abandoned transaction's id | `execute`, `execute_with_receive`, `execute_with_send`, streamed variants, `recover_if_needed`, open, close |
| Streamed transfers (`ptp/session/streaming.rs`) | buffer, payload remaining, "large object", short read, expected zero-length packet, skipped replies, the lock's guard | `next_chunk`, `cancel`, drop; `execute_with_send_stream` |
| USB transport (`transport/nusb.rs`) | the bulk and interrupt endpoints with their pending transfers and locks, quirks (`drain_on_cancel`, split headers) | `send_bulk`, `send_bulk_streaming`, `receive_bulk`, `receive_interrupt`, `cancel_transfer` (class cancel, drain, settle), `reset` |
| File downloads (`mtp/stream.rs`, `mtp/backend/usb.rs`) | range, offset, the read in flight, pacing | `start`, `next_chunk`, `close_full_window`, `cancel`, drop |
| USB backend (`mtp/backend/usb.rs`, `mtp/storage.rs`) | which listing and partial-read operations the device has, what it declined | listing, upload, copy, move, rename, delete |
| WPD backend (`mtp/backend/wpd`) | request queue, data channels, kept read stream, upload in progress, references to the worker | one request per backend call, `Shutdown`, drop |
| Virtual device (`transport/virtual_device`) | backing directories, object table, next handle, session flag, pending upload, queues of replies and events | the MTP operation handlers, `send_bulk`/`receive_bulk`, the file watcher, the registry's pause/rescan/re-key |
| Opening and hotplug (`mtp/device.rs`, `mtp/hotplug.rs`, `ptp/device.rs`) | builder options, known devices | open with or without session reuse, arrival and departure stream |
| Containers and datasets (`ptp/container.rs`, `ptp/pack`, `ptp/types`) | none | encoding and decoding |
| Command-line tool (`crates/mtp-rs-cli`) | what a command has resolved, temporary files, staging folders | `get`, `put`, `cp`, `mv`, `rm`, `mkdir`, `rename`; `ls`, `info`, `doctor`, ... |

### How they interact

A backend call of the USB side is one or more transactions of the session. A
transaction takes the operation lock, heals an abandoned predecessor through
`cancel_transfer`, gets an id, writes its command, moves data and reads its
response. A streamed download keeps the lock inside the `ReceiveStream` the
caller holds; `FileDownload` bounds that by reading a file in windows. Futures
may be dropped at any await, so every handler is interruptible there, and what
it leaves behind is the next holder's problem. On Windows one thread owns the
COM device and takes requests from a queue; data flows through bounded channels
that either side may drop. The virtual device implements the transport trait:
one mutex covers the handlers, the watcher's callback and the registry, but the
file system's notifications reach the watcher late.

### What is hard here, and what makes each part correct

* **Session**: the pipe is shared and has no framing of its own, so a reply
  left behind by one caller can become the answer of the next. A call must get
  its own answer or fail; an abandoned transaction must be flagged, named
  correctly and drained before the next send; the lock must come back.
* **Streams**: the end of a payload is found from lengths, short packets,
  zero-length packets and a 4 GiB sentinel. The file must be exactly the
  object's bytes, the buffer bounded, an unread remainder flagged.
* **Downloads**: short, empty and oversized reads, dropped futures, the reach
  of 32-bit partial reads. The range arrives without holes, and ends.
* **WPD**: one worker serves everyone; a blocked channel, a kept stream or a
  stopped worker must not block, mix up or lose anyone else's call.
* **Transport**: a dropped future leaves its transfer on the endpoint, and the
  next call finds it. No read may be lost, repeated or taken by the wrong call,
  and every cancel must come to an end.
* **Opening**: a killed process leaves its session open on the device and its
  replies in the pipe; two devices may share a model or a serial.
* **Listings**: each device answers a root listing and a property list in its
  own way, while files come and go. A listing hides nothing, invents nothing,
  stops soon after it is cancelled, and ends.
* **Changes to objects**: an upload is two transactions, a copy is a check, a
  copy and a verification, and other tasks and the phone act in between.
* **Datasets and dates**: limits of widths and length bytes, cut answers,
  surrogates, leap years, offsets.
* **Command-line tool**: any call may fail and the process may be killed between
  any two; it must not cost a file it was not asked to give up.
* **Virtual device**: handles and events must stay truthful while the host,
  other programs, late notifications and test harnesses change the tree.

The list of hazards with their lines is in `PROJECT.json`.

## 2. Modules

| module | models | composition |
|---|---|---|
| `TransactionIds` | id arithmetic: `TransactionId::next`, `is_stale_reply` | |
| `BulkLink` | the device behind the two bulk pipes (external) | |
| `PtpSession` | the session and `cancel_transfer`, several tasks | extends the two above |
| `SerialRpc` | what a session promises: serial calls, own answers | refined by `PtpSession` (`ImplementsSerialRpc`) |
| `PtpSessionProofs` | theorems about `PtpSession`: types, own replies, recovery | |
| `SessionDataProofs` | own data, refinement of `SerialRpc`, the session heals itself | extends `PtpSessionProofs` |
| `TransferProofs` | theorems about `ReceiveStream`, `FileDownload` and `BulkSend` | extends `MCTransfers` |
| `LinkProofs` | theorems about `UsbTransport`, `Hotplug` and `SessionOpen` | extends `MCLink` |
| `ObjectProofs` | theorems about `UsbObjects` | |
| `HostProofs` | theorems about `CliCommands`, `MtpDateTime` and `DeviceOpen` | |
| `BackendProofs` | theorems about `UsbListing` and `WpdWorker` | extends `MCBackends` |
| `VirtualProofs` | theorems about `VirtualDevice`, its watcher and its harnesses, and the file tree under it | extends `MCDeviceWatch` |
| `SessionOpen` | opening over what a dead process left: OpenSession, reuse, close, drain, the first GetDeviceInfo | before `PtpSession` begins |
| `UsbTransport` | endpoints, locks, drains, cancel, reset, the event listener | details `cancel_transfer` of `PtpSession` |
| `ReceiveStream` | `next_chunk` byte by byte over USB transfers | details the `receive`/`more` steps of `PtpSession` |
| `BulkSend` | `send_bulk_streaming`: chunks cut into transfers, the last packet | details the payload write of `PtpSession` |
| `FileDownload` | windows and held-open reads over a body | the body is `ReceiveStream` seen through its chunks |
| `UsbListing` | listings and walks of the USB backend | each step a transaction that `SerialRpc` says runs alone |
| `UsbObjects` | uploads, copies, moves, renames and deletes by several tasks | as above |
| `WpdWorker` | the Windows worker, its clients and channels | |
| `DeviceOpen` | which device, interface and backend an open or reset reaches | |
| `Hotplug` | `DeviceWatch` | |
| `Datasets` | the bytes of integers, strings, containers, datasets, property lists | writer and reader composed over a transfer that may be cut |
| `MtpDateTime` | the calendar, dates and file times | |
| `CliCommands` | the command-line tool's commands over one storage | |
| `BackingStore` | the file tree under the virtual device | |
| `VirtualDevice` | handlers, watcher, registry | extends `BackingStore` |
| `MC*` | constants and scenes for TLC | |

Some `MC*` modules put several models, or two instances of one, side by side: a
variable `scene` chooses one in the initial state, its steps leave the others
at rest, and fairness is that of the chosen one's specification. A run of such a
module checks each of them on its own.

### PtpSession

A step ends where the code awaits. `lock`, `counter` and `recovery` are the
fields of `PtpSession`; `pc` says where each task's call stands, `op` holds what
the lock's holder knows of its transaction (id, data collected, replies
skipped) and `cancel` the `cancel_transfer` it runs. `issued` numbers the
transactions; packets carry that number (`req`) beside the id the code sees,
and the properties compare numbers. Operations are `execute`, `close` (which
skips no late replies), `receive`, `stream` and `send`.

`Acquire` is the lock plus `recover_if_needed` up to its first await: the flag
is taken in the same step. `SendCommand`, `SendData` and `SendPayload` are the
bulk writes; a failed write is `TransferError` before or after one of them.
`ReceiveResponse`, `SkipStaleReply`, `ReceiveData`, `ReceiveMore` and
`ReceiveUnexpected` are the branches of the receive loops, which agree in the
buffered and the streamed variants. `StreamCancel`, `ClassCancel`, `DrainRead`,
`DrainGivesUp`, `SettleHealthy`, `SettleWedged` and `CancelFails` are
`cancel_transfer`. `DropWaiting`, `DropArmed` and `DropCancelling` are a dropped
future, told apart by what its destructors do.

`BulkLink` is the device: it takes commands in order, replies with at most one
data container and one response, takes whatever comes for data while it waits
for some, and on a class cancel gives up, ignores it or goes silent.

### ReceiveStream

The device's answer is a line of bytes: late replies, data container, response,
cut into USB transfers whose end shows as a short or zero-length packet or not
at all. The buffer is the stretch between `s.pos` and `got`, so no content is
needed. The fields of `s` are those of the Rust struct.

### FileDownload

`file` is the range with the pacing, the partial reads the device has and the
caller's patience; the rate estimate of the pacer is any window size of `Wants`.
A body yields any number of bytes up to what the device serves, which may be
less, nothing or one more than was asked. `at` is `next_chunk`'s await.

### WpdWorker

A unit is what one channel message carries. `futures::mpsc` admits one message
more than its bound and makes the sender wait until there is room again
(`Flushed`). `kept` is `last_read`; it records where the stream is (`pos`) and
where the worker believes it is (`at`). `IsLast` says that a download holds the
backend's last reference.

### VirtualDevice

`objects`, `nextHandle`, `send`, `command`, `replies`, `events`, `pauses` and
`dropped` are fields of `VirtualDeviceState`; `disk` is the backing tree and
`notes` are notifications on their way. Every handler is one action, with the
refusals in the code's order. `holding` and `dirty` follow test harnesses. Of a
change that touches several entries the file system reports in any order that
puts a folder before its contents when they come and after them when they go
(`ParentsFirst`, `ParentsLast`), so that `notes` is one of several sequences.
`UnwatchedSpec` is a device whose backing directories nobody watches.

### UsbTransport, BulkSend and SessionOpen

In `UsbTransport` reads and events are numbered in the order the device sends
them. `bulkIn` and `intrIn` are the transfers on the endpoints, which outlive
the future that submitted them; `host` is the await at which the session's call
stands, `listener` that of `next_event`, and `intrLock` the mutex both need.
`taken`, `thrown`, `heard` and `swallowed` record who got what.

`BulkSend` counts bytes: the chunk at hand, the buffer, and the lengths of the
transfers the device got. Completions come in the order of submission, also
those of an earlier call that stopped waiting.

`SessionOpen` has one process at a time and a pipe of replies. A process may die
anywhere; `Leftovers` is what a transaction cut anywhere leaves. The modes are
the library's open with and without reuse and `PtpDevice`'s, which asks for the
device info outside a session first.

### UsbListing and UsbObjects

`UsbListing` follows one call at a time through `list`: the property-list
requests (`required`, `optional`), the three root requests (`all`, `folder`,
`samsung`), the queries per handle (`info`, `size`), and the walk of
`collect_objects_recursive` over what it found. Its trees are acyclic: on a
device that listed a folder below itself the walk would not end. `dev` holds the device's
quirks, `off` and `declined` what the backend remembers of refusals. `history`
remembers which objects were there all the time, at some time, and whether
anything moved, for the properties.

In `UsbObjects` each task runs one call; `awaiting` is the object the device
expects data for, which the session's lock does not protect between the two
transactions of an upload. `style` is how a device copies onto a taken name, as
the comments of `storage.rs` report it of Android and others. `trail` is history.
The look before a copy (`CopyChecksSiblings`) is one `collect_in`, which keeps
the objects it could describe: any part of the destination may be missing from it
(`omitted`), none of that blocks the copy, and a destination of which nothing
could be described is an error. What it did not show of the copy's name is
remembered in `trail.unseen`. Any transaction may take effect though its answer
is lost (`Answered`, `SendObjectInfoUnheard`).

### DeviceOpen and Hotplug

`DeviceOpen` is a function from what is attached and what is requested to an
answer, resolved in one step. Its inputs are all descriptors up to two
interfaces for one device, and all pairs of devices with serials, drivers and
models alike or not.

`Hotplug` is the poll function of the stream: first enumeration, queued events,
a notification, the settle delay, the difference.

### Datasets and MtpDateTime

A byte has `Base` values instead of 256, so that a length byte, a 16-bit unit
and a 32-bit limit come early. Packing and unpacking are written as the code
does them, the builders of the virtual device and of uploads on one side, the
`from_bytes` readers on the other, with `Then` for Rust's `?`; `Arrive` delivers
all of a payload, or its first bytes only, to its reader. Dates are
records of digit groups, since a sequence of characters adds nothing.

### CliCommands

One command runs against a storage of at most seven objects. Every call to the
library or the file system is a step of its own, `CallFails` lets it fail,
`Killed` ends the process and `OtherAdds` lets another program add a file. A
library call that fails may have had its effect (`Unheard`): its answer was lost,
so the file is deleted, moved or renamed, the staging folder made, the upload
announced, and the command knows nothing of it, least of all the new handle.
`device` is what a device does about a taken name (refuse, keep both,
overwrite), whether it folds case, whether it can rename, and which objects it
cannot describe (`dim`). Whatever looks at a folder looks at a listing (`Seen`):
path resolution, the siblings of `cp` and `rename`, `copy_object`'s own look, the
cleaning of the staging folder and the walk of `get` pass over the others, and a
folder with nothing else in it cannot be listed (`Listable`). A device that wrote
over such an object on a copy may answer with a handle that names nothing, which
`verify_copy` makes an error. Unlike in `UsbObjects`, `dim` does not change while
a command runs, and what is made meanwhile can be described. Names that no local
file can have are on storages for `get` only.

## 3. Runs

| run | checks | instance |
|---|---|---|
| `replies` | `TypeOK`, `OwnReply`, `OwnData`, `RecoveryNamesLast`, `ImplementsSerialRpc` | scene "late": 2 tasks, 4 transactions, ids modulo 8 from 5 so that the counter wraps, drains that end too early, no class cancel |
| | the same and `SessionHeals` | scene "healing": 2 tasks, 3 transactions, drains that wait for the device, class cancel obeyed, ignored or wedging |
| `progress` | `LockIsReleased` | 2 tasks, 2 transactions, streams and split uploads, silent devices |
| `transfers` | `StreamIsExact`, `BufferIsBounded`, `UnreadIsFlagged` | header 2, packet 4, read 8, sentinel 22, objects up to 40 bytes, up to 3 late replies |
| | `DownloadIsExact` | files up to 5, windows 0, 2, 4 capped at 3, 32-bit limit at 2 |
| | `PhaseIsDelimited` | packets of 2, transfers of 4, two calls of 3 chunks up to 5 bytes, one transfer that outlasts its wait |
| | `TransferTypeOK`, `TransfersEnd` | the three |
| `device_tree` | `VirtualTypeOK`, `HandlesAreTruthful`, `RefusalsAreClean` | a writable and a read-only storage, depth 2, 3 handles, one other program |
| `device_watch` | `WatcherLeavesNoPhantoms` | 2 names, 3 handles, late notifications, one other program |
| | `PausedHarnessesCompose` | 2 harnesses, 3 handles |
| `backends` | `ListingIsExact`, `CancelIsPrompt`, `WalkReportsTree`, `FastPathSurvives` | 6 devices that have each quirk once, 3 trees of 2 folders and 2 files, one change during the call |
| | `ReadsAreServed`, `UploadVerdict` | 2 clients, 2 calls, channels of bound 1, objects of 3 units |
| | `BackendTypeOK`, `BackendsProgress` | both |
| `host_calls` | `ObjectsTypeOK`, `UploadsAreTruthful`, `CopiesAreTruthful` | 2 tasks with a call each, 3 names two of which differ in case, 2 folders, 4 handles, one file made on the phone, any of the objects missing from a look |
| | `RemoteIsSafe`, `LocalIsSafe` | storages with any of 4 optional objects, one of all perhaps beyond description, every command line of a small grammar, 2 faults with or without effect, one file added meanwhile |
| | `OpensWhatWasAsked` | any two interfaces, any two devices, a virtual one or none |
| | `DatasetsAreRead` | bytes of 8 values, names up to the limit, every type code, units up to the length byte's limit |
| | `DatesAreReal` | every day of a 400-year turn, instants and offsets at their limits, every suffix |
| `link` | `TransfersAreKept` | 3 reads, 2 events, 2 cancels, resets or drains, 2 status polls |
| | `OneDeathHeals` | 2 deaths, one silence, leftovers of up to 3 chunks, a drain of 2 reads |
| | `OneDevicePerPort` | 2 ports, 2 devices, 3 changes, one failed enumeration |
| | `LinkTypeOK`, `LinkProgress` | the three |
| `dropped_recovery` | violates `HealedBeforeUse` | as "healing", and callers drop during recovery |
| `download_resume` | violates `ResumesWithoutHole` | files up to 4 |
| `wpd_drop` | violates `DropReturns` | 2 clients, one download |
| `replace_asked` | violates `ReplaceIsAsked` | no faults, nobody else, every object described |

Many of these are conjunctions of named properties, each with its comment in
its module:

* `SessionHeals`: `HealedBeforeUse`, `UnflaggedIsClean` in the scene "healing";
* `StreamIsExact`: `YieldsObject`, `NoFalseAlarm`; `DownloadIsExact`:
  `DeliversRange`, `WindowsMakeProgress`, `FreeAfterWindow`; `TransfersEnd`:
  `StreamEnds`, `DownloadEnds`;
* `HandlesAreTruthful`: `HandlesStayFresh`, `AnnouncedOnce`; `RefusalsAreClean`:
  `RefusalsChangeNothing`, `ReadOnlyIsUntouched`;
* `ListingIsExact`: `ListingIsComplete`, `ListingIsSound`; `ReadsAreServed`:
  `ReadsOwnBytes`, `NeverBusy`; `BackendsProgress`: `ListingEnds`,
  `CallsReturn`, `KeptIsReleased`;
* `TransfersAreKept`: `ReadsAreKept`, `NoDrainTransferLeft`, `EventsSurvive`;
  `LinkProgress`: `CallsEnd`, `SessionReopens`, `CatchesUp`;
* `UploadsAreTruthful`: `AloneUploadsKeepTheirBytes`, `PartialsAreSurfaced`;
  `CopiesAreTruthful`: `CopyIsReal`, `ClobberNeedsRace`;
* `RemoteIsSafe`: `CopyHarmsNothing`, `StagingIsCleared`, `NoJunkFromPut`;
  `LocalIsSafe`: `InterruptedGetKeepsFile`, `FolderCopyIsFaithful`;
* `OpensWhatWasAsked`: `AskedIsReached`, `ResetIsUsb`, `ListedOpens`;
* `DatasetsAreRead`: `ReadsWhatWasWritten`, `ListsStayInStep`,
  `NothingIsHalfRead`, `PathsAgree`, `RawStringsAreRead`; `DatesAreReal`:
  `CalendarIsGregorian`, `FileTimesSurvive`, `ParsedDatesAreReal`.

Why the bounds are enough to be interesting: two tasks and three transactions
let one transaction be abandoned, the next be abandoned during its recovery and
a third meet both; ids modulo 8 put the wrap and both reserved ids inside four
transactions. In the stream all sizes keep the code's order (header and response
below a packet, read a multiple of it, sentinel above a read), and 40 bytes
pass every residue of packet and read on both sides of the sentinel. A file of 5
with a limit of 2 has windows on both sides of the limit. Two WPD calls are a
kept stream and the request that meets it, and a download longer than its
channel blocks the worker. One change of the tree during a listing is an object
that comes, goes or moves between any two of its requests; with two folders a
walk has one to visit while the other changes. Two tasks are enough to put one
upload between the halves of the other. Two faults are a failed call and the
failure of its clean-up; one object beyond description is enough to hide a clash,
and a folder's only object to make it unlistable. Leftovers of three chunks outlast a drain of two reads,
and a second death falls into the open that heals the first.

`CHECK_DEADLOCK FALSE` appears everywhere because calls are bounded: a behaviour
ends when they are used up.

Instance choices that restrict what is claimed:

* `SessionHeals` assumes drains that outlast a busy device (`ThoroughDrain`), which
  the 300 ms idle timeout is meant to achieve, callers that do not drop during
  recovery (see the finding), and no uploads. Without the first, the scene "late"
  of `replies` shows what still holds.
* `OwnData` holds where no class cancel is sent and where drains are thorough. With early
  drains and a device that obeys a class cancel it does not: data of the
  abandoned transaction may be taken for the next one's, because ids of data
  containers are not compared.
* `FastPathSurvives` and `WalkReportsTree` speak of listings during which no
  object came or went, `OneDeathHeals` of one death on a device that answers,
  through the library's own open.
* `AloneUploadsKeepTheirBytes` excepts uploads between whose transactions
  another task sent a SendObjectInfo, and `ClobberNeedsRace` copies whose
  destination changed after they had looked, and objects that were missing from
  that look because the device could not describe them, as `storage.rs:626-628`
  says.
* `CopyHarmsNothing` is about `cp` alone, and `RemoteIsSafe` with it about `cp`
  and `put`: what `mv`, `cp` and `put` owe the file at their target is
  `ReplaceIsAsked`, which `put` breaks. It excepts objects no listing shows under
  the target's or the source's name (`IsUnseen`), and it promises that `--replace`
  was not in vain only where no call failed, nobody else wrote, and all of the
  destination could be described (`Undisturbed`).
* `StagingIsCleared` excepts the failure of `create_folder` itself, and
  `NoJunkFromPut` the failure of an upload's first transaction (see below), since
  the handle to delete is in the answer that was lost.
* `CopyHarmsNothing` and `ReplaceIsAsked` except names that differ from the
  asked one in case alone on a device that folds case (`IsVariant`): the manual
  says that paths are matched exactly.
* `CallsEnd` excepts a cancel that waits for a `next_event` (see below).
* `NoPhantoms` and `HarnessesCompose` assume that nobody creates onto a taken
  name and that folders are not renamed (`FreshNames`, `DirMoves`). Otherwise
  two handles may name one path, and children of a renamed folder keep their
  old paths.
* A folder is never moved or copied into itself.

### Fairness

* `PtpSession`: the holder of the lock is polled and its timers fire (weak
  fairness of the holder's steps). The device owes nothing: a silent one ends a
  receive with a timeout and a drain with its idle timeout. `LockIsReleased`
  excepts a caller that starts and drops `cancel()` for ever.
* `ReceiveStream`: the caller keeps asking; a bulk read goes on when the future
  that awaits it is dropped and is picked up by the next call
  (`receive_bulk` re-uses the pending transfer), hence strong fairness of reads.
* `FileDownload`: the caller keeps asking and does not drop every future it
  makes.
* `WpdWorker`: the thread runs; clients read the bodies they hold, feed their
  uploads and poll their calls. Without that a client can hold the one worker
  for ever, which is what the windowed download is for.
* `UsbListing`: the call is polled, and every transaction is answered, fails or
  times out, which `LockIsReleased` shows of the session.
* `UsbTransport`: the session's task is polled and its timers fire. The device
  owes neither data nor events, and nobody has to drop a future.
* `SessionOpen`: somebody retries a failed open, and the device answers.
* `Hotplug`: the consumer keeps polling the stream.

### Where code and documentation part

Shown by runs, and listed as findings:

1. `recover_if_needed` takes the flag and then awaits the drain. A future
   dropped there loses the flag (`dropped_recovery`).
2. `FileDownload::next_chunk` counts a window's last chunk in `offset` before it
   awaits the window's end. A future dropped there loses the chunk, and a resume
   from `offset()` leaves a hole (`download_resume`).
3. `FileDownload` drops `backend` before `current`. If it holds a WPD backend's
   last reference, the drop joins a worker that is blocked on the channel still
   held by `current` (`wpd_drop`).

4. `resolve_upload_target` does not look for the file's name in the root or in a
   folder that the destination names, so `put` and `mv` go ahead there without
   `--replace` (`replace_asked`).

Seen while modelling, without a run of their own; where a property is named it
is stated in the module and takes the place of the one in the run's
configuration to show the behaviour:

* `UploadsKeepTheirBytes` (`UsbObjects`): two tasks that upload at the same time
  exchange their bytes when the second SendObjectInfo comes between the first
  one's two transactions; `storage.rs` says a storage may be used from several
  tasks.
* `CallsEndBesideListener` (`UsbTransport`): a `cancel_transfer` reads the
  interrupt endpoint and waits for its lock for as long as a `next_event` of
  another task waits for an event; `mtp/device.rs:256-258` calls the two
  independent and safe to use concurrently.
* `RaceFallsBackOnce` (`UsbListing`): a folder with one object, which comes or
  goes between two property requests, makes the only child lack a property;
  that counts as `Systemic` and turns property lists off for the session, though
  the comment at `mtp/backend/usb.rs:462-464` wants such a race to fall back
  "this time only".
* `PrefersMtpClass` (`DeviceOpen`): the interface is picked by class or by
  layout in the order of the descriptors, so a vendor interface with the layout
  and an MTP-like name may come before an interface of the MTP class.
* The other program of `CliCommands` adds files under the name `y` only. One that
  adds the source's name after `cp` has looked for it makes the copy fail once
  `--replace` has deleted its destination; nothing on MTP can rule that out.
* `docs/cli.md:283-284` says that if a step fails, `cp` removes the staging folder
  or names it. Where the folder is made but the answer to `create_folder` is lost
  or times out, `staged_copy` returns at once (`cp.rs:140-143`) and the hidden
  folder stays, named by nobody. Dropping `run.pc = "stage"` from
  `StagingIsCleared` shows it.
* `put` deletes what a failed upload left because it "is a one-shot transfer with
  no resume story" (`put.rs:90-93`). Where the device made the object but the
  answer to SendObjectInfo is lost, the error carries no handle: the comment at
  `mtp/backend/usb.rs:946-947` says that no object exists yet, and an empty file
  stays behind. Dropping `run.pc = "upload"` from `NoJunkFromPut` shows it.
* `cp.rs:43-44` decides before `--replace` deletes anything, "so a copy that can't
  happen never costs the destination". If the file it deletes was the only one in
  the folder that the device could describe, `copy_object` can no longer list the
  folder and refuses, with the destination gone. Dropping the last conjunct of
  `Undisturbed` shows it.
* A copy may write over an object of the source's name that the device cannot
  describe (`trail.unseen`, `IsUnseen`); `storage.rs:626-628` says that such
  objects do not block the copy, but not what that may cost them.
* A copy or a put onto a name that differs in case alone from an existing one
  may cost the latter on a device that folds case (`IsVariant`).

* With `drain_on_cancel`, an upload abandoned between its command and its data
  leaves the device waiting; the drain succeeds and the next command is taken for
  the data, although `transport/mod.rs:68-69` promises a clean session. Adding
  `"send"` to the operations of the scene "healing" and setting
  `DrainOnCancel = TRUE` shows it.
* An unexpected empty read fails `next_chunk` but leaves the stream open and the
  lock held (`streaming.rs:420`), although the guard's comment
  (`streaming.rs:297-299`) says an error releases it.
* `watcher.rs:12-18` says the watcher skips changes the host made. A file
  uploaded and deleted before the callback runs is untracked by then; its late
  create is handled like anyone else's.
* The comment at `ptp/session/mod.rs:51` describes the wrap as 0xFFFFFFFF to 1;
  `TransactionId::next` wraps from 0xFFFFFFFE.
* `UploadError`'s documentation says WPD never reports a partial object;
  `ShortClosed` may carry one, found by name.

## 4. Proofs

`PtpSessionProofs` proves, for every set of tasks, id modulus above 3, start of
the counter, number of transactions up to one turn of the ids, device and
setting of the quirks:

* `TypeCorrect`: `Spec => []TypeOK`;
* `RepliesAreOwn`: `Spec => []OwnReply`;
* `RecoveryIsForLast`: `Spec => []RecoveryNamesLast`.

None of the three is inductive. `IInv` adds:

* `LinkIn(Good(issued))`: every packet in either pipe, in the reply the device
  is sending and in the command it waits on belongs to a transaction already
  issued and carries the id that transaction got. The device invents nothing
  (`DeviceInG`, `AbortInG`), so this is kept by every device step, and by a send
  because the sender's `op` satisfies it.
* `HolderInv`: a task is in a step that needs the lock exactly when it is the
  holder, so a step of one task cannot disturb what another has recorded.
* `IdInv`: the counter shows the id after the last issued one, and the holder's
  `op` names the last issued transaction under its id.

`OwnReply` then follows at `ReceiveResponse`: the accepted packet has the
operation's id; by `Good` it has the id of its own transaction; by
`NthInjective` two transactions within one turn of the counter have different
ids; so it is the operation's own response. The bound on the number of
transactions (`SessionAssumption`) is where a full turn, 2^32 - 2 transactions
after which an id repeats, is excluded. `IInv` uses neither drains nor
recovery, so the result holds whatever these miss.

The assumptions are `IdModulusAssumption`, `MaxMoreAssumption` and
`SessionAssumption`.

### Data of the session: `SessionDataProofs`

* `DataIsOwn`: with `DrainOnCancel` (a device that gets no CLASS_CANCEL: every
  Android device) and without streamed downloads, `Spec => []OwnData`. Drains
  may end early and callers leave anywhere. The invariant, `DataInv`, says that
  every data container in what the host has still to read (`Incoming`, the pipe
  and what the device is still sending) is whole: its continuation packets and
  then its own response follow it (`Framed`). So a call that took over an
  earlier transaction's data also meets that transaction's response, and ends in
  an error. A device that cuts a reply short on CLASS_CANCEL breaks the framing,
  and a stream hands data out before its end is known: both are hypotheses for
  that reason, and both fall away in the healing theorems below.
* `OwnDataImplements`: `Spec /\ []OwnData => ImplementsSerialRpc`, in every
  instance and with no other hypothesis. It maps every step of the session to a
  step of `SerialRpc` or a stutter (`StepImplements`, one case for each action):
  pipes, device, drains and recovery are invisible, `Acquire` is the abstract
  call, and a reply is the abstract answer.
* `SessionImplementsRpc`: the two together.

### Healing of the session: `SessionDataProofs`

Under `ThoroughDrain` (a drain reads until the device is quiet), no dropped
recovery and no uploads, but with streams, CLASS_CANCEL, devices that act on it,
ignore it or go silent, and drops everywhere else:

* `SessionHealsItself`: `Spec => [](HealedBeforeUse /\ UnflaggedIsClean)`;
* `HealedDataIsOwn`: `Spec => []OwnData`;
* `HealedSessionImplementsRpc`: `Spec => ImplementsSerialRpc`.

`HealInv`: all that is in flight is of the transaction issued last, its command
or the rest of its reply and never both (`OneTransaction`); the pipes are empty
wherever the code takes them to be (`EmptyWhenDue`); or a reset has ended the
session (`DeadLink`). The hypotheses are necessary: `dropped_recovery` is the
counterexample to the first without the second. Uploads are excluded because an
abandoned upload leaves a device that waits for data, which a drain cannot read
away; what holds of them is `OwnReply`.

### The stream: `TransferProofs`

For every header, packet, chunk and response size with `StreamAssumption`, every
object size, split, packet boundary, sentinel and number of late replies:

* `StreamsAreExact`: `StreamSpec => []StreamIsExact`;
* `BuffersAreBounded`: `StreamSpec => []BufferIsBounded`;
* `UnreadAnswersAreFlagged`: `StreamSpec => []UnreadIsFlagged`.

`StreamInv` divides the answer in three. Before the data header the stream
stands at the start of a late reply, and has read either nothing of it or all of
it (`LateInv`). In the payload, `remaining` is exactly what is left, or unknown
past the sentinel, where the response is not read until a short read has closed
the container (`PayloadInv`). After it the position is the response's, with an
empty read expected as long as the data transfer is not over (`AfterInv`).
`ReadInv` says where reads stand among the USB transfers; `Layout`, `Starts` and
`BulkReads` compute the transfers and what one read brings. The one place where
arithmetic carries the argument is a transfer that ends on a packet boundary
with no zero-length packet: the read then runs into the response, and
`WholePackets` shows that it still fits.

### Downloads and uploads: `TransferProofs`

* `DownloadsAreExact`: `DownloadSpec => []DownloadIsExact`, for any sizes and
  bounds. `DownloadInv` relates offset, window and stage to what was delivered.
* `PhasesAreDelimited`: `SendSpec => []PhaseIsDelimited`. `SendInv`: while the
  stream lasts only whole transfers have gone out, and `total` is 0 only while
  nothing has, which is why a phase whose buffer ends empty is closed by an empty
  transfer. `WantedSize > 0` (`SendAssumption`) is the code's constant.

* `TransfersAreTyped`: `TransferSpec => []TransferTypeOK`, the three side by side.
  Its part with content is that an upload loses no byte: what the stream fed is in
  a transfer, in the buffer or in the chunk (`SentInv`). The bytes sent are a fold
  over the transfers, and that one more transfer adds its length is an induction:
  the library's theorems cannot be instantiated here, so `Induct` states it for a
  set of numbers, from a least element (`LeastNumber`). The fold's recursion is
  shown to describe a function (`SumsExist`) whose value depends on the lengths
  alone (`SumsAgree`), which gives `SentGrows`.

### One link: `LinkProofs`

* `TransportIsTyped` and `TransportKeeps`: `TransportSpec => []TransportTypeOK`
  and `[]TransfersAreKept`, for any number of reads, events, polls and calls. The
  order of what reads return is inductive because an endpoint has one transfer
  and a completed one holds the newest thing brought (`HoldsNewest`); `CostInv`
  counts the one event that a cancel may swallow.
* `PendingExplainsSeen` and `ReplugsAreOrdered`: `HotplugSpec =>
  []HotplugTypeOK` and `[]OneDevicePerPort`, for any finite sets of ports and
  phones. The events still owed are exactly the difference between the
  consumer's picture and the watch's, each once and departures first
  (`SeenInv`, `PendingInv`): while departures are handed out the picture is part
  of the old one, and from the first arrival on part of the new one.
* `OpenIsTyped`: `OpenSpec => []OpenTypeOK`.
* `OneDeathIsHealed`: under `LeftoversFit`, `OpenSpec => []OneDeathHeals`: after
  a single death the library's open, with or without reuse, fails at most once,
  and a session it opens begins with an empty pipe and its own device info.
  `OpenInv` describes the pipe by where the process is. In the first life
  (`FirstLife`) it holds at most the answer to the command last sent. After the
  death (`AfterDeath`) it holds what a transaction cut anywhere leaves, and
  behind it late replies to the OpenSessions of this attempt (`Leaves`). An open
  takes one reply from the front; a drain leaves at most the last read, its
  response and the OpenSession reply (`Drained`); and the loop of stale replies
  before the device info skips what is left.
  `LeftoversFit` is `MaxChunks <= DrainCap + 1 /\ MaxStale >= 3`: what a death
  leaves is no longer than the drain of an open reads, and `MAX_STALE_REPLIES`,
  4 in the code, covers what a drain can leave. Neither half can be dropped: TLC
  finds an open that fails with `MaxChunks = DrainCap + 2`, and one with
  `MaxStale = 2`.
* `LinkIsTyped`: `LinkSpec => []LinkTypeOK`, the three side by side.

### Uploads and copies: `ObjectProofs`

Of `ObjectsSpec`, for any tasks, names, folders, first objects, styles of
copying, and any number of calls and of the phone's changes:

* `ObjectsAreTyped`: `[]ObjectsTypeOK`;
* `UploadsTellTheTruth`: `[]UploadsAreTruthful`: an upload between whose two
  transactions no other task announced an object names an object with its own
  bytes, unless those were written over; and no object stays without its data
  unless its upload goes on, names it, or never heard that it was made;
* `CopiesTellTheTruth`: `[]CopiesAreTruthful`: the handle a copy returns is of an
  object this copy made and not of its source; and a copy writes over an object
  only if one of that name came after the look, or its source was renamed after
  it was read, or the look was not shown the object.

`ObjectsInv` has one part for each task (`WriterInv`), so that a step of one
carries the others' over by one lemma (`OthersKeep`). `BytesInv` says whose data
the device awaits between SendObjectInfo and SendObject, `PartialInv` that an
upload names whatever it made, `CopyInv` what a copy may have been answered with
before it looked, and `LookInv` that until somebody changes that the destination
has no object of the copy's name but those its look was not shown
(`trail.unseen`).
The marks that tell makers apart are never used twice (`MadeInv`).

`ObjectsAssumption` keeps the handle a device makes up (`PhonyHandle`), the
folders and the objects' handles apart, and lets no first object be made by one
of the tasks.

### Listings and the worker: `BackendProofs`

Of `ListingSpec`, for every tree, every set of listed devices and any number of
changes between two transactions:

* `ListingsAreExact`: `[]ListingIsExact`;
* `CancelsArePrompt`: `[]CancelIsPrompt`;
* `RacesAloneCostTheFastPath`: `FastPathSurvives`, an action property.

`ListInv` carries two inclusions through a listing: what stayed in the folder is
part of each answer, and each answer is part of what was ever there. They hold
of the four property lists as long as nothing alien is among them
(`AnswersInv`), of the handles the root requests brought under the filter they
are read with, and then of what is listed, omitted and still to be asked. Without
a race the answers are the folder itself, so that no list is incomplete and the
fast path stays. The walk's folders keep `ListInv` inductive; that the walk as a
whole reports its tree is left to TLC.

The assumptions are `ListingAssumption` and `RootMarkAssumption`. The second
describes the devices the code reads correctly: `resolve_listing` takes the
answer for parent 0 with the exact filter for 0, so a device that declines
0xFFFFFFFF, answers 0, and reports anything else as its root objects' parent
would show an empty root. The code's comments name no such device.

Of `WpdSpec`, for any clients, reads, sizes, bound of the channels and number of
calls:

* `ChannelsAreBounded`: `[]WpdTypeOK`;
* `ReadsDeliver`: `[]ReadsAreServed`;
* `VerdictsAreTrue`: `[]UploadVerdict`.

`WpdInv` says that a request is in the queue or with the worker, never both, and
under an id of its own (`UniqueInv`, `QueueInv`), so that a step
disturbs one client's channel and no other. `KeptInv` says that a kept stream
stands where the worker believes it to. `FlowOK` says that the units between the
device and a reader (in the worker's hand, then in the channel, then delivered)
are those it asked for, in order and without a gap. `StoredInv` says that a
verdict is true of what the device stored and that nothing is stored for a
request still held. What a call ends with (`GotOK`, `ResultOK`) follows from
these where the last unit or the verdict is passed on.

`BackendIsTyped`, `BackendSpec => []BackendTypeOK`, is of the two side by side;
`Remembered` adds that only optional properties are ever given up.

### The virtual device: `VirtualProofs`

Of `VirtualSpec`, for any storages, names and contents, any operations of the
host and any programs that change the backing directories, watched or not, and
with pauses and dropped notifications anywhere:

* `DeviceIsTyped`: `[]VirtualTypeOK`;
* `DeviceHandlesAreTruthful`: `HandlesAreTruthful`, an action property;
* `DeviceRefusesCleanly`: `RefusalsAreClean`, an action property;
* `UnwatchedDeviceIsSafe`: the same three of `UnwatchedSpec`, the specification
  `device_tree` checks, whose steps are among those of `VirtualSpec`.

`VirtualInv` has three parts. `DeviceInv`: the files form a finite tree (`Tree`:
whatever exists has a directory above it), and handles, the pending upload,
events and notifications name nothing that was not allocated. `CallInv`: one call
is answered once, and no reply waits together with a command. `GuardInv`: the
pause counter is the number of guards held. Each part is needed for another: a
scan gives handles to what is on disk, so the table keeps its shape because the
disk is a tree; a refusal is seen as one because the queue of replies was empty
before it; a guard's drop keeps the counter exact because it was never ahead of
the guards.

The proof is in three layers. The lemmas about `BackingStore` say that cutting,
writing, making, renaming and copying keep a tree a tree (`CutTree`, `PutTree`,
`RenamedTree`, `CopiedTree`), that a copy which fails half-way leaves one as well,
and that a change below one storage leaves the others alone (`SameOn`). Then each
handler is shown to have an `Outcome` (tree, handles and events it may leave) and,
if it answers the host, to `Answers`: what it refuses changes nothing, and a
read-only storage is as it was. `OutcomeKeeps` and `VirtualKeeps` turn these into
the invariant and both action properties at once. The one
refusal that may change the disk is `GeneralError`, and the theorem says so: a
copy or a move which the file system fails may have copied part of a folder.

The assumption is `DeviceAssumption`: finite sets of storages and names.

Of `WatchSpec`, the specification of the run `device_watch` with its two scenes:

* `WatcherCatchesUp`: `WatchSpec => []WatcherLeavesNoPhantoms`, for any depth,
  names, storages, numbers of programs and lengths of the queues, and for every
  operation of the host, `MoveObject` and `CopyObject` included, which the run's
  instance leaves out;
* `HarnessesAgree`: `WatchSpec => []PausedHarnessesCompose`, for any tree the two
  harnesses work on, and for any names, overwrites and folder moves.

`WatcherCatchesUp` assumes what the run's configuration says: the device is
watched, nobody works onto a name that is taken, folders stay where they are,
and no harness pauses the watcher. Without them the code leaves phantoms by
design or by what inotify tells: a file put onto a tracked name has two handles
and one file; a moved folder announces its own path only, not what is in it; and
what a pause drops is left to a rescan, which the harness may not ask for.
`CatchUpInv` is what makes the claim inductive. `HandlesAreDue`: a path has no
more handles than removals on their way, plus one if its file is there; so every
removal the watcher handles may take a handle away and none is left over.
`CameIsThere`: a creation still on its way is of a file that exists or is
followed by its removal; so a handle given by a late creation is due too. Each
handler is proved to say of a path what it does to it (`QuietTold`, `CameTold`,
`WentTold`, `MovedTold`, `CopyTold`) and to give or take handles accordingly
(`HandlesLeft`, `OneHandle`, `HandlesTracked`).

`HarnessesAgree` needs no such assumption: the discipline is in the scene itself.
`HarnessInv` says that whoever changed a file since the last rescan, or has a
notification on its way, still holds a guard; that the pause counter is the number
of the guards; and that with every change rescanned the tracked paths are the
entries on disk. The watcher therefore drops every notification it gets, and the
last guard is dropped only with nothing owed. The harnesses are an `INSTANCE` with
operations and programs of their own, so `SameDevice`, `SameTrees` and `SameCalls`
first show what the two instances share.

### The command-line tool, the calendar and opening: `HostProofs`

Of `CliSpec`, for any set of the catalogue's objects on the storage, any number of
them beyond description, any command line of the grammar, and any number of calls
that fail, with their effect or without, and of files that another program adds:

* `GetCostsNothing`: `[]LocalIsSafe`;
* `CommandsHarmNothing`: `[]RemoteIsSafe`.

`BaseInv` is what every command keeps: the shape of the storage and of the call,
the steps each command may be at (`PlaceInv`), that the object it is about is
there while it is needed (`SourceInv`), and that a part of a file is the one
`put` is about to delete, or one that a lost answer kept from it (`PartInv`). A
failing call that took effect does to the storage what a succeeding one does
(`UnheardIs`), so that `StorageChanges` covers both, and only what the command
then knows differs.

`GetInv` adds that the planned entries have paths of their own (`PlanInv`), that
what has been fetched is in its place (`FetchedInv`), and that the old file goes
only once a whole one is there (`TempInv`).

`CpInv` is needed because no part of `RemoteIsSafe` is inductive. A copy harms
nothing it sees because the target path names at most one file that can be
described (`TargetInv`), so that what a device writes over is a variant of the
name asked for or unseen, and only where the device overwrites (`InTheWay`,
`CopyOver`). A file that `--replace` gave up is not given up in vain because the
look at the siblings still holds when the copy is made (`DecidedInv`), as long as
it showed everything. Both need to know what the staging folder holds at each step
(`StageInv`, `CopyInv`): nothing, then the copy, then nothing once it has moved.
There is no other staging folder (`Housed`) except after a `create_folder` whose
answer was lost (`Lost`), where the command is over; one that leaves its folder
behind otherwise names it.

Of `MtpDateTime`, whose run samples one turn of the calendar and a few instants:

* `EveryDayIsGregorian`: for every integer day, the date of the day is a real one,
  its day count is the day again, and the next day has the next date;
* `FileTimeComesBack`: a file time, of every day and second and with every offset,
  comes back as the same instant, or is not written for want of a four-digit year;
* `TextsAreReal`: for digit groups of any numbers and suffixes of any hours and
  minutes, what is taken for a date is one, and is written as it came but for its
  tenths and a zero offset;
* `DatesStayReal`: `[]DatesAreReal` of `DateSpec`, whatever spans, seconds and
  offsets it samples.

A year here begins in March, so that a leap day ends it. `Start` is the day it
begins on and `DayIsInYear` finds the year of a day. A year is a number of eras,
centuries, four years and years (`YearParts`), and with these `civil_from_days`,
whose divisions by 1460, 36524 and 146096 take the leap days off, finds the year
again (`YearOfEra`). From there the month comes from one table (`MonthsAre`,
`MonthAtIs`), and the day after is in the same month, the next one, or the next
year (`SameMonth`, `FirstOfMonth`, `NextStart`). `FourDigitYears` says that the two
limits of `from_unix_seconds` are the first and last day a date string can say.

Of `ChoiceSpec`, for any number of devices attached and of interfaces on one:

* `OpensAsAsked`: `[]OpensWhatWasAsked`.

`ChoiceInv` says that places are positions and a virtual device is at none of
them, and that the answer is none yet or what the attached devices give. The
argument is in what it gives: a device that is an answer is a virtual one, the
listed USB device that the request names, or one that WPD finds for it
(`AnswerReaches`). For a location it is the only one WPD has of the model, or has
its serial, since a guess is an error (`WpdForUsbIs`). That a listed device opens
rests on `ListedIsOpened`: whatever made it listed, it has an interface that
`open_with_timeout` picks, and that one has the endpoints.

### Model-checked only

* Liveness (`LockIsReleased`, `TransfersEnd`, `BackendsProgress`,
  `LinkProgress`): out of the prover's reach.
* `WalkReportsTree`: it relates the folders visited to the paths of the tree, a
  reachability that needs induction over data.
* `OwnData` of streams behind drains that may end early, and of uploads.
* Opens after more than one death, and with more leftovers than one drain reads.
* `DatasetsAreRead`: the datasets are written and read by folds over fields and
  bytes, and what a fold computes for every input needs induction over data.
* What `mv`, `cp` and `put` owe the file at their target without `--replace`
  (`ReplaceIsAsked`) the code breaks, so there is nothing to prove.

## 5. Not modelled

* Rates and sizes of the adaptive pacing, progress callbacks, tracing.
* The tables of operation, response, event, format and property codes and their
  names; the translation of errors between the layers.
* The virtual device's test hooks (wedge, read cap, undescribable objects) and
  the races of a recursive inotify watch. Deleting a folder announces one
  removal, renaming none, as in the code. `copy_dir_all` into a folder below its
  source reads what it writes and has no end; the model forbids it.
* A device that lists a folder below itself: `collect_objects_recursive` would
  walk it for ever.
* WPD's COM calls, property reading, id tokens (a 64-bit hash, asserted free of
  collisions in debug builds), and the names behind the partial of an aborted
  upload. A client that holds a half-read body and makes another call on the
  same task waits for itself; clients here do one thing at a time.
* The command-line tool's output, `ls`, `info`, `devices` and `doctor`, which
  read and print.
* Mock transport, fuzzing entry points, benchmarks, examples: test support.

## 6. Plan

The modules of the first plan (uploads, listings, opening, transport, hotplug,
command-line tool) exist. What is left:

1. **Proofs**: `OwnData` with uploads.
2. **WPD**: the partial of an aborted upload, which is looked up by its name and
   may be an older object of that name.
3. **Composition**: `UsbObjects` over `PtpSession` itself, so that a lost
   response is a late one and not an assumption.
