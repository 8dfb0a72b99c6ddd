# The ADB host server of ADBTestCE: TLA+ models, checks and proofs

ADBTestCE is the host side of the Android Debug Bridge, ported to Windows CE. A
dialog program starts a server in its own process; clients connect to it over
TCP, and it connects them to devices over USB or TCP. Everything that can go
wrong between those parties happens in five files of `src/ADBTestCE/adb/`:
`sysdeps_win32.cpp` (a Unix-like layer: descriptors, socketpairs, event loop),
`transport.cpp`, `sockets.cpp`, `adb.cpp` and `services.cpp`; devices come from
`usb_windows.cpp` and `transport_local.cpp`, and files are copied by
`file_sync_client.cpp` and the device's `file_sync_service.c`. This directory
holds models of all of these, the TLC runs that check them, and proofs.

Source lines below are relative to `src/ADBTestCE/adb/`.

## 1. Inventory

| Component | State | Operations | Interacts with |
|---|---|---|---|
| Socketpair buffers (`sysdeps_win32.cpp` 934-1186) | two regions, `can_read`, `can_write`, two events, `closed` | `bip_buffer_read`, `write`, `close` | every thread; carries all packets between threads |
| Descriptor table (`sysdeps_win32.cpp` 110-220) | `_win32_fhs[128]`, `_win32_fh_count` | `_fh_alloc`, `_fh_close` | everything that has an fd |
| Event loop (`sysdeps_win32.cpp` 1400-2273) | event masks, pending list, hooks, `fh->mask` | `fdevent_set`, `fdevent_remove`, `fdevent_process`, hooks for sockets and socketpairs, `_wait_for_all` | calls the handlers of sockets, listeners, transports |
| Transports (`transport.cpp`, `transport_local.cpp`, `transport_usb.cpp`) | `transport_list`, `ref_count`, `kicked`, `fd`, `transport_socket`, two threads each | register, kick, unref, remove, `output_thread`, `input_thread`, `unregister_*` | main thread through a socketpair each, and one socketpair for registrations |
| Packets (`adb.cpp` 500-631) | `connection_state` | `handle_packet`: SYNC, CNXN, OPEN, OKAY, CLSE, WRTE | asockets, transports |
| Asockets (`sockets.cpp`) | local, remote, smart and service sockets, backlog, closing list | enqueue, ready, close, event callback | event loop, packets, host requests |
| Listeners (`adb.cpp` 633-846) | `listener_list` | install, remove, accept, disconnect | asockets, transports |
| Host requests and services (`adb.cpp` 1174-1420, `services.cpp`, `transport.cpp` 815-920) | service threads, `acquire_one_transport` | devices, wait-for, connect, disconnect, kill, transport | asockets, transport list |
| Device tracker (`transport.cpp` 411-535) | `device_tracker_list` | send, remove, `update_transports` | asockets, transport list |
| Local transports (`transport_local.cpp`) | `local_transports[16]` | connect loop, slot allocation, close | transports |
| USB devices (`usb_windows.cpp`, `transport_usb.cpp`) | `handle_list` | poll, open, register, kick, close | transports, driver |
| Wait for many handles (`sysdeps_win32.cpp` 1540-1703) | `sig_index`, `main_event`, a thread and its parameters for each 63 handles | `_wait_for_all`, `_in_waiter_thread` | event loop |
| Sync client and service (`file_sync_client.cpp`, `file_sync_service.c`) | list of files, files of both sides, position in the exchange | push, sync, pull, ls; STAT, LIST, SEND, RECV, QUIT | each other, through a stream of the server |
| Clients (`adb_client.cpp`, `commandline.cpp`) | none that lasts | request and status exchange | server, over TCP |

The threads: one main thread runs `fdevent_loop` and with it all of the
asockets, listeners and packets; each transport has an `output_thread` (device to
main) and an `input_thread` (main to device); the USB poll, the emulator connect
loop and the host services have threads of their own. Threads talk through
socketpairs and through `transport_lock`, `socket_list_lock` and `usb_lock`.

What is hard here, and what makes each part correct:

* **Socketpairs.** `bip_buffer_close` takes no lock, so a `SetEvent` of it can
  fall anywhere between the statements of a blocked reader or writer. Correct: a
  bounded first-in first-out pipe in which nobody sleeps through data, room or a close.
* **Transports.** Both threads, the main thread and the last dereference may kick
  the same transport; numbers of closed descriptors are reused; the end of a transport is a
  four-party handshake. Correct: closed and freed once, after both threads; no
  descriptor taken from another owner; nothing lost; no transport that stays for ever.
* **Asockets.** Handlers are chains of calls that close and free each other's
  sockets; flow control allows one packet on the way in each direction; a close may find data
  queued. Correct: no use after free, order, credit, delivery before close, one
  status for each request, nothing left on a transport that is freed.
* **Event loop.** Winsock events are edge triggered, the loop caches masks and
  callbacks change masks of descriptors already pending. Correct: every wanted event
  is delivered, and nothing removed is called.
* **Host requests, listeners, trackers.** A request acts on a device that may restart or be
  removed by another request, and other lists hold pointers to it. Correct: a forward leads
  to a device that is on line, nothing refers to a transport that is freed, every tracker
  knows the devices there are, and a wait-for ends when its device is there.
* **USB and local transports.** A kicked handle stays on the list while its transport is
  dying and the poll opens the device again; a table of 16 slots. Correct: one open handle,
  none used after it is freed, slots given back, a device that stays gets a transport that works.
* **Wait for many handles.** Threads report through the stack and heap of the call that
  started them, and any of them may fail to start. Correct: none outlives the call, the
  index is right, and a socketpair with data is noticed.
* **Sync.** Two programs in step over a stream that may break, with errors on either side
  at any point and a device that may lose power. Correct: a file is what it was, absent or
  whole; one answer to each request; success means that it was done; nobody waits for ever. Where
  the code does less (files that cannot be read, commands that fail), section 3 says so.

`PROJECT.json` lists every component with its status and every hazard at its
line, the ones without a property too.

## 2. Modules and how they correspond to the code

| Module | What it models |
|---|---|
| `BipBuffer` | one direction of a socketpair, one step per access to what the unlocked close shares |
| `BoundedPipe` | abstract specification: what that direction promises its users |
| `Transport` | life of a transport: registration, both threads, SYNC handshake, kick, references, list links, descriptor slots, `host:disconnect` |
| `Transport_proofs` | inductive invariant and safety theorems about `Transport` |
| `AdbSockets`, `MCAdbSockets` | asockets and stream packets of the main thread, with clients, one device and one host service |
| `AdbSockets_proofs` | what each call on a socket keeps, inductive invariant, safety theorems |
| `AdbSocketsTalk_proofs` | what each call tells a client, order of the bytes and one status for each request |
| `FdEvent` | `fdevent_set`, pending list and `fdevent_process` over edge-triggered socket events |
| `WaitForAll` | `_wait_for_all`, its threads, and what the loop does with the result |
| `Sysdeps_proofs` | inductive invariants and safety theorems about `BipBuffer`, `WaitForAll` and `FdEvent`, refinement of `BoundedPipe` |
| `Devices` | transports as the main thread and the host services see them |
| `Listeners`, `DeviceTracker` | `listener_list` and `device_tracker_list`, on `Devices` |
| `HostServer`, `MCHostServer` | composition of these three with the requests and wait-for threads |
| `HostServer_proofs` | invariants of the three lists and of their composition, safety theorems |
| `Lists`, `Lists_proofs` | linked lists as sequences: unlinking, and the lemmas that the proofs share |
| `UsbDevices` | `handle_list` and the poll, on the exclusive open of `adb_api.cpp` |
| `LocalTransports` | `local_transports`, the table of emulators |
| `DeviceSources` | composition of both with the threads of the transports |
| `DeviceSources_proofs` | inductive invariant and safety theorems about `DeviceSources` |
| `SyncTransfer`, `MCSyncTransfer` | sync client and sync service on a stream that may break |
| `FileTransfer` | abstract specification: what push and sync promise |
| `SyncTransfer_proofs` | invariants of the exchange and of the files, safety theorems, refinement of `FileTransfer` |

**BipBuffer.** The variables are the fields of `BipBufferRec`; `bpc` and `len` are the
position and argument of each thread's call. Byte number *n* of the stream is the
value *n*, so the content of `buff` shows misplaced bytes. `ToA`, `ToB`,
`FullAfter`, `FromA`, `FromB` are the arithmetic of the copies.

**Transport.** One step for each region under `transport_lock`, each packet moved, and each
call that another thread can observe. `toMain` and `toInput` are the two
directions of the transport's socketpair, as sequences: what a direction promises
is the subject of `BipBuffer`. `fhs`, `fhcount` are the descriptor table, with the
transport that opened each slot, so that a close through a stale number is visible. `next`,
`prev` are the real links; `listed` is what should be linked. For a TCP transport
`t->close` is `remote_close`, which closes `t->fd`.

**AdbSockets.** Each handler of the main thread (event callback, accept, packet,
off-line) is one step; since a handler is a chain of calls on sockets, it is written
as operators on a record of the state that these calls change. Data are numbered
bytes, requests are words. `CloseAll` (`close_all_sockets`, run by
`input_thread`) is one step between two handlers of the main thread. `EventRead` hands what was read to the
peer (`HandOver`), and what follows it may find the socket freed: `bad` says that a handler went on with such a
socket, `traced` has the sockets that only the line of the log at `sockets.cpp` 361 did read. Simplifications:
the transport is one and connected; the host service is wait-for, whose write and
close are one step (the main thread blocks in its read between the two); a status
message always finds room, since it is the first thing sent to a client; descriptors are level
triggered (`Signal`), an assumption on the event loop which `FdEvent` examines.

**FdEvent.** Winsock is external: recorded events, armed events and the event object,
as `WSAEventSelect`, `WSAEnumNetworkEvents`, `recv` and `send` treat them. `"C"` is FD_CLOSE, which is
selected along with FD_READ and FD_WRITE and makes a hook ready for all that it wants; `hup` are the
sockets whose other end is closed. Of a callback only what the loop sees is kept: whether it sends or
receives, what it does to its own mask and to that of another descriptor, and whether it closes its own
socket (`CallbackEnds`), which it does at the end of the stream and may do at any call.

**WaitForAll.** One step for each wait, store, `SetEvent`, exit and join. `res` is the handle that
woke a thread; `Absolute` computes the index it stores. A socket's event resets
itself when a wait takes it and may be stale; a socketpair's is set as long as there are bytes
to read. A call whose threads cannot be started, or that has no memory, fails and is
repeated, as in `fdevent_process`.

**HostServer.** Requests, packets and registrations are whole handlers of the main thread,
each a conjunction of what it does to transports (`Devices`), listeners (`Listeners`) and
trackers (`DeviceTracker`). `Devices` is `Transport` without descriptors and kicks. Its list is a
sequence; a transport that `host:disconnect` takes off keeps `links`, its neighbours of that time, as the code
leaves `t->next` and `t->prev`, and the removal unlinks through them again. While those two still are next to each other that does
nothing; otherwise `damaged` is set, and from then on a walk may find any transports that are or were running (`Walks`).
A wait-for has a thread of its own; after it has released `transport_lock` it reads a
transport that may be freed, and then reads anything (`WaitCheck`). Requests that fail, and
queries, change nothing and are left out. An unknown banner makes the state `host` and tells
no tracker. `CS_NOPERM` does not occur on Windows.

**DeviceSources.** A handle is named after its transport; a freed transport may be allocated
again, so devices come and go without bound. Reads and writes appear by whether they fail
and whether they kick the handle. `output_thread` posts SYNC(0) (`"ended"`) before it calls `kick_transport`, so either
thread may be the first to kick. `host:disconnect` appends a port to a name without one and so finds
neither the USB device nor an emulator. Emulators come by `host:emulator` only: the scan in
`local_init` is commented out.

**SyncTransfer.** A file is a sequence of chunks and a time; a message is sent and received
as a whole, in a stream of `Cap` messages. `remote[f].by` is the thread that made the file,
so that a thread whose file was replaced writes to a file without a name. `Locked` files can be
written and not unlinked; they keep their old tail, since `handle_send_file` opens them
without truncation. `would` is the list-only form of sync. A command that fails returns without closing its
stream (`Return`), so its service waits for more until the connection breaks. The client's commands are compiled only with
`USE_COPY_FILE_UNDERCE`, and the service is device code that the repository carries.

## 3. Runs

Passing runs. Deadlock is checked in `device_sources` and `wait_all`, where something can always
happen; elsewhere all parties may stop for good (nobody has to send, connect or unplug).

| Run | Bounds | Shows |
|---|---|---|
| `bip` | buffer of 3, lengths 1 and 4, 6 bytes, one reader, one writer, two closes | `BufferInv` (types, region layout, asserts, order), no lost wakeup, refinement of `BoundedPipe`; calls return, bytes arrive |
| `transport_usb` | two USB transports, 4 slots, one packet each way | `TransportInv` (types, kick before close, list), descriptors, handshake, references; unplugged means freed |
| `transport_user` | one TCP and one USB transport, 3 slots, two disconnects | kicked once; disconnected means freed |
| `sockets_stream` | one client, 3 bytes each way, packets of 2, kernel room of 1 | no handler goes on with a freed socket, flow control in both directions, order, delivery, an answer to each open while the transport stays, unplug ends the stream and nothing is sent off line |
| `sockets_requests` | two clients (symmetric), every kind of request, one service | one answer each and first, peers linked, transport unused once freed |
| `fdevent_loop` | two descriptors, two arrivals, one full send buffer and one close of the other end each | pending list sound, no wanted read lost or never delivered |
| `wait_all` | 5 handles in chunks of 2, one failure | no thread outlives the call, the result is right, the call returns, socketpairs are noticed |
| `host_server` | a TCP and a USB device, two CNXN each, one forwarded port with two services, one tracker | disconnect lists and sockets match; on a list not damaged: forwards lead to devices on line, trackers are current and told of what is gone, forwards go with their device |
| `host_wait` | two connections to one address, one wait-for | it does not wait for ever while its device is there, on a list not damaged |
| `device_sources` | two transports for the USB device and two for emulators on one port, both reused, two slots | one open handle and none used after free, table right, slots freed, a device that stays plugged in works again and again |
| `sync_transfer` | 3 files of 1 or 2 chunks, one unreadable to its end, one locked; two commands, one fault, streams of 2 messages | the exchange stays in step, sync skips only what is there, pull leaves whole files, refinement of `FileTransfer` by what can be read and unlinked, every command returns, the service of one that succeeds or breaks ends |

The bounds are the smallest with the interesting cases: a buffer of 3 has
both regions in use and a write cut by the wrap; 3 or 4 slots for pairs of
descriptors make reuse and a full table happen; packets of 2 with room for 1 make
partial writes; two clients or descriptors are what a step of one may do to another; 5 handles
in chunks of 2 make two full chunks and one with what remains; two transports for one
device are the dying and the new one, and two emulators on one port meet in the table; two CNXN
are a restart; two commands are a broken one and the one that repairs it, and 3 files are
more than a stream of 2 messages holds while the service holds none.

One run shows a disagreement between the code and its comments: `transport_disconnect`,
in which `host:disconnect` drops a reference that belongs to a thread, so that the first thread to
exit closes the transport, and it may be freed under the other one (`ClosedAfterThreads`).

### Known deviations

What the models show beyond the runs above. Each is a setting or a property that TLC refutes,
and the reason for a bound or a condition of a passing run:

* The `fd` of a TCP transport is closed by `remote_close` and again by the removal; a transport
  registered in between loses its socket. `DescriptorsIntact` is checked for USB transports.
* `host:disconnect` unlinks a transport that the removal unlinks again through its own `next` and `prev`
  (`transport.cpp` 620-621), which are stale by then. Disconnect a1, the only one on the list, register another
  and remove a1: the head points at itself, and the other device is missing from what trackers, requests and
  wait-for see. Or, with a1 and u1 on the list, disconnect a1, unplug and free u1 and remove a1: the head points
  at the freed u1, which `acquire_one_transport` may bind a forward to and `update_transports` walks. Both
  are in the bounds of `host_server`, and the first in those of `host_wait`. `ForwardsOnline`, `TrackersCurrent`,
  `GoneIsForgotten` and `WaitAnswered` are stated as long as `damaged` is false; without that the first three are
  violated, and the last would have to speak of a device that the list has lost.
* A forward stays bound to a disconnected transport until its SYNC(0) or its removal. `ForwardsOnline` asks that the
  transport is registered and not off line, not that it is listed.
* `close_all_sockets` (`sockets.cpp` 124) passes by `local_socket_close_notify`: a client whose
  open is outstanding when its device goes gets no FAIL, although the comment at 581-583 says that a socket must not
  be closed without a status. `Served` promises the status only while the transport stays.
* After `s->peer->enqueue` the callback logs `s->id` and `s->fd` (`sockets.cpp` 361) before it tests the
  result, while the comment below it (365-366) says that it must return at once. A smart socket that refuses a request, or
  answers it itself, has closed and freed `s` by then. `traced` collects those sockets; `NoUseAfterFree` leaves this line out.
* `local_socket_enqueue` returns 1 after it has freed its caller (`sockets.cpp` 157), which takes only
  a negative result as that. It happens when a client leaves as its host service answers;
  `sockets_stream` has no host service.
* `fde->events &= ~events` (`sysdeps_win32.cpp` 2017) drops a pending write that is still
  wanted, and the backlog stays. `fdevent_loop` checks reads, and `Served` holds of
  `sockets.cpp` on a loop that delivers every wanted write.
* Socket events reset themselves here (`sysdeps_win32.cpp` 521). Two waiting threads may each
  take one, and one index is returned; if that hook finds nothing, the other wakeup is
  lost. `PairsNoticed` is about socketpairs.
* A push whose local file cannot be read to its end is reported as done: `sync_send` ignores the result of
  `write_data_file` (`file_sync_client.cpp` 433), and the device has a short file with the time of the whole one.
  `TransferSpec` is about the files that can be read to the end (`Promised`); with the others it is violated. The next sync
  sends such a file again, since its size differs (`SkipOnlyCurrent`).
* A command that fails returns 1 without `adb_close(fd)` (`file_sync_client.cpp` 827, 834, 854, 1049, 1057, 1082),
  in a dialog process that runs on (`ADBTestCEDlg.cpp` 131). Each failure keeps a connection and a service
  thread, which waits for a request or, in a pull, for room to write the rest of its file. `SessionsEnd` promises the end of
  a service only when its command has succeeded or its connection breaks.
* The service of a session that broke (or of a failed command, when its stream breaks later)
  notices late and unlinks what the next session has written: with `Overlap = TRUE`, `TransferSpec` and `PulledIsWhole` are violated.
* Sync writes all its STAT requests before it reads an answer: with more files than the stream
  holds both sides stop. `SyncAssumption` excludes it, so `CommandReturns` says nothing of it.
* Two `host:connect` before the first one is registered make two transports with one serial
  number; `host_wait` includes this.

### Fairness

Weak fairness of the threads' steps (Windows schedules them, and a wait on a signalled
event returns), of the main loop for every ready descriptor, of a device
that takes what is sent and acknowledges it, and, in `AdbSockets`, of a client that reads
what it is sent. A client that never reads is not covered: then the server does not
read it either, since `event_hook_signal` reports all wanted events and the callback
returns at the write that would block (`sockets.cpp` 288-291). No fairness on
sending, closing, unplugging, asking. In `FdEvent` the loop and the draining of a full send
buffer are fair; data that arrives is bounded, which excludes a descriptor that is ready
in every iteration and so keeps `start` from running for the others. In `WaitForAll` the main
thread and the waiting threads are fair; nothing has to occur. In `HostServer` the main loop handles
registrations and SYNC(0), the threads of a transport leave, a wait-for goes on. In
`DeviceSources` the poll, the main loop and the threads run, and a read of a broken
connection fails in the end, which the driver has to do. In `SyncTransfer` the client and the
service threads run; nobody has to give a command.

## 4. Proofs

Checked by TLAPS for every value of the constants that the named assumptions allow.

**`Sysdeps_proofs`** is about the three modules of `sysdeps_win32.cpp`.

`BipBuffer`, for any buffer size, any positive lengths, any writers and closers
(`SizeAssumption`, `ThreadAssumption`; `PipeUse`: a pipe with several writers
is never closed, as is the registration pipe). The inductive
invariant `BipIInv` adds to the type invariant: who holds the critical section (`LockInv`),
the shape of the regions inside it too (`RegionInv`), the arguments
(`LenInv`), what the flags promise and between which statements they lag (`FlagInv`),
that a set flag has its event set or about to be (`EventInv`), that a wait on a
closed buffer is about to end (`BipWaitInv`), and the order of the bytes (`InOrder`).
None is inductive alone: order needs the regions, the regions need that a copy finds
what its flag promised, wakeups need flags and events together. Theorems: `TypeCorrect`,
`RegionsCorrect`, `AssertsNeverFail`, `FirstInFirstOut`, together `BufferCorrect`,
`NoLostWakeups`, and `ImplementsPipe`, the refinement of `BoundedPipe`.

`WaitForAll`, for any number of handles, chunk size, sockets and failures
(`WaitAssumption`). `WaitIInv` adds to the types: threads exist only during a call, below
the loop variable while they are created and between it and `started` while they are joined
(`ThreadInv`); if `main_event` is set and `sig_index` is not, something failed
(`AnswerInv`); and an index that a thread has, has stored or has returned is a handle of its own chunk
that was set, which for a socketpair means that it can still be read (`IndexInv`). The last is why
the index arithmetic is right for every chunk, and `AnswerInv` is why the threads that wake each
other cannot lose the answer. Theorems: `WaitTypeCorrect` and `ThreadsAreGone`, together `WaitCorrect`;
`ReportedPairReadable` and `FailureHasReason`, together `ResultCorrect`.

`FdEvent`, for any finite set of descriptors, any traffic, ends of the other side at any time, and any
changes of masks and removals by the callbacks. The calls of a callback work on a record of the state, so the invariant is one of
such records (`Good`) and each call is shown to keep it: `list_pending` has the
fdevents with pending events once each (`ListOK`); a pending fdevent that wants to read is told to
(`PendOK`); and a descriptor that wants to read only, and whose mask is selected, has its data
recorded or pending, or will have its arrival recorded (`ReadOK`); FD_CLOSE counts as a read that is recorded. `LoopInv` alone does not say what is armed
at Winsock, without which the next arrival is lost. Theorem: `LoopCorrect`.

**`Transport_proofs`**, for any transports of both kinds, any table size, any traffic
(`TransportAssumption`). `TypeCorrect` holds of the whole specification.
`ClosedLast`, `KickedThenClosed` and `ListIsRing` assume `MaxDisconnects = 0`: with
`host:disconnect` the first of them is false, as `transport_disconnect` shows. `IInv`:
the main thread is not in a disconnect (`QuietMain`), the reference count is the number of
threads that have not left and the close happens when it gets to 0 (`RefInv`),
whoever set `kicked` has kicked or is about to (`KickInv`), each transport has at most
one record in the registration pipe and it fits its phase (`RegInv`), and the list is a
ring of the listed transports (`ListIntact`). `TransportCorrect` puts together what
`transport_usb` checks of it.

`DescriptorsSafe` and `HandshakeHolds` assume `Tcp = {}` besides: `remote_close` closes the
descriptor of a TCP transport, which the removal closes again (see the known deviations).
The first rests on `TableInv`: a slot that is in use is owned by the transport whose
descriptor it is, from the registration to the removal, and below `fhcount`. The second on
`ShakeInv`: in each direction of the socketpair SYNC(1) comes first and SYNC(0) last, and
where the threads are says which of the two are still on their way.

**`Lists_proofs`**. A list from which nodes are unlinked is `Keep`, a recursive function. What it
returns (the same elements but for those taken out, each once, never longer) is needed in
every proof about `transport_list`, `list_pending` and the registration pipe, and takes induction. The
lemma `LeastNat` (a set of naturals that is not empty has a least member), proved with a recursive
function, gives it by least counterexample. The other lemmas are about `Append`, `Tail`,
concatenation and `SetToSeq`, in terms of the set of elements.

**`HostServer_proofs`**, for any transports, serial numbers, listeners, trackers and waiting services.
`IInv` adds to what is proved: `transport_list` has running transports once each (`ListInv`), the
registration pipe has at most one registration and one removal of each transport, at the right time of its life
(`PipeInv`), SYNC(0) is posted after the link is dead (`SyncInv`), a listener leads to a
transport that runs and is on line until the list is damaged (`ListenInv`), and the disconnect lists are those listeners
(`DiscInv`). It is proved in parts, one for each of `Devices`, `Listeners`,
`DeviceTracker` and the wait-for threads, and then of the composition. Theorems: `ServerCorrect`, `ForwardsStayOnline`, `TrackersStayCurrent`.

**`DeviceSources_proofs`**, for any transports of both kinds, any ports and a table of any size.
`IInv`: at most one handle is open, and one not yet announced is known to the poll alone (`PollInv`);
a handle is allocated and on the list for the right part of its transport's life (`HandleInv`);
the threads hold the references and whichever tests `kicked` first is the one that kicks (`ThreadsInv`); a port has one
transport in the table, which is there until it is kicked (`TableInv`). Theorems: `SourcesCorrect`, `TableCorrect`.

**`AdbSockets_proofs`**, for any clients, scripts of requests, services, packet size and kernel room. A
handler is a chain of calls on a record of the state, each of which may close and free sockets of the
others. For each call there is a lemma `Safe(w, v)` about the records before and after: the new
record is `Good` (each socket well formed, peers linked both ways, disconnect list right); with
the transport off line no socket gets hold of it and nothing is sent (`Tame`); each
client's stream is left as it is, goes one way only, or is opened with one OPEN (`Calm`); and without
services no freed socket is used. `Safe` is transitive, so the lemmas compose the way the
calls do. `IInv` is `Good` of the state with what holds between handlers: the types of what handlers do
not change (`RestOK`), that a transport has no remote socket once off line and no socket at all once swept
(`TransOK`), and that the device answers the one OPEN of a socket before it sends data on it (`StreamOK`),
so that a WRTE never finds a socket that still waits for its OKAY. Without the last, `NoUseAfterFree` is not
inductive. Theorems: `PointersSafe` and `TransportForgotten` for the whole specification;
`SocketsSafe`, which leaves out the line of the log at `sockets.cpp` 361 and assumes `Services = {}`, because the
failed write to a client that has gone frees the service's socket under its caller (see the known deviations for both); `SilentOffline`, that nothing is
sent to a device that is off line, which is one half of `Unplugged`.

`FlowControlled` is about permissions to send. `FlowControl` alone is not inductive: it says nothing of a stream
that one side is about to open or has closed, nor why a socket whose peer is another local socket gets no more than a
packet. `CreditInv` therefore gives each client's stream an `Account` in every state of the
device's end. Before the OPEN is taken nothing of the stream is on its way; while it is open both sums are 1, also
for a socket that still waits for its first OKAY, which does not read; once the device has closed it, what the device
has sent is one packet at most. `Saving` bounds memory: a socket whose peer has a backlog does not read, so
what is added to a backlog is always the first packet of it. Each call has a second lemma, `Even(w, v)`: a stream keeps the sum of
its backlog and OKAYs and the sum of its reads and WRTEs, or is asked for, and `Saving` holds. `Fewer` is the case of
the calls that only close. `EvenCredit` turns `Even` into a step of `CreditInv`;
`HandleOkay`, `HandleWrite` and the device's steps, which move a permission from one queue
to the other, are done by arithmetic on the account.

`ToClientWhole` is one half of `BytesInOrder` (the other is in `AdbSocketsTalk_proofs`): what the device sends reaches the client in order and without a gap.
`ToClientInOrder` itself says nothing of a stream that is not open at both ends, so `OrderInv` says more: as long as the
socket is on the list, what the client has received, what the kernel and the backlog hold (`Held`) and
the WRTE packets on the way are together what the device has sent (`Whole`); whatever becomes of the socket, what is
received and held is a beginning of it (`Ordered`); and a client that has not asked for a stream
has no bytes sent to it. Each call has a third lemma, `Holds(w, v, c)`: it loses no byte for `c` while the socket is on
the list and none in the middle when it is closed; `Gets` is that of the call that adds a packet. `Data` filters
a sequence and `InFlight` flattens one, and the library defines both recursively; `Lists_proofs` shows by a least
counterexample that `SelectSeq` and `FlattenSeq` commute with concatenation, which is all the proof uses.

**`AdbSocketsTalk_proofs`**, for any clients, services and sizes, and any scripts that are `Polite`
(`ScriptsAssumption`): requests, one of which at most opens a stream or a host service; bytes only after that
one; a request that the server answers itself comes last. This is what `_adb_connect` and its callers send
(`adb_client.cpp` 182-231), and TLC evaluates it on the scripts of both sockets runs. It does
not restrict when a client writes, reads or leaves, nor how the server cuts what it reads.

Theorems: `StreamsWhole`, all of `BytesInOrder`, and `AnsweredFirst`, which is `StatusFirst`. Neither is inductive, since
the server counts neither requests nor statuses. `SpeakInv` gives each client an account of both, in terms of
`Talk(c)`, the part that the server does not keep: what the client has to send, has sent and has received,
and what of it is unread. While the client makes requests (`AskingOK`), those not acted on are the last it has sent
and each has no answer yet; while an OPEN is outstanding (`WaitingOK`), one answer is missing; once
its socket is bound (`BoundOK`), none is. `AnswersOK` is `StatusFirst` of what the client has received and
what is on its way. `Flowing` is about the way to the device: while the stream may still be open, what
the device has, what is in flight and what is unread are together what the client has sent; whatever becomes of it, what
the device has is a beginning of that. `Fit` says that a socket owes a status (`notify`) only while it waits, and that a
backlog has bytes of a stream only, which is why a status never waits behind them.

Each call has a lemma `Turns(w, v)`: for every client it either adds nothing or bytes of a stream that is bound,
or ends its socket, with FAIL if one is owed, or begins its stream, with OKAY if one is owed. `TurnKeeps` and
`TurnFlows` (together `TurnsSpeak`) make of a turn a step of the account. The calls that serve a smart socket take requests off it one by one and have lemmas of
their own, by the kind of the request. `Becomes`, `Safe` and `Good` come from `AdbSockets_proofs`.

The proofs changed the models where they could not be reasoned about or said too little: an abstract command begins
after the end of the one before (`Begin`), which `FileTransfer` had left open; a CASE
whose arms overlap is not specified, so the ones in `MainPacket` and `ReadEnd` became IF; folds over
sets of sockets became functions of the socket (TLC agreed that they are equal on all reachable states);
the assumptions say that the special values (`None`, `Smart`, `Remote`, in `SyncTransfer` the times) differ from
all clients and from each other.

**`SyncTransfer_proofs`**, for any files, contents, commands, stream capacity, number of sessions and faults.
The exchange comes first (`ExchangeInv`). `QueueInv` says what each service can find in its stream by where
it is: only `STAT`s, one other request, or the rest of a `SEND`, which has no more chunks than can be read, in order.
`CommandInv` says which command each position of the client belongs to. `PhaseInv` says what requests and answers
of the session can be on their way while the client is there; the connection may be cut, so that some
are lost. `StepInv` says, while it is not, that none is: as many answers as are waited for, in the order
of the files. `InSync` follows for every `Overlap`: nothing of the file before is left when the client asks for
the next, whichever side had failed.

The files come second (`TruthInv`), and only under `~Overlap`, where a session starts when the services of
earlier ones are not `Busy`: each has ended, waits for a request with nothing on its way, or sends a file to a client that has
given up (`Alone`). None of these writes to the device again. With `Overlap = TRUE` it is false, as the known deviations say. `FilesInv`: a file
that can be unlinked is absent, what it was, stored, or a prefix with the device's time, and a service that holds
it open has written what it counts. `StatInv`: the answers to `STAT` on their way and the flags made of them are
true now, since nothing is written meanwhile. `StoredInv`: the files before the current one are stored. `PullInv`: what has been
pulled is what the device has, and the messages on their way continue it. Theorems: `SkippedIsCurrent`, `PulledWhole` and
`ImplementsTransfer`. The refinement maps a file to what the device has, or to none while it is being written;
the files that are wanted to those of a push or sync that are `Promised`, which can be read to the end and unlinked. A start is `Begin`, an unlink or open
`Replace`, the end of a `SEND` `Store` (which needs that `chunks written = chunks readable` from `Body`, and that all of them are readable), a power loss
`Crash`, and each way a command ends `Report` (which needs `StoredInv`); every other step is a stutter.

Only model-checked: liveness under fairness, which is beyond the prover (`CallsReturn`, `BytesArrive`, `Served`, the
half `UnplugCloses` of `Unplugged`, and the liveness properties of the other runs). Every other property of a passing
run is a theorem, or what a theorem adds up to, under the conditions named above: `MaxDisconnects = 0` and `Tcp = {}` for parts
of `Transport`, `Services = {}` for `SocketsSafe` and `~Overlap` for the files of sync. Each of these conditions
excludes a deviation listed in section 3, as do those that the properties state themselves (`~damaged`, `Promised`). `KickedOnce` is checked with two disconnects and proved without any.

## 5. Not modelled

* Authentication: compiled out. Device-side and other-platform files but for the sync service: not built.
* The dialog, the command line: I/O without protocol state. The driver behind `adb_api.cpp` is external.
* `lib_json`, `include/`: vendored. `zipfile.cpp`, `centraldir.cpp`, `utils.cpp`: sequential helpers.
  Headers of OpenSSL and zlib and this library are most of the repository's lines.
* Races on data without a lock: `close_all_sockets` in `input_thread` against the lists of
  the event loop, and `--pair->used`. They are listed as hazards.
* A_OPEN from a device and a device that keeps its own view of streams; circular waits on the
  bounded pipes between the main thread and the threads of the transports.
* Requests that only ask (version, get-state, get-serialno, get-devpath), and `host:kill`, which ends the process.
* Symbolic links and the test of an APK in the sync client.
* Contents of packets, banners, service names and lengths of requests; the list of devices is cut at 1024
  bytes by the code and whole in the model.

## 6. Plan

The plan is done: the parts of the program that keep state are modelled, but for what section 5 names, and the safety
properties of the runs are proved. A change of the code that removes one of the deviations of section 3 lets the
condition that stands for it be dropped: the double close of a TCP descriptor (`Tcp = {}`), the reference that `host:disconnect`
drops (`MaxDisconnects = 0`), the result of `local_socket_enqueue` (`Services = {}`), and the service that notices a break
late (`~Overlap`). Others are conditions inside a property: the stale unlink (`~damaged`), the silent close of an
open (`OpenAnswered`), files that cannot be read (`Promised`), streams that a failed command keeps (`ServiceEnds`), the
line of the log (`traced`). The inductive invariants say where the proofs then need a new argument.
