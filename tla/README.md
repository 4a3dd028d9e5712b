# A TLA+ verification project for ipc_core

This directory holds TLA+ specifications of the protocols of `ipc_core` (the
low-level half of Flow-IPC), TLC configurations that model-check them on small
instances, and theorems about them with proofs checked by TLAPS.  Paths below
are relative to `src/ipc/` of the repository.

Contents: 1 inventory, 2 modules and how they correspond to the code, 3 runs,
bounds and fairness, 4 proofs, 5 findings, 6 what is not modelled, 7 plan.

## 1. Inventory

### Components, their state and operations

| component | state it keeps | operations |
|---|---|---|
| `transport::Protocol_negotiator` | local version range, "announced" flag, negotiated version | `local_max_proto_ver_for_sending()`, `compute_negotiated_proto_ver()`, `reset()` |
| `util::sync_io::Timer_event_emitter` | a timer, a signal pipe, thread W that waits and writes a byte per expiry | `timer_async_wait()`, `consume_timer_firing_signal()` |
| `sync_io::Native_socket_stream::Impl`, send direction | out-queue of low-level payloads, pending error, "finished" flag, the saved completion handler, auto-ping period and timer | `start_send_*_ops()`, `send_native_handle()`, `send_blob()`, `*end_sending()`, `auto_ping()`; on writable, on ping timer |
| same, receive direction | the one outstanding user request, the message state machine, a partially read payload, pending error, idle timer | `start_receive_*_ops()`, `async_receive_*()`, `idle_timer_run()`; on readable, on idle timer |
| same, life cycle | NULL / CONNECTING / PEER, `m_peer_socket` under `m_peer_socket_mutex` | constructors, `sync_connect()`, `async_connect()`, `remote_peer_process_credentials()`, `release()` |
| `sync_io::Async_adapter_sender` / `_receiver` | user handlers: one for the end of sending; a head slot and a queue for receives; `m_mutex`; tasks posted on thread W | the async-I/O forms of the above; destructor |
| `transport::Native_socket_stream` (async-I/O) | thread W, a `sync_io` core, the two adapters | the same API; destructor |
| `transport::Native_socket_stream_acceptor` | surplus queue of peers (capped by an error), deficit queue of requests, thread W | `async_accept()`; on next peer socket or error; destructor |
| `sync_io::Native_socket_stream_acceptor` | the acceptor above, a result slot and a signal pipe | `async_accept()` |
| `sync_io::Blob_stream_mq_sender` / `_receiver` | as the socket directions, over a message queue: out-queue, control-message state, timers, a worker that blocks in the kernel when the queue has no descriptor | as above |
| `Blob_stream_mq_base` | a sentinel shared resource for each direction's uniqueness | `ensure_unique_peer()`, `remove_persistent()` |
| `Posix_mq_handle`, `Bipc_mq_handle` | a queue, an interrupt flag per direction | opening (create, open, either), removal by name; `try_*`, blocking and timed send, receive and wait; `interrupt_*()`, `allow_*()` |
| `Channel`, `Mqs_channel` and the like | a blob pipe, a handle pipe, or both; the count and first error of a combined ending | sets up the pipes; starts, watches and ends both together; forwards the rest |
| `util::Shared_name` | a string | construction, sanitising, concatenation |
| the rest | value types, error categories, logging, OS wrappers | |

### How components interact

- A *user thread* U calls a `sync_io` object.  The object never blocks: when
  the kernel would block it asks its event loop, through the `ev_wait_func` it
  was given, to be called back when a descriptor is readable or writable.
- The two directions of a socket stream are independent of each other (they
  may be used from two threads) but for one thing: `m_peer_socket`.  Whoever
  meets a fatal error takes it away, under `m_peer_socket_mutex`; the other
  direction finds out at its next look.
- Timers run in a thread of their own, which writes to a pipe; the event loop
  waits for that pipe like for any descriptor.
- The async-I/O objects wrap a `sync_io` core: thread W is the event loop, an
  adapter's `m_mutex` is held around every call of the core, and the user's
  handlers are posted on W, so that none runs inside a call or with a lock.
- Two processes meet in the kernel: a byte stream with handles that ride on
  bytes (local stream socket), or a queue of messages.
- The protocol on top: the first payload of each direction is a protocol
  version; then messages (a meta-blob with its length, a handle, or both),
  pings (all-ones length) and at last the graceful close (length zero and no
  handle).

### What is hard, and what makes each component correct

| component | hard behaviour | what must hold |
|---|---|---|
| negotiator | each side decides from its own range and the other's maximum | incompatible ranges found by one side; compatible ones never refused; the outcome final |
| send direction | partial writes, would-block in the middle of a message, errors found by the other direction or by a ping, timer races | queued payloads are waited for; order kept; one ping outstanding; errors final; nothing after the close; the end reported once |
| receive direction | any fragmentation, end of stream anywhere, idle timer racing data | one result per request; nothing read beyond the user's storage; nothing before negotiation |
| both ends | all of the above at once, crashes of either process | a prefix of what was sent arrives, whole and in order; the close arrives last and does arrive |
| adapters | handlers in W against calls in U, calls made inside handlers, destruction at any point | each handler once, in order, with the due result |
| connect | a call that returns only through two other threads; a failed attempt that leaves the object as it was | whole in NULL or in PEER state between calls; the call returns; another attempt possible |
| acceptor | peers and requests arriving in any order | never a peer and a request both waiting; no peer lost |
| message-queue streams | a blocked worker that must be interruptible; control messages in two parts | as the socket directions; destruction ends |
| message-queue handles | several threads over one queue, waits that are interrupted from elsewhere, timeouts over several waits | an interrupt ends the wait and nothing later; a thread that could go on does; time up means returned |
| names | queue and sentinels outlive their processes, which may end between any two calls | two processes with peers of one name are its two ends and have one queue; what a crash leaves can be found and removed |
| channel | two pipes answer from two threads, or at once, some of it without a mutex | one answer at most, when both are done, with the first error |

PROJECT.json lists the hazards one by one, at their lines, with the properties
that watch them.

## 2. The modules

| module | models | state and actions |
|---|---|---|
| `ProtoVersion` | `Protocol_negotiator`'s pure part | `NegotiatedVer`, `NegotiationErr`: `compute_negotiated_proto_ver()` as two functions of the ranges |
| `ProtocolNegotiator` | two negotiators and the announcements between them | `lo`, `hi`, `sent`, `negotiated`, `err`; `AnnounceVersion`, `ReceiveVersion`, `ReceiveGarbled` |
| `TimerEventEmitter` | one timer with its pipe and thread | `waits` (outstanding waits), `fired` (expired, handler not yet run), `bytes` (unread signals); `Schedule`, `Postpone`, `Expire`, `Signal`, `Consume`.  Instantiated as the ping timer and as the idle timer |
| `StreamWire` | the kernel (external) and the low-level payload format | `wire`, a bounded sequence of bytes that handles ride on; encoding of the length field in two digits of a small base |
| `SocketStreamSnd` | the send direction | `sndQ` (out-queue), `sndErr`, `sndFinished`, `sndOnDone`, `sndEvWait`, the ping variables; a call is a few steps (`sndPc`): the write, the error path, the registration of the wait |
| `SocketStreamRcv` | the receive direction | `rcvPending` and the request, `rcvMsgState`, `rcvLeft`, `rcvBlob`, `rcvErr`, `rcvVer`, `rcvEvWait`, the idle variables; again a few steps per call |
| `SocketStreamPipe` | one direction end to end, and process death | composes the two over one `wire` |
| `MessagePipe` | what the direction promises (abstract) | `sent`, `received`, `ended`, `status` |
| `AsyncWorker` | thread W of an async-I/O stream and the stream's destructor | `posted` (tasks), `phase`; a handler runs, may call, returns |
| `AsyncAdapterReceiver` | the receive adapter | `userRequest`, `pendingUserRequests`, `looping`; EXTENDS `AsyncWorker` |
| `AsyncAdapterSender` | the send adapter's end-of-sending handler | `onDoneFunc`; the core is of either kind (keeps its handler or loses it); EXTENDS `AsyncWorker` |
| `AsyncStream` | the async-I/O streams over a socket (both adapters, or none in NULL state) and over message queues (one adapter) | `adapters`; one thread W, one destructor |
| `StreamConnect` | constructors, `sync_connect()` with its worker thread, the credentials | `state`, `nonBlocking`, `connParts`, `connWait`, `promise`, and where the user's thread is in the call (`uPc`) |
| `StreamAcceptor` | the async-I/O acceptor over the kernel's backlog | `pendingResults`, `pendingUserRequests`, `posted`, `feeding`, `phase` |
| `SyncIoAcceptor` | the `sync_io` acceptor, which wraps that one | `started`, `handlerSaved`, `target`, `readyBytes` and `readyWait` (the pipe between the threads), `reported`; `StartAcceptOps`; the call in two steps, `SioAsyncAccept` and `SioAcceptReturns`; `CoreCallsHandler`, `OnReadyReadable` |
| `StreamEstablish` | how a connection comes to be | composes `StreamConnect` and `SyncIoAcceptor` over the backlog, with other clients; `mine` |
| `OrderedCompletions` | what async requests promise (abstract) | `issued`, `results`, `gone`; implemented by the adapter and by the acceptor |
| `MqWire` | the queue between two message-queue streams (external) and the low-level payloads | `mq`, a bounded sequence of escapes, commands and messages; `nativeHandle`, which kind of queue it is |
| `MqStreamSnd` | `sync_io` message-queue sender | `sndQ`, `sndErr`, `sndFinished`, `sndOnDone`, the ping variables; thread W (`sndW`), its pipe (`sndReady`), the interrupt flag; a call is one step per payload |
| `MqStreamRcv` | `sync_io` message-queue receiver | `rcvPending`, `rcvControl`, `rcvVer`, `rcvErr`, the idle variables; thread W as above; one step per message read |
| `MqStreamPipe` | both ends over one queue, destructors and process death | composes the three; implements `MessagePipe` |
| `MqHandle` | what the two kinds of queue handle share | `depth` (messages in the queue); per thread `op`, `pc`, `result`, and of a timed call `spent`, `left`, `deadline` |
| `PosixMqHandle` | `Posix_mq_handle`'s transfers and waits | `bytes` in the interrupter pipes, `control` (between flag and pipe); one step per system call |
| `BipcMqHandle` | `Bipc_mq_handle`'s, over Boost's queue (external) | `blocked`, the queue's counts of blocked threads; a step runs with the queue's mutex locked, or sleeps |
| `MqHandles` | several threads over one queue of either kind | composes the three |
| `MqNames` | what outlives processes: queues by name and their sentinels; opening in each mode, `ensure_unique_peer()`, its deleter, `remove_persistent()` | `linked`, `made`, `mqKind`, `sentinel`; per process `mode`, `stage`, `role`, `handle`; `cleaner`, `closing`, `late` |
| `Channel` | one or two pipes under one object | `layout` (no, one or two objects per pipe), `io` (core or async), `started`, `ended`, `nDone` and `errCode1` of the combined ending; of a core's, `calling` (the step of the call), `midway` (handlers that have counted and not yet stored or reported), `answer` (what the call left in the user's error code); `told` |
| `MqsChannel` | a channel the blob pipe of which is a sender and a receiver over two queues | composes `MqNames` and `Channel`; implements `MqNames` |
| `SharedName` | `Shared_name::sanitized()`, `sanitize()`, joining, and the sentinels' names | operators, checked against reference definitions by assumptions.  The only module with a RECURSIVE operator, and reached from no module with proofs |
| `MC*` | values of the constants and state constraints for TLC | |
| `*_proofs` | theorems | see 4 |

**Granularity.**  A call of a `sync_io` object is not one step.  The send and
receive directions run in different threads, and share `m_peer_socket` under
its mutex; so a step ends where that mutex is released and the shared state
looked at again: between a non-blocking write (or read) and the error path or
the registration of the wait.  What only one direction's calls touch is changed
inside those steps.  In the adapters, whatever runs with `m_mutex` locked is one
step; the loop that serves queued requests is one step per request with the
lock kept.  In the acceptor everything runs in thread W and a step ends where
user code runs.  In the `sync_io` acceptor the two threads share a slot and a
pipe: W's store and the byte, before which U does not look, are one step; U's
call is two.  In a channel's async-I/O ending a completion, under a mutex,
is one step; in a core's each pipe's call, each count and each store or report is
one.  In the names every system call is a step, since a
process may end, and another process act, between any two.

**Data.**  A byte is a digit of base `Base`, a length two digits; so the
sentinels 0 and all-ones, and lengths at and above the limit, exist at small
sizes.  A handle is a model value that travels with the first byte of its
payload, as `SCM_RIGHTS` does.  Time is "may expire now", but in `MqHandle`,
where the arithmetic on what is left of a timeout is the subject.

**Other direction of the same object.**  `SndSockHosedByReceiveOps` and
`RcvSockHosedBySendOps` are all it can do to this one.

**Thread W of a message-queue stream** exists only for a queue without a native
handle.  It uses the queue's handle with no lock; the code relies on thread U
not touching the handle meanwhile, so U's and W's steps are separate actions and
`WorkerHasQueueAlone` is a property, not an assumption.  Room in the queue, and
with it the end of a blocking wait, may come at any time from the other process.

**A name can come to mean another queue.**  In `MqNames` queues are numbered, so
that a handle to a queue that was unlinked, and made again under its name, is
told from one to the new queue.

**A handler told of the abort** by the stream's destructor is assumed to make
no further call on the *other* adapter (`MayCall` in `AsyncWorker`): an
`async_end_sending()` there would post its completion on a thread W that has
stopped, and it would not run.  The documentation asks such handlers to return
at once (`transport/native_handle_transport.hpp`, the destructor's doc header).

**The core under the adapters** is taken by the contract the `sync_io` models
check (`OneResultPerReceive`, that nothing comes after an error, that the queue
drains).  There is one contract the socket core does not keep (finding 2):
`AsyncAdapterSender` runs over both kinds of core and shows that the adapter's
own handler is still run exactly once, in the destructor at the latest.

## 3. Runs

| run | question | bounds |
|---|---|---|
| `negotiator` | incompatible versions found, compatible ones not refused | versions 1..4: both orders of either end of the two ranges, nested and disjoint ones |
| `negotiator_agree` | do both sides come to the same version? (no: finding 1) | versions 1..2 |
| `snd_end` | which handler does `async_end_sending()` keep? (finding 2) | 2 sends, no ping, a kernel buffer of 3 bytes |
| `rcv` | the receive direction alone, against a peer that writes any bytes and handles, or falls silent | 2 requests, storage of 1 or 2 bytes, 2 bytes in the kernel: every fragmentation, both too-small and sufficient storage, every value of the length field |
| `pipe` | both ends of a socket stream's direction | 2 messages (with a handle and an empty blob; a blob of two; a blob too long), 1 ping, 3 requests, 2 bytes in the kernel; one kind of trouble at a time (`OneTrouble`, below) |
| `async` | the async-I/O streams: adapters and their thread W | 5 requests, 3 messages: a queue of four behind the head slot; 2 ends of sending with a handler, any number without |
| `establish` | a stream that connects, to an acceptor of either API | 2 attempts to connect (a failure before any other outcome), a backlog of 2, 3 peers, 3 requests: surplus and deficit, and a full backlog |
| `connect_retry` | may a connect that failed be tried again? (finding 3) | 2 attempts |
| `mq` | a message-queue stream, both ends, over either kind of queue | a queue of 2: a control command fills it, so that its second payload may or may not fit; 2 messages, 3 requests, 1 ping expiry; one timer at a time (`OneTimer`, below) |
| `handles` | threads over one queue of either kind | a sender that also waits; two receivers that compete, one with timed calls and interrupted by another thread; a queue of 1; time up to twice the timeout |
| `handles_timed` | does a timed call end when its time is up? (finding 4) | as `handles` |
| `names` | two queues, three processes, a channel made of two peers | server and client at the ends of queues `a` and `b`, a rival for the sender of `a`; 2 queues made under a name; the channel's life as `ChannelFirst` says, below; `SharedName` on all names of up to 5 characters, with 3 the longest allowed |

What each passing run shows:

- `negotiator`: `DisjointRangesDetected`, `CompatibleNeverRefused`.
- `rcv`: one result per request and one request per wait, whichever of the
  call, the readable event and the idle timer comes first
  (`OneResultPerReceive`, `PendingIffWaiting`); no read beyond the length field
  or the storage (`ReadsFitStorage`); the idle timer always has exactly one
  successor (`IdleTimerArmed`); with it, a request ends even if the peer is
  silent (`ReceiveCompletesIfSilent`).
- `pipe`: the two directions together implement `MessagePipe`
  (`ImplementsMessagePipe`); errors appear only for their cause
  (`NoSpuriousError`, `RefusalIsAboutNextMessage`); the send path keeps its
  wait, its timer and its one report of the end (`QueuedIffWaiting`,
  `PingTimerArmed`, `EndReportedOnce`); the close reaches a receiver that keeps
  asking (`GracefulCloseArrives`).
- `async`: handlers in order, once each, with the due result
  (`RequestsInOrder`, `AcceptedHandlerRunsOnce`,
  `ImplementsOrderedCompletions`); a failure answers all (`FailureAnswersAll`)
  and a flush is reported (`FlushReported`).
- `establish`: the connecting stream is whole or back where it was, and the call
  returns (`NullOrPeer`, `SyncConnectReturns`); the acceptor never keeps both a
  peer and a request waiting and loses no peer (`SteadyState`,
  `PeersConserved`), through the `sync_io` wrapper too (`AcceptReported`,
  `ImplementsOrderedCompletions`); and the stream that connected is what the
  acceptor's user gets (`ConnectionIsAccepted`).
- `mq`: as `pipe` for message queues, plus thread W (`WorkerHasQueueAlone`,
  `OneWakeupPerWait`), the destructors (`DestructionEnds`) and the report of the
  end of sending (`EndSendingReported`).
- `handles`: an interrupt ends the waits it should and no later one
  (`InterruptEndsWait`, `NoStaleInterrupt`), no thread sleeps while it could go
  on (`NoLostWakeup`, `TimedBipcWaitEnds`).
- `names`: two processes with peers of one name are a sender and a receiver on
  the same queue (`PeersShareQueue`), `SentinelHasOwner`; a sentinel that a crash
  left is beside a queue that can be listed, but for the cases the property names
  (`LeakIsListable`); the two pipes' endings are reported as one, as far as the
  code has that of a core (`CombinedEndReported`, below).

`AcceptReported` covers the overlap of the two threads of a `sync_io` acceptor.
The handler in thread W stores the result and writes the byte; from then on
thread U may report it and ask again, whether W has left the handler or not, and
W may be done before the call has had the pipe waited for.

`CombinedEndReported` distinguishes what the code does.  An async-I/O channel's
completions hold a mutex: one report, of the first error, when both pipes are
done.  A core's do not.  There a handler counts, and in a later step stores its
error or reports; the call of two pipes tells one, tells the other, counts what was
over at once and stores its error, in four steps, and handlers may run between
any two of them.  What is claimed of all of these is that the user is told
at most once and not before both pipes are done.  That the error told is the first one
is claimed unless a completion ran into the call or into another completion
(`overlapped`), and that there is a report at all unless one ran into the call;
without these exceptions TLC finds the property violated.  Nothing is claimed of
the answer a call that would block leaves: see section 5.

What the runs do not repeat: `TypeOK`, `AnnouncedOnce`, `NegotiationIsFinal`,
`SndErrorIsFinal`, `SndAssertions` and `NothingAfterClose`, which are proved
(4), and the properties of `MessagePipe` that every implementation inherits.

Each property of a passing run has a mutant in PROJECT.json: a plausible bug in
one mapped definition for which that run reports that property violated.

**State constraints** only cut: a state beyond one is not explored further, and
what is checked, liveness too, is checked of the behaviours that stay inside.

- `OneTrouble` (`pipe`): without trouble two messages and a ping; with the idle
  timer on, an endpoint gone or a storage of one byte, one message and no ping;
  the idle timer not together with an ended process, and at most one end gone.
- `OneTimer` (`mq`): the two timers one at a time; with either, one message and a
  queue without a native handle.
- `ChannelFirst` (`names`): the channel's own steps touch no names and no other
  process, so all of them are explored while the others have not begun, with
  POSIX queues that the server creates and the client opens; beside the others,
  and with the other modes and kind, the channel only comes and goes.

`CHECK_DEADLOCK FALSE` appears in every configuration: a connection that was
closed, an object that is gone, or a user who makes no further call is a
legitimate end, and the bounds on calls stop each model too.

**Why the bounds are enough.**  The state that decides what the code does next
is small: whether a queue is empty, whether a payload is whole or partial,
which of four things a length field says, whether a request is outstanding.
Two messages are needed to see one queue behind the rest of another; a kernel
buffer smaller than a payload to see it cut; three requests to see a queue of
requests behind the head slot advance; two competing receivers to see a wait end in vain;
a second queue under a name, and a second claimant of a peer, to see a name
reused and a sentinel refused.

**Fairness.**  Weak fairness of the steps of a call once begun (a thread runs
on), of the event loop's callback when its descriptor is ready (the user of the
pattern must oblige; thread W does), and of the timer thread where a property
is about a timer.  Where a property needs a cooperative peer that is said in
the property or in the fairness: `GracefulCloseArrives` that the receiving user
keeps asking, with storage that is large enough.

- `AsyncStream`: thread W and the destructor run, and handlers of the user
  return (documented as their duty); nothing is assumed of the peer or of the
  core's answers, except in `FlushReported`, where the core's flush ends.
- `MqStreamPipe`: each process goes on by itself (calls in progress, event
  loop, thread W, a destructor that has begun), and the receiving user asks
  again; no fairness of timers or of the sending user.
- `StreamEstablish`: all threads run on, handlers return, the acceptor takes
  what is in the backlog, and the kernel reports a connecting local socket
  writable sooner or later (it does when the listener takes the connection or
  goes away).
- `MqHandles`: a thread inside a call runs on, time passes, and the second half
  of `interrupt_*()` or `allow_*()` comes.  Strong fairness in one place
  (`PosixWaitInterrupted`): the descriptors in an `epoll` are reported in turn,
  so that a busy queue cannot hide a readable interrupter pipe for ever.
- `names` has no liveness property and needs none.

## 4. Proofs

The theorems assume the constants' assumptions, which the modules name
(`BaseAssumption`, `RolesAssumption`, `OwnerAssumption` and so on), and nothing
else; each holds for every value of the constants.

`ProtocolNegotiator_proofs`: `TypeCorrect`, `AnnouncedAtMostOnce`,
`DisjointDetected`, `CompatibleAccepted`, `OutcomeIsFinal`, for every `MaxVer`.
The inductive invariant is `IInv == TypeOK /\ Provenance`: *Provenance* says
where each negotiated version and error came from (the other side's announced
maximum and the own range, unless the announcement was garbled), which the
properties need and types do not give.

`SocketStreamEnds_proofs`, sending: types, `QueuedIffWaiting`, `SndAssertions`,
`PingTimerArmed`, and as action properties `SndErrorIsFinal`,
`NothingAfterClose`, `EndReportedOnce`; for every base,
kernel capacity, set of handles and messages, number of sends and pings.  The
inductive invariant is `SndInv == SndTypeOK /\ SndControl`, with `SndControl` the
conjunction of *QueueControl* (what the program counter says about queue, error
and wait in the middle of a call), *PingControl* (where the one timer wait is,
and that a ping in the middle of its write has none) and *EndControl* (what the
progress of the end of sending says about `sndFinished` and the saved handler).
The properties themselves speak of the state outside a call and are not
inductive.

The same module, receiving: `OneResultPerReceive`, `PendingIffWaiting`,
`IdleTimerArmed` and `ReadsFitStorage`, against a peer that sends any bytes.
Three invariants, each proved inductive with the help of those before it.
*RequestInv* relates the request, its wait and the error to the program counter;
*IdleInv* says where the idle timer's one wait is; *StorageInv* follows
the storage through a message: at each point, how much of the length field and
of the blob is in, how much is to come, and that nothing is left over from the
message before.

`SocketStreamPipe_proofs`, one direction between two objects of this code, for any
messages, kernel capacity, storage, queue and number of calls:
`NoSpuriousErrorHolds`, `RefusalsAreTrue`, the refinement
`ImplementsMessagePipeHolds` with its consequences `PrefixReceived` and
`EndIsLast`, and `EndsHoldTogether` (what each direction keeps against any peer it
keeps here).  All rest on `TransferInvariant`: `EndsInv`, the invariants of both
ends, and `TransferInv`, on what lies between them.

- *LineControl*, as long as the receiver reads.  Payloads that are not consumed
  are cut by the kernel at any byte, and the rest of one and all of others wait in
  the sender's queue or in the call that is running.  *Carried* says that there is
  one sequence of payloads, of which these are the pieces: `Laid` gives each its
  place (the first begins as many bytes before the unread ones as have been read
  of it, the last ones are what is held), and `Told` gives each its kind
  (version, ping, close, head or blob of a message) and its rank, how many
  messages were sent up to it.  A head is followed by its blob, if it has one, and
  by nothing else; nothing follows a close.  *SenderEnd* ties the last
  payload to the sender (its rank is the number of messages sent; it is a close
  only when sending has ended), *ReaderEnd* the one before the first to the
  receiver (nothing before it means that the version is still to come; a head that
  lacks its blob that a blob is being read; its rank is the number of messages
  taken).
- *MessageControl*: what is in the storage is the beginning of the next message,
  and the handle kept is its own.
- *CallControl*: a socket fails only after the other endpoint is closed.
- *OwnMessageAhead*: a call that may still withdraw its message runs ahead of the
  receiver, so that no withdrawn message can have arrived.
- *HistoryControl*: the receiver has a prefix of what was sent, and has not refused
  the peer's version.

None of the theorems is inductive without the line: that a head announces the right
length, for instance, is true of the bytes read because of where in the kernel's
buffer, or in the sender's queue, they were before.  The lemmas `Placed...`,
`Laid...` and `Carried...` say once what adding, writing a part of, reading a part
of, finishing and dropping a payload do to it; each step of the program is one or two
of these.

`StreamEstablish_proofs`, connecting: `ConnectTypes` and `AlwaysNullOrPeer`, for
any number of attempts.  `NullOrPeer` is about the state between calls; the
inductive invariant adds what holds at each point of the call: who of the user's
thread and the worker has the next step, and what each has done by then.  With
`EstablishesNullOrPeer` it holds beside an acceptor and other clients too.
Accepting: `AcceptorSteady`, `NoPeerLost`, `ResultsReported`, for any number of
clients and requests, and `AcceptorCompletesInOrder`, the refinement of
`OrderedCompletions`.  The invariant, `AcceptorInv`, sets out the requests in one
row (done, deficit, posted: *RequestControl*) and the peers in another (handed
out, being fed, surplus: `PeersConserved`), says what is left of both in each
phase of the destructor and what thread W feeds while it does, and, for the
`sync_io` acceptor, that there is one request at a time, which is being made or
waited for, whether or not W is still in the handler of the one before
(*SioControl*).

`AsyncStream_proofs`: `RequestsStayInOrder`, `AcceptedHandlersRunOnce` and the
refinement of `OrderedCompletions`, for any number of calls, any interleaving of
threads U and W and of the destructor, and either kind of core.  The
invariant numbers the requests: those run, those posted (in order, among
handlers of the other side), the one in the slot, those pending
(*RanControl*, *PostedControl*, *SlotControl*); `RequestsInOrder` alone does not say
that the slot's request is the next one.  *SndControl* has the handler of an
accepted `async_end_sending()` in exactly one of three places: saved, posted or
run.

`MqStreamPipe_proofs`: `WorkerAlone` and `OneWakeup`, for both ends of a
message-queue stream at once; and `ImplementsMessagePipeHolds`.  The
first two rest on `WaitInv`, made of *StartedControl* (before `start_*_ops()`
nothing waits, runs or fails) and, for each end, types and *WaitControl*: at each
point of a call what thread W, its pipe and the event loop's wait may be,
and that a dropped queue or a destructor leaves W nothing to do.  The refinement
rests on `TransferInv`, about the line of payloads under way: those in the queue,
those queued in the sender and those of the call that is writing.  *Carried*
gives each payload of the line the number of messages sent up to it: each message
is the one of its rank, an escape is followed by its number, and nothing comes
after the end of sending.  Moving payloads from the call to the queue of the
sender, from there to the kernel's and on to the receiver changes nothing in the
line but its head and its tail.  The abstract specification's own consequences
are `PromiseKept` (what implements `MessagePipe` gives the receiver a prefix of
what was sent and reports the end after all of it), from which `PrefixReceived`
and `EndIsLast` follow.

`MqHandles_proofs`: `InterruptOver` and `SleepersAlwaysCounted`, for any threads,
capacity and times.  *ByteControl* says when the interrupter pipe of a POSIX
handle has its byte: as long as the flag is on, but late by the two steps of
`interrupt_*()` and `allow_*()`; *CleanControl* that a call no interrupt overlaps
began outside both.  `SleepersCounted` (the counts in Boost's queue are the numbers
of threads asleep, or woken and not yet running) is what a notification left out
would break: with a count of 0 nobody is told.

`MqsChannel_proofs`, the names: `SentinelsHaveOwners`, `OneOfEach`,
`LeaksAreListable`, for any processes, names, modes, sequences of peers and
number of queues.  The inductive invariant `NamesInv` adds to the types
*BuiltControl* (what each stage of a process's life has built), *DeleterControl*
(the sentinels a deleter removed are gone, or were made again since),
*HandleControl* (the handles a process has open for its peers, those it has and
those it is on the way to, mean the queue that the name means, until a peer of that
name begins to close) and *SentinelListable* (`LeakIsListable` of every sentinel).
`OneOfEach` (`PeersShareQueue`) follows from the first and the third: the sentinel
keeps two peers of one direction apart, the handles say that the two directions'
peers are of one queue.  The
channel: it does to the names nothing but what `MqNames` allows
(`ImplementsNames`: initial states and every step), and so inherits its three
invariants (`ChannelSentinels`); and `EndReportedOnce`, of the end of sending of
two pipes.  Its invariant, *EndControl*, names the states the call and the
completions go through (*NoneCompleted*, *OneAtOnce*, *OneCompleted*,
*FirstMidway*, *LastMidway*, *AllCompleted*), and says what the count, the saved
error and the report are in each; once a completion has run into the call or
into another (*CallOverlapped*, *BothCounted*), what is left is that the count is
right and that one handler at most knows itself the last.

Only model-checked: every liveness property (fairness and ENABLED are out of the
prover's reach); the operators of `SharedName`, which are recursive; and the four
runs of section 5, which expect a violation.  Every invariant and every action
property that a passing run checks, and every refinement, is stated by a theorem.

## 5. Findings

File names here are relative to `src/ipc/transport/`.

1. *`negotiator_agree`, `VersionAgreed`.*  When the local maximum is above the
   peer's and the ranges overlap, `compute_negotiated_proto_ver()` stores the
   local maximum (`protocol_negotiator.cpp:115`), where the doc
   header (`protocol_negotiator.hpp:70`, `:95`) and the log message next to it
   promise the peer's, the one both speak.  With today's single version 1 the
   two coincide.
2. *`snd_end`, `OnDoneKeptWhileWouldBlock`.*  `async_end_sending_impl()` moves
   from its handler argument twice
   (`sync_io/detail/native_socket_stream_impl_snd.cpp:370` and `:392`): when
   the close is queued, the handler kept for the flush is empty (or the
   assertion between the two fails in a debug build).
3. *`connect_retry`, `MayTryAgain`.*  A failed connect goes back to NULL state
   with the same socket, which `async_connect()` has made non-blocking; the next
   `sync_connect()` asserts that it is not
   (`sync_io/detail/native_socket_stream_impl.cpp:377`), where
   `native_socket_stream.hpp:142` allows another attempt.
4. *`handles_timed`, `TimedWaitEnds`.*  `timed_send()` and `timed_receive()` of
   `Posix_mq_handle` subtract, after each wait in vain, the time since the start
   of the call from what is left (`posix_mq_handle.cpp:860`, `:1058`), and so count
   the same time again.  What is left may fall below zero, which `epoll_wait()`
   (`:1223`) takes for "no limit": the call does not end when its time is up,
   where `persistent_mq_handle.hpp:411` says it does.

Seen while modelling, and the subject of no run:

- The two-argument `init_*_pipe()` of `Channel` replaces a pipe that is there,
  where its doc says it does nothing and returns `false`.
- The `sync_io` `async_end_sending()` of a channel with two pipes, when one or both
  would block, returns `true` and leaves `*sync_err_code` as it was (`channel.hpp:1845`
  to `:1860`), nor does it throw if there is none, where the doc (`:757` to `:786`)
  says that would-block is emitted.  A caller whose error code was a success reads
  success, and is called again by the handler.  In the model `answer` is then
  `"untouched"`, and `CombinedEndReported` counts it neither as a report nor as
  would-block.
- The combined handler of that form counts itself as done before it stores the
  first error (`:1799`, `:1810`), and so does the call (`:1848`), where the async-I/O
  form holds a lock around both.  The comments at `:1786` to `:1792` say that the
  count is all that needs protection and that the error is touched once.  With two
  event loops in two threads the report can be without that error, or with a
  part of it; and if the second handler runs before the call has counted the first
  pipe, which was over at once, nobody reports.
- `sync_io::Native_socket_stream_acceptor` passes its member `m_target_err_code` to
  the user's handler by reference (`sync_io/native_socket_stream_acceptor.hpp:286`).
  A handler that calls `async_accept()` and reads its argument afterwards
  may see the next result.  The model has the handler read it first.
- The sentinel's deleter removes the other direction's sentinel too, before the
  queue's name: a second peer of a queue with an old one is possible in between
  (`detail/blob_stream_mq_impl.hpp`); `PeersShareQueue` is stated up to that point.
- `remove_persistent()` removes the queue first; a crash in the middle leaves
  sentinels that no listing shows, as does a sentinel made after the other
  side's deleter.  `LeakIsListable` names both.
- The comment at `sync_io/detail/blob_stream_mq_snd_impl.hpp:740`, that the handle is untouched,
  is not true after `ensure_unique_peer()` succeeded and the connecting of the
  pipe failed.
- `Posix_mq_handle`'s constructor leaves `m_mq` open when the permissions
  cannot be set, does not close its pipes when `epoll_ctl()` fails, and leaves
  `*err_code` as it was on success; a queue it made stays when a later step fails.
- A thread that only waits may take the one notification of Boost's queue
  (`bipc_mq_handle.cpp:833`) that a transferring thread needed; a process killed with
  that queue's mutex locked leaves it locked (`:746`).
- On a full backlog `connect()` may succeed, or be reported writable, with nobody
  accepting (`sync_io/detail/native_socket_stream_impl.cpp:340` and on):
  `ConnectionIsAccepted` is about connections that are in the backlog.
- `remote_peer_process_credentials()` tests `m_peer_socket` without its mutex
  (`sync_io/detail/native_socket_stream_impl.cpp:544`), in the user's thread, while
  thread W may be moving it away.

## 6. What is not modelled, and why

PROJECT.json has every component.  In brief:

- Moves, swaps and assignments of streams, handles and channels: they rename
  what the models have, and are documented as the user's to order against all
  else.
- `set_non_blocking()` and the maximum sizes of the queue handles, and
  `replace_event_wait_handles()` of the streams: settings made before the
  protocol begins, which nothing modelled reads.
- The asynchronous variants in `asio_local_stream_socket`, which the modelled
  code does not use; the non-blocking ones are the reads and writes of
  `StreamWire`.
- `Shared_name`'s comparison, hashing and stream input, value types, error
  tables, logging and allocators: no protocol and no shared state.  The
  `sync_io` pattern's classes are what the wait variables stand for.
- Handlers that are told of an abort, in a stream's or the acceptor's
  destructor, are assumed to make no further call: what they would post would
  not run.
- The speed of a peer (one that sends pings faster than they are read keeps a
  handler from returning, `native_socket_stream_impl_rcv.cpp:481`), and time as
  a quantity outside `MqHandle`.

## 7. Plan

Done: the negotiator; the socket stream's directions, end to end, against
`MessagePipe`; adapters and acceptors, against `OrderedCompletions`; connecting
and being accepted; message-queue streams, handles and names; channels.  Proofs
of both socket directions' safety, by themselves and joined, with the refinement of
`MessagePipe`; of connecting and of both acceptors, with their
refinement; of the adapters, with theirs; of message-queue streams, with the
refinement of `MessagePipe`; of handles, names and the channel's ending.

Left, in order of use:

1. Moves of handles and channels, with the interrupt flags that a swap of two
   `Bipc_mq_handle`s leaves behind.
