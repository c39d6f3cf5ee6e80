# Verification of avrtc

TLA+ models of avrtc, a small C++ signalling and media library (`src/base`) with an
example server and client (`src/example`), checked with TLC and, but for liveness,
proved with TLAPS. The models are translated from the code; line numbers in this
file and in the modules' comments refer to `src/`. `PROJECT.json` holds the
definition-by-definition map to the source, the runs and the list of hazards.

## 1. The system

avrtc has three layers: a base library (worker threads, TCP sockets around epoll,
SDP, RTP, codecs), two example programs (a signalling server and a client), and a
GTK window for each. The server process runs two threads:

    GTK main thread                              worker (avrtc::Thread)
    ---------------                              ----------------------
    main(): AddTask(server.Start) -- tasks_ -->  Run(): ServerSocket::Start()
    window: Dispatcher slot <-- Emit() ---------   OnAccept / OnReceive / OnClose
            PopTask() <-- pending_ui_tasks_ ----   PushTask()
    window closed: Stop(), Close() -- running_, clients_, sockets --> the loop

A client process runs two threads as well, and talks to the server over TCP:

    connect button: AddTask -- tasks_ -->  ClientSocket::Connect(): connect(),
    window closed: the process ends        OnConnected() sends Add, then a loop of
                                           Recv(): OnReceive() stores the id

### Components

| Component | State | Operations | Interacts through |
|---|---|---|---|
| `Thread`, `ThreadManager` (base/thread) | `tasks_`, `mutex_`, `cond_var_`, `running_`, thread registry | `AddTask`, `Stop`, `Join`, `Run`, `CurrentThread` | queue and flag shared by callers and worker |
| `ServerSocket`, `SessionSocket` (base/socket) | `socket_fd_`, `epoll_fd`, `clients_`, `running_` | `Start`, `Accept`, `Recv`, `Send`, `Stop`, `Close` | epoll, descriptors, callbacks `OnAccept`, `OnReceive`, `OnClose` |
| `ClientSocket` (base/socket) | `socket_fd_`, `running_` | `Connect`, `Stop` | callbacks, a worker `Thread` |
| `AvrtcServer` (example/server) | `senders_`, `receivers_`, two id counters | the three callbacks, Add and Close messages | messages from clients, `PushTask`/`Emit` to the window |
| `ServerUI` (example/ui) | `pending_ui_tasks_`, two list stores | `AddSender`... `PushTask`, `PopTask`, `Emit` | `Glib::Dispatcher` between socket and GTK thread |
| `SDPMediaDescription`, `SDPHandler` (base/sdp) | `fmt_`, `media_attribute_`, `mid_`, sections | `AddFormat`, `RemoveFormat`, `GetFormat`, `SetFormat`, `Negotiation`, `SDPNegotiation`, parse, print | called by the application |
| RTP packets (base/rtp) | header, CSRCs, extension, payload | build, parse | called by the application |
| `AvrtcClient`, `ClientUI` (example) | `id_`, `sdp_handler_`, the connect page's entries | `OnConnected`, `OnReceive`, connect button | `ClientSocket`, `Thread`, text over TCP |
| `FormatContext`, `Codec` (base/codec) | streams, FFmpeg contexts, callbacks | `InitInCtx`, `GetNextPacket`, `DecodeFrame`, `FlushDecoder`, `EncodeFrame` | FFmpeg, callbacks `onDeFrameCb_`, `onEnPacketCb_` |
| Codec type tables, host utilities | none | lookups | called by SDP and the examples |

### What makes each component correct, and what makes it hard

* **Thread.** Tasks run in the order they were posted, each once; no notification
  is lost; after `Stop()` at most the task already committed to is taken; the
  worker is registered before a task asks for `CurrentThread()`. Hard because
  `running_` is a plain flag read before the worker blocks, and `Stop()` takes no
  lock and notifies nobody (thread.cc:19-21, 37-41).
* **ServerSocket.** An event reaches the connection it happened on, although
  descriptors are reused within a batch; a connection's callbacks come in order
  and once; no descriptor outlives its session; the loop leaves after `Stop()`.
  Hard because any system call may fail half way through the bookkeeping, and
  `main()` closes sessions while the loop uses them (server.cc:188-189).
* **AvrtcServer and ServerUI.** The maps, the ids clients were told and the
  window's lists agree once the queued updates have run; no update is stranded;
  a closed client is forgotten. Hard because every change is made twice, by two
  threads, at two times, and clients send Adds, Closes and disconnects in any
  order.
* **SDP.** A format lives in two containers that must change together; a
  negotiation leaves what both sides support, with the remote side's parameters;
  a refusal leaves no trace; offer and answer converge. Hard because
  `Negotiation()` erases from the vector it walks (sdp.cc:324) and because later
  sections are negotiated against sections earlier ones have changed.
* **RTP.** A packet that is built is read back as it was; a packet that lost its
  tail is refused or is a beginning of it; the source count and the list it counts
  stay together. Hard because three lengths are counted in different units on the
  two sides (rtp.cc:64-88, 155-180).
* **SDP text.** Print and parse are inverse; of a text that is cut, what was there is
  read. Hard because the scanner reads the line behind a media block before it
  knows that it is one, and seeks back over a newline that may not be there
  (sdp.cc:386-392).
* **Client and server together.** A client gets the id the server registered it
  under, no two hold the same, and a client that goes leaves the window. Hard because
  TCP keeps no message boundaries and neither side restores them
  (server.cc:105-110, client.cc:27-32), because each side hands the result of a
  failed `recv()` on as a length (socket.cc:219-230), and because either process may
  end between any two steps of the other.
* **Codec.** The callback gets every frame of the stream, once and in order; one
  that fails costs no more than it must. Hard because the decoder keeps frames back,
  and every error is logged and then passed over (codec.cc:11-17, 103-115).

## 2. Modules

| Module | Models | Notes |
|---|---|---|
| `TaskExecutor` | what a `Thread` promises | abstract: submitted and begun tasks and a gate that closes |
| `TaskThread` | base/thread | refines `TaskExecutor` |
| `TaskThreadProofs` | | proofs about `TaskThread` |
| `ServerUI` | the server's window | variables and actions, no `Next` of its own; extended by `AvrtcServer` |
| `AvrtcServer` | example/server composed with `ServerUI` | |
| `AvrtcServerProofs` | | proofs about `AvrtcServer` |
| `SessionStream` | what the callbacks of a session promise | abstract |
| `ServerSocket` | base/socket, server side, with `main()`'s shutdown | refines `SessionStream` |
| `ServerSocketProofs` | | proofs about `ServerSocket` |
| `DataInduction` | | lemmas: least numbers, induction and recursive functions in first-order form, and what several proof modules need of sequences |
| `SdpMedia` | `SDPMediaDescription` | operators on a record |
| `SdpText` | `ToString()` and the parsing constructor of `SDPHandler` | operators on sequences of lines |
| `SdpNegotiation` | `SDPHandler::SDPNegotiation` and the application around it | state machine over `SdpMedia` and `SdpText` |
| `SdpNegotiationProofs` | | what each operator of `SdpMedia` returns, for sections of any length; what the scanner of `SdpText` makes of a description, whole or cut; proofs about `SdpNegotiation` |
| `AvrtcClient` | example/client, the connect page and `ClientSocket`, with the connections | variables and actions; messages are `SdpText` |
| `Signalling` | clients and server, joined by their connections | composes `AvrtcClient` with an instance of `AvrtcServer` |
| `SignallingProofs` | | what the scanner makes of a message; proofs about `Signalling` |
| `Codec` | base/codec with the loop of tests/codec.cc | FFmpeg external |
| `CodecProofs` | | proofs about `Codec` |
| `RtpPacket` | the bytes `GetRTPPacket()` writes and the constructor reads | operators; the parser's loop is a recursive function |
| `RtpHandler` | `RTPHandler`'s setters and an application that sends, loses the tail of, and reads packets | state machine over `RtpPacket` |
| `RtpHandlerProofs` | | what the operators of `RtpPacket` build and read; proofs about `RtpHandler` |
| `MC...` | | constants, model values and symmetry for TLC |

### TaskThread

`tasks`, `running`, `mutex` are the fields of the same names; `pc` is the worker's
place in `PreRun()`/`Run()`, `caller[c]` each caller's place in `AddTask()` or
`Join()`. `AddTask()` is two steps, because another thread can run between the
push under the lock and the notification and unlock; one turn of `Run()` is
`CheckRunning` (37), `Lock` (39-40), then `Sleep` or `Take` (41-43) and
`TaskReturns` (45-47). The condition variable may wake spuriously. Tasks are model
values of four kinds: plain, ending in `CurrentThread()->Stop()`, never returning
(a client's `Connect()`), and empty. `added`, `taken` and `takenAtStop` are history
variables. The write of `running_` without a lock is a data race; on the targets
the code is built for a `bool` is written whole, and the model's step order
includes every delay with which the worker may see it.

### AvrtcServer and ServerUI

The socket thread's handlers are two steps each: up to `PushTask()` and the map
update, then `Emit()` and the reply, since the GTK thread can run in between.
The GTK thread dispatches one wake-up per emit and runs updates until the queue is
empty (ui.cc:161-164). `Shown` is what an update does to a list: append a row,
or erase the *first* row with that id. `Insert` keeps an existing key, as
`unordered_map::insert` does. As in the code every Add advances
`current_sender_id_`, of whatever role, and nothing advances
`current_receiver_id_` (server.cc:51, 61). A client's display name is its
connection, which is what lets properties say whose row it is. A message arrives
whole here, and in any pieces in `Signalling`. A client may give back only ids it was
told.

### ServerSocket and SessionStream

The process is a descriptor `table` with lowest-first allocation, the epoll set
`watched`, and the listening socket's `backlog`. Data is counted in units; `recv()`
returns any positive number of the buffered ones. `Faults` names the calls a run lets
fail, `CanStop` says whether its window may be closed. A CHECK that fails, `exit(1)`, a
signal and an uncaught exception all lead to `loop = "aborted"`.

The loop and the main thread share `running_`, the server's `socket_fd_`, each session's
and `clients_`, without a lock. Each takes one step for each time it looks at or changes
one of them, so the loop's handling of an event is several: `HandleClient` (the lookup,
147-152), `RecvChecks` (216), `Recv` (219-230), then `Receive`, in which the application
may answer (193-197), or `Erase` (154-155); and `HandleListening` (142), `CallAccept`
(63-72), `Insert` (74-79), `Register` (82-88). `held` is the `shared_ptr` that the loop
has in `client` or `client_ptr` meanwhile: a session that neither `held` nor `clients_`
names is destroyed, and its destructor closes it (`Release`). `Close()` is the same code
for both threads (`EnterClose`, `CloseServer`, one `CloseClient` for each entry, `EndWalk`,
`Clear`), and both may be in it. Where the loop touches `clients_` while the main thread
walks over it or clears it the outcome is undefined: `Race` is the crash, and the step
itself may be taken as well. Between `Clear` and `MainReturns` the loop goes on.

`accept()` gives one descriptor, the `SessionSocket` constructor opens another, which
`SetFD` overwrites (70-72). If it fails, `Accept()` goes on with an address nobody wrote
(61-71): the constructor ends the process or opens a descriptor that is lost, and
`OnAccept` is called for a session on -1 (`phantom`). A failing `recv()` calls `OnReceive`
with length -1 (219-230), after which the callback's `std::string` throws: `session`
becomes `"error"` and the process ends.

`SessionStream` says what the callbacks promise. Its variables are the detailed model's,
`closing` being that the main thread has called `Close()`: nothing a callback shows is
mapped away. `OnReceive` with length -1 is a callback of its own there
(`OnReceiveNothing`), allowed as the last of its connection, when the peer has ended and
all it sent was delivered or when the server is being closed, and a phantom `OnAccept` is
allowed at any time. The comments promise more than
this and more than the code keeps: that `OnReceive` is called only when data was received
(socket.cc:213, socket.h:109).

### SdpMedia and SdpNegotiation

A section is a record of its kind (type and protocol, compared for equality only),
`mid`, `fmt` and `attrs`. Strings are not built: a rate, an argument list and a
codec are values, and the payload-type prefix that `RemoveFormat` and `GetFormat`
search for identifies the codec. `Prune` is the range-for of sdp.cc:324 with the
iterator semantics of `vector::erase`: elements shift under the loop, its end does
not, and the stale elements past the new end are what the loop reads last. The
application builds both descriptions, negotiates, changes formats, negotiates
again. Ports, directions, `b=` lines and the order of attributes within a section
that no operation looks at are left out.

### SdpText

A text is a sequence of lines, a line a key and a value, and `ended` says whether the
last one has its newline. `Parsed` runs the scanner over the lines: `at` is the outer
loop (`lines`), the inner one (`block`) or the end of the parse. The line behind a
block is read there and, after the seek, again by the outer loop; without a newline
the seek goes one character too far, the outer loop reads an empty line and stops
(`ReadBehindBlock`). Where a text that ends with its block makes `seekg` fail, the
parse is over as well, so the two need no telling apart. `Cuts` gives the ways a
`recv()` can cut a text; the words of a `z=` line are what the signalling handlers look
at, so cuts inside that line are kept apart (a whole item is lost, or one is left as a
`Fragment`), while a cut in another line leaves none of it: either the rest has no
`z=` line, or a conversion throws, and both end the process that reads it.

### AvrtcClient and Signalling

One process per client: `at[c]` is its place, from the connect page to the receive
loop or the end of the process. `OnConnectButtonClicked` posts the task and leaves the
page, which is why it happens once; `Connect` is the task up to `connect()`; then
`OnConnected` and turns of `Recv`. The task changes a copy of the address
(ui.cc:122-125), so what it dials is always the address of `main()`; `port` says
whether the entry, which it converts all the same, holds a number. `Recv` on a
connection that has ended changes nothing and is repeated for ever (socket.cc:250).

`Signalling` gives the server's actions what `recv()` took: `Receive` cuts the text that
has come up, parses it, and does `AddMessage`, nothing (an unknown request) or ends the
process (no `z=` line: `z[0]` of an empty vector; a request without its role). A
failing `recv()` ends it too: its -1 becomes a `std::string` length. `Ends` and
`ServerEnds` are what Linux does with the sockets of a process that ends: a reset if
something was left unread, the end of the stream otherwise, and nothing already sent is
lost. A connection is served when it is ready, as `ServerSocket` shows; the descriptors
and the batches are not repeated here. `split` remembers that some `recv()` took
a part of what had come: messages that come whole are what the programs rely on, and
`IdsAgree` and `CrashesOnlyBy` say what they get from it.

### Codec

`InitInCtx`, `CopyParamsFromStream`, then the test's loop: `GetNextPacket`,
`SendPacket` and turns of `Receive`, and after the last packet the same with `Flush`.
FFmpeg is external: a decoder is a `line` of frames that gives one when more than
`Delay` are in it or it is being drained, and uses a damaged one up with an error. Sending
it a packet has four outcomes: it takes it (`PacketTaken`); it takes it, decodes ahead and
returns the error of a damaged frame, which is gone (`FrameFailsInSend`); it is full and
refuses it (`PacketRefused`); it fails for another reason, as a decoder that is not open
or has no memory (`SendFails`). The code logs each of them and goes on (codec.cc:101), so
a packet can be lost without any callback: `errors` counts those. The loop ends at
the first error after
calling the callback with an empty frame (codec.cc:107-114). `EncodeFrame` always
fails, because the context was opened with a decoder (150).

### RtpPacket and RtpHandler

A packet is a sequence of bytes behind one cell for the fixed header, which both
directions copy as a whole; the cell holds the three fields that steer building and
parsing. `Build` follows `GetRTPPacket()`: the block's length field counts the words of
all extensions, their headers and its own. That field counts up to `LengthMax`, 0xFFFF
in the code; the test of the limit leaves its own header out (176), so a block of one
word more is written with its length carried into the marker, 0xBEDF (180), and what
lies behind the sources of a larger one stays as it was allocated, zero (`LeftOut`).
`Parse` follows the constructor with its early returns as `status`, keeps the loop's own
counting (from 4, by a quarter of an extension's words and one, rtp.cc:64, 86;
`NextExtension` is one turn) and its test of words against bytes (78). Where that test
lets `memcpy` read behind the packet, the status is `overrun` and nothing is said of the
outcome. The setters of fields that steer nothing are left out. The application sets
fields in any order, sends, and its packet arrives whole or cut at any byte behind the
fixed header.

## 3. What the runs check

Passing runs (TLC finds no error):

| Run | Bounds | States | Shows |
|---|---|---|---|
| `thread` | 2 callers, 4 tasks | 54 thousand | `LockedSections` (mutual exclusion), `FifoExactlyOnce`, `NoLostWakeup`, `AtMostOneAfterStop`, `CurrentThreadSet`; refinement `ImplementsExecutor`; liveness `EveryTaskTaken`, `StopWithWorkExits` |
| `server` | 3 clients, 3 Adds, 1 Close | 407 thousand | `NoStrandedUpdate`, `SenderListMatches`, `SenderIdsAreOwned`, `ClosedIsForgotten` |
| `socket` | 2 peers, up to 3 units each, no faults, shutdown, 6 descriptors, batches of 2 | 376 thousand | `NeverAborts` while the window is open; liveness `CloseIsReported`, `StopLeavesLoop` |
| `socket_faults` | 3 peers, every fault, shutdown, 7 descriptors, batches of 2 | 3.6 million | `DescriptorsOwned`, `WatchedIsClient`, `ClosedBehindLoop`; refinement `ImplementsStream` |
| `sdp` | 2 sections of 2 protocols and 3 formats a side, 3 codecs, with or without arguments | 4.8 million | `AttributesMatchFormats` (the m= and a= lines agree), `AgreedFormats` (order and parameters are the remote side's), `UnsharedDropped`, `AnswerConverges`, `AcceptedOnlyIfCompatible`, `ReadAsPrinted` (what was negotiated survives print and parse, but for `mid_`), `CutKeepsBeginning` |
| `rtp` | 3 sources, 2 extensions of 5 sizes, a block's length up to 12, 7 payloads | 412 thousand | `ReadAsBuilt`, `CutIsNoticed` |
| `signalling` | 2 clients, one connection each | 294 thousand | `IdsAgree` (client, map and connection agree on an id), `CrashesOnlyBy` (all that can end a process); liveness `ClientGetsId`, `ClientLeavesWindow` |
| `codec` | 5 packets of 2 frames, 1 frame kept back | 7.2 million | `WholeStreamDecoded` (while no call fails), `FailureCosts` (what a failing `avcodec_receive_frame()` costs, whatever `avcodec_send_packet()` does) |

Why the bounds are enough:

* Thread: two callers are needed for one to push while the other holds the lock
  or waits in `Join()`; four tasks let a queue build up behind a task that stops
  the thread, with one task committed and two left behind.
* Server: three clients and three Adds let receivers collide on id 0 while a
  third client is a sender, and a client hold two sender ids beside another's;
  one Close covers an id given back before the disconnect, and the dispatcher may
  lag behind by any number of emits. Clients are interchangeable (symmetry).
* Signalling: two clients are the least of which one can be told the other's id; each
  sends one message in its life, as the code does, and gets one reply, each of which
  may come in any number of pieces.
* Codec: five packets leave room for a damaged frame, a refused packet behind it, a
  second damaged one and packets of the other stream between; two frames a packet let
  the decoder hold more than it keeps back.
* Socket: with batches of two, two peers and the listener leave a ready descriptor out
  of a batch, and one peer can be closed and its number given to the other; three units
  let one `recv()` leave some behind. Six descriptors are exactly what two connections
  take (two each, beside the listener and epoll). With every fault there are three
  peers, so that two of a batch can be closed, lost or reused while the third comes in,
  and seven descriptors, which run out; one unit is enough, as what fails does not look
  at the data.
* SDP: three codecs and formats are the least with two neighbours the other side
  lacks and one it shares; duplicate formats fit in three places. Two sections a
  side are the least in which one remote section narrows what another could take;
  two protocols (and one media type) are enough for a section to match and not to.
  The three formats of a side are shared out among its sections.
* RTP: the source count wraps at 4 instead of 16, so that the list can be filled and
  the limit met. The extension sizes 0, 1, 3, 4 and 9 are skipped, skipped, read,
  read, and step the counter by more than one word's worth. The length of a block
  counts up to 12 instead of 65535: two extensions make one of 13 words, whose length
  carries into the marker, and larger ones, which are left out; `rtp_v_rebuild` has the
  code's limit. The payloads are empty
  or end in every kind of padding count (zero, all, too much, some).

Deadlock checking is off where the system may really stop (`thread`, `server`, the
socket runs, `signalling` and `codec`): an idle worker sleeps for ever, the processes
end, every peer has gone, or the file is decoded. The SDP and RTP runs check it.

Runs that show where the code departs from what its comments and assertions say:

| Run | Property | What happens |
|---|---|---|
| `server_v_ghost` | `ClosedReceiverDisappears` | `current_receiver_id_` is never advanced (server.cc:62): the second receiver has a row but no map entry, and its row outlives it, against the comment at server.cc:137 |
| `socket_v_shutdown` | `RecvOnOpenSocket` | `Close()` on the main thread lets the loop call `Recv()` on a closed session, whose CHECK fails (server.cc:189, socket.cc:216) |
| `sdp_v_prune` | `KeepsOnlyShared` | the loop that erases from what it walks keeps a codec the remote side lacks (sdp.cc:324, against the comment at 295) |
| `rtp_v_rebuild` | `RebuildsSame` | an extension of one or two words is not read as one and stays in the payload (rtp.cc:64), against the test's expectation (tests/rtp.cc:98) |

`UnsharedDropped` and `AnswerConverges` state what remains true beside `sdp_v_prune`:
they exclude exactly two neighbouring unsupported formats. `ReadAsBuilt` does so
beside `rtp_v_rebuild`: no extension, or one of the sizes that are read, as the test's.

Other departures that the models contain and that no run is spent on: a receiver is
replied `current_sender_id_` but stored under `current_receiver_id_` (server.cc:61, 70);
a client that added itself twice leaves its second registration behind (144), which is
why `ClosedIsForgotten` speaks of clients that added themselves once, as `AvrtcClient`
does; a failing `recv()`, after a reset for one, calls `OnReceive` with length -1,
against the comments at socket.cc:213 (a connection that ends calls only `OnClose`) and
socket.h:109 (`OnReceive` is called when data was received), which is why
`SessionStream` has `OnReceiveNothing`; an interrupted `epoll_wait` ends the loop with
`running_` set, and `Close()`'s CHECK, by whose comment `Stop()` comes first, the
process (socket.cc:131, 174); a failed `accept()` is shown to the application as a
connection (socket.cc:65-78); main's `Close()` may close a session between the CHECK of
`Recv()` and that of the answer's `Send()` (socket.cc:193), and a connection that is
being accepted meanwhile is stored behind `clients_.clear()`, the second exception of
`ClosedBehindLoop`; after a failed registration the next connection with that descriptor
is not stored (75, 84-88); `Negotiation()` changes `mid_` but not the MID attribute that
is printed (sdp.cc:322); greedy matching may refuse sections that could be paired off
(443); the descriptor that the `SessionSocket` constructor opens is lost (70-72), the
first exception of `ClosedBehindLoop`; a packet whose `avcodec_send_packet()` fails is
lost without a callback (codec.cc:101); the server ends when a client goes without
having read its reply, and a client when no server listens (`CrashesOnlyBy`); the
address, the port and the role chosen on the connect page have no effect (ui.cc:122,
client.cc:19-21); `FormatContext` opens one fixed file and `GetStream()` gives the video
stream whatever is asked for (codec.cc:48, 58-60); a file without one of the two streams
is read behind its stream table (54-55).

## 4. Fairness

* `TaskThread`: weak fairness of the worker's step and of a caller finishing
  `AddTask()` or a `Join()` that can return. The operating system schedules runnable
  threads; nobody is obliged to post, to stop, or to wake spuriously.
* `AvrtcServer` (in `server_v_ghost`): weak fairness of the second half of a handler,
  which is straight-line code, and of the GTK thread, which runs its main loop while
  the window is open. Clients owe nothing.
* `Signalling`: weak fairness of each client's socket thread, of the server's loop for
  each connection (that a ready connection is served is `ServerSocket`'s liveness), of
  the second half of a handler and of the window. Users owe nothing: they may never
  press the button, and close any window at any time.
* `ServerSocket`: weak fairness of the loop alone. Peers, the user who closes the
  window, and the main thread owe nothing; `epoll_wait`'s timeout is a step of the
  loop. The liveness run has no failing calls.

## 5. What is proved

For every value of the constants, from the assumptions named in the modules:

* `TaskThreadProofs`, from `TaskKinds`, `OwnersDistinct` and `MaxTasksNat`:
  `TypeCorrect`, `MutualExclusion`, `WakeupNeverLost`, `FifoOrder`,
  `CurrentThreadKnown`, `StopTakesAtMostOne`, and `Implementation`, the refinement of
  `TaskExecutor`. `LockedSections` and `FifoExactlyOnce` are inductive beside the
  type invariant. `NoLostWakeup` needs `LockedSections`: the worker gets from an
  empty queue to sleeping inside one locked section. `CurrentThreadSet` needs
  `RegisteredFirst` (the worker is past `create` only when registered).
  `AtMostOneAfterStop` is not inductive: `StopBudget` says how many tasks may still be
  taken at each place of the worker, one between reading the flag and the dequeue,
  none elsewhere. The refinement uses `FifoExactlyOnce` to turn "head of the queue"
  into "next submitted task not yet begun", and the budget for the gate.
* `AvrtcServerProofs`, for any number of clients, Adds and Closes, from no assumption:
  `UpdatesNeverStranded`, by the invariant itself and the type of the wake-up counter:
  every step that queues an update also leaves its handler about to emit, and the
  drain ends on an empty queue only. `SenderIdsOwned`: `SenderIdsAreOwned` speaks of
  ids clients *were told*, but an id is registered before its reply is sent, so the
  induction is over what a client was or is about to be told (`Promised`), and
  `IdsBounded` keeps the counter ahead of every id in use. `ClosedForgotten`:
  `OnClose` removes one entry, so the induction counts entries: a client that has
  added itself once has at most one, in one of the two maps (`EntriesBounded`), even
  when an insertion finds its id taken. `TypeCorrect`. `SenderListFollows`: the list as
  it will be is the queued updates run one after the other (`RowsAfter`); an update that
  is queued adds its effect at the end (`RowsAfterAppend`), one that the window runs
  takes it from the front, and what stays true is `MirrorInv`: that list has one row for
  each entry of `senders_`, no id twice, so that erasing the first row with an id is
  erasing the only one.

* `ServerSocketProofs`, from `ParametersOK` and `DescriptorKindsDistinct`:
  `TypeCorrect`, `NoOrphans`, `EventsReachTheirClient`, `NothingLeftOpen`, and
  `Implementation`, the refinement of `SessionStream`. One inductive invariant, `IInv`,
  carries all of them; none is inductive alone. `DescriptorsOwned` and
  `WatchedIsClient` survive an `Accept()` because a connection that is only now
  accepted is under no descriptor yet (`AcceptedFirst`), and a stale entry of
  `clients_` does no harm because its descriptor is unused and so not watched. What the
  loop has in its hands is a session of its own (`HeldByLoop`), and an entry of
  `clients_` names the session's descriptor or one that it has no more
  (`ClientsByDescriptor`). `ClosedBehindLoop` needs to know whose the other descriptors
  are (`OwnDescriptors`) and how far each thread has come in `Close()`
  (`NearlyClosed`): what a walk has not visited it still will, so that the second
  thread to clear leaves nothing but what was accepted in between. The refinement needs
  that a `SessionSocket` with a descriptor has seen `OnAccept` and no last callback,
  and for `OnReceiveNothing` that, until the main thread closes, each event of a batch
  is on a descriptor of its own and still there when it is handled (`Fresh`), so that
  `recv()` fails on a connection that was ready, and ready without data is ended. That
  `accept()` gets some unused descriptor is `LowestIn`, a well-foundedness argument
  over intervals. `NoAbortWhileOpen`, beside `IInv` and from two hypotheses of its own:
  there are finitely many connections, each coming once, and the table has two
  descriptors for each of them and two more. It counts: what is in use is at most the
  listener, epoll and two for each connection that was accepted (`DescriptorsLeft`),
  because `Accept()` loses one (socket.cc:70-72) that not even a close gives back. With
  fewer the constructor of the next session ends the process; the run's table is
  exactly that large. `Serving` says why no other CHECK fails: an event of a batch is
  once in it and still ready, however many descriptors earlier events of the batch
  closed.
* `CodecProofs`, from `SizesNat`, for any file, delay and damage: `NoFrameLost`: the
  frames are numbered as they are read, and what the decoder gave, holds and is about to
  get is all that was read, in order (`InOrder`, `NothingLost`), until a call reports an
  error. `FailuresPaidFor`: between two packets a decoder has nothing to give unless
  `avcodec_receive_frame()` has failed, and one failure pays for one refusal by a full
  decoder (`Refusals`), because what is refused is not added to what the decoder holds,
  and an error of `avcodec_send_packet()` adds nothing to give either; every failure to
  receive is an empty frame at the callback (`FailuresCounted`). Packets that
  `avcodec_send_packet()` loses by an error of its own are paid for by nothing, and the
  theorem does not say they are.
* `SdpNegotiationProofs`, from `BoundsOK`, for any codecs, kinds, sections and arguments
  and sections of any length up to the bound: `TypeCorrect`, `LinesMatchFormats`,
  `OnlyCompatibleAccepted`, `SharedFormatsAgreed`, `UnsharedFormatsDropped`,
  `OfferAnswerConverges`, `PrintedIsRead`, `CutIsRead`. The weight is in the lemmas
  about the operators: a loop of the code is a recursive function, of which one lemma says that it has values of its type and later
  ones what they are. `Kept` (remove and erase) keeps order, counts and last values.
  `Prune` keeps the shared codecs whatever it skips; if no two neighbours are unshared,
  the argument is that everything the loop has passed is shared (`KeptPrefix`), because
  the one element it skips after a removal is the neighbour (`PruneDrops`). `Adopt` moves
  each common codec to the end, so that what it has set stands behind the rest, in the
  order of `common` (`AdoptOrder`), and is all there is if nothing else was left
  (`AdoptExact`). `SetFormat` takes out every occurrence of a codec before it puts one in,
  which is why duplicates that the application has added are gone. In the state machine
  `Sounds` carries the balance of formats and RTPMAP lines over every operation; it gives
  a codec that is listed a rate that can be written, without which `Adopt` would write
  another's. `Progress` compares the local description with `copy`: sections only lose
  codecs, so a section that could take a remote one could do so before the call.
  `PrintedIsRead` follows the scanner through the printed text: each block adds its section
  to what was read before it, one a= line at a time (`AttributeRead`, `SectionRead`), and
  a text that is joined from others is read as they are, one after the other (`ReadsOn`,
  `SectionsRead`). It needs that a section has one MID line, that of its own side, whatever
  `mid_` says: each `Sound` section does, because no operation adds or removes one.
  `CutIsRead` compares what is read of the first lines with the run over the whole text: a
  line only adds to the sections, and of those only to the last (`Grown`, which is
  transitive), it starts one exactly if it is an m= line (`RunCounts`), and the scanner is
  in a block exactly behind an m= or a= line (`RunAt`), which says when the last line is
  lost with its `'\n'`. The theorem is about any number of remote sections (`BeginningKept`);
  that `CutKeepsBeginning` looks at one is a bound of the run only.
* `SignallingProofs`, from `ClientsFinite`, for any number of clients: `Implementation`,
  that `Signalling` implements `AvrtcServer` with the clients for connections: each of its
  steps is one of the server's or leaves the server as it is, however the texts are cut and
  whoever ends. What `AvrtcServerProofs` proves is therefore instantiated and carried over
  (`ServerInvariance`). `TypeCorrect` needs that a text stays one however it is cut
  (`CutsTyped`), and that the scanner never leaves the type of a description
  (`ParsedTyped`). `IdsAgreed`: while messages come whole, a client goes through four
  stages, silent, asked, handled and answered (`Stages`); each says what is in both
  streams, what the server has told the client, and the client's id, and a step of either
  process moves one client from one stage to the next. That ids are distinct comes from
  the server's `SenderIdsAreOwned`: two clients were told them. `CrashesExplained`: a
  message that was read whole has its `z=` line and all its items (`MessageRead`), so what
  ends the server is a reset, which only a client with unread text sends (`LinkInv`).
* `RtpHandlerProofs`, for any number of sources, any extensions, any payloads and any
  bound on them: `TypeCorrect`, `CutsNoticed`, `PacketsReadAsBuilt`. The assumptions say
  what the constants are: a limit of sources (`CsrcMaxNat`), sources and extensions that
  are words and payloads that are bytes (`CsrcsAreWords`, `ExtDataAreWords`,
  `PayloadsAreBytes`), and a length that is a 16-bit one and counts the block of one
  extension of four words (`LengthMaxFits`). The invariant says that `cc` counts the
  sources, that what was sent is what `GetRTPPacket()` makes of the packet as it is, and
  that the second handler is what the constructor makes of what arrived; the rest is
  about the two functions. `BuildLaid` says where each part of a packet is laid, `Laid`.
  For `TypeCorrect` the constructor is followed through *anything* that can arrive
  (`ParseTyped`): the loop's state keeps its type and its offset stays behind the header
  (`NextTyped`, `LoopRuns`), and a turn that goes on moves it by four bytes or more, so
  the loop has ended before the packet has (`LoopEnds`). For `CutsNoticed` the bytes that
  are read are compared with those that were laid (`SourcesRead`, `PlainCutRead`).
  `PacketsReadAsBuilt` takes the block of one extension apart (`OneExtension`): with three
  or four words its length is five or six, the loop turns exactly once, and that turn ends
  with the block (`FollowedBlock`). A block that is too large is refused because the
  marker has changed, or because it is zero (`UncountedRead`).

The library's induction theorems take a predicate, which the installed provers cannot
instantiate. `DataInduction` states the same of a *set* of numbers: one that has 0 and
with each number the next has all of them (`UpTo`), and one that is not empty has a least
(`LowestNat`), from the library's well-founded order on finite sets; and that a function
defined step by step exists and is unique (`RunExists`, `RunUnique`). So the
models' loops are recursive functions where something is proved about them.

## 6. What is model-checked only

* Liveness, which is beyond the prover's reach: `EveryTaskTaken`, `StopWithWorkExits`,
  `CloseIsReported`, `StopLeavesLoop`, `ClientGetsId`, `ClientLeavesWindow`.

Every safety invariant, action property and refinement that a passing run checks is also
stated by a theorem of section 5.

## 7. What is not modelled

* `Send()` that sends part of a message (messages are far smaller than a socket's
  buffer) and `ClientSocket::Stop()` and the address setters, which nothing calls or
  whose effect is lost.
* The destructor of `Thread`, which detaches a worker that may still use the object, and
  the thread registry beyond the worker's own entry: `main()` returns right behind it,
  and what happens then is undefined behaviour with any outcome.
* Failures of `epoll_create1`, `bind`, `listen` and of the listener's registration,
  all before the loop starts, and of `fcntl` (`SetNonBlocking`), which leaves a socket
  blocking.
* In `ServerSocket`, an application that still holds a `SessionSocket` after its
  `OnClose`: `AvrtcServer` does for a client that added itself twice (server.cc:144), and
  its descriptor stays open then. No client of this repository adds itself twice.
* How numbers, origins and m= lines are written as characters, and texts that no
  `ToString()` has written.
* RTP packets shorter than the fixed header, which leave the handler uninitialised
  (rtp.cc:20-22).
* Widgets, the destructors of the codec wrappers, the codec tables, host utilities,
  build files: constant tables, allocation and queries without behaviour over time.

## 8. Plan

The modules of section 2 cover every part whose behaviour depends on order, failure or
time, and what TLC checks of their safety is proved. A change to the code starts in the
module that models it: TLC first, on the runs of section 3, then the proofs of that
module. If `Thread` gets a destructor that joins its worker, or the client's receive
loop (socket.cc:250) an end, those are the next steps to model.
