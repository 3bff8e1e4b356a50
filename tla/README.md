# A verification of espfsp in TLA+

`espfsp` (directory `streamer/`) is a streaming library for ESP32 boards. A
server relays the frames of one camera, a *push client*, to one viewer, a *play
client*. Several push clients can be connected; the play client chooses one as
its source. Control goes over TCP in fixed-size TLV messages, frames go over
UDP in parts of 1400 bytes. The code runs as FreeRTOS tasks that share state
through queues, one mutex and a few plain variables.

The repository has no tests and an empty README: the specification of a
component is what its callers, its comments and its own error messages expect.
All paths below are relative to `src/streamer/`.

## Inventory

| Component | State it keeps | Operations | Runs in |
|---|---|---|---|
| Receiver buffer, `espfsp_message_buffer.c` | assemblies with owner and usage bits, `frameQueue`, `s_ass`, `buffer_locked` | `process_message` (producer), `get_fb`, `return_fb` (consumer), `init`, `deinit` | receiving data task; sending data task of the server or the application of a play client |
| Session manager, `server/espfsp_session_manager.c` | per slot `active`, `session_id`, `name`, `stream_started`, configurations; two primary pointers; a mutex | `get_comm_proto`, `return_comm_proto`, `activate`, `deactivate`, getters, setters | every connection task of the server |
| Server handlers, `server/espfsp_comm_proto_handlers.c` | none | one handler per request, `espfsp_server_connection_stop` | the connection task |
| Server connection tasks, `server/espfsp_session_and_control_task.c` | the slot they hold | accept, run, give back | one task per connection |
| Communication protocol, `comm_proto/` | `reqActionQueue`, the state of the run, `en` | `run`, `stop`, `insert_action` | one task per connection on all three sides |
| Data protocol, `data_proto/` | `startStopQueue`, `settingsQueue`, `started`, frame configuration, NAT signals | `run`, `start`, `stop`, `set_frame_params` | data tasks on all three sides |
| Server data tasks, `server/espfsp_data_task.c` | a UDP socket | run, restart | two tasks |
| Push client, `espfsp_client_push.c`, `client_push/` | session data, the camera callbacks | SESSION_ACK, START, STOP, SET handlers; reconnection | control and data task |
| Play client, `espfsp_client_play.c`, `client_play/` | session data, a receiver buffer, answers of get requests | the public API, ACK and answer handlers; reconnection | application, control and data task |
| Client tasks, `client_common/` | a socket | connect, queue SESSION_INIT, run, restart | control and data task |
| Parameter map, `espfsp_params_map.c` | none | parameter id to field of a configuration | callers |
| Socket operations, `espfsp_sock_op.c` | none | send and receive with a connection state, splitting of frames | callers |
| Server life cycle, `espfsp_server.c` | the instances | create, remove | application |

How they interact:

- A connection task takes a slot from the session manager, runs its
  communication protocol, which calls the handlers, and gives the slot back.
- A handler reads and writes the session manager under its mutex. After
  releasing it, it puts messages into the action queue of its own or of another
  connection and commands into the start-stop queues of the data tasks.
- No queue is ever waited for: what does not fit fails, a failed handler fails
  the run, and a failed run ends the connection *without* the callback for a
  lost connection.
- The two data tasks of the server share one receiver buffer: the task on the
  camera's side produces, the one on the viewer's side consumes.

What is hard in it:

- The hand-over of assemblies between producer and consumer is protected by
  nothing but two bits and the queue, and the producer takes completed frames
  back out of the consumer's queue when it runs short.
- Every handler is split in two by the release of the mutex: flags first,
  commands later, with other handlers in between.
- A connection can end in several ways, and they clean up differently.
- Slots, queues and names survive the connection they were for.
- A START_STREAM replaces the receiver buffer, and nobody waits for the data tasks
  to have stopped using it.
- Nobody tells the server where the viewer is: it listens for signals when it
  thinks the viewer may be gone, and what it thinks rests on its own frames.
- UDP loses, reorders and duplicates; calls fail one by one.

What makes each component correct: an assembly has one owner, a frame handed
over is whole and stays as it is while it is read, frames come in order; at most
one camera streams and it is the primary one; the two ends of the stream agree on
whether it is on, and so do the data tasks; a lost connection frees its slot; a
camera is on while frames are asked of it, and the buffer it fills has the
length it is told; a client that starts over has nothing left of its last
session; an answer belongs to the question; a wait with a timeout ends; a message
for a session reaches that session; a viewer that has moved is found; the old
camera stops when another is chosen; the receiving task works at the rate its
buffer was made for and the sending one at the rate of the session; a frame arrives as it was cut. `PROJECT.json` lists the hazards
line by line, each with the properties that cover it or the reason why none does.

## Modules

| Module | What it is |
|---|---|
| `FrameQueue` | abstract: what a receiver buffer promises to its consumer |
| `MessageBuffer` | the receiver buffer, at the grain of its accesses to shared state |
| `MCMessageBuffer` | instances of it for TLC |
| `MessageBufferProofs` | theorems about it |
| `ServerSessions` | session manager, handlers, connection tasks and the start-stop side of the data tasks |
| `MCServerSessions` | instances of it for TLC, with the views explained below |
| `ServerSessionsProofs` | theorems about it |
| `PushClient` | a camera: control task, data task with settings and frame buffer, and the two queues between them |
| `MCPushClient` | instances of it for TLC |
| `PushClientProofs` | theorems about it |
| `PlayClient` | a viewer: the functions of the application, control task, answers, and the start-stop side of the data task |
| `MCPlayClient` | instances of it for TLC |
| `PlayClientProofs` | theorems about it |
| `FrameParts` | how a frame is cut, paced and put together again: operators and what they promise |
| `NatTraversal` | the server's sending task and the viewer's receiving task, with a NAT between them; extends `FrameParts` |
| `MCNatTraversal` | the instance of it for TLC |
| `FramePartsProofs`, `NatTraversalProofs` | theorems about them |
| `ControlLink` | the control connections of several cameras, both ends: slots, queues, TCP, removal of the server |
| `MCControlLink` | the instance of it for TLC |
| `ControlLinkProofs` | theorems about it |
| `StreamPath` | a stream through the server: requests, the receiver buffer as it is replaced, both data tasks, the cameras |
| `MCStreamPath` | the instance of it for TLC |
| `StreamPathProofs` | theorems about it |

The modules overlap on purpose. `ServerSessions` has every request and every way
a session ends, and of the rest only flags and commands; `StreamPath` follows a
stream to the buffer and the cameras, and has the session down to a flag;
`ControlLink` has several connections and both their ends, and no stream. One
module with all three would be out of TLC's reach, and the calls that connect
them (`insert_action`, `espfsp_data_proto_start` and `stop`) never wait, so each
module meets the others as queues it may find full or not.

A definition introduced with "Faulty variant of" is not part of the system: it
is what a plausible bug would make of the definition it names, and stands there
to show that a property would notice (`mutants` in `PROJECT.json`).

### MessageBuffer

State and code: `bits`, `stamp`, `msg_received` and `buf` are the fields of an
assembly, `frameQueue`, `s_ass` and `buffer_locked` those of
`espfsp_receiver_buffer_t`. A frame is named by its timestamp, lengths are
counted in parts, and the contents of a buffer are, for each part, the frame
whose bytes were last copied there: enough to tell a whole frame from a torn or
mixed one.

`espfsp_message_buffer_process_message` is split where the consumer can come in
between in a way that matters: the search for an assembly (`UseMatching`,
`ClaimFree`, `NoneFree`), the receive from the queue (`StealOldest`,
`NoneQueued`), the eviction (`EvictEarliest`, `NothingToEvict`), the copy and the
hand-over of the bits (`StorePart`), and the send to the queue (`Publish`). The
consumer never turns an assembly into a used one, so a scan that finds no free
assembly can be thought of as made at its start. A scan that finds one may
find any.

`espfsp_message_buffer_get_fb` is split into the prebuffering (`BufferUnlocks`,
`BufferOpen`, `BufferRelocks`), the frame interval (`IntervalMet`,
`IntervalTimeout`) and the receive (`TakeFrame`, `TakeTimeout`), followed by
`ReturnFrame`. Time is a choice between meeting and not meeting the interval.

Abstracted: width and height of frames, the byte layout of a part. Parts of one
frame agree on its length and its number of parts, as `send_whole_fb` makes
them. `deinit` and the second `init` are in `StreamPath`.

### ServerSessions

A slot is a `comm_proto` together with the session data at the same index. Push
slots come first, then play slots. `pc` is where the connection task is: `listen`
and `action` are the states of `espfsp_comm_proto_run`, `post` a handler that has
released the mutex, `closed` the state in which the connection callback is
called, `stop` that callback after the mutex, `exit` the way to
`return_comm_proto`. `todo` holds the calls still to be made after the mutex, in
the order of the code; each is one step, and one that fails drops the rest.

The part of a handler under the mutex is one action: no other task can see it
half done, except `LookUpOther`, which reads a session id without the mutex and
so is a step of its own. `NothingToDo` and `RunFails` collect the ways a request
changes nothing: their guards are weaker than those of the code, since a client
may always send a request with a wrong id, to which the handler answers with
success, or one without a handler, which fails the run. So nothing is lost and
no behaviour is added.

Abstracted: values of parameters and configurations; whether START_STREAM
replaces the receiver buffer is a choice (`rebuffer`). A slot's name is never
cleared, so SOURCE_SET can find any active camera slot, with or without a
session; before the first session of a slot its name is uninitialised memory,
which is a choice of names too.
Left out: `settingsQueue` (a reset and a send, which cannot fail in the server;
see `StreamPath`), the TLV layout, removal of the server (see `ControlLink`).

`upset` is a history variable for two properties. `"abrupt"` is added when a
session ends other than through `connection_stop`: by SESSION_TERMINATE while its
stream is on, or by a run that fails. `"disturbed"` is added when two handlers
make their calls for the stream at the same time, when one of these calls fails,
when a data task restarts, and when the receiver buffer is replaced under a
running one. `"replaced"` is added when a play client opens a session while
another one is primary: `activate_session` makes the new one primary all the same,
under the comment "Works only with assumption of only one CLIENT_PLAY"
(`server/espfsp_session_manager.c:298`), and the slots of the configuration allow
one play client only. The flags of the two ends may then differ for good, the
commands to the data tasks still follow them. The actions never read it.

### PushClient

`active` and `camera_started` are the session data, `config` the client's own
configuration and `frame_config` the copy of the data protocol, `buf` the length
`send_fb.buf` was allocated with, 0 for NULL. `ctl` is where the control task is:
`connect` and `connected` in `espfsp_client_session_and_control_task`, `listen`,
`action` and `closed` in `espfsp_comm_proto_run`, and `start`, `stop`, `set` and
`lost` in a handler or `connection_stop`. The calls a handler has still to make
are in `todo`: callbacks of the application, the reset and the send of settings,
commands. Each is a step of its own, since the data task runs on meanwhile, and
a failed one drops the rest, except that `connection_stop` always clears the
session. `dpc` is the state of `espfsp_data_proto_run`; its CONTROL state does
nothing and is left out.

The server sends any request at any time. A request with another session's id
or one without a handler fails the run (`RunFails`), so ids need not be kept.
`reqActionQueue` holds nothing but SESSION_INITs in this client and is the number
`pending`. `cam_on` is what the application makes of `start_cam` and `stop_cam`,
either of which may fail.

Abstracted: of the frame configuration, `frame_max_len` and `fps`. Left out:
the camera configuration (CAM_SET_PARAMS may do nothing or fail the run), the
handler of SESSION_TERMINATE (`espfsp_comm_proto_session_terminate` has no
caller), removal of the instance. `failed` and `exhausted` are history: a run
with a session ended with an error, and a malloc failed.

### PlayClient

`active`, `session_id` and `stream_started` are the session data, under their
mutex. `answers` are the three `get_..._data_queue`s, reduced for each answer to
the number of the get call it belongs to. `Kinds` is what can be asked for, and
`Size` the number of parameters of each kind, which is how many requests a get
call makes and how long its queue is; one kind, `"sources"`, is a single answer
with a code of its own. The application calls one function at a time: `api` is
`post` when a function has released the mutex and has calls left in `todo`,
`wait` in the loop of a get call, `receive` between the peek and the receive of
`espfsp_client_play_get_sources_timeout`. The time left is counted modulo `Wrap`,
as the code's unsigned arithmetic does.

The handlers of answers do not hold the mutex while they queue. A full queue
(`ctl = "full"`) makes them drop the first answer (`DropFirst`) and send again
(`SendAgain`), with the application free to take answers in between. That they
compare the session before that is part of `AnswerArrives`: only their own task
changes the session.

The server is reduced to what a viewer sees of it: an acknowledgement for the
first SESSION_INIT of a connection, an answer to each get request with the
connection's session, in order, STOP_STREAM at any time, and the loss of the
connection, with what was on its way. `conn` numbers the connections, and the
server's session ids with them.

Abstracted: values of parameters. Left out: `get_fb` and `return_fb`
(`MessageBuffer`), the replacement of the receiver buffer, SESSION_TERMINATE,
removal of the instance. History: `upset` is set when a command for the data
task is lost for want of room, when the data task restarts, and when the control
task stops a stream while the application is about to send a command for it;
`missed` when a get call ends without all of its answers.

### FrameParts and NatTraversal

`FrameParts` has the arithmetic of `espfsp_send_whole_fb_within`: the offsets of its
loop, the message sent for each, the microseconds each share of the interval
leaves over, and where `process_message` copies a part. `PartSize` and `TickUs` are
the code's constants. The two functions without pacing cut a frame the same way.

`NatTraversal` has one server and one viewer. `nat` is the viewer's address as the
server sees it, and changes at any time; `mail` holds the signals in the server's
socket, `peer` what that socket is connected to. `spc` follows
`espfsp_data_proto_handle_send` through `handle_incoming_signal`: `signal` with a
frame obtained, `wait` with the socket disconnected, `connect` with a signal read,
`send`. A connected socket drops signals from elsewhere, so it is exactly the
server that thinks all is well that cannot hear the viewer (`Room`). `last_traffic`
is kept as an age that stops at `NatIdle`, from where on
`should_signal_be_handled` says the same for all, or at `Never`. `sNow` is how old the
clock is that the sender has read: `Connect` notes the traffic at a time read before
the wait.

Abstracted: START and STOP come in any order (`ServerCommand`, `ViewerCommand`); a
frame arrives whole or not at all, `MessageBuffer` having the parts; the time a
tick takes. The address in `latest` is that of the last signal read, as the loop
in `get_last_signal` leaves it.

### ControlLink

`srv[k]` is the server's task for connection `k`: `new` not accepted yet, `task`
accepted, `begin` with a slot, `loop` in `espfsp_comm_proto_run`, `ack` in the
SESSION_INIT handler after the mutex, `exit` on the way to `return_comm_proto`.
`up[k]` and `down[k]` are what TCP holds. A message is what tells sessions apart:
a SESSION_INIT, an acknowledgement or a request with a session id. Session ids
come from one counter; here a session has the number of its connection.
`CameraReadsPart` is a `recv` that returns a part of a TLV: the handler sees the new
part with what the buffer held of earlier messages, which can be the right id or
another (`Garbled`), and the rest comes as the next message. `call` is a request of
some viewer between the mutex and the queue. `StopRun` and `DeleteTasks` are
`stop_tasks`. The delay of one second before the tasks are deleted is no join: a run
that waits in a send or works in a handler may outlast it, and the task of a
connection is not deleted at all. So `DeleteTasks` waits for nothing. The model ends
where the deinits begin, and does not say what those left over do to what is freed.

Abstracted: a run alternates reading and sending, here it does either. What a
lost connection does to the stream is in `ServerSessions` and `StreamPath`.
History: `tainted` connections took a slot with messages left in its queue or on
the way there, came with a session of their own, or had a message read in parts;
`lateRuns` began after their slot was stopped.

### StreamPath

`todo` are the calls a handler has still to make after the mutex, as in
`ServerSessions`, here with what they carry: `deinit` and `init` of the buffer,
settings and commands for the two data tasks, START and STOP for the camera.
`link` is what is on its way to a camera, its action queue and TCP taken together, a
FRAME_SET_PARAMS among them (`PARAMS`), which can be the message there is no room for;
`camOn` whether the camera's data task has been started. A data task is in one of
three places: where it reads a command, where it reads settings, and in its round,
where it uses the buffer. `caught` says that the buffer was freed in that round;
from there it may fault (`Faults`, which ends the model), fail, or get away with it.
`init` with a rate of zero ends the model too. A camera's connection is `up`,
`lost` before the server knows, or `down`.

Three parties hear of a rate in three ways. START_STREAM makes the buffer for it and
tells both data tasks. FRAME_SET_PARAMS, at any time, stores it in the session, sends
it to the camera and, if that did not fail, tells the *sending* data task
(`FrameCalls`, `server/espfsp_comm_proto_handlers.c:484-495`); the receiving task and
the buffer keep the rate of the last START. `RatesAgree` states just that. A rate of
zero told during a stream ends the run of the sending task in `update_frame_config`
(`SettingFails`): the next run has forgotten that it was started.

A handler that fails ends the run of the play client in the error state, without the
callback (`comm_proto/espfsp_comm_proto.c:348-351`): `CallFails` drops the calls that
were left. The next play client takes its place at once, with its flag of the stream
cleared by its SESSION_INIT, while that of the camera stays. A play client whose
connection is lost makes the calls of `StopStream`, in the same order, in its callback.

Abstracted: of the frame configuration, `fps` and `fb_in_buffer_before_get`:
`frame_max_len` and `buffered_fbs` go the same way as `fps`. Slots and sessions
of cameras are one thing. Allocations succeed. History: `zeroAsked`; `missed`, when a
command was not given because a call failed, or two handlers made their calls at the
same time; `upset`, since the last START, when any call failed, two handlers made
their calls at the same time, or a data task restarted, be it for a rate of zero.

## Runs

| Run | Instance | Question |
|---|---|---|
| `message_buffer` | 2 assemblies, prebuffering of 2, 4 frames (2, 1 and 2 parts, and one of 3 that is too long), each message delivered 0, 1 or 2 times | safety of the hand-over, refinement of `FrameQueue`, prebuffering never locks for ever |
| `server_sessions` | 2 cameras, 1 viewer, all queues of length 1 | types, one streaming camera, agreement of the two ends |
| `server_stream` | 1 camera, 2 viewers, action queues of length 1, start-stop queues of length 3 (as in the code) | data tasks follow the flags, also when the viewers take each other's place |
| `primary_is_session` | 1 camera, 1 viewer | refuted, see Findings |
| `stream_states_agree` | 1 camera, 1 viewer | refuted, see Findings |
| `push_client` | 2 frame lengths, rates 0 and 1, all queues of length 2 | types, camera and stream, buffer and limit, settings, clean end of a session |
| `can_start_over` | the same | refuted, see Findings |
| `play_client` | 2 parameters and the sources, queues of length 2, a timeout of one tick, 2 connections, 2 get calls | types, stream and session, room for answers, data task and flag, answers to the right call |
| `get_terminates` | a timeout of one and a half ticks, numbers modulo 4 ticks, 1 connection, 1 get call | refuted, see Findings |
| `nat_traversal` | 2 addresses, two changes of address, frames of 1 to 7 bytes in parts of 3, two of them too long for the viewer | types, a connected socket for every frame, cutting and pacing; a moved viewer is found, a starved one keeps knocking |
| `control_link` | 2 cameras, 1 slot, 2 connections, queues of length 1 | types, slots, who gets which message, which session a camera has; which runs a stop misses; a camera gets its session |
| `stream_path` | 2 cameras, queues of length 2, 3 requests, one failure, three settings | types, the buffer while it is replaced, the old camera, rates of the two halves, rates of zero; a stream flows |

Why the bounds are enough for their purpose:

- With two assemblies, three frames that fit and one that does not every branch of the producer is taken,
  including the theft of a queued frame while another is held, the eviction of
  the earliest frame and the message dropped because all assemblies are with
  the consumer. A duplicate is what `WholeFrames` needs to exclude; with two
  copies of each message late parts of evicted frames claim assemblies again.
- Queues of length 1 in `server_sessions` make every call that can fail for want
  of room fail in some behaviour. Length 3 in `server_stream` is the code's.
- Two cameras and one viewer are what a change of source takes. Two viewers and one
  camera are what it takes for a viewer to lose its place to another while the
  stream is on; a change of source is refused then.
- `MaxId` bounds the number of sessions. In `server_sessions` and `server_stream`
  it never stops a behaviour: the views identify states that differ only in the
  values of session ids and in which messages (not how many) wait in a queue. No
  guard reads these: ids are only compared with "no session", and the
  client on the other side may send anything. So the states identified have the
  same futures up to that difference, none of the properties of these runs
  mentions it, and TLC explores sessions that come and go without a bound.
  `SessionView` also forgets which commands the data tasks have read, which does
  not act back on the sessions.
- `server_stream` cuts every behaviour where something other than a change of
  viewers upsets the stream, since its property says nothing from there on.

- `push_client` has no bound but the lengths of its queues and its two values of
  each parameter: connections come and go without end. Two lengths are what a
  change takes; the rate 0 is the one the code refuses.
- In `play_client` the queue of requests is as long as a get call has requests,
  as with the camera parameters of the code (5 and 5), so a call that finds
  anything queued fails halfway. Two connections and two get calls are what it
  takes for an answer of one call to be there for the next, and for a session
  to be lost and followed by another. A timeout of one tick lets calls give up
  before, between and after their answers.
- In `get_terminates` only parity matters: tick and modulus are even, as 10 and
  2^32 are, and the timeout is odd.

- In `nat_traversal` a viewer is moved and moves back, or to an address of which
  the server still holds a signal; `NatIdle` of 2 ticks tells recent traffic, traffic
  just noted and none apart. The frame lengths are one to three parts, the last of
  them full or not; the intervals are all up to five ticks.
- In `control_link` a camera gets the slot another has left, or comes back to the
  one it had. Queues of length 1 fill.
- In `stream_path` three requests are a START, a STOP and another START, which
  replaces the buffer; a START, a STOP and a change of source; a setting before, or
  during, a stream; or two settings. The settings are a second rate, a rate that is zero
  as an `uint16_t`, and the parameter without which a START keeps the buffer. One
  failure is a lost camera or a failed run. With four requests (`MaxRequests = 4`,
  ten times the states) the properties hold too.

`CHECK_DEADLOCK FALSE` in the passing runs but `push_client` and `nat_traversal`: the
model stops when the bounded network has delivered all it may, when the bounded
sessions, connections, requests or get calls are used up, or where the server ends.
That no task waits for another is what the liveness properties say. `push_client`
and `nat_traversal` check that there is no deadlock.

### Fairness

FreeRTOS runs every ready task, and all tasks of the library have the same kind
of polling loop with a delay, so each task's next step is weakly fair: `Process` and
`Get` in `MessageBuffer`, `InFunction`, `ControlTask` and `ReadCommand` in `PlayClient`,
`ServerStep` and `ViewerStep` in `NatTraversal`, the steps of each task and the reading
and sending of each run in `ControlLink`, `NextCall`, `Camera` and `DataTask` in
`StreamPath`. Callbacks of the application are assumed to return, and TCP to tell
each end in the end that the other has closed.

Strong fairness is needed three times. Time passes: for a consumer that asks again
and again whether the frame interval is over (`MessageBuffer`), and for the ages of
`NatTraversal` (`Tick`). And of the signals of a viewer that sends ten of them at
a time, again and again, some arrive (`Punch(1)`), provided the socket of the server
takes them. Clients, requests, frames and the loss of a connection owe nothing.

`MovedViewerIsFound` has an exception that is the code's, not the model's: a server
whose frames go out without a pause of `MAX_TIME_US_NO_NAT_TRAVERSAL` takes its own
frames for traffic, stays connected to the old address, and never hears the viewer
(`data_proto/espfsp_data_send_proto.c:32`). A stream at an even rate is just that.

### Findings

- `primary_is_session`: `espfsp_session_manager.h:22-27` describes the primary
  client of each type as one of the sessions. SOURCE_SET makes a slot primary
  that has no session, and a slot given back after a failed run stays primary.
  Every request of the play client then fails, and drops it.
- `stream_states_agree`: the handlers treat differing stream states of the two
  ends as an error that drops the play client
  (`server/espfsp_comm_proto_handlers.c:137-141`). The state is reached by a play
  client that terminates its session while streaming and opens another, and by
  any failed run of a streaming client. It lasts until the camera disconnects.
- `can_start_over`: a run that ends with an error, say because `start_cam` failed,
  does not call `connection_stop`, so the camera reconnects with its session still
  active, refuses the SESSION_ACK of the new one
  (`client_push/espfsp_comm_proto_handlers.c:46-50`) and goes on like that until it
  is restarted. A viewer in the same situation keeps the id of its old session.
  Also, SESSION_INITs of connections lost before they were sent fill the action
  queue, after which none can be queued and the queue is never emptied.
- `get_terminates`: the get functions of the viewer take 10 from an unsigned
  `timeout_ms` until it is 0 (`espfsp_client_play.c:581-593`). A timeout that is not
  a multiple of 10 wraps around, and an odd one never becomes 0: with an answer
  lost, the function does not return. Theorem `OddTimeoutsNeverRunOut` says so
  for every even tick and every odd timeout.

## Proofs

TLAPS checks these for every value of the constants, from the assumptions named
in the modules (sizes are positive, frames are naturals, NULL is no assembly).

`MessageBufferProofs`:

- `OwnershipAlwaysAgrees`, `QueueAlwaysHasRoom`, `OneAssemblyPerFrameAlways`,
  `HeldFrameAlwaysStable`, `TypeCorrect`. The inductive invariant is
  `IInv == TypeOK /\ ProducerAgrees /\ OwnershipAgrees /\ OneAssemblyPerFrame`.
  `ProducerAgrees` says what the producer knows at each of its steps: the message
  in hand fits a buffer, the assembly in hand is one, no assembly is being filled
  for the message where the producer steals or evicts, and used assemblies carry
  the timestamp of a frame. Without it `OneAssemblyPerFrame` is not inductive: a
  theft would make a second assembly for a frame. The types give the ranges of
  all functions.
- `QueueHasRoom` follows from ownership by counting: the queue holds distinct
  assemblies and never the one about to be queued, so it is shorter than their
  number (lemma `DistinctLength`).
- `HeldFrameStable` follows step by step: the producer writes only the assembly
  in hand or one it claims, and ownership says neither is held.
- `FramesAreAlwaysWhole`. The code only counts parts, so the proof has to count
  them too: `CountInv` says that an assembly has counted no more parts than it holds
  of its frame (a cardinality) if none came twice, and is handed over when it has
  counted all; `ArrivedInv` that what lies in a buffer was delivered, and that the
  message in hand is not there yet unless it was delivered twice. A done assembly
  then has as many parts of its frame as the frame has, that is all of them.
- `FrameQueueIsImplemented`: the buffer is a `FrameQueue` under the mapping of
  `MessageBuffer`, where the queue of frames is the timestamps of the queue of
  assemblies and the frame held that of the assembly held. `IInv` and `CountInv` say
  that these timestamps are frames, that no claim of an assembly changes one of them,
  and that the assembly about to be queued is neither queued nor held, so there is
  room for its frame (`RoomBesideHeld`). Every step is then one of `FrameQueue`
  or a stutter; there is one proof step for each of its actions.

`ServerSessionsProofs`:

- `TypeCorrect`, which includes the limits of all queues.
- `OnlyPrimaryStreamsAlways` and its corollary `AtMostOneStreamsAlways`: however
  connections fail, only the primary camera has its stream on. Of the types only
  those of the session data are needed; the argument is one step per handler,
  the interesting ones being SOURCE_SET without a primary camera, where no flag
  is looked at, and the callback that gives up halfway.
- `StreamsAlwaysAgree`. `PlacesInv` says where a connection has calls to make and
  where a session; `PrimaryInv` that the primary play client is a session unless a
  slot was given back with one; `AgreeInv` that there is only one session of a play
  client, and that its flag is on exactly when that of some camera is. The property
  speaks of the primary camera only, which alone is not inductive: it could be
  another camera that streams.
- `DataAlwaysFollowsFlags` adds `CommandInv`: one handler at most has calls for the
  stream to make, the commands among them are those the flags want, and a data task
  that nobody is about to tell has been told, counting the last command it has not
  read. It holds through a change of play clients, as the flag it looks at is that of
  the cameras.

`PushClientProofs`:

- `TypeCorrect`, `CameraAlwaysOutlivesStream`. The invariant adds `Progress` to the
  types: which calls are left of which handler, and what those already made have
  achieved. When only `stop_cam` is left the last command queued is STOP; when
  `start` is left the camera is on. That is the order of the calls in the
  handlers, and what the property rests on.
- `BufferAlwaysMatchesLimit` is inductive by itself: one action touches the buffer.
- `SettingsAlwaysReachTask`. `SettingsInv` adds what holds between the reset of the
  settings queue and the sending: the queue is empty then, so that the send
  finds room, and only the two handlers that send may have set a configuration that
  is not on its way.
- `AlwaysCleanAfterLoss`. `CleanInv` says of every state of the control task what the
  property says of one: a handler that runs has the session, one that stops has a
  camera to stop, and what does not count as started is off, except in `start`.

`PlayClientProofs`:

- `TypeCorrect`, whose invariant adds that requests and answers are of a kind that
  has a queue, and that a function that waits has answers to come.
- `AnswerAlwaysFits`: the answers step of the invariant. Between the drop and the
  second send only the application touches the queue, and it only makes room.
- `StreamAlwaysNeedsSession`, inductive by itself: the flag is set under the mutex
  with a session there, and whoever ends the session clears it, or ends neither.
- `DataAlwaysFollowsFlag`. `FlagInv` compares the flag with the command the
  application is about to send or, if there is none, with the last one sent.
- `AnswersAreAlwaysCurrent`. `GetInv` says what a get function has left to send;
  `CurrentInv` counts: requests still to be queued, queued, answered, and answers
  waiting never add up to more than the function still waits for. So when it
  returns with all its answers nothing of it is left anywhere, and a queue of answers
  is never full as long as no call was given up.
- `OddTimeoutsNeverRunOut` and `WholeTimeoutsOnlyFall` are the general form of what
  `get_terminates` refutes on one instance. With a tick and a number of unsigned
  values that are even, as 10 and 2^32 are, an odd timeout keeps its parity through
  every subtraction and wrap-around and is never 0, so no get function with one
  gives up. With a timeout of whole ticks the time left only falls, to zero.

`FramePartsProofs`:

- `EveryFrameIsMade`, for every size of a part and every frame of at least one
  byte. The loop counts bytes in steps of a part and the receiver counts rounds:
  lemma `Rounds` says that its offsets are the multiples of the size of a part, one
  for each number below `msg_total`, and `PartOfRound` where the part of a round
  begins and ends. What is needed of division is proved first (`DivMod`, `NextMultiple`,
  `DivIs`). A frame without a byte has no parts, and `EmptyFrameIsMade` says it
  separately: nothing is sent, and nothing is missing.
- `EveryFrameFillsItsInterval`, for every frame of at least one byte, every length of
  a tick and every interval. `Paced` is a recursive function; its values are given
  in closed form by `Shares`. `SharesPace` says that `Shares` satisfies the
  recursion, `PaceIsShares` that nothing else does: of the rounds in which another
  function differed there would be a first one (`Least`, from the well-foundedness
  of the naturals), and the round before determines it. So the induction needs no
  induction theorem. That carrying the rest of a tick along loses none of it is
  `TicksOfSum`.

`NatTraversalProofs`:

- `StreamAlwaysHasPeer`. The invariant adds `SignalHasSender`: the address the
  socket is connected to is that of a signal that was read. A disconnected socket
  is safe because every step that leaves `signal` without looking for a signal
  has seen recent traffic, and ages only grow (`OlderAge`).
- `TypeCorrect`, `PartsAlwaysMakeTheFrame` and `PartsAlwaysFillTheInterval`, the latter
  two from the theorems about frames, since the frame in hand is one of the server's.

`ControlLinkProofs`:

- `SlotAlwaysHasOneTask` rests on the mutex of the session manager only: a task
  takes a slot that is free and gives back its own.
- `MessagesAreAlwaysForSession` and `CameraAlwaysKnowsItsSession` are inductive
  together. Two facts are added: the session of a slot is that of the connection
  whose task holds it, or none (`SessionOfHolder`), and a request in some handler's
  hands is for the session of the task that holds the slot it goes to, unless that
  task took the slot with the request on its way (`CallForHolder`). A message can
  then be wrong only for a connection that took over something, which is what
  `tainted` records.
- `OnlyLateRunsEverMissTheStop` is inductive with `SlotAlwaysHasOneTask`: nothing but the
  start of a run sets `en`, and a run that starts in a stopped slot is a late one. It
  says who is told to end, not that they have ended when the tasks are deleted.
- `TypeCorrect`.

`StreamPathProofs` has two inductive invariants, one about values and one about
commands, and two that rest on them:

- `IInv == Types /\ BufferInv /\ StreamInv /\ ZeroInv` gives `RatesAlwaysAgree` and
  `ZeroRateWasAlwaysAsked`. `BufferInv` is the order of the calls of START_STREAM
  (`Ordered`): the buffer is made first, the receiving task is then told its rate, and
  what may fail comes after. So a handler that fails has told the receiving task of
  the buffer it has, or has not touched the buffer. `StreamInv` says that during a
  stream the sending task has been told the rate of the session, or the handler that
  stored it has the call left. A handler may fail between the two, when the camera's
  queue is full, but then the play client and its stream go with it. `Told(d)` is
  the rate a task works at once it has read its settings.
- `CommandsInv == CommandTypes /\ PrimaryInv /\ OldCameraInv /\ CaughtInv`, which rests on
  the first, gives `OldCameraIsAlwaysStopped` and `OnlyStoppingTasksAreEverCaught`.
  `PrimaryInv` says that only the source has its flag set. The camera's flag
  (`StreamOn`), not the play client's, tells whether the data tasks may run, as it
  outlives a play client whose handler failed.
  `OldCameraInv` looks at the *last* command a camera has to read or will be sent:
  if it is a START, or there is none and the camera sends, the camera streams.
  `CaughtInv` says that a task that a handler is about to start under a new buffer
  has a STOP as its last command, or is off already. The properties ask for a
  STOP anywhere in the queue, which alone is not inductive: a START behind it
  would start the task again.

- `TypeCorrect` adds `Flags` and `Bounds` to the types the two need: a command is put
  into a queue only where there is room, and a queue is shortened everywhere else.
- `StreamFlowsOnceRead` is the part of `StreamFlows` that needs no fairness: with all
  calls made and all commands read, a stream nothing has disturbed since its START
  flows. `FlowInv` says that nothing START has set going is lost: the camera and
  both data tasks are on, have START as their last command, or are about to be sent
  one, and no handler has a STOP left for any of them. What remains for TLC is that
  everything is made and read in the end.

So every invariant and every action property of a run is a theorem, and so is the
refinement. Only model-checked are the liveness properties `AvailableIsTaken`,
`MovedViewerIsFound`, `StarvedViewerKnocks`, `CameraGetsItsSession` and
`StreamFlows`, as fairness and ENABLED are out of the prover's reach, and the
findings, which are refuted by a behaviour of a small instance.

## Not modelled yet, and the plan

Left of the code, in this order:

1. The play client's replacement of its receiver buffer in `start_stream`
   (`espfsp_client_play.c:402`). It is what `StreamPath` does with the buffer of
   the server, except that `get_fb` is called by the application and the data task
   keeps the `frame_max_len` it was made with; what comes of that is the first
   case of `StarvedViewerKnocks`.
2. The life cycle: creation that fails halfway, and the deinits of the server and
   the clients. The server's deinit of its protocols takes the number of one kind
   for the other (`server/espfsp_comm_proto_conf.c:88`), which goes wrong in every
   removal and has no cases to explore.
3. SOURCE_GET while a camera has no session is modelled (`ServerSessions`) and has
   no property: the repository does not say what should happen.
4. Camera parameters, which are handed through to the camera driver; the byte
   layout of TLVs; the repetitive callback of the communication protocol, which is
   NULL in every configuration; the sender's mode with a fixed address is in
   `PushClient` as a send that may fail.

Not planned: lwIP sockets and Wi-Fi, used only as sources of messages, silence,
errors and lost connections; failing memory allocations other than that of the
frame buffer of a sender; the configuration headers, which are types and defaults;
logging.
