# YuHome DAYU terminal: TLA+ verification

The DAYU terminal is the home-side controller of a smart home: an OpenHarmony
application that talks to ESP32 nodes over MQTT, HTTP(S), USB and BLE, to a
cloud platform over MQTT-on-WebSocket, and to a desktop bridge. This directory
models the parts of it whose correctness depends on the order of events, checks
them with TLC and proves what matters most with TLAPS.

Contents: [inventory](#the-system-inventory), [interactions](#how-the-parts-interact),
[modules](#the-modules), [runs](#the-runs), [fairness](#fairness),
[theorems](#the-theorems), [findings](#findings), [limits](#what-is-not-modelled),
[plan](#plan).

To repeat the checks: `tlc -config <cfg> <module>` for a row of the table of
runs, `tlapm <module>` for the modules named `*_proofs`.

## The system: inventory

Paths are relative to `src/`; `ets/` stands for `entry/src/main/ets/`.

| Component | State | Operations | What makes it correct | Model |
|---|---|---|---|---|
| Gateway command queue, `entry/src/main/cpp/local_gateway.cpp` | `commands_`, `commandSequence_` | Enqueue, ClearCommands, PopCommandJson, SendJson | bounded, one command per key, urgent first, the others in order, at most once, every loss has a reason | `GatewayQueue`, `Mailbox` |
| ECDH key exchange, `ets/crypto/KeyExchangeLayer.ets` and `ets/pages/Index.ets` 5457-6600 | device key states, pending keys, `ecdhTopicsInProgress`, the pending reply slot | derivePendingKeys, activatePendingKeys, handleEcdhPublicKey, flushPendingEcdhReply, boot/reset | both key stores agree; keys are installed in two phases; a confirmed session survives late messages; a topic is released | `KeyExchange`, `KeySession` |
| Door lock control, `ets/pages/Index.ets` 4755, 5017, 5652, 7069-7136 | `doorPending*`, `doorCommandSeq`, the timer | sendDoorControl, handleDoorAck, applyLightStatus, applySensorData, leaveHome | a wait is for the newest command, has its own timer and ends; the display follows the door | `DoorControl`, `CommandWait` |
| Living-room light, `ets/pages/Index.ets` 4416-4527, 4957-5008, 5602, 6991, 7494-7568 | `livingLightPending*`, `ledPendingSeq`, in-flight lock, timer, optimistic display | sendLightControl and its five callers, handleDeviceAck, applyLightStatus | the same, and the lock is never left behind | `LightControl`, `CommandWait` |
| Face access, `ets/face/FaceAccessManager.ets` | user list, two files, camera session | enrol, delete, save, load, capture, preview | the list survives a crash while it is written; a deleted face stays deleted | `FaceUserStore` (store only) |
| Air conditioner and curtain, `ets/pages/Index.ets` 4440, 5694, 9871, 13142-13226 | pending seq, merged choice, merge and ack timers | flushACControl, its ack, the cloud's path | as the door's | planned |
| Gateway threads and event ring, `local_gateway.cpp` | `running_`, listening sockets, handshake lock, `events_` | Start, StartHttps, Stop, accept loops, HTTPS proxy, PushEvent, DrainEvents | nothing survives a stop, a stream's requests are answered in order and one by one, every connection ends, reports arrive in order and once | `GatewayServer` |
| Native voice inference, `entry/src/main/cpp/voice_inference.cpp` | global pointers to models and streams, `g_modelGeneration`, loading flags, two mutexes | load, initialise, release, start and restart streams, wake decode, classify | nothing leaks or is destroyed under a decode, a cancelled load never takes effect, every promise is settled | `VoiceInference` |
| On-device language understanding, `nlu_tokenizer.cpp`, `nlu_runtime.cpp` | session and vocabulary, or nothing | Initialize, Classify, Release; BasicTokenize, WordPieceTokenize, Encode | the model reads the words of the text, whatever its bytes; no request in need of a confirmation is carried out as an intent | `NluTokenizer`, `NluRuntime` |
| Native face inference, `face_inference.cpp` | the nets | check of a payload, crop, embedding | no byte behind the payload is read | `FaceInference` (pixels only) |
| Cloud MQTT client, `ets/cloud/CloudMqttClient.ets` | socket, generation, CONNACK/SUBACK waits, pending requests | request, connect, disconnect, socket events, timers, heartbeat | every request ends once, late events of an old socket are harmless | `CloudMqtt` |
| Cloud secure session, `ets/cloud/CloudSecureClient.ets` | session, `requestInFlight` | postSecure, ensureSession, retry on stale session | one request at a time, repeated at most once, and the turn comes back | `CloudLink` |
| Cloud commands, reports and alarms, `ets/pages/Index.ets` 4292-4636, 5205-5457 | last command id, report slots, alarm state, retry timers | poll, execute, acknowledge, report, clear | nothing in a slot is forgotten, an acknowledged command is not carried out again | `CloudReports`, `CloudLink` (partly) |
| Bridge WSS client, `ets/bridge/BridgeTlsClient.ets` | socket, generation, pending acks, pending pong, heartbeat | connect, publish, ping, socket events | one result per publish, a dead link is noticed | planned |
| LAN MQTT client, `ets/mqtt/MqttClient.ets` | connection attempt, generation, CONNACK resolver, keep-alive | connect, disconnect, publish, packet parser | a caller of connect is answered, stale sockets are ignored | planned |
| Desktop broker, `broker.js` | per-device queue, retained public keys, relay timers | publish handler, HTTP pull, ECDH relay and replay | mirrors the native queue; keys are replayed to a device that reconnects | planned |
| USB serial port, `ets/provisioning/UsbSerialProvisioningPort.ets` | pipe, read/write interlock, receive loop | open, close, read, write, recover | reads and writes never overlap, a writer is never starved | planned |
| Serial frames, `ets/provisioning/SerialProvisioningProtocol.ets` | receive buffer | encode, parse, resynchronise | a frame is found again after noise; parse of encode is the frame | planned |
| Protocol and crypto switch, `ets/pages/Index.ets` 3251-3999 | switch target, per-device acks, retry timers | requestProtocolSwitch, retry, timeout, complete | a switch ends, in one mode for all devices or a reported partial failure | planned |
| BLE gateway session and recovery, `ets/pages/Index.ets` 7703-12200 | gateway session, USB state, recovery timers | connect, claim, forget, reboot recovery | one recovery at a time, a removed device does not come back | planned |
| Infrared learning, `ets/pages/Index.ets` 12220-12490 | learning dialogue, key-exchange lock | learn, save, cancel, timeout | the lock is released; learning does not cost the session | planned (its lock is in `KeyExchange`) |
| Voice assistant, `ets/voice/VoiceAssistant.ets` | dialogue state, timers, speaker stream, wake queue | wake, command, enrol, release, restart | a command is executed only after wake and, when required, speaker verification | planned |
| Device payload crypto, `ets/crypto/CryptoLayer.ets`, `Sm4Gcm.ets` | key caches | encrypt, decrypt, set keys | a cached key is the device's current one | planned (cache only) |
| Planner safety gate, `ets/planner/PlannerSafetyGate.ets` | none | compilePlannerProposal | no door or alarm tool, values in range | planned |
| Planner and behaviour models | statistics and weights | predict, learn | numeric; out of TLC's reach | not modelled |
| User interface, themes, performance traces, TLS identity files, build scripts, training tools | - | - | no protocol state | not modelled |

## How the parts interact

Everything in ArkTS runs on one thread, but nearly every handler awaits:
encryption, a publish, a file, a timer. Whatever another handler does between
two awaits is interleaved with it, and this, not parallelism, is the hard part
of `Index.ets`. The native modules do have threads. In the gateway
(`local_gateway.cpp`) the JS thread starts, stops, enqueues and drains, two
threads accept, and a detached thread serves each connection. In the voice
module (`voice_inference.cpp`) worker threads load, decode and classify while the JS
thread goes on calling.

A command runs: caller (button, voice, face, cloud, planner, scene) ->
`sendDoorControl`/`sendLightControl` (seq, pending flags, timer) ->
`sendEncryptedCommand` (session key of the key exchange; BLE, MQTT, HTTP queue,
in turn) -> device -> ack or status report -> `handleDoorAck`/`applyLightStatus`
-> display and cloud report. The modules cut this path where the code does, at
shared variables:

- `DoorControl`/`LightControl` stand above the transports. A send is an
  operation that takes a while, may deliver the packet more than once (each
  transport may have sent it before it timed out), and ends in
  success or failure.
- `GatewayQueue` is the HTTP transport's end: a command enqueued here is handed
  to the device that polls.
- `KeyExchange` decides which key a packet is encrypted with. When it activates
  a key, `Index.ets` empties the device's `GatewayQueue`.
- `GatewayServer` has the threads that call `GatewayQueue` and what happens
  around them; a command request is one of its `HandleOther`.
- `VoiceInference` makes each call of `NluRuntime` under `g_nluMutex`, which is
  why the latter is sequential; `NluRuntime` computes with `NluTokenizer`.
- `FaceUserStore` is independent; recognising a face calls `sendDoorControl`.
- `CloudLink` composes the posters of `CloudReports` (reports, alarms, actuator
  states, the polled command) with the client of `CloudMqtt`: they take turns at
  `postSecure`, which makes one request at a time. A command from the cloud goes
  on to the door and the light as their caller "cloud".

What is hard here: handlers interleaved at awaits (key exchange, sends), flags
that several callers write without a common discipline (light, door), late and
duplicated acks and reports, timers that outlive what they were set for, a
destructive hand-out before the response is on the wire (queue), detached
threads that a stop does not wait for (gateway), native objects destroyed while
workers use or make others (voice), bytes of any kind from a recogniser
(tokenizer), restarts in the middle of a file write (face store), bounded
buffers and single slots (queue, event ring, pending reply).

## The modules

| Module | What it is | Lines of code it stands for |
|---|---|---|
| `GatewayQueue` | the queue and the threads that use it | `local_gateway.cpp` 338-381, 645-818 |
| `Mailbox` | abstract: an at-most-once mailbox | |
| `KeyExchange` | key layer, exchange handlers, incoming packets, resets | `KeyExchangeLayer.ets`, `Index.ets` 2788-2898, 3203-3229, 4013-4090, 5457-6602 |
| `KeySession` | abstract: two-phase installation of a session key | |
| `DoorControl` | the door's commands, acks, reports | see inventory |
| `LightControl` | the light's | see inventory |
| `CommandWait` | abstract: wait for the newest command or none | |
| `FaceUserStore` | enrol, delete, save, load with overlaps and crashes | `FaceAccessManager.ets` 187-259, `Index.ets` 9940-10118 |
| `GatewayServer` | accept loops, connection threads, proxy, event ring, Start and Stop | `local_gateway.cpp` 130-304, 383-640, 773-790 |
| `VoiceInference` | the voice module's objects, works, locks and generation | `voice_inference.cpp` 40-1035 |
| `NluTokenizer` | from bytes to token ids | `nlu_tokenizer.cpp` |
| `NluRuntime` | the runtime and what it answers; its `WordsOf`, `PiecesOf` are the reference for the tokenizer | `nlu_runtime.cpp` |
| `FaceInference` | which bytes of a payload are read | `face_inference.cpp` 460-560 |
| `CloudReports` | what is posted: reports, slots, the polled command | `Index.ets` 4292-4541 |
| `CloudMqtt` | the MQTT client: socket, waits, one request | `CloudMqttClient.ets` 76-343 |
| `CloudLink` | both, with the turn, the session and the cloud | `CloudSecureClient.ets` 289-430 |
| `MC*` | TLC's values and symmetry | |
| `*_proofs` | theorems about the module of that name; `OnDevice_proofs` those of `NluRuntime`, `FaceInference` and `FaceUserStore` | |

Each component's definitions are tied to the lines they translate by `map` in
`PROJECT.json`. Definitions called "Mutant of X" in a module are wrong variants
of X: with X replaced by the mutant, TLC finds a property violated, which shows
that the property depends on that piece of the code.

### GatewayQueue

`queue[d]` is `commands_[d]`, a deque, as a set of entries ordered by `place`
(push_back takes a place after all others, push_front one before). `work[t]` is
what a thread is doing. An enqueue is two actions, because `Enqueue` takes its
id and timestamp (`BeginEnqueue`) before the mutex (`CommitEnqueue`, which
replaces what has the same key, inserts and trims). `PopCommand` expires, picks
the first urgent or else the first command and removes it; only then is the
response sent: `Reply` delivers it, `ReplyLost` does not, and the device may
have given up before (`AbandonPoll`). A command is abstracted to its class:
which key, or none, and whether its size makes the code take it for a public
key. `gone` and `received` are histories. JSON, TLS and routing are left out.

### KeyExchange

`peer[d]` gathers what the key layer and `Index.ets` keep for a device: the
session key in use (`active`), the public key of the established exchange
(`remote`), the pending key and its age, whether the session has been verified.
A public key is a number, the device's nth key pair; `Own` is the terminal's own
key. `job[j]` is a handler that waits, with what it read before its await, so
that a handler that goes on with a stale value does so here too. One action
stands for the code between two awaits: `AcceptPublicKey` to the publish,
`SendOk`/`SendFails` to the derivation, `DeriveOk`/`DeriveFails` to the end.
Time is a set of ages that run up to `Old`; the code's durations become small
numbers in the same order. A device makes new key pairs and derives whenever it
likes; the broker may deliver any of a device's keys late, and the terminal's
own.

### DoorControl and LightControl

The variables have the code's names. A command is a record with seq, target and
caller; `sending` holds those in `sendEncryptedCommand`, `inbox`, `acks` and
`reports` what is on its way, as sets: late, in any order, or never handled; a
command may be transmitted again by the next transport, for the door and the light
alike (`Transmit`). The timers keep in the model
what their closures keep in the code: the door's its seq, the light's nothing,
which is why the light needs the lock. The optimistic display of the light (20 s)
is a flag that `HoldEnds` lowers.

### FaceUserStore

A file is missing or truncated, holds a list, or holds a list written over a
longer text, which cannot be parsed. A save is a job that opens (truncates) and
writes the backup and then the primary; between any two of these steps another
save may run, the step may fail, or the application may be killed. Nothing keeps two
saves apart: an enrolment is guarded against another enrolment only, a deletion
against nothing (`Index.ets` 10108). `overlap` and `failures` are history: whether saves have
overlapped, and how many writes have failed or been cut off, since the last save that was alone
and complete. They say for which saves the code can promise something. `SavedIsDurable`: a save
that was alone, once reported as saved, is what a restart loads, whatever earlier
overlaps, failures and restarts have left in the files. `RestartKeepsList`: a restart after
such a save and at most one failure comes up with the list saved last or the one being
saved. `DeletedStaysOut`, what the manual promises of a deleted user, has no such
condition, and the run `face_overlap` refutes it.

### GatewayServer

Named after the code: `running`, `loop[s]` (the accept thread of the HTTP or the
HTTPS server), `js` (a step of `Stop`, which clears the flag, shuts the socket and
joins, first for HTTP, then for HTTPS), `handshake` (the owner of
`httpsHandshakeMutex_`), `events`. A connection is named after its peer, as each
has one at a time. The HTTPS thread (`HandleHttps`) cuts requests out of a stream
of units, a header line, the end of headers with the announced length and the
Connection header, or a piece of body, reading any number of them at a time, and
sends each request over a connection of its own to the HTTP server: that
connection waits in the same backlog as the devices'. Each unit carries, as
history, the number of the request it belongs to: `StreamAssumption` says that the
streams are numbered as their headers frame them, which is how any stream can be
numbered, and is what "in order" is measured by. `Crash` is the outcome of a
connection thread that goes on with the TLS configuration that `Stop` has freed;
the application then starts from nothing. Left out: `StartMqtt` (305-336), whose
broker thread is never stopped, and a start that fails, which leaves everything
as it was. The sum of an announced length and the header's (479) is taken without its wrap in a
`size_t`.

### VoiceInference

`ptr[g]` is a global pointer, an object number or 0; `live` the heap. `work[w]` is
an asynchronous work with the generation it captured when it was queued, what it
has made and what it uses. The bodies run whenever their mutex allows;
completions and calls run on the JS thread, one at a time. `DestroyAll` waits for
`g_nluMutex` in its middle, and is two actions. `Initialize` destroys the models
without `g_inferenceMutex`: that this is harmless is `DecodeUsesLive`. A load that
`napi_queue_async_work` does not accept is "lost" (its answer is ignored) and leaves its loading
flag set: the model has it, and `EveryWorkSettles` speaks of queued works only.
A speaker extractor is destroyed whenever it is
not installed; the code would leak one that was made by a work which then completes with an
error (508), but only a work that was cancelled, and made nothing, does. What is heard or said is left out; so are the three calls that only feed a stream.

### NluTokenizer and NluRuntime

Bytes are numbers, the UTF-8 arithmetic, the classes of code points, the greedy
longest match and the padding are the code's. Two definitions without its loops are
the reference: `WordsOf` says between which visible characters a word begins,
`PiecesOf` which set of cuts a word has. A text is a sequence of bytes
(`InputAssumption`), of any values: it need not be UTF-8. The network is external: any
probabilities, in percent, that lie on either side of each threshold; Softmax,
Argmax and NaN are not modelled.

### FaceInference

Pure operators: the accepted payloads and the offsets that crop and detector
read. The nets' loading (94-119, 400-458; a failed reload leaves the old net over
freed weights, 106) and the decoding of detections are not modelled.

### CloudReports, CloudMqtt and CloudLink

`inFlight` is the three flags `cloudReportInFlight`, `cloudAlarmReportInFlight` and
`cloudActuatorReportInFlight`; `slot[s]` the pending alarm or actuator packet, as
the number of its issue, with the packet being posted and whether the retry timer
is set; `command` is where `pollCloudCommand` stands. A post is asynchronous:
`post[p]` is queued until `TakeTurn`, and `PostEnds` runs what follows the await in
its caller (`ReportEnds`, `CommandEnds`), `finally` included.

`socket` is a generation of the client, by what has arrived on it; `connected` is
set by `SubackTaken` whether the socket is still there or not, as in the code.
`call` is the one request under way: the await it is in, whether the send before a
wait has returned (the packet that answers may overtake it), and the wait itself,
ended by packet, timeout or `Abandon`. The failure of a ping is handled
without a look at the generation, so an old socket's may tear down the new one: it
is one of the causes of `SocketLost`. `wire` holds the request under way and the
last one that is over, whose answer may still come.

`turn` is `requestInFlight` and for whom, `session` what the terminal has and
whether the cloud still knows it, `attempt` the first or the second
`postSecureOnce`, `past` a history of the post. The cloud is external: it stores the
newest packet of each slot, holds a command until it is acknowledged, may refuse,
answer late or never, and forget the session.

Left out: cutting the stream into packets; the 60 s pause after two failed plain
reports and all intervals (a timer may fire at any time); the return code of a
SUBACK (the code takes a refused subscription for a granted one: the broker is
assumed to grant it); the choice among HTTP endpoints (4189-4251), the weather and
how packets are made (4543-4695).

## The runs

| Run | Shows | Bounds, and why they are enough |
|---|---|---|
| `queue` (`GatewayQueue.cfg`) | service order, every command accounted for, delivery in order and at most once, an accepted plain command is queued, nothing stale is popped, every loss has a reason | 2 threads race for the mutex; a queue of 2 overflows with 3 commands; 5 kinds of command (keyed and not, urgent, state, of a public key's size); TTLs of 0 and 1, a clock to 2 |
| `kx` (`KeyExchange.cfg`) | key stores agree, answered before pending, topics released, retries go on, confirmed session kept, implements `KeySession` | a device with 2 keys (a rekey), 3 handlers at once: one is overtaken by another and a third finds what they left; 2 attempts; infrared learning |
| `door_control` (`DoorControl.cfg`) | each wait is for the newest command and ends; the display ends up right | 2 commands (an old and a new one) and one turn by hand; second transmissions, a leave-home scene |
| `light` (`LightControl.cfg`) | waits for the newest command or for none, no lock without a holder, every wait ends, the icon follows | tap, assistant and cloud, 2 commands, one second transmission or one use of the wall switch |
| `face_store` (`FaceUserStore.cfg`) | what is reported as saved is durable; a restart never comes up with less | 3 faces (lists of equal and of different length), 3 changes (two that overlap and one alone after them), 2 failures or cuts with no complete save between them, the second of which the property excuses |
| `gateway_server` (`GatewayServer.cfg`) | a stop leaves nothing and returns; answers in order, one each; reports in order and once; every connection ends | a device and 2 TLS clients, 2 connections open at once (a full backlog behind a running stop, a fight for the handshake lock); streams with two requests sent ahead, with a body, with a close, too long; 2 requests per connection; a ring of 2 has an order and overflows with 3 reports |
| `voice_native` (`VoiceInference.cfg`) | one owner per object, decodes on live objects, only current models, every work settles | 2 works (one overtakes the other), 3 objects of a kind (an installed, a loaded and a used one), 2 generations (a cancelled and a current load) |
| `nlu_text` (`NluText.cfg`) | the words, pieces, ids and mask of a text are right, with every failing call in between | every text of up to 4 bytes of 8 kinds (letters, a space, a comma, the bytes of a Chinese character, which also occur cut off and out of place) and 6 longer ones; a vocabulary with repeated lines, one without [SEP]; 4 ids, words of at most 3 characters |
| `cloud` (`CloudLink.cfg`) | slots keep what they hold until the cloud has it; a post is executed once; an acknowledged command is over; nothing is published without a subscription; the turn comes back | the three kinds of report together, which refuse and wake each other, and a command with a report, which race for the turn; 2 packets (one replaces the other under way, or one in each slot); one command; one request that is over but not answered; losses, refusals and lost sessions without bound |
| `kx_ack`, `light_icon`, `face_overlap` | a counterexample each, see [findings](#findings) | the smallest instance that shows it |

`CHECK_DEADLOCK FALSE` stands in `GatewayQueue.cfg`, where the bound on commands
and on the clock lets the model come to rest with everything delivered, and in
`VoiceInference.cfg`, where the bound on generations lets it rest with both
works lost. Symmetry is used over threads and handlers in `queue` and `kx`, whose
properties are safety properties: no definition names one.

The type invariants of the queue, the key exchange, the door, the light, the voice
module and the language runtime are proved (`TypeCorrect`) instead of being checked
in a run; those of `GatewayServer` and `CloudLink` are checked and proved.

What is checked that a test would hardly reach, by kind:

- order and atomicity: `ServiceOrder`, `Accounting` and `DeliveredInOrder` with
  two enqueues between whose halves the other's fall; `WaitForNewest` with an
  older send that fails after a newer one has begun; `AnswersInOrder` with
  requests sent ahead and cut anywhere;
- stale state: `EstablishedIsInstalled` and `KeysInTwoPhases` with handlers
  that go on after a reset with what they read before it; `ReadyIsCurrent` and
  `DecodeUsesLive` with works that outlive a release; `PublishSubscribed` with a
  socket that is lost while `connected` is being set;
- time: `GraceKept` (a late boot message or an expiring key), `NoStalePop`,
  `WaitEnds` (whose timer ends whose wait);
- loss and failure: `AtMostOnce` and `LossHasReason` with lost responses; `OneOwner`
  with loads that make half of their models; `RestartKeepsList` with torn files and
  `SavedIsDurable` with what overlapping saves have left;
  `NothingForgotten` with a packet replaced while the older one is posted;
- retry: `ExecutedOnce` with a repetition that follows an executed request,
  `CarriedOutOnce` with answers to requests that were given up;
- shutdown: `StoppedIsStopped`, `StopReturns`, `ConnectionEnds`;
- limits: `ReportsKept` (ring), `PlainCommandIsQueued` (queue), `EncodedRight` (48
  ids), `WordsAreRight` (bytes that are no UTF-8);
- progress: `TurnIsReturned`, `TopicIsReleased`, `ReplyIsRetried`, `EveryWorkSettles`,
  `ShownFollowsDoor`, `IconFollowsLamp`.

What is in the models but caught by no property, or only in part, because the code does it
and no document forbids it (`PROJECT.json` says so at each hazard): an older command that
replaces a newer one of its key (`local_gateway.cpp` 342); an urgent command that is trimmed at
once (365); concurrent handlers of one device, whose key installations are kept whole but
not in order (`Index.ets` 6396, 6381, `KeyExchangeLayer.ets` 484); a reply left without a timer
by infrared learning or replaced by another device's (`Index.ets` 6436, 6401); a crash of
connection threads after `Stop` (`local_gateway.cpp` 243). Not in a model: a queue emptied
while a command is being encrypted (`Index.ets` 4071). Proved only: the offsets in a face payload.

## Fairness

- `GatewayQueue`, `KeyExchange`: none, their properties are safety properties.
- `GatewayServer`: threads are scheduled, and what a connection thread waits for
  on a socket ends, since the sockets have timeouts of 3 s and 8 s. The proxy's own
  `recv` has none: its end is not assumed but must come from the HTTP server. Strong
  fairness of getting the handshake lock: it is free again and again, and a waiter
  of a mutex gets it in the end. The JS thread need not start, stop or drain.
- `VoiceInference`: works are run and completed; strong fairness, as above, for
  whoever waits for a mutex. No call need be made, no lost load comes back.
- `DoorControl`: a timer that is set fires; a send settles, since every transport has
  a timeout; the door reports its state periodically, as its firmware does, and
  each kind of report is handled if it stays on its way. Acks may never come.
- `LightControl`: the same, with strong fairness of handling the reports of the
  `led` field: while the lamp reports again and again, a report is not lost for
  ever.
- `CloudLink`: the awaits of a request end, those of the WebSocket's close, connect
  and send by their callbacks (assumed of the system's WebSocket) and the others by
  packet or timeout, and what follows them runs. Nothing is assumed of the cloud, of
  the order in which callers get the turn (the code's waiters poll every so often, and
  one may be overtaken for ever, `CloudSecureClient.ets` 388) or of the retry timers.
- `FaceUserStore`: the passing run needs none. `face_overlap` uses `FairSpec`: writing and
  loading go on unless the application is killed.

## The theorems

All of a state machine are of the form `Spec => ...` for every value of the constants
that the modules' named assumptions allow: any number of devices, threads, handlers,
callers, packets, faces and commands. The inductive invariants `Ordered`,
`GoodConnection`, `LinkInv`, `StoreAll` and `DiskInv` also hold in TLC on the instances of
their modules' runs.

**The queue** (`GatewayQueue_proofs`). `TypeCorrect`, `Bounded`, `KeyUnique`,
`OrderKept` follow from one inductive invariant, `QueueInv`: the type invariant
with `GoodQueue` for each device, which adds to the bound, the one-per-key and
the order properties that places are distinct and that ids in queues have been
issued. Order alone is not inductive: without distinct places, trimming and
replacing might remove another entry than the one meant. `AllAccounted`: every id is in one place,
and the places are queues, threads at work, `received` and `gone`. The
strengthening is `OneHolder`, no two threads or queues hold an id. Three action properties
come from `QueueInv` and the shape of a commit and a pop: `FreshOnly` (what is popped has
not expired), `NewestIsQueued` (a plain command is in the queue when `Enqueue` returns:
trimming drops from the other end) and `LossExplained` (which also needs that an id
in a queue is nowhere else). `OrderDelivered` needs one more invariant, `Ordered`: every plain
command that waits for its response or in a queue was committed after those the device has
received, and one in a response before those in the queue. `Delivery`:
the queue implements `Mailbox` under the mapping that takes as held what a queue
or a thread holds; each action maps to `Make`, `Deliver`, `Lose` or a stutter.

**The key exchange** (`KeyExchange_proofs`). `TypeCorrect`, `Agreement`,
`AnsweredFirst`, `GraceIsKept`, `TwoPhases`, `TopicsAreServed` and `RetriesGoOn`. The invariant is `TypeOK`,
`PeersSound` (a pending key is younger than its expiry, the stores agree),
`AnsweredBeforePending` and `DeriversAnswered`: a handler about to derive has
answered its device. The last is what makes it inductive, because the answer
happens before an await and the derivation after it. Each step is first classified by
what it does to a peer: kept, dropped to the static key, confirmed, or offered a
key; the theorems are proved of the four classes. The last two theorems are
about handlers instead: a step moves one handler, and the topic it serves, or the
flush it is, is released or goes on. They hold for any number of devices that
share the one reply slot, where the run has one.

**Commands** (`DoorControl_proofs`, `LightControl_proofs`). `TypeCorrect`; the
door's `TimedWait`; the light's `TimedWait` and `LockReleased`, for tap,
assistant and cloud as the callers (the planner and the scene break it: finding
`light_icon`); and `NewestWait` for both, that they implement `CommandWait`. The
invariant adds that what is waited for is the newest seq. Each step begins a
wait, ends it or keeps it, and then maps to `Issue`, `End` or a stutter.

**The gateway's threads** (`GatewayServer_proofs`). `TypeCorrect`. `NothingLeft`: a stopped
server has no loop, no listener and no backlog. The invariant follows the steps of
`Stop` per server: where it stands decides what is already gone. `AnsweredInOrder`: the
invariant is `GoodConnection` for each client: the parts of its stream that are
read, cut out and still to come are, joined, what is left of the stream behind the
requests served so far, and the answers and gaps are exactly the numbers of these. The step
that matters is `Framed`: the announced length cuts the stream just where the number
changes (`StreamAssumption`), whatever lies ahead in the buffer. `ReportsAccounted`:
`EventInv` says that the ring holds the reports pushed last, without a gap, that what was
drained increases and is older, and that a report in neither has `MaxEvents` newer ones.
`NoOneStranded` is the state core of `StopReturns` and `ConnectionEnds`: in no state does
a thread wait for what cannot come. The handshake lock belongs to a thread that is in its
handshake; a proxy waits on a connection that exists; a connection that waits to be
accepted is in a backlog, once, of a server that listens and whose loop accepts or whose
`Stop` is about to reset it; `join` waits for a loop whose socket is closed.

**The cloud link** (`CloudLink_proofs`). `TypeCorrect`, `NoneForgotten`, `NeverTwice`,
`CarriedOnce` and, of steps, `OnlySubscribed`, all from the invariant `LinkInv`. No single
property is inductive: what a late answer may do depends on whose request is on the
wire. The parts are `SocketInv` (a client that is connected has a subscribed socket or
none), `CallInv` (the request under way is that of the poster with the turn, and it is on
the wire from its publication to its answer), `PostInv` (flags, posts and turn agree, one
report at a time), `SlotInv` (a slot without a pending packet is stored, a packet on the wire or
answered is no newer than what was issued, and one that was granted no newer than what
the cloud has), `OnceInv` (a post that may still be executed has been executed no more often
than its answer was unreadable: `Unspent` lists where such a post can be) and `AckInv` (once
an acknowledgement succeeded, the cloud has no command and no answer under way hands one out).
The actions of the three modules are classified once, by what they do to a call, a slot
and the socket, and each part is shown for the classes. `NoTurnIsKept` is the state core
of `TurnIsReturned`: whoever has the turn has a call under way, whose awaits have their
callbacks and timers, or one that ended in a way `postSecure` has a branch for (`EndInv`:
an answer is taken only when there is one, and it fits the request).

**The voice module** (`VoiceInference_proofs`). `TypeCorrect`, `NothingLeaks`,
`DecodeIsSafe`, `CurrentOnly`. The invariant has three parts. `HeapInv`: each live
object is held once, by a global or by the load that made it. `UseInv`: a decode
runs only on the complete installed wake-word model; since `Initialize` runs only
when that model is not complete, it cannot destroy what a decode uses, which is
why it may do without the lock. `LoadInv`: a generation has at most one load of
the wake-word model under way, and then none is installed. The last is why
installing never overwrites a pointer. `OneLoadEach`, by `FlagInv`: two loads of one kind never
overlap, and a loading flag is set exactly while there is a load it stands for (or
one that was lost when it could not be queued), although `Initialize` looks at its flag before
it waits in `DestroyAll` and sets it after.

**Language understanding** (`OnDevice_proofs`). `RoundTrip`: decoding undoes
encoding for every code point; `TypeCorrect`: all or nothing, the special tokens
included. `WordsFollowText` and `InputIsRight`: the loops of the tokenizer compute what
the two reference definitions say, for every text, vocabulary and length of the input.
An answer is what `Encode` made of its text (`AnswerKnown`); the rest is about the
recursive functions. The library's induction theorems take operators, so the induction
is over a set: `StrongInduction`, from `WFMin` on the naturals. `StepsExist` says that a
function defined by recursion over numbers exists, whatever the step, so that each loop
has its equations (`DecodeLoop`, `ConsumeLoop`, `EndOfPieceLongest`, `WordPieceLoop`,
`PiecesJoins`), and `Enumerates` ties a set to the sequence that lists it.
`Read` is the invariant of BasicTokenize: the words so far, the open one included, spell the
visible characters read so far that `Places` gives them (`ReadNext`), and bytes that spell
characters are decoded to them (`SpellsDecode`, from `RoundTrip`). `Pieced` is that of
WordPieceTokenize, from the end of the word: what it has made of the characters behind
a place lists the one good set of cuts behind it, or is [UNK] when there is none. It rests on
`CutsSplit`: the cuts behind a place are this place and those behind its longest piece, so
that the greedy choice loses nothing that the reference would allow. A piece inside a word
starts with "##", hence [UNK] in front of it always means the failure.

**Face payloads** (`OnDevice_proofs`). `PixelsInside`: for every width and
height an accepted payload names, no offset lies behind its end, if the byte count does
not wrap in a `size_t`, which is assumed (it holds up to 4 · 2^60 pixels).

**The face store** (`OnDevice_proofs`). `SaveIsDurable` and `RestartIsSafe`, for any number of
faces, changes, overlaps, failures and restarts, with no hypothesis beyond the module's
assumption that there are finitely many faces. `StoreAll` is the invariant of the first:
`StoreInv` says what is there while a list is loaded and that a save which was alone and has
been reported left its list in the primary file; `StoreAlone`, that a save begun while no other was in
progress stays the only one until another is begun, is of the list in memory, and writes into
files that it has truncated itself, so that no rest of an older text is left. Only such saves
are promised anything, and the order in which others end is not needed. `DiskInv` says what
both files hold at each step of a save (`StepFine`): until the first failure since the last
complete save, one of them can be read and holds a list to be expected, or there never was
one. After it only the moments without a write under way matter.

Only model-checked: liveness (`WaitEnds`, `ShownFollowsDoor`, `IconFollowsLamp`,
`StopReturns`, `ConnectionEnds`, `EveryWorkSettles`, `TurnIsReturned`), which is out of the prover's
reach, as is ENABLED. `Bounded`, `KeyUnique`, the two `TimedWait`, `RoundTrip`,
`PixelsInside`, `NoneStranded`, `TurnCanEnd` and `LoadsAlone` are proved only; the last three
are stated beside their proofs, and TLC found them true of the instances of the runs too.
The modules that are proved about use no recursive operators.

## Findings

Each is a behaviour of the code that departs from what the repository says of it;
the run finds it, and `PROJECT.json` quotes the line.

| Run | What happens |
|---|---|
| `kx_ack` | a key ack under the old session key activates a pending key that the device has not used (`Index.ets` 5760) |
| `light_icon` | the planner's command waits without a timer; reports of the true state are ignored meanwhile (6779) |
| `face_overlap` | a face is deleted while an enrolment is being saved; the older list is written last, and the deleted face, reported as deleted and saved, is recognised again after a restart (`FaceAccessManager.ets` 214) |

More behaviours of this sort are part of the models, so that every other property
is checked and proved in spite of them:

- refusing a public key releases the topic that another handler holds, so that a
  third key is processed concurrently (6396; `IgnorePublicKey` with
  `ReleaseTopic`). The document says it is not. The key stores agree all the
  same, and keys are still installed in two phases;
- the terminal's own key, echoed before the publish has returned, becomes a
  pending key (6381). No device ever encrypts with it; only an ack under the old
  session key (`kx_ack`) could install it;
- a door ack for which nothing waits changes the display (5658), and the
  leave-home scene shows the door as locked without asking it (13286).
  `ShownFollowsDoor` says that reports put the display right;
- a bridge's remembered state ends the light's wait (4986, `ApplyCached`) before
  the lamp has said anything. The icon ends up right;
- two saves of the face list that overlap may also leave a file that cannot be parsed,
  one list written over a longer one. The next save that is alone puts both files right;
- loading from the backup does not write the primary file again (`FaceAccessManager.ets` 200),
  and the next save truncates the backup first: if it is cut off as well, before any save
  was complete, every face is lost. No document says how often a save may be cut off, so
  `RestartKeepsList` promises for one failure only;
- a cloud command whose acknowledgement fails is carried out again at the next poll, or
  acknowledged as failed although the house has executed it (4434, 4514; `CommandEnds`).
  `CarriedOutOnce` is about acknowledgements that succeeded;
- a post whose answer cannot be opened is repeated although the cloud has executed it
  (`CloudSecureClient.ets` 371); `ExecutedOnce` allows for exactly this.

Noted on the way: a text counts as in the domain from 70 % on (`nlu_runtime.cpp` 18), where
`tools/nlu/README.md` 55 has 50 %; the key-exchange document gives 15 s where `Index.ets` waits
8 s for a pending session, and says that the local key pair is cleared when a
device boots, which the code does not do.

## What is not modelled

- The networks, Softmax and its NaN, the statistics of the planner, ciphers: arithmetic,
  nothing for TLC. The voice parser's rules: linguistic.
- In the native code: `StartMqtt` of the gateway (`local_gateway.cpp` 305-336), the
  loading of the face nets and the decoding of their detections. The headers
  `onnxruntime_c_api.h` and `c-api.h` under `entry/src/main/cpp/include/` are vendored
  declarations without logic.
- Formats and wording (JSON, MQTT bytes, logs, texts), except where a length or
  an absent field steers control.
- The door's leaf (`doorOpen`) and the bedroom lamp, which are written without
  acknowledgement; the tap's debounce times.
- The BLE exchange of keys over its own sessions, which shares the layer with
  the WiFi exchange but not its handlers: planned.
- That the queue is emptied when a key is activated, while a command encrypted
  with the old key is on its way into it: the two are separate modules; planned.
- The wall clock set back under the queue's expiry (the model's clock only
  advances): no document says what must happen.

## Plan

Done: `GatewayQueue`, `KeyExchange`, `DoorControl`, `LightControl`, their
abstract specifications and proofs; `FaceUserStore`; `GatewayServer`,
`VoiceInference`, `NluTokenizer`/`NluRuntime`, `FaceInference`; `CloudReports`,
`CloudMqtt`, `CloudLink`; and the proofs of every safety property that a run checks.

Next, in this order, each with its runs:

1. `AcControl`: merged changes, the cloud's path, against `CommandWait`; then the
   command path that joins a send, `GatewayQueue` and `KeyExchange` (queue
   emptied while a command is being encrypted).
2. `BridgeLink` and `MqttClient`: connection generations, one result per
   publish, a caller of connect is answered.
3. `UsbPort`: the interlock of reads and writes; proof of mutual exclusion.
   `SerialFrames` as pure functions against a reference definition.
4. `ProtocolSwitch`, `GatewayRecovery` (BLE and USB), infrared learning.
5. `VoiceAssistant`'s dialogue; `CryptoCache`; `broker.js`; the planner's safety
   gate as pure operators; the cloud's HTTP endpoints and alarm acknowledgements.

Hazards that wait for these modules, beyond those listed in `PROJECT.json`:
a cloud command for the air conditioner whose send fails keeps its pending seq
(`Index.ets` 4463); a failed save leaves an enrolled face in the list (9988); late
answers to a protocol switch that was given up (3636); callers
of the secure session overtaken for ever (`CloudSecureClient.ets` 388); a post
repeated at a second endpoint (`Index.ets` 4186); concurrent connects to different
hosts and a pong slot cleared by an old ping (`BridgeTlsClient.ets` 75, 365); a
CONNACK timer of an older attempt (`MqttClient.ets` 345); reads of the USB pipe that
overlap a write (`UsbSerialProvisioningPort.ets` 323); a key imported
late into the cache (`CryptoLayer.ets` 120); replayed public keys (`broker.js` 772); a
damaged length field (`SerialProvisioningProtocol.ets` 145); recoveries that start each
other (`Index.ets` 10511); a reset during infrared learning (5457); an assistant restarted while
it finishes a command (`VoiceAssistant.ets` 537); a failed reload of a face net
(`face_inference.cpp` 106); a load that could not be queued, which leaves its flag set
(`voice_inference.cpp` 491).

Proofs to come, with the modules above: mutual exclusion of the USB port, the
air conditioner's refinement of `CommandWait`, and one result per publish of the bridge.
