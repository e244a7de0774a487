---------------------------- MODULE KeyExchange ----------------------------
(***************************************************************************)
(* The ECDH key exchange between the terminal and its ESP32 devices:       *)
(* entry/src/main/ets/crypto/KeyExchangeLayer.ets and the handlers of      *)
(* entry/src/main/ets/pages/Index.ets that drive it.                       *)
(*                                                                         *)
(* The app is one thread of asynchronous handlers.  A step is what a       *)
(* handler does between two awaits on the network or the crypto framework; *)
(* a job is a handler that waits.  The AES and the SM4 key of a session    *)
(* are one key, named after the device's public key it is derived from.    *)
(*                                                                         *)
(* Timestamps of public keys come from the arrival or from the broker's    *)
(* clock, so their filters may pass or refuse any key; a refused key       *)
(* returns early (IgnorePublicKey).  The same holds for the counters and   *)
(* cool-downs that only decide whether a recovery starts now or later.     *)
(***************************************************************************)
EXTENDS Integers, FiniteSets

CONSTANTS
  Devices,          \* the ESP32 nodes; a topic key/ecdh/pub/{id} for each
  Jobs,             \* bound of the model: handlers waiting at a time
  None,             \* no key; as a session key, the static key
  MaxKey,           \* bound of the model: key pairs a device ever makes
  MaxStarted,       \* bound of the model: handlers ever started
  PendingTtl,       \* NETWORK_ECDH_PENDING_MAX_AGE_MS, in ticks
  DecryptGrace,     \* 8 s after an install decrypt failures are forgiven
  StaticGrace,      \* NETWORK_STATIC_PACKET_AFTER_ECDH_GRACE_MS, in ticks
  BootGrace,        \* 15 s after an install boot messages are stale
  MaxReplyAttempts, \* 6 in the code
  IrLearning        \* whether infrared learning happens

ASSUME KeyExchangeAssumption ==
  /\ MaxKey \in Nat \ {0} /\ MaxStarted \in Nat
  /\ None \notin -1..MaxKey /\ None \notin Devices
  /\ PendingTtl \in Nat /\ DecryptGrace \in Nat
  /\ StaticGrace \in Nat /\ BootGrace \in Nat
  /\ DecryptGrace <= PendingTtl /\ PendingTtl <= BootGrace
  /\ DecryptGrace <= StaticGrace /\ StaticGrace <= BootGrace
  /\ MaxReplyAttempts \in Nat \ {0}
  /\ IrLearning \in BOOLEAN

VARIABLES
  peer,        \* what the app keeps for each device, see Peer
  inProgress,  \* ecdhTopicsInProgress
  recentSent,  \* devices whose own key is in recentSentEcdhPublicKeys
  identity,    \* localIdentities: devices that have a local key pair
  slot,        \* pendingEcdhReply*: the reply that waits to be sent
  timer,       \* ecdhReplyRetryTimerId is set
  attempts,    \* ecdhReplyRetryAttempt
  irLock,      \* isIrLearningKeyExchangeLocked()
  job,         \* the handlers that wait
  started,     \* how many handlers have been started
  deviceKey,   \* environment: the current key pair of each device
  ownOut,      \* devices to which the app's public key has been sent
  wire         \* environment: keys a device has encrypted packets with

vars == <<peer, inProgress, recentSent, identity, slot, timer, attempts,
          irLock, job, started, deviceKey, ownOut, wire>>

Own == 0         \* the app's own public key, which a broker may echo
Restored == -1   \* session keys of the app's last run, from storage
Keys == -1..MaxKey
Old == BootGrace             \* an age past every limit, or never set

Peer == [local : {"none", "empty", "ready"},  \* DeviceKeyState, its key pair
         remote : Keys \cup {None},   \* remotePublicKeyRaw, set = established
         pending : Keys \cup {None},  \* pendingRemotePublicKeyRaw and keys
         holders : SUBSET Jobs,       \* jobs that write to this state object
         active : Keys \cup {None},   \* deviceDynamicKeys and persisted keys
         pendingAge : 0..Old,         \* since lastEcdhPendingTimeByDevice
         installAge : 0..Old,         \* since lastEcdhInstallTimeByDevice
         verified : BOOLEAN]          \* decrypted since validation required

Idle == [op |-> "idle"]
Job == {Idle}
       \cup [op : {"pub"}, dev : Devices, key : Keys,
             stage : {"identity", "send", "derive"}]
       \cup [op : {"flush"}, dev : Devices, key : Keys,
             stage : {"send", "derive"}]
       \cup [op : {"start"}, dev : Devices,
             stage : {"refresh", "identity", "send"}]
       \cup [op : {"packet"}, dev : Devices, key : Keys \cup {None},
             ack : BOOLEAN, seen : Keys \cup {None},
             stage : {"pending", "active"}]

-----------------------------------------------------------------------------
(* The state of a device *)

\* switchDeviceToStaticCryptoSession, resetDeviceCryptoSession and
\* markDeviceRemoved leave the same: no state object, no keys, no times.
Static ==
  [local |-> "none", remote |-> None, pending |-> None, holders |-> {},
   active |-> None, pendingAge |-> Old, installAge |-> Old,
   verified |-> FALSE]

FreshPending(s) == s.pending # None /\ s.pendingAge < PendingTtl

\* clearExpiredNetworkEcdhPending
Expire(s) == IF s.pending # None /\ ~FreshPending(s) THEN Static ELSE s

\* Mutant of Activate: keys that are installed already are not replaced.
ActivateOnce(s) ==
  IF s.pending = None THEN s
  ELSE [s EXCEPT !.remote = s.pending,
                 !.active = IF @ = None THEN s.pending ELSE @,
                 !.pending = None, !.pendingAge = Old, !.installAge = 0,
                 !.verified = TRUE]

\* activatePendingDynamicKeys, which activates whatever is pending by now.
Activate(s) ==
  IF s.pending = None THEN s
  ELSE [s EXCEPT !.remote = s.pending, !.active = s.pending,
                 !.pending = None, !.pendingAge = Old, !.installAge = 0,
                 !.verified = TRUE]

\* derivePendingKeys skips a key that is pending or established already.
Repeated(s, k) == k \in {s.remote, s.pending}
CanDerive(s, k) == s.local = "ready" /\ ~Repeated(s, k)

-----------------------------------------------------------------------------
(* Steps that several handlers end with *)

Working(j, op, stage) == job[j].op = op /\ job[j].stage = stage
Put(d, s) == peer' = [peer EXCEPT ![d] = s]
Goto(j, stage) == job' = [job EXCEPT ![j].stage = stage]
Become(j, handler) == job' = [job EXCEPT ![j] = handler]
Done(j) == Become(j, Idle)

\* Mutant of ReleaseTopic: no finally, the early return keeps the topic.
ReleaseTopicOnSuccess(j) ==
  inProgress' = IF job[j].op = "pub" /\ job[j].stage = "derive"
                THEN inProgress \ {job[j].dev} ELSE inProgress

\* The finally of handleEcdhPublicKey.
ReleaseTopic(j) ==
  inProgress' = IF job[j].op = "pub" THEN inProgress \ {job[j].dev}
                ELSE inProgress

\* The end of flushPendingEcdhReply: the slot is emptied, whatever is in it.
ReleaseSlot(j) ==
  IF job[j].op = "flush" THEN slot' = None /\ attempts' = 0
  ELSE UNCHANGED <<slot, attempts>>

\* Mutant of Schedule: the timer is not set.
ScheduleSilently(d, k) ==
  /\ slot' = [dev |-> d, key |-> k]
  /\ attempts' = IF timer \/ attempts = MaxReplyAttempts THEN attempts
                 ELSE attempts + 1
  /\ UNCHANGED timer

\* scheduleEcdhReplyRetry: one slot for all devices.
Schedule(d, k) ==
  /\ slot' = [dev |-> d, key |-> k]
  /\ timer' = TRUE
  /\ attempts' = IF timer \/ attempts = MaxReplyAttempts THEN attempts
                 ELSE attempts + 1

\* A handler that has to wait takes the place of j.
Launch(j, handler) ==
  /\ job[j] = Idle
  /\ started < MaxStarted
  /\ started' = started + 1
  /\ job' = [job EXCEPT ![j] = handler]

\* startKeyExchange up to its first await.
StartOf(d) == [op |-> "start", dev |-> d, stage |-> "refresh"]

\* handlePublicKey and createLocalPublicKey: a state object and its key pair;
\* only the first key pair of a device has to be waited for.
WithLocalKey(j, d, s) ==
  IF d \in identity THEN [s EXCEPT !.local = "ready"]
  ELSE [s EXCEPT !.local = "empty", !.holders = @ \cup {j}]
LocalKeyStage(d) == IF d \in identity THEN "send" ELSE "identity"

-----------------------------------------------------------------------------
(* Public keys: handleEcdhPublicKey *)

\* Keys that can arrive on the topic of d: any it has made, or the echo.
Published(d) == 1..deviceKey[d] \cup (IF d \in ownOut THEN {Own} ELSE {})

\* A key refused for its timestamp, as an echo, or because the topic is in
\* progress: the return is inside try, so finally releases the topic.
IgnorePublicKey(d) ==
  /\ ~irLock
  /\ inProgress' = inProgress \ {d}
  /\ UNCHANGED <<peer, recentSent, identity, slot, timer, attempts, irLock,
                 job, deviceKey, ownOut, wire, started>>

\* A key that passes the filters.  handlePublicKey answers a repeated key and
\* the app's own key without a reply topic; the handler then goes on to
\* derive from it at once, which a repeated key does not survive.
AcceptPublicKey(j, d, k) ==
  LET s == peer[d]
      own == s.local = "ready" /\ k = Own
      stage == IF own THEN "derive" ELSE LocalKeyStage(d)
  IN  /\ ~irLock
      /\ k \in Published(d)
      /\ d \notin inProgress
      /\ ~(k = Own /\ d \in recentSent)
      /\ ~Repeated(s, k)
      /\ inProgress' = inProgress \cup {d}
      /\ Put(d, IF own THEN [s EXCEPT !.holders = @ \cup {j}]
                ELSE WithLocalKey(j, d, s))
      /\ Launch(j, [op |-> "pub", dev |-> d, key |-> k, stage |-> stage])
      /\ UNCHANGED <<recentSent, identity, slot, timer, attempts, irLock,
                     deviceKey, ownOut, wire>>

\* ensureLocalIdentity: the key pair goes to the state object it was made for.
IdentityReady(j) ==
  /\ job[j] # Idle /\ job[j].stage = "identity"
  /\ LET d == job[j].dev
         s == peer[d]
     IN  /\ identity' = identity \cup {d}
         /\ Put(d, IF j \in s.holders
                   THEN [s EXCEPT !.local = "ready", !.holders = @ \ {j}]
                   ELSE s)
  /\ Goto(j, "send")
  /\ UNCHANGED <<inProgress, recentSent, slot, timer, attempts, irLock,
                 deviceKey, ownOut, wire, started>>

\* The key pair cannot be made: the handler ends in its catch.
IdentityFails(j) ==
  /\ job[j] # Idle /\ job[j].stage = "identity"
  /\ peer' = [peer EXCEPT ![job[j].dev].holders = @ \ {j}]
  /\ ReleaseTopic(j)
  /\ Done(j)
  /\ UNCHANGED <<recentSent, identity, slot, timer, attempts, irLock,
                 deviceKey, ownOut, wire, started>>

\* The own key is on the wire before the publish is known to have worked.
Transmit(j) ==
  /\ job[j] # Idle /\ job[j].stage = "send"
  /\ ownOut' = ownOut \cup {job[j].dev}
  /\ UNCHANGED <<peer, inProgress, recentSent, identity, slot, timer,
                 attempts, irLock, job, deviceKey, wire, started>>

\* sendEcdhPublicKey returns true: the key is remembered, and a reply goes on
\* with prepareKeysForPublicKey, on the state object found now.
SendOk(j) ==
  LET d == job[j].dev
      s == peer[d]
      derive == job[j].op # "start" /\ CanDerive(s, job[j].key)
  IN  /\ job[j] # Idle /\ job[j].stage = "send"
      /\ ownOut' = ownOut \cup {d}
      /\ recentSent' = recentSent \cup {d}
      /\ IF derive
         THEN /\ Put(d, [s EXCEPT !.holders = @ \cup {j}])
              /\ Goto(j, "derive")
              /\ UNCHANGED <<inProgress, slot, attempts>>
         ELSE /\ Done(j) /\ ReleaseTopic(j) /\ ReleaseSlot(j)
              /\ UNCHANGED peer
      /\ UNCHANGED <<identity, timer, irLock, deviceKey, wire, started>>

\* Mutant of SendFails: a reply goes on although it was not sent.
SendFailsAndDerives(j) ==
  LET d == job[j].dev
      s == peer[d]
      derive == job[j].op # "start" /\ CanDerive(s, job[j].key)
  IN  /\ job[j] # Idle /\ job[j].stage = "send"
      /\ IF derive
         THEN /\ Put(d, [s EXCEPT !.holders = @ \cup {j}])
              /\ Goto(j, "derive")
              /\ UNCHANGED <<inProgress, slot, attempts>>
         ELSE /\ Done(j) /\ ReleaseTopic(j) /\ ReleaseSlot(j)
              /\ UNCHANGED peer
      /\ UNCHANGED <<recentSent, identity, timer, irLock, deviceKey, ownOut,
                     wire, started>>

\* sendEcdhPublicKey returns false: a reply waits in the slot, a retry too
\* unless it was the last one, a start asks the device for its key instead.
SendFails(j) ==
  LET again == \/ job[j].op = "pub"
               \/ job[j].op = "flush" /\ attempts < MaxReplyAttempts
  IN  /\ job[j] # Idle /\ job[j].stage = "send"
      /\ IF again THEN Schedule(job[j].dev, job[j].key)
         ELSE UNCHANGED <<slot, timer, attempts>>
      /\ ReleaseTopic(j)
      /\ Done(j)
      /\ UNCHANGED <<peer, recentSent, identity, irLock, deviceKey, ownOut,
                     wire, started>>

\* Mutant of DeriveOk: the new keys are installed at once.
DeriveAndInstall(j) ==
  /\ job[j] # Idle /\ job[j].stage = "derive"
  /\ LET d == job[j].dev
         s == peer[d]
     IN  Put(d, IF j \in s.holders
               THEN Activate([s EXCEPT !.pending = job[j].key,
                                       !.holders = @ \ {j}])
               ELSE s)
  /\ ReleaseTopic(j) /\ ReleaseSlot(j)
  /\ Done(j)
  /\ UNCHANGED <<recentSent, identity, timer, irLock, deviceKey, ownOut, wire,
                 started>>

\* derivePendingKeys resumes with both keys: they go to the state object it
\* started with, which a reset may have dropped; the time is noted anyway.
DeriveOk(j) ==
  /\ job[j] # Idle /\ job[j].stage = "derive"
  /\ LET d == job[j].dev
         s == peer[d]
         held == j \in s.holders
     IN  Put(d, [s EXCEPT !.pending = IF held THEN job[j].key ELSE @,
                          !.holders = @ \ {j}, !.pendingAge = 0])
  /\ ReleaseTopic(j) /\ ReleaseSlot(j)
  /\ Done(j)
  /\ UNCHANGED <<recentSent, identity, timer, irLock, deviceKey, ownOut, wire,
                 started>>

\* The key is no point of the curve, or the crypto framework fails.
DeriveFails(j) ==
  /\ job[j] # Idle /\ job[j].stage = "derive"
  /\ peer' = [peer EXCEPT ![job[j].dev].holders = @ \ {j}]
  /\ ReleaseTopic(j) /\ ReleaseSlot(j)
  /\ Done(j)
  /\ UNCHANGED <<recentSent, identity, timer, irLock, deviceKey, ownOut, wire,
                 started>>

-----------------------------------------------------------------------------
(* Replies that could not be sent *)

Flush(j) == Launch(j, [op |-> "flush", dev |-> slot.dev, key |-> slot.key,
                       stage |-> "send"])

\* The retry timer fires; during infrared learning flushPendingEcdhReply
\* returns at once and nothing sets the timer again.
TimerFires(j) ==
  /\ timer
  /\ timer' = FALSE
  /\ IF irLock \/ slot = None THEN UNCHANGED <<job, started>> ELSE Flush(j)
  /\ UNCHANGED <<peer, inProgress, recentSent, identity, slot, attempts,
                 irLock, deviceKey, ownOut, wire>>

\* MQTT or the bridge reports that it has connected.
Connected(j) ==
  /\ ~irLock /\ slot # None
  /\ Flush(j)
  /\ UNCHANGED <<peer, inProgress, recentSent, identity, slot, timer, attempts,
                 irLock, deviceKey, ownOut, wire>>

-----------------------------------------------------------------------------
(* Starting an exchange: startKeyExchange, requestDevicePublicKey *)

\* waitForNetworkCryptoSession, before a command goes out: an unverified
\* session is dropped and an exchange is started, now or in a later round.
CommandNeedsSession(j, d) ==
  LET s == Expire(peer[d])
  IN  /\ ~peer[d].verified
      /\ Put(d, IF s.active # None /\ ~FreshPending(s) THEN Static ELSE s)
      /\ \/ /\ ~irLock /\ ~FreshPending(s)
            /\ Launch(j, StartOf(d))
         \/ UNCHANGED <<job, started>>
      /\ UNCHANGED <<inProgress, recentSent, identity, slot, timer, attempts,
                     irLock, deviceKey, ownOut, wire>>

\* refreshBridgeKeyExchangeState is done; a fresh pending key ends the start.
Refreshed(j) ==
  /\ Working(j, "start", "refresh")
  /\ LET d == job[j].dev
         s == Expire(peer[d])
     IN  IF irLock \/ FreshPending(s)
         THEN Put(d, s) /\ Done(j)
         ELSE Put(d, WithLocalKey(j, d, s)) /\ Goto(j, LocalKeyStage(d))
  /\ UNCHANGED <<inProgress, recentSent, identity, slot, timer, attempts,
                 irLock, deviceKey, ownOut, wire, started>>

-----------------------------------------------------------------------------
(* Encrypted packets: decryptIncomingPayload and what follows it *)

\* tryDecryptPendingKeyAck up to its await: the pending key is read here.
\* A device sends under its current or an earlier key; packets are delayed.
ReceivePacket(j, d, k, ack) ==
  LET s == Expire(peer[d])
  IN  /\ k \in wire[d] \cup {None} /\ (k = None => ~ack)
      /\ Put(d, s)
      /\ Launch(j, [op |-> "packet", dev |-> d, key |-> k, ack |-> ack,
                    seen |-> s.pending, stage |-> "pending"])
      /\ UNCHANGED <<inProgress, recentSent, identity, slot, timer, attempts,
                     irLock, deviceKey, ownOut, wire>>

\* A packet under the pending key that was read activates the one found now;
\* otherwise the device's current session key is read and tried.
PendingTried(j) ==
  LET d == job[j].dev
  IN  /\ Working(j, "packet", "pending")
      /\ IF job[j].seen # None /\ job[j].seen = job[j].key
         THEN Put(d, Activate(peer[d])) /\ Done(j)
         ELSE /\ job' = [job EXCEPT ![j].stage = "active",
                                    ![j].seen = peer[d].active]
              /\ UNCHANGED peer
      /\ UNCHANGED <<inProgress, recentSent, identity, slot, timer, attempts,
                     irLock, deviceKey, ownOut, wire, started>>

\* The session key fits.  A key ack activates what is pending, although it
\* was not encrypted with the pending key.
DynamicPacket(j) ==
  LET d == job[j].dev
      s == [peer[d] EXCEPT !.verified = TRUE]
  IN  /\ Working(j, "packet", "active")
      /\ job[j].seen # None /\ job[j].seen = job[j].key
      /\ Put(d, IF job[j].ack THEN Activate(s) ELSE s)
      /\ Done(j)
      /\ UNCHANGED <<inProgress, recentSent, identity, slot, timer, attempts,
                     irLock, deviceKey, ownOut, wire, started>>

\* The static key fits.  As a fallback it resets a device that has no session
\* key any more.  recoverFromStaticNetworkPayload then drops a session that is
\* past its grace and starts an exchange, unless one is under way.
StaticPacket(j) ==
  LET d == job[j].dev
      lost == job[j].seen # None /\ peer[d].active = None
      s == Expire(IF lost THEN Static ELSE peer[d])
      keep == \/ FreshPending(s)
              \/ s.active # None /\ s.installAge < StaticGrace
  IN  /\ Working(j, "packet", "active")
      /\ job[j].key = None
      /\ IF irLock
         THEN Put(d, IF lost THEN Static ELSE peer[d]) /\ Done(j)
         ELSE /\ Put(d, IF keep \/ s.active = None THEN s ELSE Static)
              /\ Done(j) \/ (~keep /\ Become(j, StartOf(d)))
      /\ UNCHANGED <<inProgress, recentSent, identity, slot, timer, attempts,
                     irLock, deviceKey, ownOut, wire, started>>

\* No key fits: handleDecryptFailure, which recovers when enough packets have
\* failed, past the grace of a new session and with no fresh pending key.
UnreadablePacket(j) ==
  LET d == job[j].dev
      s == Expire(peer[d])
  IN  /\ Working(j, "packet", "active")
      /\ job[j].key # None /\ job[j].key # job[j].seen
      /\ \/ Done(j) /\ UNCHANGED peer
         \/ ~irLock /\ Done(j) /\ Put(d, s)
         \/ /\ ~irLock /\ ~FreshPending(s) /\ s.installAge >= DecryptGrace
            /\ Put(d, Static)
            /\ Become(j, StartOf(d))
      /\ UNCHANGED <<inProgress, recentSent, identity, slot, timer, attempts,
                     irLock, deviceKey, ownOut, wire, started>>

-----------------------------------------------------------------------------
(* Devices that boot or leave, modes, time *)

\* Mutant of DeviceBoot: a boot message always counts.
DeviceBootAtOnce(d) ==
  /\ Put(d, Static)
  /\ UNCHANGED <<inProgress, recentSent, identity, slot, timer, attempts,
                 irLock, job, deviceKey, ownOut, wire, started>>

\* handleDeviceBoot: a boot message, perhaps a late one. It is ignored while an
\* exchange is fresh, and when it is a repetition.
DeviceBoot(d) ==
  LET s == Expire(peer[d])
  IN  /\ \/ Put(d, s)
         \/ /\ ~FreshPending(s) /\ s.installAge >= BootGrace
            /\ Put(d, Static)
      /\ UNCHANGED <<inProgress, recentSent, identity, slot, timer, attempts,
                     irLock, job, deviceKey, ownOut, wire, started>>

\* markDeviceRemoved, prepareProvisionedDeviceRestart: the waiting reply of
\* the device goes too.
ForgetDevice(d) ==
  /\ Put(d, Static)
  /\ IF slot # None /\ slot.dev = d
     THEN slot' = None /\ timer' = FALSE /\ attempts' = 0
     ELSE UNCHANGED <<slot, timer, attempts>>
  /\ UNCHANGED <<inProgress, recentSent, identity, irLock, job, deviceKey,
                 ownOut, wire, started>>

\* Leaving BLE mode: every network session has to be verified again.
LeaveBle ==
  /\ peer' = [d \in Devices |-> [peer[d] EXCEPT !.verified = FALSE]]
  /\ UNCHANGED <<inProgress, recentSent, identity, slot, timer, attempts,
                 irLock, job, deviceKey, ownOut, wire, started>>

\* Infrared learning begins or ends.
ToggleIrLock ==
  /\ IrLearning
  /\ irLock' = ~irLock
  /\ UNCHANGED <<peer, inProgress, recentSent, identity, slot, timer, attempts,
                 job, deviceKey, ownOut, wire, started>>

\* 120 s after it was sent an own key is no longer known as an echo.
ForgetSent(d) ==
  /\ recentSent' = recentSent \ {d}
  /\ UNCHANGED <<peer, inProgress, identity, slot, timer, attempts, irLock,
                 job, deviceKey, ownOut, wire, started>>

Older(age) == IF age < Old THEN age + 1 ELSE Old

Tick ==
  /\ peer' = [d \in Devices |->
       [peer[d] EXCEPT !.pendingAge = Older(@), !.installAge = Older(@)]]
  /\ UNCHANGED <<inProgress, recentSent, identity, slot, timer, attempts,
                 irLock, job, deviceKey, ownOut, wire, started>>

\* The device restarts with a new key pair, or has derived the session key of
\* its current one and begins to encrypt with it.
NewKeyPair(d) ==
  /\ deviceKey[d] < MaxKey
  /\ deviceKey' = [deviceKey EXCEPT ![d] = @ + 1]
  /\ UNCHANGED <<peer, inProgress, recentSent, identity, slot, timer, attempts,
                 irLock, job, ownOut, wire, started>>

DeviceDerives(d) ==
  /\ d \in ownOut
  /\ wire' = [wire EXCEPT ![d] = @ \cup {deviceKey[d]}]
  /\ UNCHANGED <<peer, inProgress, recentSent, identity, slot, timer, attempts,
                 irLock, job, deviceKey, ownOut, started>>

-----------------------------------------------------------------------------

\* After a start of the app: no exchange, session keys restored from storage.
Init ==
  /\ deviceKey = [d \in Devices |-> 1]
  /\ wire \in [Devices -> {{}, {Restored}}]
  /\ peer = [d \in Devices |-> IF wire[d] = {} THEN Static
                               ELSE [Static EXCEPT !.active = Restored]]
  /\ inProgress = {} /\ recentSent = {} /\ identity = {} /\ ownOut = {}
  /\ slot = None /\ timer = FALSE /\ attempts = 0
  /\ irLock = FALSE
  /\ job = [j \in Jobs |-> Idle] /\ started = 0

Await(j) ==
  \/ IdentityReady(j) \/ IdentityFails(j) \/ SendOk(j) \/ SendFails(j)
  \/ DeriveOk(j) \/ DeriveFails(j) \/ Refreshed(j)
  \/ PendingTried(j) \/ DynamicPacket(j) \/ StaticPacket(j)
  \/ UnreadablePacket(j)

Next ==
  \/ \E j \in Jobs :
       \/ Await(j) \/ Transmit(j) \/ TimerFires(j) \/ Connected(j)
       \/ \E d \in Devices :
            \/ CommandNeedsSession(j, d)
            \/ \E k \in Keys : AcceptPublicKey(j, d, k)
            \/ \E k \in Keys \cup {None}, ack \in BOOLEAN :
                 ReceivePacket(j, d, k, ack)
  \/ \E d \in Devices :
       \/ IgnorePublicKey(d) \/ DeviceBoot(d) \/ ForgetDevice(d)
       \/ ForgetSent(d) \/ NewKeyPair(d) \/ DeviceDerives(d)
  \/ LeaveBle \/ ToggleIrLock \/ Tick

Spec == Init /\ [][Next]_vars

-----------------------------------------------------------------------------
(* Properties *)

TypeOK ==
  /\ peer \in [Devices -> Peer]
  /\ inProgress \subseteq Devices
  /\ recentSent \subseteq Devices
  /\ identity \subseteq Devices
  /\ slot \in [dev : Devices, key : Keys] \cup {None}
  /\ timer \in BOOLEAN
  /\ attempts \in 0..MaxReplyAttempts
  /\ irLock \in BOOLEAN
  /\ job \in [Jobs -> Job] /\ started \in 0..MaxStarted
  /\ deviceKey \in [Devices -> 1..MaxKey]
  /\ ownOut \subseteq Devices
  /\ wire \in [Devices -> SUBSET Keys]

\* KeyExchangeLayer and CryptoLayer agree: an established exchange is with the
\* public key from which the installed session keys were derived, whatever
\* resets, expiries and activations were interleaved with its awaits.
EstablishedIsInstalled ==
  \A d \in Devices : peer[d].remote # None => peer[d].active = peer[d].remote

\* A key is pending for a device only when the device has been sent what it
\* needs to derive the same key, whichever handler answered it.
AnsweredBeforePending ==
  \A d \in Devices : peer[d].pending # None => d \in ownOut

\* A session that has just been confirmed is not torn down by what is still on
\* its way: late packets, boot messages, or a pending key that expires. Only a
\* removal of the device ends it, or a key that replaces it.
GraceKept ==
  [][\A d \in Devices :
       /\ peer[d].active # None /\ peer[d].verified
       /\ peer[d].installAge < DecryptGrace
       => peer'[d].active # None \/ ForgetDevice(d)]_vars

\* The retries of an unsent reply end only when it is sent, after the last
\* attempt, with its device, or in infrared learning.
Retrying == timer \/ \E j \in Jobs : job[j].op = "flush"
ReplyIsRetried ==
  [][slot # None /\ slot' # None /\ Retrying /\ ~Retrying'
       => irLock \/ attempts = MaxReplyAttempts]_vars

\* A topic in progress belongs to a handler that is still under way: every
\* path out of handleEcdhPublicKey releases the topic, failures, early returns
\* and keys that are ignored meanwhile included, or the device could never
\* rekey again.
TopicIsReleased ==
  \A d \in inProgress : \E j \in Jobs : job[j].op = "pub" /\ job[j].dev = d

\* The exchange is a two-phase installation of keys for each device.
TwoPhase == INSTANCE KeySession WITH
              answered <- ownOut,
              offered <- [d \in Devices |-> peer[d].pending],
              key <- [d \in Devices |-> peer[d].active]
KeysInTwoPhases == TwoPhase!Spec

\* docs/大禹密钥协商机制算法详细设计.md:314: a key becomes the session key only
\* after the device has shown, by a packet encrypted with it, that it has it.
ActiveIsProven ==
  \A d \in Devices : peer[d].active # None => peer[d].active \in wire[d]
=============================================================================
