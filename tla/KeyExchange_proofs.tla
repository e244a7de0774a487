------------------------- MODULE KeyExchange_proofs -------------------------
(***************************************************************************)
(* Theorems about KeyExchange, for every number of devices, waiting        *)
(* handlers and key pairs, and all time limits the code may choose.        *)
(*                                                                         *)
(* What a step does to a device's session is one of four things (Kept,     *)
(* Dropped, Confirmed, Offered).  That this is so is proved action by      *)
(* action; the theorems about sessions follow from it.                     *)
(***************************************************************************)
EXTENDS KeyExchange, TLAPS

-----------------------------------------------------------------------------
(* The state of one device *)

\* A pending key was derived after the last installation.
Younger(s) == s.pending # None => s.pendingAge <= s.installAge
Agrees(s) == s.remote # None => s.active = s.remote
Sound(s) == s \in Peer /\ Younger(s) /\ Agrees(s)

InGrace(s) == s.active # None /\ s.verified /\ s.installAge < DecryptGrace

Kept(s, t) == t.pending = s.pending /\ t.active = s.active
Dropped(t) == t.pending = None /\ t.active = None
Confirmed(s, t) == s.pending # None /\ t.active = s.pending /\ t.pending = None
Offered(s, t) == t.pending \in Keys /\ t.active = s.active

LEMMA OldIsNat == Old \in Nat /\ 0 \in 0..Old
  BY KeyExchangeAssumption DEF KeyExchangeAssumption, Old

LEMMA NoKey == None \notin Keys /\ Own \in Keys
  BY KeyExchangeAssumption DEF KeyExchangeAssumption, Keys, Own

LEMMA StaticSound == Sound(Static) /\ Dropped(Static)
  BY OldIsNat DEF Sound, Younger, Agrees, Peer, Static, Dropped

\* Expiry never ends a session in its grace.
LEMMA ExpireSound ==
  ASSUME NEW s, Sound(s)
  PROVE  /\ Sound(Expire(s))
         /\ Expire(s) = s \/ (Expire(s) = Static /\ ~InGrace(s))
<1>1. Expire(s) = s \/ Expire(s) = Static
  BY DEF Expire
<1>2. Sound(Expire(s))
  BY <1>1, StaticSound
<1>3. ASSUME Expire(s) # s PROVE ~InGrace(s)
  <2>1. s.pending # None /\ ~(s.pendingAge < PendingTtl)
    BY <1>3 DEF Expire, FreshPending
  <2>2. s.pendingAge <= s.installAge
    BY <2>1 DEF Sound, Younger
  <2>3. s.pendingAge \in Int /\ s.installAge \in Int
    BY OldIsNat DEF Sound, Peer
  <2>4. DecryptGrace <= PendingTtl /\ DecryptGrace \in Int /\ PendingTtl \in Int
    BY KeyExchangeAssumption DEF KeyExchangeAssumption
  <2>5. QED
    BY <2>1, <2>2, <2>3, <2>4 DEF InGrace
<1>4. QED
  BY <1>1, <1>2, <1>3

LEMMA ActivateSound ==
  ASSUME NEW s, Sound(s)
  PROVE  /\ Sound(Activate(s))
         /\ Kept(s, Activate(s)) \/ Confirmed(s, Activate(s))
<1>1. CASE s.pending = None
  BY <1>1 DEF Activate, Kept
<1>2. CASE s.pending # None
  <2>1. s.pending \in Keys /\ 0 \in 0..Old /\ Old \in 0..Old /\ TRUE \in BOOLEAN
    BY <1>2, OldIsNat DEF Sound, Peer
  <2>2. Activate(s) \in Peer
    BY <1>2, <2>1 DEF Activate, Sound, Peer
  <2>3. /\ Activate(s).pending = None
        /\ Activate(s).active = s.pending /\ Activate(s).remote = s.pending
    BY <1>2 DEF Activate, Sound, Peer
  <2>4. QED
    BY <1>2, <2>2, <2>3 DEF Sound, Younger, Agrees, Confirmed
<1>3. QED
  BY <1>1, <1>2

\* Fields that play no part in a session.
LEMMA LocalSound ==
  ASSUME NEW s, Sound(s), NEW t, t \in Peer,
         t.remote = s.remote, t.pending = s.pending, t.active = s.active,
         t.pendingAge = s.pendingAge, t.installAge = s.installAge
  PROVE  Sound(t) /\ Kept(s, t)
  BY DEF Sound, Younger, Agrees, Kept

LEMMA WithLocalKeySound ==
  ASSUME NEW s, Sound(s), NEW j \in Jobs, NEW d \in Devices
  PROVE  Sound(WithLocalKey(j, d, s)) /\ Kept(s, WithLocalKey(j, d, s))
<1> DEFINE t == WithLocalKey(j, d, s)
<1>1. t \in Peer
  BY DEF WithLocalKey, Sound, Peer
<1>2. /\ t.remote = s.remote /\ t.pending = s.pending /\ t.active = s.active
      /\ t.pendingAge = s.pendingAge /\ t.installAge = s.installAge
  BY DEF WithLocalKey, Sound, Peer
<1>3. QED
  BY <1>1, <1>2, LocalSound

-----------------------------------------------------------------------------
(* The invariant and what a step does to the devices *)

\* A handler derives keys only for a device that has been answered.
DeriversAnswered ==
  \A j \in Jobs : job[j] # Idle /\ job[j].stage = "derive" => job[j].dev \in ownOut

PeersSound == peer \in [Devices -> Peer] /\ \A d \in Devices : Sound(peer[d])
IInv == TypeOK /\ PeersSound /\ AnsweredBeforePending /\ DeriversAnswered

\* One device moves, the others stay.
Moves(d, t) ==
  /\ Put(d, t)
  /\ Sound(t)
  /\ \/ Kept(peer[d], t)
     \/ Dropped(t) /\ (~InGrace(peer[d]) \/ ForgetDevice(d))
     \/ Confirmed(peer[d], t)
     \/ Offered(peer[d], t) /\ d \in ownOut /\ ownOut' = ownOut

\* No device moves, though all may age or have to be verified again.
AllKept ==
  /\ peer' \in [Devices -> Peer]
  /\ \A d \in Devices : Sound(peer'[d]) /\ Kept(peer[d], peer'[d])

PeerStep == AllKept \/ \E d \in Devices : \E t : Moves(d, t)

\* What is known of a handler that waits at a stage.
LEMMA Waiting ==
  ASSUME TypeOK, NEW j \in Jobs, job[j] # Idle
  PROVE  /\ job[j].dev \in Devices
         /\ job[j].stage = "identity" => job[j].op \in {"pub", "start"}
         /\ job[j].stage = "send" => job[j].op \in {"pub", "flush", "start"}
         /\ job[j].stage = "derive" => job[j].op \in {"pub", "flush"}
         /\ job[j].op \in {"pub", "flush"} => job[j].key \in Keys
         /\ job[j].op = "packet" => /\ job[j].key \in Keys \cup {None}
                                    /\ job[j].seen \in Keys \cup {None}
                                    /\ job[j].ack \in BOOLEAN
  BY DEF TypeOK, Job

LEMMA NotIdle ==
  ASSUME NEW j, NEW op, NEW stage, Working(j, op, stage), op # "idle"
  PROVE  job[j] # Idle /\ job[j].op = op /\ job[j].stage = stage
  BY DEF Working, Idle

\* A handler goes on to a stage of its operation.
LEMMA GoOn ==
  ASSUME TypeOK, NEW j \in Jobs, job[j] # Idle, NEW stage,
         \/ job[j].op = "pub" /\ stage \in {"identity", "send", "derive"}
         \/ job[j].op = "flush" /\ stage \in {"send", "derive"}
         \/ job[j].op = "start" /\ stage \in {"refresh", "identity", "send"}
         \/ job[j].op = "packet" /\ stage \in {"pending", "active"}
  PROVE  [job[j] EXCEPT !.stage = stage] \in Job
<1>1. CASE job[j].op = "pub"
  <2>1. job[j] \in [op : {"pub"}, dev : Devices, key : Keys,
                    stage : {"identity", "send", "derive"}]
    BY <1>1 DEF TypeOK, Job
  <2>2. [job[j] EXCEPT !.stage = stage] \in
          [op : {"pub"}, dev : Devices, key : Keys,
           stage : {"identity", "send", "derive"}]
    BY <1>1, <2>1
  <2>3. QED
    BY <2>2 DEF Job
<1>2. CASE job[j].op = "flush"
  <2>1. job[j] \in [op : {"flush"}, dev : Devices, key : Keys,
                    stage : {"send", "derive"}]
    BY <1>2 DEF TypeOK, Job
  <2>2. [job[j] EXCEPT !.stage = stage] \in
          [op : {"flush"}, dev : Devices, key : Keys,
           stage : {"send", "derive"}]
    BY <1>2, <2>1
  <2>3. QED
    BY <2>2 DEF Job
<1>3. CASE job[j].op = "start"
  <2>1. job[j] \in [op : {"start"}, dev : Devices,
                    stage : {"refresh", "identity", "send"}]
    BY <1>3 DEF TypeOK, Job
  <2>2. [job[j] EXCEPT !.stage = stage] \in
          [op : {"start"}, dev : Devices,
           stage : {"refresh", "identity", "send"}]
    BY <1>3, <2>1
  <2>3. QED
    BY <2>2 DEF Job
<1>4. CASE job[j].op = "packet"
  <2>1. job[j] \in [op : {"packet"}, dev : Devices, key : Keys \cup {None},
                    ack : BOOLEAN, seen : Keys \cup {None},
                    stage : {"pending", "active"}]
    BY <1>4 DEF TypeOK, Job
  <2>2. [job[j] EXCEPT !.stage = stage] \in
          [op : {"packet"}, dev : Devices, key : Keys \cup {None},
           ack : BOOLEAN, seen : Keys \cup {None},
           stage : {"pending", "active"}]
    BY <1>4, <2>1
  <2>3. QED
    BY <2>2 DEF Job
<1>5. QED
  BY <1>1, <1>2, <1>3, <1>4

-----------------------------------------------------------------------------
(* Every step is one of the four kinds: one lemma for each handler *)

LEMMA Unmoved ==
  ASSUME IInv, UNCHANGED peer
  PROVE  PeerStep
  BY DEF IInv, PeersSound, PeerStep, AllKept, Kept

LEMMA Moved ==
  ASSUME NEW d \in Devices, NEW t, Moves(d, t)
  PROVE  PeerStep
  BY DEF PeerStep

LEMMA PutKept ==
  ASSUME NEW d \in Devices, NEW t, Put(d, t), Sound(t), Kept(peer[d], t)
  PROVE  PeerStep
  BY DEF PeerStep, Moves

LEMMA PutStatic ==
  ASSUME NEW d \in Devices, Put(d, Static),
         ~InGrace(peer[d]) \/ ForgetDevice(d)
  PROVE  PeerStep
<1>1. Moves(d, Static)
  BY StaticSound DEF Moves
<1>2. QED
  BY <1>1, Moved

LEMMA PutExpire ==
  ASSUME IInv, NEW d \in Devices, Put(d, Expire(peer[d]))
  PROVE  PeerStep
<1>1. Sound(peer[d])
  BY DEF IInv, PeersSound
<1>2. CASE Expire(peer[d]) = peer[d]
  <2>1. Kept(peer[d], peer[d])
    BY DEF Kept
  <2>2. Put(d, peer[d])
    BY <1>2
  <2>3. QED
    BY <1>1, <2>1, <2>2, PutKept
<1>3. CASE Expire(peer[d]) = Static /\ ~InGrace(peer[d])
  <2>1. Put(d, Static)
    BY <1>3
  <2>2. QED
    BY <1>3, <2>1, PutStatic
<1>4. QED
  BY <1>1, <1>2, <1>3, ExpireSound

LEMMA PutActivate ==
  ASSUME IInv, NEW d \in Devices, NEW s, Sound(s), Kept(peer[d], s),
         Put(d, Activate(s))
  PROVE  PeerStep
<1>1. Sound(Activate(s)) /\ (Kept(s, Activate(s)) \/ Confirmed(s, Activate(s)))
  BY ActivateSound
<1>2. Kept(peer[d], Activate(s)) \/ Confirmed(peer[d], Activate(s))
  BY <1>1 DEF Kept, Confirmed
<1>3. QED
  BY <1>1, <1>2 DEF Moves, PeerStep

\* Dropping or adding a handler that writes to the state object.
LEMMA Holding ==
  ASSUME IInv, NEW d \in Devices, NEW h, h \subseteq Jobs
  PROVE  LET t == [peer[d] EXCEPT !.holders = h]
         IN  Sound(t) /\ Kept(peer[d], t)
<1> DEFINE t == [peer[d] EXCEPT !.holders = h]
<1>1. Sound(peer[d])
  BY DEF IInv, PeersSound
<1>2. t \in Peer
  BY <1>1 DEF Sound, Peer
<1>3. /\ t.remote = peer[d].remote /\ t.pending = peer[d].pending
      /\ t.active = peer[d].active /\ t.pendingAge = peer[d].pendingAge
      /\ t.installAge = peer[d].installAge
  BY <1>1 DEF Sound, Peer
<1>4. QED
  BY <1>1, <1>2, <1>3, LocalSound

LEMMA HoldersTyped ==
  ASSUME IInv, NEW d \in Devices, NEW j \in Jobs
  PROVE  peer[d].holders \ {j} \subseteq Jobs /\ peer[d].holders \cup {j} \subseteq Jobs
  BY DEF IInv, PeersSound, Sound, Peer

LEMMA Accepts ==
  ASSUME IInv, NEW j \in Jobs, NEW d \in Devices, NEW k \in Keys,
         AcceptPublicKey(j, d, k)
  PROVE  PeerStep
<1>1. Sound(peer[d])
  BY DEF IInv, PeersSound
<1>2. CASE peer[d].local = "ready" /\ k = Own
  <2>1. Put(d, [peer[d] EXCEPT !.holders = peer[d].holders \cup {j}])
    BY <1>2 DEF AcceptPublicKey
  <2>2. QED
    BY <2>1, Holding, HoldersTyped, PutKept
<1>3. CASE ~(peer[d].local = "ready" /\ k = Own)
  <2>1. Put(d, WithLocalKey(j, d, peer[d]))
    BY <1>3 DEF AcceptPublicKey
  <2>2. QED
    BY <1>1, <2>1, WithLocalKeySound, PutKept
<1>4. QED
  BY <1>2, <1>3

LEMMA IdentityIsReady ==
  ASSUME IInv, NEW j \in Jobs, IdentityReady(j)
  PROVE  PeerStep
<1> DEFINE d == job[j].dev
           t == [peer[d] EXCEPT !.local = "ready", !.holders = @ \ {j}]
<1>1. d \in Devices /\ Sound(peer[d])
  BY Waiting DEF IInv, PeersSound, IdentityReady
<1>2. t \in Peer
  BY <1>1 DEF Sound, Peer
<1>3. /\ t.remote = peer[d].remote /\ t.pending = peer[d].pending
      /\ t.active = peer[d].active /\ t.pendingAge = peer[d].pendingAge
      /\ t.installAge = peer[d].installAge
  BY <1>1 DEF Sound, Peer
<1>4. Sound(t) /\ Kept(peer[d], t)
  <2> HIDE DEF t, d
  <2> QED
    BY <1>1, <1>2, <1>3, LocalSound
<1>5. Put(d, t) \/ Put(d, peer[d])
  BY DEF IdentityReady
<1>6. Kept(peer[d], peer[d])
  BY DEF Kept
<1>7. QED
  <2> HIDE DEF t, d
  <2> QED
    BY <1>1, <1>4, <1>5, <1>6, PutKept

\* The handlers that only stop writing to the state object, or start to.
LEMMA Holds ==
  ASSUME IInv, NEW j \in Jobs,
         IdentityFails(j) \/ DeriveFails(j) \/ SendOk(j)
  PROVE  PeerStep
<1> DEFINE d == job[j].dev
<1>1. d \in Devices
  BY Waiting DEF IInv, IdentityFails, DeriveFails, SendOk
<1>2. \/ UNCHANGED peer
      \/ Put(d, [peer[d] EXCEPT !.holders = peer[d].holders \ {j}])
      \/ Put(d, [peer[d] EXCEPT !.holders = peer[d].holders \cup {j}])
  <2>1. CASE SendOk(j)
    BY <2>1 DEF SendOk
  <2>2. CASE IdentityFails(j) \/ DeriveFails(j)
    <3>1. peer \in [Devices -> Peer]
      BY DEF IInv, PeersSound
    <3>2. peer' = [peer EXCEPT ![d].holders = @ \ {j}]
      BY <2>2 DEF IdentityFails, DeriveFails
    <3>3. peer' = [peer EXCEPT ![d] = [peer[d] EXCEPT !.holders = peer[d].holders \ {j}]]
      BY <1>1, <3>1, <3>2 DEF Peer
    <3>4. QED
      BY <3>3 DEF Put
  <2>3. QED
    BY <2>1, <2>2
<1>3. QED
  <2> HIDE DEF d
  <2> QED
    BY <1>1, <1>2, Holding, HoldersTyped, PutKept, Unmoved

LEMMA Derives ==
  ASSUME IInv, NEW j \in Jobs, DeriveOk(j)
  PROVE  PeerStep
<1> DEFINE d == job[j].dev
           k == IF j \in peer[d].holders THEN job[j].key ELSE peer[d].pending
           t == [peer[d] EXCEPT !.pending = k, !.holders = @ \ {j},
                                !.pendingAge = 0]
<1>1. d \in Devices /\ job[j].key \in Keys /\ d \in ownOut
  BY Waiting DEF IInv, DeriveOk, DeriversAnswered
<1>2. Sound(peer[d])
  BY <1>1 DEF IInv, PeersSound
<1>3. Put(d, t) /\ ownOut' = ownOut
  BY DEF DeriveOk
<1>4. k \in Keys \cup {None} /\ 0 \in 0..Old
  BY <1>1, <1>2, OldIsNat DEF Sound, Peer
<1>5. t \in Peer /\ t.pending = k /\ t.pendingAge = 0
      /\ t.active = peer[d].active /\ t.remote = peer[d].remote
      /\ t.installAge = peer[d].installAge
  <2> HIDE DEF d, k
  <2> QED
    BY <1>2, <1>4 DEF Sound, Peer
<1>6. peer[d].installAge >= 0
  BY <1>2, OldIsNat DEF Sound, Peer
<1>7. Sound(t)
  <2> HIDE DEF t, d, k
  <2> QED
    BY <1>2, <1>5, <1>6 DEF Sound, Younger, Agrees
<1>8. Kept(peer[d], t) \/ Offered(peer[d], t)
  <2>1. t.pending \in Keys \/ t.pending = peer[d].pending
    BY <1>1, <1>5
  <2> HIDE DEF t, d
  <2>2. QED
    BY <1>5, <2>1 DEF Kept, Offered
<1>9. QED
  <2> HIDE DEF t, d
  <2> QED
    BY <1>1, <1>3, <1>7, <1>8 DEF Moves, PeerStep

\* A session that is old once what has expired is gone is not in its grace.
LEMMA OldIsNotInGrace ==
  ASSUME IInv, NEW d \in Devices,
         NEW g \in Nat, DecryptGrace <= g, Expire(peer[d]).installAge >= g
  PROVE  ~InGrace(peer[d])
<1>1. Sound(peer[d])
  BY DEF IInv, PeersSound
<1>2. CASE Expire(peer[d]) = peer[d]
  <2>1. peer[d].installAge \in Int /\ DecryptGrace \in Int
    BY <1>1, OldIsNat, KeyExchangeAssumption
       DEF Sound, Peer, KeyExchangeAssumption
  <2>2. peer[d].installAge >= g
    BY <1>2
  <2>3. QED
    BY <2>1, <2>2 DEF InGrace
<1>3. QED
  BY <1>1, <1>2, ExpireSound

LEMMA Graces ==
  /\ DecryptGrace \in Nat /\ StaticGrace \in Nat /\ BootGrace \in Nat
  /\ DecryptGrace <= StaticGrace /\ DecryptGrace <= BootGrace
  BY KeyExchangeAssumption DEF KeyExchangeAssumption

LEMMA Refreshes ==
  ASSUME IInv, NEW j \in Jobs, Refreshed(j)
  PROVE  PeerStep
<1> DEFINE d == job[j].dev
           s == Expire(peer[d])
<1>1. d \in Devices /\ Sound(peer[d])
  <2>1. job[j] # Idle
    BY NotIdle DEF Refreshed
  <2>2. QED
    BY <2>1, Waiting DEF IInv, PeersSound
<1>2. Put(d, s) \/ Put(d, WithLocalKey(j, d, s))
  BY DEF Refreshed
<1>3. CASE Put(d, s)
  BY <1>1, <1>3, PutExpire
<1>4. CASE Put(d, WithLocalKey(j, d, s))
  <2> DEFINE t == WithLocalKey(j, d, s)
  <2>1. Sound(s) /\ (s = peer[d] \/ (s = Static /\ ~InGrace(peer[d])))
    BY <1>1, ExpireSound
  <2>2. Sound(t) /\ Kept(s, t)
    <3> HIDE DEF s, d
    <3> QED
      BY <1>1, <2>1, WithLocalKeySound
  <2>3. CASE s = peer[d]
    <3> HIDE DEF s, t, d
    <3>1. Put(d, t)
      BY <1>4 DEF t
    <3> QED
      BY <1>1, <2>2, <2>3, <3>1, PutKept
  <2>4. CASE s = Static /\ ~InGrace(peer[d])
    <3> HIDE DEF s, t, d
    <3>1. Put(d, t)
      BY <1>4 DEF t
    <3>2. Dropped(t)
      BY <2>2, <2>4, StaticSound DEF Kept, Dropped
    <3> QED
      BY <1>1, <2>2, <2>4, <3>1, <3>2 DEF Moves, PeerStep
  <2>5. QED
    BY <2>1, <2>3, <2>4
<1>5. QED
  BY <1>2, <1>3, <1>4

LEMMA NeedsSession ==
  ASSUME IInv, NEW j \in Jobs, NEW d \in Devices, CommandNeedsSession(j, d)
  PROVE  PeerStep
<1>1. ~InGrace(peer[d])
  BY DEF CommandNeedsSession, InGrace
<1>2. Put(d, Static) \/ Put(d, Expire(peer[d]))
  BY DEF CommandNeedsSession
<1>3. QED
  BY <1>1, <1>2, PutStatic, PutExpire

LEMMA Receives ==
  ASSUME IInv, NEW j \in Jobs, NEW d \in Devices, NEW k, NEW ack,
         ReceivePacket(j, d, k, ack)
  PROVE  PeerStep
<1>1. Put(d, Expire(peer[d]))
  BY DEF ReceivePacket
<1>2. QED
  BY <1>1, PutExpire

LEMMA TriesPending ==
  ASSUME IInv, NEW j \in Jobs, PendingTried(j)
  PROVE  PeerStep
<1> DEFINE d == job[j].dev
<1>1. d \in Devices /\ Sound(peer[d])
  <2>1. job[j] # Idle
    BY NotIdle DEF PendingTried
  <2>2. QED
    BY <2>1, Waiting DEF IInv, PeersSound
<1>2. Put(d, Activate(peer[d])) \/ UNCHANGED peer
  BY DEF PendingTried
<1>3. Kept(peer[d], peer[d])
  BY DEF Kept
<1>4. QED
  <2> HIDE DEF d
  <2> QED
    BY <1>1, <1>2, <1>3, PutActivate, Unmoved

LEMMA ReadsDynamic ==
  ASSUME IInv, NEW j \in Jobs, DynamicPacket(j)
  PROVE  PeerStep
<1> DEFINE d == job[j].dev
           s == [peer[d] EXCEPT !.verified = TRUE]
<1>1. d \in Devices /\ Sound(peer[d])
  <2>1. job[j] # Idle
    BY NotIdle DEF DynamicPacket
  <2>2. QED
    BY <2>1, Waiting DEF IInv, PeersSound
<1>2. s \in Peer
  BY <1>1 DEF Sound, Peer
<1>3. /\ s.remote = peer[d].remote /\ s.pending = peer[d].pending
      /\ s.active = peer[d].active /\ s.pendingAge = peer[d].pendingAge
      /\ s.installAge = peer[d].installAge
  BY <1>1 DEF Sound, Peer
<1>4. Sound(s) /\ Kept(peer[d], s)
  <2> HIDE DEF s, d
  <2> QED
    BY <1>1, <1>2, <1>3, LocalSound
<1>5. Put(d, Activate(s)) \/ Put(d, s)
  BY DEF DynamicPacket
<1>6. QED
  <2> HIDE DEF s, d
  <2> QED
    BY <1>1, <1>4, <1>5, PutActivate, PutKept

LEMMA ReadsStatic ==
  ASSUME IInv, NEW j \in Jobs, StaticPacket(j)
  PROVE  PeerStep
<1> DEFINE d == job[j].dev
           lost == job[j].seen # None /\ peer[d].active = None
           s == Expire(IF lost THEN Static ELSE peer[d])
           keep == \/ FreshPending(s)
                   \/ s.active # None /\ s.installAge < StaticGrace
<1>1. d \in Devices /\ Sound(peer[d])
  <2>1. job[j] # Idle
    BY NotIdle DEF StaticPacket
  <2>2. QED
    BY <2>1, Waiting DEF IInv, PeersSound
<1>2. \/ Put(d, IF lost THEN Static ELSE peer[d])
      \/ Put(d, IF keep \/ s.active = None THEN s ELSE Static)
  BY DEF StaticPacket
<1>3. CASE lost
  <2>1. ~InGrace(peer[d])
    BY <1>3 DEF InGrace
  <2>2. s = Static
    BY <1>3 DEF Expire, Static
  <2>3. Put(d, Static)
    BY <1>2, <1>3, <2>2
  <2>4. QED
    BY <1>1, <2>1, <2>3, PutStatic
<1>4. CASE ~lost
  <2>1. s = Expire(peer[d])
    BY <1>4
  <2>2. CASE Put(d, peer[d])
    BY <1>1, <2>2, PutKept DEF Kept
  <2>3. CASE Put(d, s)
    BY <1>1, <2>1, <2>3, PutExpire
  <2>4. CASE ~keep /\ s.active # None /\ Put(d, Static)
    <3>1. Sound(s)
      BY <1>1, <2>1, ExpireSound
    <3>2. ~(s.installAge < StaticGrace) /\ s.installAge \in Int
      BY <2>4, <3>1, OldIsNat DEF Sound, Peer
    <3>3. Expire(peer[d]).installAge >= StaticGrace
      BY <2>1, <3>2, Graces
    <3>4. ~InGrace(peer[d])
      BY <1>1, <3>3, Graces, OldIsNotInGrace
    <3>5. QED
      BY <1>1, <2>4, <3>4, PutStatic
  <2>5. QED
    BY <1>2, <1>4, <2>2, <2>3, <2>4
<1>5. QED
  BY <1>3, <1>4

LEMMA CannotRead ==
  ASSUME IInv, NEW j \in Jobs, UnreadablePacket(j)
  PROVE  PeerStep
<1> DEFINE d == job[j].dev
<1>1. d \in Devices
  <2>1. job[j] # Idle
    BY NotIdle DEF UnreadablePacket
  <2>2. QED
    BY <2>1, Waiting DEF IInv
<1>2. \/ UNCHANGED peer
      \/ Put(d, Expire(peer[d]))
      \/ Expire(peer[d]).installAge >= DecryptGrace /\ Put(d, Static)
  BY DEF UnreadablePacket
<1>3. QED
  <2> HIDE DEF d
  <2> QED
    BY <1>1, <1>2, Graces, OldIsNotInGrace, Unmoved, PutExpire, PutStatic

LEMMA Boots ==
  ASSUME IInv, NEW d \in Devices, DeviceBoot(d)
  PROVE  PeerStep
<1>1. \/ Put(d, Expire(peer[d]))
      \/ Expire(peer[d]).installAge >= BootGrace /\ Put(d, Static)
  BY DEF DeviceBoot
<1>2. QED
  BY <1>1, Graces, OldIsNotInGrace, PutExpire, PutStatic

LEMMA Forgets ==
  ASSUME IInv, NEW d \in Devices, ForgetDevice(d)
  PROVE  PeerStep
<1>1. Put(d, Static)
  BY DEF ForgetDevice
<1>2. QED
  BY <1>1, PutStatic

LEMMA Leaves ==
  ASSUME IInv, LeaveBle
  PROVE  PeerStep
<1>1. \A d \in Devices : Sound(peer[d])
  BY DEF IInv, PeersSound
<1>2. ASSUME NEW d \in Devices
      PROVE  Sound(peer'[d]) /\ Kept(peer[d], peer'[d]) /\ peer'[d] \in Peer
  <2> DEFINE t == [peer[d] EXCEPT !.verified = FALSE]
  <2>1. peer'[d] = t
    BY DEF LeaveBle
  <2>2. t \in Peer
    BY <1>1 DEF Sound, Peer
  <2>3. /\ t.remote = peer[d].remote /\ t.pending = peer[d].pending
        /\ t.active = peer[d].active /\ t.pendingAge = peer[d].pendingAge
        /\ t.installAge = peer[d].installAge
    BY <1>1 DEF Sound, Peer
  <2>4. QED
    <3> HIDE DEF t
    <3> QED
      BY <1>1, <2>1, <2>2, <2>3, LocalSound
<1>3. peer' \in [Devices -> Peer]
  BY <1>2 DEF LeaveBle
<1>4. QED
  BY <1>2, <1>3 DEF PeerStep, AllKept

LEMMA OlderIsAge ==
  ASSUME NEW a \in 0..Old
  PROVE  Older(a) \in 0..Old /\ \A b \in 0..Old : a <= b => Older(a) <= Older(b)
  BY OldIsNat DEF Older

LEMMA Ages ==
  ASSUME IInv, Tick
  PROVE  PeerStep
<1>1. \A d \in Devices : Sound(peer[d])
  BY DEF IInv, PeersSound
<1>2. ASSUME NEW d \in Devices
      PROVE  Sound(peer'[d]) /\ Kept(peer[d], peer'[d]) /\ peer'[d] \in Peer
  <2> DEFINE p == Older(peer[d].pendingAge)
             i == Older(peer[d].installAge)
             t == [peer[d] EXCEPT !.pendingAge = p, !.installAge = i]
  <2>1. peer'[d] = t
    BY DEF Tick
  <2>2. peer[d].pendingAge \in 0..Old /\ peer[d].installAge \in 0..Old
    BY <1>1 DEF Sound, Peer
  <2>3. p \in 0..Old /\ i \in 0..Old
        /\ (peer[d].pendingAge <= peer[d].installAge => p <= i)
    BY <2>2, OlderIsAge
  <2>4. t \in Peer /\ t.pendingAge = p /\ t.installAge = i
        /\ t.remote = peer[d].remote /\ t.pending = peer[d].pending
        /\ t.active = peer[d].active
    <3> HIDE DEF p, i
    <3> QED
      BY <1>1, <2>3 DEF Sound, Peer
  <2>5. Sound(t) /\ Kept(peer[d], t)
    <3> HIDE DEF t, p, i
    <3> QED
      BY <1>1, <2>3, <2>4 DEF Sound, Younger, Agrees, Kept
  <2>6. QED
    BY <2>1, <2>4, <2>5
<1>3. peer' \in [Devices -> Peer]
  BY <1>2 DEF Tick
<1>4. QED
  BY <1>2, <1>3 DEF PeerStep, AllKept

LEMMA PeerSteps ==
  ASSUME IInv, Next
  PROVE  PeerStep
<1>1. ASSUME NEW j \in Jobs, Await(j) PROVE PeerStep
  <2>1. CASE SendFails(j)
    BY <2>1, Unmoved DEF SendFails
  <2>2. QED
    BY <1>1, <2>1, IdentityIsReady, Holds, Derives, Refreshes, TriesPending,
       ReadsDynamic, ReadsStatic, CannotRead DEF Await
<1>2. ASSUME NEW j \in Jobs, Transmit(j) \/ TimerFires(j) \/ Connected(j)
      PROVE  PeerStep
  BY <1>2, Unmoved DEF Transmit, TimerFires, Connected
<1>3. ASSUME NEW d \in Devices,
             IgnorePublicKey(d) \/ ForgetSent(d) \/ NewKeyPair(d) \/ DeviceDerives(d)
      PROVE  PeerStep
  BY <1>3, Unmoved DEF IgnorePublicKey, ForgetSent, NewKeyPair, DeviceDerives
<1>4. CASE ToggleIrLock
  BY <1>4, Unmoved DEF ToggleIrLock
<1>5. ASSUME NEW j \in Jobs, NEW d \in Devices,
             \/ CommandNeedsSession(j, d)
             \/ \E k \in Keys : AcceptPublicKey(j, d, k)
             \/ \E k \in Keys \cup {None}, ack \in BOOLEAN :
                  ReceivePacket(j, d, k, ack)
      PROVE  PeerStep
  BY <1>5, NeedsSession, Accepts, Receives
<1>6. QED
  BY <1>1, <1>2, <1>3, <1>4, <1>5, Boots, Forgets, Leaves, Ages DEF Next

-----------------------------------------------------------------------------
(* The handlers that wait *)

\* A handler may take a place when it is one, and has answered if it derives.
Handler(h) == /\ h \in Job
              /\ h # Idle /\ h.stage = "derive" => h.dev \in ownOut'

JobsOK == job' \in [Jobs -> Job] /\ DeriversAnswered'

LEMMA OneJob ==
  ASSUME IInv, NEW j \in Jobs, NEW h, Become(j, h), Handler(h),
         ownOut \subseteq ownOut'
  PROVE  JobsOK
<1>1. job \in [Jobs -> Job]
  BY DEF IInv, TypeOK
<1>2. job' \in [Jobs -> Job]
  BY <1>1 DEF Become, Handler
<1>3. ASSUME NEW i \in Jobs, job'[i] # Idle, job'[i].stage = "derive"
      PROVE  job'[i].dev \in ownOut'
  <2>1. CASE i = j
    BY <1>1, <1>3, <2>1 DEF Become, Handler
  <2>2. CASE i # j
    <3>1. job'[i] = job[i]
      BY <1>1, <2>2 DEF Become
    <3>2. job[i].dev \in ownOut
      BY <1>3, <3>1 DEF IInv, DeriversAnswered
    <3>3. QED
      BY <3>1, <3>2
  <2>3. QED
    BY <2>1, <2>2
<1>4. DeriversAnswered'
  BY <1>3 DEF DeriversAnswered
<1>5. QED
  BY <1>2, <1>4 DEF JobsOK

LEMMA JobsStay ==
  ASSUME IInv, UNCHANGED job, ownOut \subseteq ownOut'
  PROVE  JobsOK
  BY DEF IInv, TypeOK, DeriversAnswered, JobsOK

LEMMA JobDone ==
  ASSUME IInv, NEW j \in Jobs, Done(j), ownOut \subseteq ownOut'
  PROVE  JobsOK
<1>1. Handler(Idle)
  BY DEF Handler, Job
<1>2. Become(j, Idle)
  BY DEF Done
<1>3. QED
  BY <1>1, <1>2, OneJob

LEMMA JobGoes ==
  ASSUME IInv, NEW j \in Jobs, job[j] # Idle, NEW stage, Goto(j, stage),
         ownOut \subseteq ownOut',
         \/ job[j].op = "pub" /\ stage \in {"identity", "send"}
         \/ job[j].op \in {"pub", "flush"} /\ stage = "derive"
            /\ job[j].dev \in ownOut'
         \/ job[j].op = "start" /\ stage \in {"identity", "send"}
  PROVE  JobsOK
<1> DEFINE h == [job[j] EXCEPT !.stage = stage]
<1>1. TypeOK /\ job \in [Jobs -> Job]
  BY DEF IInv, TypeOK
<1>2. h \in Job
  BY <1>1, GoOn
<1>3. h.stage = stage /\ h.dev = job[j].dev
  BY <1>1, Waiting DEF Job
<1>4. Become(j, h)
  BY <1>1 DEF Goto, Become
<1>5. Handler(h)
  <2> HIDE DEF h
  <2> QED
    BY <1>2, <1>3 DEF Handler
<1>6. QED
  <2> HIDE DEF h
  <2> QED
    BY <1>4, <1>5, OneJob

LEMMA Handlers ==
  ASSUME NEW d \in Devices
  PROVE  /\ Handler(StartOf(d))
         /\ \A k \in Keys : Handler([op |-> "flush", dev |-> d, key |-> k, stage |-> "send"])
         /\ \A k \in Keys, stage \in {"identity", "send"} :
              Handler([op |-> "pub", dev |-> d, key |-> k, stage |-> stage])
         /\ \A k, seen \in Keys \cup {None}, ack \in BOOLEAN, stage \in {"pending", "active"} :
              Handler([op |-> "packet", dev |-> d, key |-> k, ack |-> ack,
                       seen |-> seen, stage |-> stage])
<1>1. Handler(StartOf(d))
  BY DEF Handler, StartOf, Job
<1>2. ASSUME NEW k \in Keys
      PROVE  Handler([op |-> "flush", dev |-> d, key |-> k, stage |-> "send"])
  BY DEF Handler, Job
<1>3. ASSUME NEW k \in Keys, NEW stage \in {"identity", "send"}
      PROVE  Handler([op |-> "pub", dev |-> d, key |-> k, stage |-> stage])
  BY DEF Handler, Job
<1>4. ASSUME NEW k \in Keys \cup {None}, NEW seen \in Keys \cup {None},
             NEW ack \in BOOLEAN, NEW stage \in {"pending", "active"}
      PROVE  Handler([op |-> "packet", dev |-> d, key |-> k, ack |-> ack,
                      seen |-> seen, stage |-> stage])
  BY DEF Handler, Job
<1>5. QED
  BY <1>1, <1>2, <1>3, <1>4

LEMMA SentIsKept ==
  ASSUME IInv, Next
  PROVE  ownOut \subseteq ownOut'
<1>1. ASSUME NEW j \in Jobs, Await(j) PROVE ownOut \subseteq ownOut'
  BY <1>1 DEF Await, IdentityReady, IdentityFails, SendOk, SendFails, DeriveOk,
       DeriveFails, Refreshed, PendingTried, DynamicPacket, StaticPacket,
       UnreadablePacket
<1>2. ASSUME NEW j \in Jobs, Transmit(j) \/ TimerFires(j) \/ Connected(j)
      PROVE  ownOut \subseteq ownOut'
  BY <1>2 DEF Transmit, TimerFires, Connected
<1>3. ASSUME NEW j \in Jobs, NEW d \in Devices,
             \/ CommandNeedsSession(j, d)
             \/ \E k \in Keys : AcceptPublicKey(j, d, k)
             \/ \E k \in Keys \cup {None}, ack \in BOOLEAN :
                  ReceivePacket(j, d, k, ack)
      PROVE  ownOut \subseteq ownOut'
  BY <1>3 DEF CommandNeedsSession, AcceptPublicKey, ReceivePacket
<1>4. ASSUME NEW d \in Devices,
             \/ IgnorePublicKey(d) \/ DeviceBoot(d) \/ ForgetDevice(d)
             \/ ForgetSent(d) \/ NewKeyPair(d) \/ DeviceDerives(d)
      PROVE  ownOut \subseteq ownOut'
  BY <1>4 DEF IgnorePublicKey, DeviceBoot, ForgetDevice, ForgetSent, NewKeyPair,
       DeviceDerives
<1>5. CASE LeaveBle \/ ToggleIrLock \/ Tick
  BY <1>5 DEF LeaveBle, ToggleIrLock, Tick
<1>6. QED
  BY <1>1, <1>2, <1>3, <1>4, <1>5 DEF Next

\* Every step leaves the handlers in order.
LEMMA AcceptsJobs ==
  ASSUME IInv, NEW j \in Jobs, NEW d \in Devices, NEW k \in Keys,
         AcceptPublicKey(j, d, k)
  PROVE  JobsOK
<1> DEFINE own == peer[d].local = "ready" /\ k = Own
           stage == IF own THEN "derive" ELSE LocalKeyStage(d)
           h == [op |-> "pub", dev |-> d, key |-> k, stage |-> stage]
<1>1. Become(j, h) /\ ownOut' = ownOut /\ k \in Published(d)
  BY DEF AcceptPublicKey, Launch, Become
<1>2. own => d \in ownOut
  <2>1. deviceKey[d] \in Nat
    BY DEF IInv, TypeOK
  <2>2. Own \notin 1..deviceKey[d]
    BY <2>1 DEF Own
  <2>3. QED
    BY <1>1, <2>2 DEF Published
<1>3. h \in Job
  BY DEF Job, LocalKeyStage
<1>4. h.stage = stage /\ h.dev = d /\ (~own => stage \in {"send", "identity"})
  BY DEF LocalKeyStage
<1>5. Handler(h)
  <2> HIDE DEF h, stage, own
  <2> QED
    BY <1>1, <1>2, <1>3, <1>4 DEF Handler
<1>6. QED
  <2> HIDE DEF h
  <2> QED
    BY <1>1, <1>5, OneJob

LEMMA AwaitJobs ==
  ASSUME IInv, NEW j \in Jobs, Await(j), ownOut \subseteq ownOut'
  PROVE  JobsOK
<1>1. TypeOK
  BY DEF IInv
<1>2. CASE IdentityReady(j)
  BY <1>1, <1>2, JobGoes, Waiting DEF IdentityReady
<1>3. CASE IdentityFails(j) \/ SendFails(j) \/ DeriveOk(j) \/ DeriveFails(j)
  BY <1>3, JobDone DEF IdentityFails, SendFails, DeriveOk, DeriveFails
<1>4. CASE SendOk(j)
  <2>1. job[j] # Idle /\ job[j].stage = "send" /\ job[j].dev \in ownOut'
    BY <1>4 DEF SendOk
  <2>2. Done(j) \/ (Goto(j, "derive") /\ job[j].op # "start")
    BY <1>4 DEF SendOk
  <2>3. CASE Done(j)
    BY <2>3, JobDone
  <2>4. CASE Goto(j, "derive") /\ job[j].op # "start"
    BY <1>1, <2>1, <2>4, Waiting, JobGoes
  <2>5. QED
    BY <2>2, <2>3, <2>4
<1>5. CASE Refreshed(j)
  <2>1. job[j] # Idle /\ job[j].op = "start"
    BY <1>5, NotIdle DEF Refreshed
  <2>2. Done(j) \/ Goto(j, "identity") \/ Goto(j, "send")
    BY <1>5 DEF Refreshed, LocalKeyStage
  <2>3. QED
    BY <2>1, <2>2, JobDone, JobGoes
<1>6. CASE PendingTried(j)
  <2>1. job[j] # Idle /\ job[j].op = "packet"
    BY <1>6, NotIdle DEF PendingTried
  <2> DEFINE d == job[j].dev
             a == peer[d].active
             h == [job[j] EXCEPT !.stage = "active", !.seen = a]
  <2>2. CASE Done(j)
    BY <2>2, JobDone
  <2>3. CASE job' = [job EXCEPT ![j].stage = "active", ![j].seen = a]
    <3>1. job[j] \in [op : {"packet"}, dev : Devices, key : Keys \cup {None},
                      ack : BOOLEAN, seen : Keys \cup {None},
                      stage : {"pending", "active"}]
      BY <1>1, <2>1 DEF TypeOK, Job
    <3>2. d \in Devices
      BY <3>1
    <3>3. a \in Keys \cup {None}
      BY <3>2 DEF IInv, PeersSound, Sound, Peer
    <3>4. h \in [op : {"packet"}, dev : Devices, key : Keys \cup {None},
                 ack : BOOLEAN, seen : Keys \cup {None},
                 stage : {"pending", "active"}]
      <4> HIDE DEF a
      <4> QED
        BY <3>1, <3>3
    <3>5. Handler(h)
      <4> HIDE DEF h
      <4> QED
        BY <3>4 DEF Job, Handler
    <3>6. Become(j, h)
      <4> HIDE DEF a
      <4> QED
        BY <1>1, <2>3 DEF TypeOK, Become
    <3>7. QED
      <4> HIDE DEF h
      <4> QED
        BY <3>5, <3>6, OneJob
  <2>4. QED
    BY <1>6, <2>2, <2>3 DEF PendingTried
<1>7. CASE DynamicPacket(j)
  BY <1>7, JobDone DEF DynamicPacket
<1>8. CASE StaticPacket(j) \/ UnreadablePacket(j)
  <2>1. job[j] # Idle
    BY <1>8, NotIdle DEF StaticPacket, UnreadablePacket
  <2>2. job[j].dev \in Devices
    BY <1>1, <2>1, Waiting
  <2>3. Done(j) \/ Become(j, StartOf(job[j].dev))
    BY <1>8 DEF StaticPacket, UnreadablePacket
  <2>4. QED
    BY <2>2, <2>3, JobDone, Handlers, OneJob
<1>9. QED
  BY <1>2, <1>3, <1>4, <1>5, <1>6, <1>7, <1>8 DEF Await

LEMMA FlushJobs ==
  ASSUME IInv, NEW j \in Jobs, Flush(j), slot # None, ownOut \subseteq ownOut'
  PROVE  JobsOK
<1>1. slot.dev \in Devices /\ slot.key \in Keys
  BY DEF IInv, TypeOK
<1>2. Become(j, [op |-> "flush", dev |-> slot.dev, key |-> slot.key, stage |-> "send"])
  BY DEF Flush, Launch, Become
<1>3. QED
  BY <1>1, <1>2, Handlers, OneJob

LEMMA JobSteps ==
  ASSUME IInv, Next
  PROVE  JobsOK
<1>0. ownOut \subseteq ownOut'
  BY SentIsKept
<1>1. ASSUME NEW j \in Jobs, Await(j) PROVE JobsOK
  BY <1>0, <1>1, AwaitJobs
<1>2. ASSUME NEW j \in Jobs, Transmit(j) \/ TimerFires(j) \/ Connected(j)
      PROVE  JobsOK
  <2>1. UNCHANGED job \/ (Flush(j) /\ slot # None)
    BY <1>2 DEF Transmit, TimerFires, Connected
  <2>2. QED
    BY <1>0, <2>1, JobsStay, FlushJobs
<1>3. ASSUME NEW j \in Jobs, NEW d \in Devices, CommandNeedsSession(j, d)
      PROVE  JobsOK
  <2>1. UNCHANGED job \/ Become(j, StartOf(d))
    BY <1>3 DEF CommandNeedsSession, Launch, Become
  <2>2. QED
    BY <1>0, <2>1, JobsStay, Handlers, OneJob
<1>4. ASSUME NEW j \in Jobs, NEW d \in Devices, NEW k \in Keys \cup {None},
             NEW ack \in BOOLEAN, ReceivePacket(j, d, k, ack)
      PROVE  JobsOK
  <2> DEFINE p == Expire(peer[d]).pending
  <2>1. Sound(Expire(peer[d]))
    BY ExpireSound DEF IInv, PeersSound
  <2>2. p \in Keys \cup {None}
    BY <2>1 DEF Sound, Peer
  <2>3. Become(j, [op |-> "packet", dev |-> d, key |-> k, ack |-> ack,
                   seen |-> p, stage |-> "pending"])
    BY <1>4 DEF ReceivePacket, Launch, Become
  <2>4. QED
    <3> HIDE DEF p
    <3> QED
      BY <1>0, <2>2, <2>3, Handlers, OneJob
<1>5. ASSUME NEW d \in Devices,
             \/ IgnorePublicKey(d) \/ DeviceBoot(d) \/ ForgetDevice(d)
             \/ ForgetSent(d) \/ NewKeyPair(d) \/ DeviceDerives(d)
      PROVE  JobsOK
  BY <1>0, <1>5, JobsStay DEF IgnorePublicKey, DeviceBoot, ForgetDevice,
     ForgetSent, NewKeyPair, DeviceDerives
<1>6. CASE LeaveBle \/ ToggleIrLock \/ Tick
  BY <1>0, <1>6, JobsStay DEF LeaveBle, ToggleIrLock, Tick
<1>7. QED
  BY <1>1, <1>2, <1>3, <1>4, <1>5, <1>6, AcceptsJobs DEF Next

-----------------------------------------------------------------------------
(* The other variables *)

Others ==
  /\ inProgress \subseteq Devices /\ recentSent \subseteq Devices
  /\ identity \subseteq Devices /\ ownOut \subseteq Devices
  /\ slot \in [dev : Devices, key : Keys] \cup {None}
  /\ timer \in BOOLEAN /\ irLock \in BOOLEAN
  /\ attempts \in 0..MaxReplyAttempts /\ started \in 0..MaxStarted
  /\ deviceKey \in [Devices -> 1..MaxKey]
  /\ wire \in [Devices -> SUBSET Keys]

LEMMA TypeParts ==
  TypeOK <=> peer \in [Devices -> Peer] /\ job \in [Jobs -> Job] /\ Others
  BY DEF TypeOK, Others

LEMMA Nats ==
  /\ MaxReplyAttempts \in Nat /\ MaxReplyAttempts >= 1
  /\ MaxStarted \in Nat /\ MaxKey \in Nat
  BY KeyExchangeAssumption DEF KeyExchangeAssumption

LEMMA Schedules ==
  ASSUME Others, NEW d \in Devices, NEW k \in Keys, Schedule(d, k)
  PROVE  /\ slot' \in [dev : Devices, key : Keys] \cup {None}
         /\ timer' \in BOOLEAN
         /\ attempts' \in 0..MaxReplyAttempts
<1>1. slot' \in [dev : Devices, key : Keys] /\ timer' = TRUE
  BY DEF Schedule
<1>2. attempts' \in 0..MaxReplyAttempts
  BY Nats DEF Others, Schedule
<1>3. QED
  BY <1>1, <1>2

LEMMA Starts ==
  ASSUME Others, NEW j, NEW h, Launch(j, h)
  PROVE  started' \in 0..MaxStarted
  BY Nats DEF Others, Launch

LEMMA Releases ==
  ASSUME Others, NEW j
  PROVE  /\ ReleaseTopic(j) => inProgress' \subseteq Devices
         /\ ReleaseSlot(j) => /\ slot' \in [dev : Devices, key : Keys] \cup {None}
                              /\ attempts' \in 0..MaxReplyAttempts
  BY Nats DEF Others, ReleaseTopic, ReleaseSlot

LEMMA AwaitOthers ==
  ASSUME IInv, NEW j \in Jobs, Await(j)
  PROVE  Others'
<1>1. TypeOK /\ Others
  BY TypeParts DEF IInv
<1>2. CASE IdentityReady(j)
  BY <1>1, <1>2, Waiting DEF Others, IdentityReady
<1>3. CASE IdentityFails(j)
  BY <1>1, <1>3, Releases DEF Others, IdentityFails
<1>4. CASE SendOk(j)
  <2>1. job[j].dev \in Devices
    BY <1>1, <1>4, Waiting DEF SendOk
  <2>2. /\ inProgress' \subseteq Devices
        /\ slot' \in [dev : Devices, key : Keys] \cup {None}
        /\ attempts' \in 0..MaxReplyAttempts
    <3>1. \/ ReleaseTopic(j) /\ ReleaseSlot(j)
          \/ UNCHANGED <<inProgress, slot, attempts>>
      BY <1>4 DEF SendOk
    <3>2. QED
      BY <1>1, <3>1, Releases DEF Others
  <2>3. QED
    BY <1>1, <1>4, <2>1, <2>2 DEF Others, SendOk
<1>5. CASE SendFails(j)
  <2>1. job[j] # Idle /\ job[j].stage = "send"
    BY <1>5 DEF SendFails
  <2>2. \/ UNCHANGED <<slot, timer, attempts>>
        \/ /\ job[j].op \in {"pub", "flush"}
           /\ Schedule(job[j].dev, job[j].key)
    BY <1>5 DEF SendFails
  <2>3. /\ slot' \in [dev : Devices, key : Keys] \cup {None}
        /\ timer' \in BOOLEAN /\ attempts' \in 0..MaxReplyAttempts
    <3>1. CASE UNCHANGED <<slot, timer, attempts>>
      BY <1>1, <3>1 DEF Others
    <3>2. CASE job[j].op \in {"pub", "flush"} /\ Schedule(job[j].dev, job[j].key)
      BY <1>1, <2>1, <3>2, Waiting, Schedules
    <3>3. QED
      BY <2>2, <3>1, <3>2
  <2>4. QED
    BY <1>1, <1>5, <2>3, Releases DEF Others, SendFails
<1>6. CASE DeriveOk(j)
  BY <1>1, <1>6, Releases DEF Others, DeriveOk
<1>7. CASE DeriveFails(j)
  BY <1>1, <1>7, Releases DEF Others, DeriveFails
<1>8. CASE Refreshed(j) \/ PendingTried(j) \/ DynamicPacket(j)
           \/ StaticPacket(j) \/ UnreadablePacket(j)
  BY <1>1, <1>8 DEF Others, Refreshed, PendingTried, DynamicPacket,
     StaticPacket, UnreadablePacket
<1>9. QED
  BY <1>2, <1>3, <1>4, <1>5, <1>6, <1>7, <1>8 DEF Await

LEMMA OtherSteps ==
  ASSUME IInv, Next
  PROVE  Others'
<1>0. TypeOK /\ Others
  BY TypeParts DEF IInv
<1>1. ASSUME NEW j \in Jobs, Await(j) PROVE Others'
  BY <1>1, AwaitOthers
<1>2. ASSUME NEW j \in Jobs, Transmit(j) PROVE Others'
  BY <1>0, <1>2, Waiting DEF Others, Transmit
<1>3. ASSUME NEW j \in Jobs, TimerFires(j) \/ Connected(j) PROVE Others'
  <2>1. started' \in 0..MaxStarted
    BY <1>0, <1>3, Starts DEF Others, TimerFires, Connected, Flush
  <2>2. QED
    BY <1>0, <1>3, <2>1 DEF Others, TimerFires, Connected
<1>4. ASSUME NEW j \in Jobs, NEW d \in Devices, CommandNeedsSession(j, d)
      PROVE  Others'
  <2>1. started' \in 0..MaxStarted
    BY <1>0, <1>4, Starts DEF Others, CommandNeedsSession
  <2>2. QED
    BY <1>0, <1>4, <2>1 DEF Others, CommandNeedsSession
<1>5. ASSUME NEW j \in Jobs, NEW d \in Devices, NEW k \in Keys,
             AcceptPublicKey(j, d, k)
      PROVE  Others'
  <2>1. started' \in 0..MaxStarted
    BY <1>0, <1>5, Starts DEF AcceptPublicKey
  <2>2. QED
    BY <1>0, <1>5, <2>1 DEF Others, AcceptPublicKey
<1>6. ASSUME NEW j \in Jobs, NEW d \in Devices, NEW k, NEW ack,
             ReceivePacket(j, d, k, ack)
      PROVE  Others'
  <2>1. started' \in 0..MaxStarted
    BY <1>0, <1>6, Starts DEF ReceivePacket
  <2>2. QED
    BY <1>0, <1>6, <2>1 DEF Others, ReceivePacket
<1>7. ASSUME NEW d \in Devices,
             IgnorePublicKey(d) \/ DeviceBoot(d) \/ ForgetSent(d)
      PROVE  Others'
  BY <1>0, <1>7 DEF Others, IgnorePublicKey, DeviceBoot, ForgetSent
<1>8. ASSUME NEW d \in Devices, ForgetDevice(d) PROVE Others'
  <2>1. \/ slot' = None /\ timer' = FALSE /\ attempts' = 0
        \/ UNCHANGED <<slot, timer, attempts>>
    BY <1>8 DEF ForgetDevice
  <2>2. slot' \in [dev : Devices, key : Keys] \cup {None} /\ timer' \in BOOLEAN
    BY <1>0, <2>1, Zenon DEF Others
  <2>3. attempts' \in 0..MaxReplyAttempts
    BY <1>0, <2>1, Nats DEF Others
  <2>4. QED
    BY <1>0, <1>8, <2>2, <2>3 DEF Others, ForgetDevice
<1>9. ASSUME NEW d \in Devices, NewKeyPair(d) PROVE Others'
  <2>1. deviceKey' \in [Devices -> 1..MaxKey]
    BY <1>0, <1>9, Nats DEF Others, NewKeyPair
  <2>2. QED
    BY <1>0, <1>9, <2>1 DEF Others, NewKeyPair
<1>10. ASSUME NEW d \in Devices, DeviceDerives(d) PROVE Others'
  <2>1. deviceKey[d] \in Keys
    BY <1>0, Nats DEF Others, Keys
  <2>2. wire' \in [Devices -> SUBSET Keys]
    BY <1>0, <1>10, <2>1 DEF Others, DeviceDerives
  <2>3. QED
    BY <1>0, <1>10, <2>2 DEF Others, DeviceDerives
<1>11. CASE LeaveBle \/ ToggleIrLock \/ Tick
  <2>1. CASE LeaveBle
    BY <1>0, <2>1 DEF Others, LeaveBle
  <2>2. CASE ToggleIrLock
    BY <1>0, <2>2 DEF Others, ToggleIrLock
  <2>3. CASE Tick
    BY <1>0, <2>3 DEF Others, Tick
  <2>4. QED
    BY <1>11, <2>1, <2>2, <2>3
<1>12. QED
  BY <1>1, <1>2, <1>3, <1>4, <1>5, <1>6, <1>7, <1>8, <1>9, <1>10, <1>11 DEF Next

-----------------------------------------------------------------------------
(* The invariant is inductive *)

LEMMA InitIInv ==
  ASSUME Init
  PROVE  IInv
<1>1. ASSUME NEW d \in Devices PROVE Sound(peer[d]) /\ peer[d].pending = None
  <2> DEFINE s == [Static EXCEPT !.active = Restored]
  <2>1. Sound(Static) /\ Static.pending = None
    BY StaticSound DEF Dropped
  <2>2. Restored \in Keys
    BY Nats DEF Restored, Keys
  <2>3. s \in Peer
    BY <2>1, <2>2 DEF Sound, Peer
  <2>4. s.pending = None /\ s.remote = None
    BY DEF Static
  <2>5. Sound(s)
    <3> HIDE DEF s
    <3> QED
      BY <2>3, <2>4 DEF Sound, Younger, Agrees
  <2>6. QED
    BY <2>1, <2>4, <2>5 DEF Init
<1>2. PeersSound
  <2>1. peer \in [Devices -> Peer]
    BY <1>1 DEF Init, Sound
  <2>2. QED
    BY <1>1, <2>1 DEF PeersSound
<1>3. Others
  <2>1. deviceKey \in [Devices -> 1..MaxKey]
    BY KeyExchangeAssumption DEF Init, KeyExchangeAssumption
  <2>2. Restored \in Keys
    BY Nats DEF Restored, Keys
  <2>3. wire \in [Devices -> SUBSET Keys]
    BY <2>2 DEF Init
  <2>4. attempts \in 0..MaxReplyAttempts /\ started \in 0..MaxStarted
    BY Nats DEF Init
  <2>5. QED
    BY <2>1, <2>3, <2>4 DEF Init, Others
<1>4. job \in [Jobs -> Job] /\ DeriversAnswered
  BY DEF Init, DeriversAnswered, Job
<1>5. TypeOK
  BY <1>2, <1>3, <1>4, TypeParts DEF PeersSound
<1>6. QED
  BY <1>1, <1>2, <1>4, <1>5 DEF IInv, AnsweredBeforePending

LEMMA NextIInv ==
  ASSUME IInv, Next
  PROVE  IInv'
<1>1. PeerStep /\ JobsOK /\ Others' /\ ownOut \subseteq ownOut'
  BY PeerSteps, JobSteps, OtherSteps, SentIsKept
<1>2. CASE AllKept
  <2>1. PeersSound'
    BY <1>2 DEF AllKept, PeersSound
  <2>2. AnsweredBeforePending'
    BY <1>1, <1>2 DEF IInv, AnsweredBeforePending, AllKept, Kept
  <2>3. TypeOK'
    BY <1>1, <2>1 DEF JobsOK, PeersSound, TypeOK, Others
  <2>4. QED
    BY <1>1, <2>1, <2>2, <2>3 DEF IInv, JobsOK
<1>3. ASSUME NEW d \in Devices, NEW t, Moves(d, t)
      PROVE  IInv'
  <2>1. /\ peer \in [Devices -> Peer] /\ \A e \in Devices : Sound(peer[e])
        /\ peer' = [peer EXCEPT ![d] = t] /\ Sound(t)
    BY <1>3 DEF IInv, PeersSound, Moves, Put
  <2>2. PeersSound'
    BY <2>1 DEF PeersSound, Sound
  <2>3. ASSUME NEW e \in Devices, peer'[e].pending # None
        PROVE  e \in ownOut'
    <3>1. CASE e # d
      <4>1. peer'[e] = peer[e]
        BY <2>1, <3>1
      <4>2. QED
        BY <1>1, <2>3, <4>1 DEF IInv, AnsweredBeforePending
    <3>2. CASE e = d
      <4>1. t.pending # None
        BY <2>1, <2>3, <3>2
      <4>2. d \in ownOut
        BY <1>3, <4>1 DEF Moves, Kept, Dropped, Confirmed, Offered, IInv,
           AnsweredBeforePending
      <4>3. QED
        BY <1>1, <3>2, <4>2
    <3>3. QED
      BY <3>1, <3>2
  <2>4. TypeOK'
    BY <1>1, <2>2 DEF JobsOK, PeersSound, TypeOK, Others
  <2>5. QED
    BY <1>1, <2>2, <2>3, <2>4 DEF IInv, JobsOK, AnsweredBeforePending
<1>4. QED
  BY <1>1, <1>2, <1>3 DEF PeerStep

LEMMA StutterIInv ==
  ASSUME IInv, UNCHANGED vars
  PROVE  IInv'
  BY DEF IInv, vars, TypeOK, PeersSound, AnsweredBeforePending, DeriversAnswered

LEMMA Invariance == Spec => []IInv
<1>1. Init => IInv
  BY InitIInv
<1>2. IInv /\ [Next]_vars => IInv'
  BY NextIInv, StutterIInv
<1>3. QED
  BY <1>1, <1>2, PTL DEF Spec

(***************************************************************************)
(* Topics in progress.  A step moves one handler at most, and a topic that *)
(* this handler serves is released by the step or is still served by it.   *)
(***************************************************************************)

Serves(h, d) == h.op = "pub" /\ h.dev = d

LEMMA TopicsServed ==
  ASSUME TopicIsReleased, NEW j \in Jobs,
         \A i \in Jobs : i # j => job'[i] = job[i],
         \A d \in inProgress' :
           \/ d \in inProgress /\ ~Serves(job[j], d)
           \/ Serves(job'[j], d)
  PROVE  TopicIsReleased'
  BY DEF TopicIsReleased, Serves

LEMMA OneMoves ==
  ASSUME IInv, NEW j \in Jobs, NEW h, Become(j, h)
  PROVE  job'[j] = h /\ \A i \in Jobs : i # j => job'[i] = job[i]
  BY DEF IInv, TypeOK, Become

\* The handler of a key ends, or another one, which serves no topic.
LEMMA ReleasedAtTheEnd ==
  ASSUME IInv, TopicIsReleased, NEW j \in Jobs, Done(j),
         \/ ReleaseTopic(j)
         \/ job[j].op # "pub" /\ UNCHANGED inProgress
  PROVE  TopicIsReleased'
<1>1. \A i \in Jobs : i # j => job'[i] = job[i]
  BY OneMoves DEF Done
<1>2. \A d \in inProgress' : d \in inProgress /\ ~Serves(job[j], d)
  BY DEF ReleaseTopic, Serves
<1>3. QED
  BY <1>1, <1>2, TopicsServed

\* It goes on.
LEMMA ServedOnTheWay ==
  ASSUME IInv, TopicIsReleased, NEW j \in Jobs, NEW stage, Goto(j, stage),
         UNCHANGED inProgress
  PROVE  TopicIsReleased'
<1>1. job \in [Jobs -> Job]
  BY DEF IInv, TypeOK
<1>2. \A i \in Jobs : i # j => job'[i] = job[i]
  BY <1>1 DEF Goto
<1>3. job[j].op = "pub" => job'[j].op = "pub" /\ job'[j].dev = job[j].dev
  <2>1. job[j] \in Job
    BY <1>1
  <2>2. job'[j] = [job[j] EXCEPT !.stage = stage]
    BY <1>1 DEF Goto
  <2>3. QED
    BY <2>1, <2>2 DEF Job, Idle
<1>4. \A d \in inProgress' : \/ d \in inProgress /\ ~Serves(job[j], d)
                             \/ Serves(job'[j], d)
  BY <1>3 DEF Serves
<1>5. QED
  BY <1>2, <1>4, TopicsServed

\* A handler that serves no topic makes place for another one.
LEMMA ServesNone ==
  ASSUME IInv, TopicIsReleased, NEW j \in Jobs, NEW h, Become(j, h),
         job[j].op # "pub", UNCHANGED inProgress
  PROVE  TopicIsReleased'
<1>1. \A i \in Jobs : i # j => job'[i] = job[i]
  BY OneMoves
<1>2. \A d \in inProgress' : d \in inProgress /\ ~Serves(job[j], d)
  BY DEF Serves
<1>3. QED
  BY <1>1, <1>2, TopicsServed

LEMMA TopicsLeft ==
  ASSUME TopicIsReleased, UNCHANGED job, inProgress' \subseteq inProgress
  PROVE  TopicIsReleased'
  BY DEF TopicIsReleased

LEMMA TopicSteps ==
  ASSUME IInv, TopicIsReleased, Next
  PROVE  TopicIsReleased'
<1>1. ASSUME NEW j \in Jobs, Await(j) PROVE TopicIsReleased'
  <2>1. CASE IdentityReady(j)
    BY <2>1, ServedOnTheWay DEF IdentityReady
  <2>2. CASE IdentityFails(j) \/ SendFails(j) \/ DeriveOk(j) \/ DeriveFails(j)
    BY <2>2, ReleasedAtTheEnd DEF IdentityFails, SendFails, DeriveOk, DeriveFails
  <2>3. CASE SendOk(j)
    <3>1. \/ Goto(j, "derive") /\ UNCHANGED inProgress
          \/ Done(j) /\ ReleaseTopic(j)
      BY <2>3 DEF SendOk
    <3>2. QED
      BY <3>1, ServedOnTheWay, ReleasedAtTheEnd
  <2>4. CASE Refreshed(j)
    <3>1. \/ Done(j) \/ \E stage : Goto(j, stage)
      BY <2>4 DEF Refreshed
    <3>2. UNCHANGED inProgress /\ job[j].op # "pub"
      BY <2>4 DEF Refreshed, Working
    <3>3. QED
      BY <3>1, <3>2, ServedOnTheWay, ReleasedAtTheEnd
  <2>5. CASE PendingTried(j)
    <3>1. UNCHANGED inProgress /\ job[j].op = "packet"
      BY <2>5 DEF PendingTried, Working
    <3>2. \/ Done(j)
          \/ /\ \A i \in Jobs : i # j => job'[i] = job[i]
      BY <2>5 DEF PendingTried, IInv, TypeOK
    <3>3. \A d : ~Serves(job[j], d)
      BY <3>1 DEF Serves
    <3>4. QED
      BY <3>1, <3>2, <3>3, ReleasedAtTheEnd, TopicsServed
  <2>6. CASE DynamicPacket(j) \/ StaticPacket(j) \/ UnreadablePacket(j)
    <3>1. UNCHANGED inProgress /\ job[j].op = "packet"
      BY <2>6 DEF DynamicPacket, StaticPacket, UnreadablePacket, Working
    <3>2. \E h : Become(j, h)
      BY <2>6 DEF DynamicPacket, StaticPacket, UnreadablePacket, Done
    <3>3. QED
      BY <3>1, <3>2, ServesNone
  <2>7. QED
    BY <1>1, <2>1, <2>2, <2>3, <2>4, <2>5, <2>6 DEF Await
<1>2. ASSUME NEW j \in Jobs, NEW h, Launch(j, h), UNCHANGED inProgress
      PROVE  TopicIsReleased'
  <2>1. Become(j, h)
    BY <1>2 DEF Launch, Become
  <2>2. job[j].op = "idle"
    BY <1>2 DEF Launch, Idle
  <2>3. QED
    BY <1>2, <2>1, <2>2, ServesNone
<1>3. ASSUME NEW j \in Jobs, NEW d \in Devices, NEW k \in Keys,
             AcceptPublicKey(j, d, k)
      PROVE  TopicIsReleased'
  <2>1. PICK stage : Launch(j, [op |-> "pub", dev |-> d, key |-> k, stage |-> stage])
    BY <1>3 DEF AcceptPublicKey
  <2>2. inProgress' = inProgress \cup {d} /\ job[j] = Idle
    BY <1>3, <2>1 DEF AcceptPublicKey, Launch
  <2>3. Serves(job'[j], d) /\ \A i \in Jobs : i # j => job'[i] = job[i]
    BY <2>1 DEF Launch, Serves, IInv, TypeOK
  <2>4. \A e : ~Serves(job[j], e)
    BY <2>2 DEF Serves, Idle
  <2>5. QED
    BY <2>2, <2>3, <2>4, TopicsServed
<1>4. ASSUME NEW j \in Jobs,
             \/ Transmit(j) \/ TimerFires(j) \/ Connected(j)
             \/ \E d \in Devices : CommandNeedsSession(j, d)
             \/ \E d \in Devices, k \in Keys \cup {None}, ack \in BOOLEAN :
                  ReceivePacket(j, d, k, ack)
      PROVE  TopicIsReleased'
  <2>1. UNCHANGED inProgress
    BY <1>4 DEF Transmit, TimerFires, Connected, CommandNeedsSession, ReceivePacket
  <2>2. UNCHANGED job \/ \E h : Launch(j, h)
    BY <1>4 DEF Transmit, TimerFires, Connected, Flush, CommandNeedsSession,
                ReceivePacket
  <2>3. QED
    BY <1>2, <2>1, <2>2, TopicsLeft
<1>5. ASSUME NEW d \in Devices,
             \/ IgnorePublicKey(d) \/ DeviceBoot(d) \/ ForgetDevice(d)
             \/ ForgetSent(d) \/ NewKeyPair(d) \/ DeviceDerives(d)
      PROVE  TopicIsReleased'
  <2>1. UNCHANGED job
    BY <1>5 DEF IgnorePublicKey, DeviceBoot, ForgetDevice, ForgetSent, NewKeyPair,
                DeviceDerives
  <2>2. inProgress' = inProgress \/ inProgress' = inProgress \ {d}
    BY <1>5 DEF IgnorePublicKey, DeviceBoot, ForgetDevice, ForgetSent, NewKeyPair,
                DeviceDerives
  <2>3. QED
    BY <2>1, <2>2, TopicsLeft
<1>6. CASE LeaveBle \/ ToggleIrLock \/ Tick
  BY <1>6, TopicsLeft DEF LeaveBle, ToggleIrLock, Tick
<1>7. QED
  BY <1>1, <1>3, <1>4, <1>5, <1>6 DEF Next

\* No topic stays in progress without a handler: whichever way a handler of a
\* public key ends, its topic is free for the next key.
THEOREM TopicsAreServed == Spec => []TopicIsReleased
<1>1. Init => TopicIsReleased
  BY DEF Init, TopicIsReleased
<1>2. TopicIsReleased /\ UNCHANGED vars => TopicIsReleased'
  BY DEF TopicIsReleased, vars
<1>3. QED
  BY <1>1, <1>2, TopicSteps, Invariance, PTL DEF Spec

-----------------------------------------------------------------------------
(***************************************************************************)
(* Retries of an unsent reply.  Only a timer that fires and a flush that   *)
(* ends can stop them.                                                     *)
(***************************************************************************)

RetryStep == slot # None /\ slot' # None /\ Retrying /\ ~Retrying'
               => irLock \/ attempts = MaxReplyAttempts

\* A handler that does not flush moves: whoever retries goes on.
LEMMA OthersRetry ==
  ASSUME NEW j \in Jobs, job[j].op # "flush", UNCHANGED timer,
         \A i \in Jobs : i # j => job'[i] = job[i]
  PROVE  RetryStep
  BY DEF RetryStep, Retrying

LEMMA NobodyMoves ==
  ASSUME UNCHANGED <<job, timer>>
  PROVE  RetryStep
  BY DEF RetryStep, Retrying

LEMMA AnotherBegins ==
  ASSUME IInv, NEW j \in Jobs, NEW h, Launch(j, h), UNCHANGED timer
  PROVE  RetryStep
<1>1. Become(j, h)
  BY DEF Launch, Become
<1>2. job[j].op # "flush"
  BY DEF Launch, Idle
<1>3. QED
  BY <1>1, <1>2, OneMoves, OthersRetry

LEMMA FlushBegins ==
  ASSUME IInv, NEW j \in Jobs, Flush(j)
  PROVE  RetryStep
<1>1. job'[j].op = "flush"
  BY DEF Flush, Launch, IInv, TypeOK
<1>2. QED
  BY <1>1 DEF RetryStep, Retrying

\* What a handler does at its end, or on its way, concerns itself only.
LEMMA OneRetries ==
  ASSUME IInv, NEW j \in Jobs, Done(j) \/ \E stage : Goto(j, stage)
  PROVE  \A i \in Jobs : i # j => job'[i] = job[i]
<1>1. job \in [Jobs -> Job]
  BY DEF IInv, TypeOK
<1>2. CASE Done(j)
  BY <1>2, OneMoves DEF Done
<1>3. CASE \E stage : Goto(j, stage)
  BY <1>1, <1>3 DEF Goto
<1>4. QED
  BY <1>2, <1>3

LEMMA SendRetries ==
  ASSUME IInv, NEW j \in Jobs, SendOk(j) \/ SendFails(j)
  PROVE  RetryStep
<1>1. job \in [Jobs -> Job] /\ attempts \in 0..MaxReplyAttempts
  BY DEF IInv, TypeOK
<1>2. CASE SendOk(j)
  <2>1. UNCHANGED timer
    BY <1>2 DEF SendOk
  <2>2. Goto(j, "derive") \/ (Done(j) /\ ReleaseSlot(j))
    BY <1>2 DEF SendOk
  <2>3. CASE job[j].op # "flush"
    BY <2>1, <2>2, <2>3, OneRetries, OthersRetry
  <2>4. CASE job[j].op = "flush" /\ Goto(j, "derive")
    <3>1. job[j] \in Job /\ job'[j] = [job[j] EXCEPT !.stage = "derive"]
      BY <1>1, <2>4 DEF Goto
    <3>2. job'[j].op = "flush"
      BY <2>4, <3>1 DEF Job, Idle
    <3>3. QED
      BY <3>2 DEF RetryStep, Retrying
  <2>5. CASE job[j].op = "flush" /\ ReleaseSlot(j)
    BY <2>5 DEF ReleaseSlot, RetryStep
  <2>6. QED
    BY <2>2, <2>3, <2>4, <2>5
<1>3. CASE SendFails(j)
  <2>1. Done(j)
    BY <1>3 DEF SendFails
  <2>2. CASE timer'
    BY <2>2 DEF RetryStep, Retrying
  <2>3. CASE job[j].op # "flush" /\ UNCHANGED timer
    BY <2>1, <2>3, OneRetries, OthersRetry
  <2>4. CASE job[j].op = "flush" /\ ~(attempts < MaxReplyAttempts)
    BY <1>1, <2>4, KeyExchangeAssumption DEF RetryStep
  <2>5. timer' \/ (UNCHANGED timer /\ ~(job[j].op = "flush" /\ attempts < MaxReplyAttempts))
    BY <1>3 DEF SendFails, Schedule
  <2>6. QED
    BY <2>2, <2>3, <2>4, <2>5
<1>4. QED
  BY <1>2, <1>3

LEMMA RetrySteps ==
  ASSUME IInv, Next
  PROVE  RetryStep
<1>1. job \in [Jobs -> Job]
  BY DEF IInv, TypeOK
<1>2. ASSUME NEW j \in Jobs, Await(j) PROVE RetryStep
  <2>1. CASE IdentityReady(j) \/ IdentityFails(j)
    <3>1. job[j].op # "flush"
      BY <1>1, <2>1 DEF IdentityReady, IdentityFails, Job, Idle
    <3>2. UNCHANGED timer /\ (Done(j) \/ \E stage : Goto(j, stage))
      BY <2>1 DEF IdentityReady, IdentityFails
    <3>3. QED
      BY <3>1, <3>2, OneRetries, OthersRetry
  <2>2. CASE SendOk(j) \/ SendFails(j)
    BY <2>2, SendRetries
  <2>3. CASE DeriveOk(j) \/ DeriveFails(j)
    <3>1. UNCHANGED timer /\ Done(j) /\ ReleaseSlot(j)
      BY <2>3 DEF DeriveOk, DeriveFails
    <3>2. CASE job[j].op # "flush"
      BY <3>1, <3>2, OneRetries, OthersRetry
    <3>3. CASE job[j].op = "flush"
      BY <3>1, <3>3 DEF ReleaseSlot, RetryStep
    <3>4. QED
      BY <3>2, <3>3
  <2>4. CASE Refreshed(j)
    <3>1. UNCHANGED timer /\ job[j].op = "start"
      BY <2>4 DEF Refreshed, Working
    <3>2. Done(j) \/ \E stage : Goto(j, stage)
      BY <2>4 DEF Refreshed
    <3>3. QED
      BY <3>1, <3>2, OneRetries, OthersRetry
  <2>5. CASE PendingTried(j)
    <3>1. UNCHANGED timer /\ job[j].op = "packet"
      BY <2>5 DEF PendingTried, Working
    <3>2. Done(j) \/ \A i \in Jobs : i # j => job'[i] = job[i]
      BY <1>1, <2>5 DEF PendingTried
    <3>3. QED
      BY <3>1, <3>2, OneRetries, OthersRetry
  <2>6. CASE DynamicPacket(j) \/ StaticPacket(j) \/ UnreadablePacket(j)
    <3>1. UNCHANGED timer /\ job[j].op = "packet"
      BY <2>6 DEF DynamicPacket, StaticPacket, UnreadablePacket, Working
    <3>2. \E h : Become(j, h)
      BY <2>6 DEF DynamicPacket, StaticPacket, UnreadablePacket, Done
    <3>3. QED
      BY <3>1, <3>2, OneMoves, OthersRetry
  <2>7. QED
    BY <1>2, <2>1, <2>2, <2>3, <2>4, <2>5, <2>6 DEF Await
<1>3. ASSUME NEW j \in Jobs,
             \/ Transmit(j) \/ Connected(j)
             \/ \E d \in Devices : CommandNeedsSession(j, d)
             \/ \E d \in Devices, k \in Keys : AcceptPublicKey(j, d, k)
             \/ \E d \in Devices, k \in Keys \cup {None}, ack \in BOOLEAN :
                  ReceivePacket(j, d, k, ack)
      PROVE  RetryStep
  <2>1. UNCHANGED timer
    BY <1>3 DEF Transmit, Connected, CommandNeedsSession, AcceptPublicKey,
                ReceivePacket
  <2>2. UNCHANGED job \/ \E h : Launch(j, h)
    BY <1>3 DEF Transmit, Connected, Flush, CommandNeedsSession,
                AcceptPublicKey, ReceivePacket
  <2>3. QED
    BY <2>1, <2>2, NobodyMoves, AnotherBegins
<1>4. ASSUME NEW j \in Jobs, TimerFires(j) PROVE RetryStep
  <2>1. CASE irLock \/ slot = None
    BY <2>1 DEF RetryStep
  <2>2. CASE Flush(j)
    BY <2>2, FlushBegins
  <2>3. QED
    BY <1>4, <2>1, <2>2 DEF TimerFires
<1>5. ASSUME NEW d \in Devices,
             \/ IgnorePublicKey(d) \/ DeviceBoot(d) \/ ForgetDevice(d)
             \/ ForgetSent(d) \/ NewKeyPair(d) \/ DeviceDerives(d)
      PROVE  RetryStep
  <2>1. UNCHANGED job /\ (UNCHANGED timer \/ slot' = None)
    BY <1>5 DEF IgnorePublicKey, DeviceBoot, ForgetDevice, ForgetSent,
                NewKeyPair, DeviceDerives
  <2>2. CASE UNCHANGED timer
    BY <2>1, <2>2, NobodyMoves
  <2>3. CASE slot' = None
    BY <2>3 DEF RetryStep
  <2>4. QED
    BY <2>1, <2>2, <2>3
<1>6. CASE LeaveBle \/ ToggleIrLock \/ Tick
  <2>1. CASE LeaveBle \/ Tick
    BY <2>1, NobodyMoves, ZenonT(30) DEF LeaveBle, Tick
  <2>2. CASE ToggleIrLock
    BY <2>2, NobodyMoves, ZenonT(30) DEF ToggleIrLock
  <2>3. QED
    BY <1>6, <2>1, <2>2
<1>7. QED
  BY <1>2, <1>3, <1>4, <1>5, <1>6 DEF Next

\* The retries of an unsent reply end only for one of the stated reasons,
\* whichever of any number of devices and handlers share the slot.
THEOREM RetriesGoOn == Spec => ReplyIsRetried
<1>1. IInv /\ [Next]_vars => [RetryStep]_vars
  BY RetrySteps
<1>2. RetryStep => (slot # None /\ slot' # None /\ Retrying /\ ~Retrying'
                      => irLock \/ attempts = MaxReplyAttempts)
  BY DEF RetryStep
<1>3. QED
  BY <1>1, <1>2, Invariance, PTL DEF Spec, ReplyIsRetried

-----------------------------------------------------------------------------
(* The theorems *)

\* Every variable keeps its type: no handler, reply or session key is ever
\* made of anything else, for any number of devices and handlers.
THEOREM TypeCorrect == Spec => []TypeOK
<1>1. IInv => TypeOK
  BY DEF IInv
<1>2. QED
  BY <1>1, Invariance, PTL

\* The key layer and the installed session keys agree in every state, however
\* resets, expiries and activations interleave with the handlers' awaits.
THEOREM Agreement == Spec => []EstablishedIsInstalled
<1>1. IInv => EstablishedIsInstalled
  BY DEF IInv, PeersSound, Sound, Agrees, EstablishedIsInstalled
<1>2. QED
  BY <1>1, Invariance, PTL

\* No key becomes pending for a device that has not been sent the app's key.
THEOREM AnsweredFirst == Spec => []AnsweredBeforePending
<1>1. IInv => AnsweredBeforePending
  BY DEF IInv
<1>2. QED
  BY <1>1, Invariance, PTL

\* A confirmed session outlives its grace: no late packet, late boot message or
\* expiring pending key drops it, only the removal of its device.
THEOREM GraceIsKept == Spec => GraceKept
<1> DEFINE Spared(d) == /\ peer[d].active # None /\ peer[d].verified
                        /\ peer[d].installAge < DecryptGrace
                        => peer'[d].active # None \/ ForgetDevice(d)
<1>1. ASSUME IInv, Next PROVE \A d \in Devices : Spared(d)
  <2>1. SUFFICES ASSUME NEW e \in Devices, InGrace(peer[e])
                 PROVE  peer'[e].active # None \/ ForgetDevice(e)
    BY DEF InGrace
  <2>2. PeerStep
    BY <1>1, PeerSteps
  <2>3. CASE AllKept
    BY <2>1, <2>3 DEF AllKept, Kept, InGrace
  <2>4. ASSUME NEW d \in Devices, NEW t, Moves(d, t)
        PROVE  peer'[e].active # None \/ ForgetDevice(e)
    <3>1. peer \in [Devices -> Peer] /\ peer' = [peer EXCEPT ![d] = t]
      BY <1>1, <2>4 DEF IInv, PeersSound, Moves, Put
    <3>2. CASE e # d
      BY <2>1, <3>1, <3>2 DEF InGrace
    <3>3. CASE e = d
      <4>1. t.active # None \/ ForgetDevice(d)
        BY <2>1, <2>4, <3>3 DEF Moves, Kept, Dropped, Confirmed, Offered, InGrace
      <4>2. QED
        BY <3>1, <3>3, <4>1
    <3>4. QED
      BY <3>2, <3>3
  <2>5. QED
    BY <2>2, <2>3, <2>4 DEF PeerStep
<1>2. ASSUME UNCHANGED vars PROVE \A d \in Devices : Spared(d)
  BY <1>2 DEF vars
<1>3. IInv /\ [Next]_vars => [\A d \in Devices : Spared(d)]_vars
  BY <1>1, <1>2
<1>4. QED
  BY <1>3, Invariance, PTL DEF Spec, GraceKept

-----------------------------------------------------------------------------
(* The exchange implements the two-phase installation of KeySession *)

offers == [d \in Devices |-> peer[d].pending]
keys == [d \in Devices |-> peer[d].active]

\* A step that sends the app's key changes no session.
LEMMA SendKeeps ==
  ASSUME IInv, NEW j \in Jobs, Transmit(j) \/ SendOk(j)
  PROVE  /\ job[j].dev \in Devices
         /\ ownOut' = ownOut \cup {job[j].dev}
         /\ offers' = offers /\ keys' = keys
<1> DEFINE d == job[j].dev
<1>1. d \in Devices
  BY Waiting DEF IInv, Transmit, SendOk
<1>2. ownOut' = ownOut \cup {d}
  BY DEF Transmit, SendOk
<1>3. /\ peer \in [Devices -> Peer]
      /\ UNCHANGED peer \/ Put(d, [peer[d] EXCEPT !.holders = @ \cup {j}])
  BY DEF Transmit, SendOk, IInv, PeersSound
<1>4. ASSUME NEW e \in Devices
      PROVE  peer'[e].pending = peer[e].pending /\ peer'[e].active = peer[e].active
  <2> HIDE DEF d
  <2>1. CASE UNCHANGED peer
    BY <2>1
  <2>2. CASE Put(d, [peer[d] EXCEPT !.holders = @ \cup {j}]) /\ e = d
    BY <1>1, <1>3, <2>2 DEF Put, Peer
  <2>3. CASE Put(d, [peer[d] EXCEPT !.holders = @ \cup {j}]) /\ e # d
    BY <1>3, <2>3 DEF Put
  <2>4. QED
    BY <1>3, <2>1, <2>2, <2>3
<1>5. offers' = offers /\ keys' = keys
  BY <1>4 DEF offers, keys
<1>6. QED
  BY <1>1, <1>2, <1>5

LEMMA Sends ==
  ASSUME IInv, Next
  PROVE  \/ ownOut' = ownOut
         \/ \E d \in Devices : /\ ownOut' = ownOut \cup {d}
                               /\ offers' = offers /\ keys' = keys
<1>1. ASSUME NEW j \in Jobs, Await(j)
      PROVE  ownOut' = ownOut \/ SendOk(j)
  BY <1>1 DEF Await, IdentityReady, IdentityFails, SendFails, DeriveOk,
       DeriveFails, Refreshed, PendingTried, DynamicPacket, StaticPacket,
       UnreadablePacket
<1>2. ASSUME NEW j \in Jobs, TimerFires(j) \/ Connected(j)
      PROVE  ownOut' = ownOut
  BY <1>2 DEF TimerFires, Connected
<1>3. ASSUME NEW j \in Jobs, NEW d \in Devices,
             \/ CommandNeedsSession(j, d)
             \/ \E k \in Keys : AcceptPublicKey(j, d, k)
             \/ \E k \in Keys \cup {None}, ack \in BOOLEAN :
                  ReceivePacket(j, d, k, ack)
      PROVE  ownOut' = ownOut
  BY <1>3 DEF CommandNeedsSession, AcceptPublicKey, ReceivePacket
<1>4. ASSUME NEW d \in Devices,
             \/ IgnorePublicKey(d) \/ DeviceBoot(d) \/ ForgetDevice(d)
             \/ ForgetSent(d) \/ NewKeyPair(d) \/ DeviceDerives(d)
      PROVE  ownOut' = ownOut
  BY <1>4 DEF IgnorePublicKey, DeviceBoot, ForgetDevice, ForgetSent, NewKeyPair,
       DeviceDerives
<1>5. CASE LeaveBle \/ ToggleIrLock \/ Tick
  BY <1>5 DEF LeaveBle, ToggleIrLock, Tick
<1>6. QED
  BY <1>1, <1>2, <1>3, <1>4, <1>5, SendKeeps DEF Next

\* What a device's move is to the functions that the abstract module sees.
LEMMA MoveMaps ==
  ASSUME IInv, NEW d \in Devices, NEW t, Moves(d, t)
  PROVE  /\ offers' = [offers EXCEPT ![d] = t.pending]
         /\ keys' = [keys EXCEPT ![d] = t.active]
<1>1. peer \in [Devices -> Peer] /\ peer' = [peer EXCEPT ![d] = t]
  BY DEF IInv, PeersSound, Moves, Put
<1>2. QED
  BY <1>1 DEF offers, keys

LEMMA InitMaps ==
  ASSUME Init
  PROVE  TwoPhase!Init
<1>1. \A d \in Devices : peer[d] \in {Static, [Static EXCEPT !.active = Restored]}
  BY DEF Init
<1>2. \A d \in Devices : peer[d].pending = None
                         /\ peer[d].active \in {None, Restored}
  BY <1>1 DEF Static
<1>3. Restored \in Keys
  BY Nats DEF Restored, Keys
<1>4. QED
  BY <1>2, <1>3 DEF TwoPhase!Init, Init

LEMMA NextMaps ==
  ASSUME IInv, Next
  PROVE  TwoPhase!Next \/ UNCHANGED TwoPhase!vars
<1>1. CASE ownOut' # ownOut
  <2>1. PICK d \in Devices : /\ ownOut' = ownOut \cup {d}
                             /\ offers' = offers /\ keys' = keys
    BY <1>1, Sends
  <2>2. TwoPhase!Answer(d)
    BY <2>1 DEF TwoPhase!Answer, offers, keys
  <2>3. QED
    BY <2>2 DEF TwoPhase!Next
<1>2. CASE ownOut' = ownOut /\ AllKept
  <2>1. offers' = offers /\ keys' = keys
    BY <1>2 DEF AllKept, Kept, offers, keys
  <2>2. QED
    BY <1>2, <2>1 DEF TwoPhase!vars, offers, keys
<1>3. ASSUME ownOut' = ownOut, NEW d \in Devices, NEW t, Moves(d, t)
      PROVE  TwoPhase!Next \/ UNCHANGED TwoPhase!vars
  <2>1. /\ offers' = [offers EXCEPT ![d] = t.pending]
        /\ keys' = [keys EXCEPT ![d] = t.active]
    BY <1>3, MoveMaps
  <2>2. offers[d] = peer[d].pending /\ keys[d] = peer[d].active
    BY DEF offers, keys
  <2>3. CASE Kept(peer[d], t)
    <3>1. offers' = offers /\ keys' = keys
      BY <2>1, <2>2, <2>3 DEF Kept, offers, keys
    <3>2. QED
      BY <1>3, <3>1 DEF TwoPhase!vars, offers, keys
  <2>4. CASE Dropped(t)
    <3>1. TwoPhase!FallBack(d)
      BY <1>3, <2>1, <2>4 DEF TwoPhase!FallBack, Dropped, offers, keys
    <3>2. QED
      BY <3>1 DEF TwoPhase!Next
  <2>5. CASE Confirmed(peer[d], t)
    <3>1. TwoPhase!Confirm(d)
      BY <1>3, <2>1, <2>2, <2>5 DEF TwoPhase!Confirm, Confirmed, offers, keys
    <3>2. QED
      BY <3>1 DEF TwoPhase!Next
  <2>6. CASE Offered(peer[d], t) /\ d \in ownOut
    <3>1. keys' = keys
      BY <2>1, <2>2, <2>6 DEF Offered, keys
    <3>2. TwoPhase!Offer(d, t.pending)
      BY <1>3, <2>1, <2>6, <3>1 DEF TwoPhase!Offer, offers, keys
    <3>3. QED
      BY <2>6, <3>2 DEF TwoPhase!Next, Offered
  <2>7. QED
    BY <1>3, <2>3, <2>4, <2>5, <2>6 DEF Moves
<1>4. QED
  BY <1>1, <1>2, <1>3, PeerSteps DEF PeerStep

LEMMA StutterMaps ==
  ASSUME UNCHANGED vars
  PROVE  UNCHANGED TwoPhase!vars
  BY DEF vars, TwoPhase!vars

\* Keys are installed in two phases: offered only to a device that has been
\* answered, installed only by confirming the key on offer, and withdrawn
\* together with the session when the exchange falls back to the static key.
THEOREM TwoPhases == Spec => KeysInTwoPhases
<1>1. Init => TwoPhase!Init
  BY InitMaps
<1>2. IInv /\ [Next]_vars => [TwoPhase!Next]_(TwoPhase!vars)
  BY NextMaps, StutterMaps
<1>3. QED
  BY <1>1, <1>2, Invariance, PTL DEF Spec, KeysInTwoPhases, TwoPhase!Spec
=============================================================================
