------------------------- MODULE DoorControl_proofs -------------------------
(***************************************************************************)
(* Theorems about DoorControl, for every number of commands and of repeated  *)
(* transmissions.                                                          *)
(***************************************************************************)
EXTENDS DoorControl, TLAPS

\* The inductive invariant: what TLC checks, and that the command that is
\* waited for is the newest one.
NewestIsWaitedFor == doorPendingSeq \in {0, doorCommandSeq}

IInv == TypeOK /\ WaitIsTimed /\ NewestIsWaitedFor

\* One operation on the variables of the wait: a new command, the end of
\* the wait there is, or nothing.
Begun == doorCommandSeq < MaxSeq /\ doorCommandSeq' = doorCommandSeq + 1
         /\ doorPending' = TRUE /\ doorPendingSeq' = doorCommandSeq'
         /\ doorPendingTargetLocked' \in BOOLEAN
         /\ doorAckTimer' = doorCommandSeq'
Ended == StopWaiting /\ UNCHANGED doorCommandSeq
Kept  == UNCHANGED <<wait, doorCommandSeq>>

\* Every step of the system does one of the three.
LEMMA StepOfWait ==
  ASSUME IInv, [Next]_vars
  PROVE  Begun \/ Ended \/ Kept
<1>1. ASSUME NEW by \in Sources, NEW unlock \in BOOLEAN,
             SendDoorControl(by, unlock)
      PROVE  Begun
  BY <1>1 DEF SendDoorControl, Begun
<1>2. ASSUME NEW c \in sending, Transmit(c) \/ SendOk(c)
      PROVE  Kept
  BY <1>2 DEF Transmit, SendOk, Kept
<1>3. ASSUME NEW c \in sending, SendFails(c)
      PROVE  Ended
  BY <1>3 DEF SendFails, Ended
<1>4. ASSUME AckTimeout
      PROVE  Ended
  BY <1>4 DEF AckTimeout, Ended, StopWaiting, IInv, TypeOK, WaitIsTimed
<1>5. ASSUME NEW a \in acks, HandleDoorAck(a)
      PROVE  Ended \/ Kept
  BY <1>5 DEF HandleDoorAck, Ended, Kept
<1>6. ASSUME NEW r \in reports, ApplyLightStatus(r) \/ ApplySensorData(r)
      PROVE  Ended \/ Kept
  BY <1>6 DEF ApplyLightStatus, ApplySensorData, Ended, Kept
<1>7. ASSUME \/ LeaveHome \/ DoorReports \/ TurnedByHand
             \/ \E p \in inbox, ok \in BOOLEAN : DoorExecutes(p, ok)
      PROVE  Kept
  BY <1>7 DEF LeaveHome, DoorReports, TurnedByHand, DoorExecutes, Kept
<1>8. ASSUME UNCHANGED vars
      PROVE  Kept
  BY <1>8 DEF vars, Kept
<1>9. QED
  BY <1>1, <1>2, <1>3, <1>4, <1>5, <1>6, <1>7, <1>8 DEF Next

\* A step leaves every message in place, removes it, or adds one with a seq
\* that has been issued.
LEMMA StepOfMessages ==
  ASSUME IInv, [Next]_vars
  PROVE  /\ sending' \subseteq Command
         /\ inbox' \subseteq Packet
         /\ acks' \subseteq Ack
         /\ \A m \in sending' \cup inbox' \cup acks' : m.seq <= doorCommandSeq'
<1> USE DoorControlAssumption
<1>0. /\ doorCommandSeq \in 0..MaxSeq /\ bolt \in BOOLEAN
      /\ sending \subseteq Command /\ inbox \subseteq Packet /\ acks \subseteq Ack
      /\ \A m \in sending \cup inbox \cup acks : m.seq <= doorCommandSeq
  BY DEF IInv, TypeOK
<1>1. ASSUME NEW by \in Sources, NEW unlock \in BOOLEAN,
             SendDoorControl(by, unlock)
      PROVE  /\ sending' \subseteq Command
             /\ UNCHANGED <<inbox, acks>>
             /\ doorCommandSeq' = doorCommandSeq + 1
             /\ \A m \in sending' : m.seq <= doorCommandSeq'
  <2> DEFINE new == [seq |-> doorCommandSeq', unlock |-> unlock,
                     by |-> by, sent |-> FALSE]
  <2>1. new \in Command /\ new.seq = doorCommandSeq'
    BY <1>0, <1>1 DEF SendDoorControl, Command
  <2>2. sending' = sending \cup {new} /\ UNCHANGED <<inbox, acks>>
        /\ doorCommandSeq' = doorCommandSeq + 1
    BY <1>1 DEF SendDoorControl, door
  <2>3. \A m \in sending : m.seq \in Nat
    BY <1>0 DEF Command
  <2> HIDE DEF new
  <2>4. QED
    BY <1>0, <2>1, <2>2, <2>3
<1>2. ASSUME NEW c \in sending, Transmit(c)
      PROVE  /\ sending' \subseteq Command /\ inbox' \subseteq Packet
             /\ UNCHANGED <<acks, doorCommandSeq>>
             /\ \A m \in sending' \cup inbox' : m.seq <= doorCommandSeq
  <2> DEFINE sent == [c EXCEPT !.sent = TRUE]
             packet == [seq |-> c.seq, unlock |-> c.unlock]
  <2>1. c \in Command /\ c.seq <= doorCommandSeq
    BY <1>0
  <2>2. sent \in Command /\ sent.seq = c.seq
    BY <1>2, <2>1 DEF Transmit, Command
  <2>3. packet \in Packet /\ packet.seq = c.seq
    BY <2>1 DEF Packet, Command
  <2>4. /\ sending' = (sending \ {c}) \cup {sent}
        /\ inbox' = inbox \cup {packet}
        /\ UNCHANGED <<acks, doorCommandSeq>>
    BY <1>2 DEF Transmit
  <2>5. QED
    BY <1>0, <2>1, <2>2, <2>3, <2>4
<1>3. ASSUME NEW p \in inbox, NEW ok \in BOOLEAN, DoorExecutes(p, ok)
      PROVE  /\ inbox' \subseteq Packet /\ acks' \subseteq Ack
             /\ UNCHANGED <<sending, doorCommandSeq>>
             /\ \A m \in inbox' \cup acks' : m.seq <= doorCommandSeq
  <2>1. p \in Packet /\ p.seq <= doorCommandSeq
    BY <1>0
  <2>2. bolt' \in BOOLEAN
    BY <1>0, <1>3, <2>1 DEF DoorExecutes, Packet
  <2>3. PICK s \in {0, p.seq},
             says \in {{}} \cup (IF ok THEN {{bolt'}} ELSE {}) :
          acks' = acks \cup {[seq |-> s, ok |-> ok, says |-> says]}
    BY <1>3 DEF DoorExecutes
  <2>4. s \in 0..MaxSeq /\ s <= doorCommandSeq
    BY <1>0, <2>1, <2>3 DEF Packet
  <2>5. says \in {{}, {TRUE}, {FALSE}}
    BY <2>2, <2>3
  <2>6. [seq |-> s, ok |-> ok, says |-> says] \in Ack
    BY <2>4, <2>5 DEF Ack
  <2>7. inbox' = inbox \ {p} /\ UNCHANGED <<sending, doorCommandSeq>>
    BY <1>3 DEF DoorExecutes
  <2>8. QED
    BY <1>0, <2>3, <2>4, <2>6, <2>7
<1>4. ASSUME \/ \E c \in sending : SendOk(c) \/ SendFails(c)
             \/ AckTimeout
             \/ \E a \in acks : HandleDoorAck(a)
             \/ \E r \in reports : ApplyLightStatus(r) \/ ApplySensorData(r)
             \/ LeaveHome \/ DoorReports \/ TurnedByHand
             \/ UNCHANGED vars
      PROVE  /\ sending' \subseteq sending /\ UNCHANGED <<inbox, doorCommandSeq>>
             /\ acks' \subseteq acks
  BY <1>4 DEF SendOk, SendFails, AckTimeout, HandleDoorAck, ApplyLightStatus,
              ApplySensorData, LeaveHome, DoorReports, TurnedByHand, vars, door
<1>5. \A m \in inbox \cup acks : m.seq \in Nat
  <2>1. \A m \in Packet : m.seq \in Nat
    BY DEF Packet
  <2>2. \A m \in Ack : m.seq \in Nat
    BY DEF Ack
  <2>3. QED
    BY <1>0, <2>1, <2>2
<1>6. QED
  BY <1>0, <1>1, <1>2, <1>3, <1>4, <1>5 DEF Next

\* What the terminal shows and what the door reports remain lock states.
LEMMA StepOfStates ==
  ASSUME IInv, [Next]_vars
  PROVE  /\ doorLocked' \in BOOLEAN /\ bolt' \in BOOLEAN
         /\ reports' \subseteq BOOLEAN /\ moves' \in 0..MaxMoves
<1> USE DoorControlAssumption
<1>0. /\ doorLocked \in BOOLEAN /\ bolt \in BOOLEAN /\ reports \subseteq BOOLEAN
      /\ moves \in 0..MaxMoves /\ doorPendingTargetLocked \in BOOLEAN
  BY DEF IInv, TypeOK
<1>1. ASSUME \/ \E by \in Sources, unlock \in BOOLEAN : SendDoorControl(by, unlock)
             \/ \E c \in sending : SendOk(c) \/ SendFails(c)
             \/ AckTimeout
             \/ UNCHANGED vars
      PROVE  UNCHANGED <<doorLocked, bolt, reports, moves>>
  BY <1>1 DEF SendDoorControl, SendOk, SendFails, AckTimeout, vars, door
<1>2. ASSUME NEW a \in acks, HandleDoorAck(a)
      PROVE  doorLocked' \in BOOLEAN /\ UNCHANGED <<bolt, reports, moves>>
  <2>1. UNCHANGED <<bolt, reports, moves>>
    BY <1>2 DEF HandleDoorAck
  <2>2. doorLocked' \in {doorLocked, doorPendingTargetLocked, (TRUE \in a.says)}
    BY <1>2 DEF HandleDoorAck
  <2>3. (TRUE \in a.says) \in BOOLEAN
    OBVIOUS
  <2>4. QED
    BY <1>0, <2>1, <2>2, <2>3
<1>3. ASSUME NEW r \in reports, ApplyLightStatus(r) \/ ApplySensorData(r)
      PROVE  doorLocked' = r /\ reports' \subseteq reports /\ UNCHANGED <<bolt, moves>>
  BY <1>3 DEF ApplyLightStatus, ApplySensorData
<1>4. ASSUME \/ \E c \in sending : Transmit(c)
             \/ LeaveHome \/ DoorReports \/ TurnedByHand
      PROVE  /\ doorLocked' \in {doorLocked, TRUE} /\ bolt' \in {bolt, ~bolt}
             /\ reports' \in {reports, reports \cup {bolt}}
             /\ moves' = moves \/ (moves < MaxMoves /\ moves' = moves + 1)
  BY <1>4 DEF Transmit, LeaveHome, DoorReports, TurnedByHand, door
<1>5. ASSUME NEW p \in inbox, NEW ok \in BOOLEAN, DoorExecutes(p, ok)
      PROVE  bolt' \in BOOLEAN /\ UNCHANGED <<doorLocked, reports, moves>>
  <2>1. p.unlock \in BOOLEAN
    BY DEF IInv, TypeOK, Packet
  <2>2. QED
    BY <1>0, <1>5, <2>1 DEF DoorExecutes
<1>6. moves' = moves \/ (moves < MaxMoves /\ moves' = moves + 1) => moves' \in 0..MaxMoves
  BY <1>0
<1>7. CASE \/ \E c \in sending : Transmit(c)
           \/ LeaveHome \/ DoorReports \/ TurnedByHand
  BY <1>0, <1>4, <1>6, <1>7
<1>8. QED
  BY <1>0, <1>1, <1>2, <1>3, <1>5, <1>7 DEF Next

-----------------------------------------------------------------------------

LEMMA Initially == Init => IInv
<1> SUFFICES ASSUME Init
             PROVE  IInv
  OBVIOUS
<1>1. TypeOK
  <2>1. /\ doorCommandSeq \in 0..MaxSeq /\ moves \in 0..MaxMoves
        /\ doorPendingSeq \in 0..doorCommandSeq
        /\ doorAckTimer \in 0..doorCommandSeq
    BY DoorControlAssumption DEF Init
  <2>2. /\ doorPending \in BOOLEAN /\ doorPendingTargetLocked \in BOOLEAN
        /\ doorLocked \in BOOLEAN /\ bolt \in BOOLEAN
    BY DEF Init
  <2>3. sending = {} /\ inbox = {} /\ acks = {} /\ reports = {}
    BY DEF Init
  <2>4. QED
    BY <2>1, <2>2, <2>3 DEF TypeOK
<1>2. WaitIsTimed /\ NewestIsWaitedFor
  BY DEF Init, WaitIsTimed, NewestIsWaitedFor
<1>3. QED
  BY <1>1, <1>2 DEF IInv

LEMMA Inductive ==
  ASSUME IInv, [Next]_vars
  PROVE  IInv'
<1>1. /\ doorCommandSeq \in 0..MaxSeq /\ MaxSeq \in Nat
      /\ doorPending \in BOOLEAN /\ doorPendingTargetLocked \in BOOLEAN
      /\ doorPendingSeq \in 0..doorCommandSeq /\ doorAckTimer \in 0..doorCommandSeq
      /\ WaitIsTimed /\ NewestIsWaitedFor
  BY DoorControlAssumption DEF IInv, TypeOK
<1>2. /\ doorCommandSeq' \in 0..MaxSeq
      /\ doorPending' \in BOOLEAN /\ doorPendingTargetLocked' \in BOOLEAN
      /\ doorPendingSeq' \in 0..doorCommandSeq'
      /\ doorAckTimer' \in 0..doorCommandSeq'
      /\ WaitIsTimed' /\ NewestIsWaitedFor'
  <2>1. CASE Begun
    <3>1. doorCommandSeq' \in 1..MaxSeq
      BY <1>1, <2>1 DEF Begun
    <3>2. /\ doorPending' = TRUE /\ doorPendingTargetLocked' \in BOOLEAN
          /\ doorPendingSeq' = doorCommandSeq' /\ doorAckTimer' = doorCommandSeq'
      BY <2>1 DEF Begun
    <3>3. WaitIsTimed' /\ NewestIsWaitedFor'
      BY <3>1, <3>2 DEF WaitIsTimed, NewestIsWaitedFor
    <3>4. QED
      BY <1>1, <3>1, <3>2, <3>3
  <2>2. CASE Ended
    <3>1. /\ UNCHANGED <<doorCommandSeq, doorPendingTargetLocked>>
          /\ doorPending' = FALSE /\ doorPendingSeq' = 0 /\ doorAckTimer' = 0
      BY <2>2 DEF Ended, StopWaiting
    <3>2. WaitIsTimed' /\ NewestIsWaitedFor'
      BY <3>1 DEF WaitIsTimed, NewestIsWaitedFor
    <3>3. 0 \in 0..doorCommandSeq
      BY <1>1
    <3>4. QED
      BY <1>1, <3>1, <3>2, <3>3
  <2>3. CASE Kept
    <3>1. UNCHANGED <<doorCommandSeq, doorPending, doorPendingSeq,
                      doorPendingTargetLocked, doorAckTimer>>
      BY <2>3 DEF Kept, wait
    <3>2. WaitIsTimed' /\ NewestIsWaitedFor'
      BY <1>1, <3>1 DEF WaitIsTimed, NewestIsWaitedFor
    <3>3. QED
      BY <1>1, <3>1, <3>2
  <2>4. QED
    BY <2>1, <2>2, <2>3, StepOfWait
<1>3. QED
  BY <1>2, StepOfMessages, StepOfStates DEF IInv, TypeOK

THEOREM Invariance == Spec => []IInv
<1>1. IInv /\ [Next]_vars => IInv'
  BY Inductive
<1>2. QED
  BY <1>1, Initially, PTL DEF Spec

\* The variables of the door's handlers keep their types, and no seq is
\* waited for or under way that sendDoorControl has not issued.
THEOREM TypeCorrect == Spec => []TypeOK
<1>1. IInv => TypeOK
  BY DEF IInv
<1>2. QED
  BY <1>1, Invariance, PTL

\* Every wait has its own timer, whatever the buttons, the face recogniser,
\* the cloud, the transports and the door do meanwhile.
THEOREM TimedWait == Spec => []WaitIsTimed
<1>1. IInv => WaitIsTimed
  BY DEF IInv
<1>2. QED
  BY <1>1, Invariance, PTL

\* The terminal waits for the newest command or for none: DoorControl
\* implements CommandWait.
THEOREM NewestWait == Spec => WaitForNewest
<1>1. Init => CW!Init
  BY DEF Init, CW!Init
<1>2. IInv /\ [Next]_vars => [CW!Next]_CW!vars
  <2> SUFFICES ASSUME IInv, [Next]_vars
               PROVE  CW!Next \/ UNCHANGED CW!vars
    OBVIOUS
  <2>1. CASE Begun
    BY <2>1 DEF Begun, CW!Next, CW!Issue
  <2>2. CASE Ended
    BY <2>2 DEF Ended, StopWaiting, CW!Next, CW!End, CW!vars
  <2>3. CASE Kept
    BY <2>3 DEF Kept, wait, CW!vars
  <2>4. QED
    BY <2>1, <2>2, <2>3, StepOfWait
<1>3. QED
  BY <1>1, <1>2, Invariance, PTL DEF Spec, WaitForNewest, CW!Spec
=============================================================================
