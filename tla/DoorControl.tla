---------------------------- MODULE DoorControl ----------------------------
(***************************************************************************)
(* The door lock as the terminal commands and shows it: sendDoorControl,   *)
(* its acknowledgement timer, and the messages of the door's ESP32 node in *)
(* entry/src/main/ets/pages/Index.ets.                                     *)
(*                                                                         *)
(* A command comes from the door button, from a recognised face or from    *)
(* the cloud.  Its packet is sent while sendEncryptedCommand waits, maybe  *)
(* more than once over the transports it falls back to; packets, acks and  *)
(* status reports arrive late, in any order, or never.                     *)
(***************************************************************************)
EXTENDS Naturals

CONSTANTS
  MaxSeq,   \* bound of the model: commands ever issued
  MaxMoves  \* bound of the model: how often a command is sent again, someone
            \* turns the bolt or chooses the leave-home scene

ASSUME DoorControlAssumption == MaxSeq \in Nat /\ MaxMoves \in Nat

VARIABLES
  doorCommandSeq,           \* seq of the newest command
  doorPending,
  doorPendingSeq,           \* seq of the command that is waited for, or 0
  doorPendingTargetLocked,
  doorAckTimer,             \* seq in the timer's closure, 0 when not armed
  doorLocked,               \* what the terminal shows
  sending,                  \* commands whose sendEncryptedCommand waits
  inbox,                    \* environment: packets on their way to the door
  bolt,                     \* environment: whether the door is locked
  acks,                     \* environment: acks on their way to the terminal
  reports,                  \* environment: status reports on their way
  moves                     \* what MaxMoves bounds, so far

wait == <<doorPending, doorPendingSeq, doorPendingTargetLocked, doorAckTimer>>
door == <<inbox, bolt, acks, reports>>
vars == <<doorCommandSeq, wait, doorLocked, sending, door, moves>>

Sources == {"button", "face", "cloud"}
Command == [seq : 1..MaxSeq, unlock : BOOLEAN, by : Sources,
            sent : BOOLEAN]
Packet == [seq : 1..MaxSeq, unlock : BOOLEAN]
\* says is the lock state in the fields locked or val, {} without them; a
\* refusal's fields are not read.
Ack == [seq : 0..MaxSeq, ok : BOOLEAN, says : {{}, {TRUE}, {FALSE}}]

Init ==
  /\ doorCommandSeq = 0
  /\ doorPending = FALSE /\ doorPendingSeq = 0
  /\ doorPendingTargetLocked = TRUE
  /\ doorAckTimer = 0
  /\ doorLocked = TRUE
  /\ sending = {} /\ inbox = {} /\ acks = {} /\ reports = {}
  /\ bolt \in BOOLEAN
  /\ moves = 0

-----------------------------------------------------------------------------
(* Commands *)

\* doorPending, doorPendingSeq and the timer, cleared together.
StopWaiting ==
  /\ doorPending' = FALSE
  /\ doorPendingSeq' = 0
  /\ doorAckTimer' = 0
  /\ UNCHANGED doorPendingTargetLocked

\* The buttons are dead while a command is pending.  Face recognition and
\* the cloud poll run once at a time, but do not look at doorPending.
MayCommand(by, unlock) ==
  CASE by = "button" -> ~doorPending /\ unlock = doorLocked
    [] by = "face"   -> unlock = doorLocked /\ \A c \in sending : c.by # by
    [] by = "cloud"  -> \A c \in sending : c.by # by

\* Mutant of SendDoorControl: the old timer is left running.
SendDoorControlOldTimer(by, unlock) ==
  /\ MayCommand(by, unlock) /\ doorCommandSeq < MaxSeq
  /\ doorCommandSeq' = doorCommandSeq + 1
  /\ doorPending' = TRUE
  /\ doorPendingSeq' = doorCommandSeq'
  /\ doorPendingTargetLocked' = ~unlock
  /\ doorAckTimer' = IF doorAckTimer = 0 THEN doorCommandSeq'
                     ELSE doorAckTimer
  /\ sending' = sending \cup {[seq |-> doorCommandSeq', unlock |-> unlock,
                               by |-> by, sent |-> FALSE]}
  /\ UNCHANGED <<doorLocked, door, moves>>

SendDoorControl(by, unlock) ==
  /\ MayCommand(by, unlock) /\ doorCommandSeq < MaxSeq
  /\ doorCommandSeq' = doorCommandSeq + 1
  /\ doorPending' = TRUE
  /\ doorPendingSeq' = doorCommandSeq'
  /\ doorPendingTargetLocked' = ~unlock
  /\ doorAckTimer' = doorCommandSeq'
  /\ sending' = sending \cup {[seq |-> doorCommandSeq', unlock |-> unlock,
                               by |-> by, sent |-> FALSE]}
  /\ UNCHANGED <<doorLocked, door, moves>>

\* sendEncryptedCommand hands the packet to a transport; a transport that
\* fails or times out may have sent it all the same, and the next one sends
\* it again.
Transmit(c) ==
  /\ c \in sending
  /\ c.sent => moves < MaxMoves
  /\ moves' = IF c.sent THEN moves + 1 ELSE moves
  /\ sending' = (sending \ {c}) \cup {[c EXCEPT !.sent = TRUE]}
  /\ inbox' = inbox \cup {[seq |-> c.seq, unlock |-> c.unlock]}
  /\ UNCHANGED <<doorCommandSeq, wait, doorLocked, bolt, acks, reports>>

\* Mutant of SendOk: the wait begins when the command has been sent.
SendOkWaits(c) ==
  /\ c \in sending /\ c.sent
  /\ sending' = sending \ {c}
  /\ doorPending' = TRUE /\ doorPendingSeq' = c.seq
  /\ doorPendingTargetLocked' = ~c.unlock /\ doorAckTimer' = c.seq
  /\ UNCHANGED <<doorCommandSeq, doorLocked, door, moves>>

SendOk(c) ==
  /\ c \in sending /\ c.sent
  /\ sending' = sending \ {c}
  /\ UNCHANGED <<doorCommandSeq, wait, doorLocked, door, moves>>

\* The catch block stops whatever wait there is, its own or a newer one's.
SendFails(c) ==
  /\ c \in sending
  /\ sending' = sending \ {c}
  /\ StopWaiting
  /\ UNCHANGED <<doorCommandSeq, doorLocked, door, moves>>

\* Mutant of AckTimeout: the handle is cleared and the wait is not.
AckTimeoutForgets ==
  /\ doorAckTimer # 0
  /\ doorAckTimer' = 0
  /\ UNCHANGED <<doorPending, doorPendingSeq, doorPendingTargetLocked>>
  /\ UNCHANGED <<doorCommandSeq, doorLocked, sending, door, moves>>

\* startDoorAckTimer's callback, 12 s later.
AckTimeout ==
  /\ doorAckTimer # 0
  /\ doorAckTimer' = 0
  /\ IF doorPending /\ doorPendingSeq = doorAckTimer
     THEN doorPending' = FALSE /\ doorPendingSeq' = 0
     ELSE UNCHANGED <<doorPending, doorPendingSeq>>
  /\ UNCHANGED <<doorCommandSeq, doorPendingTargetLocked, doorLocked, sending,
                 door, moves>>

-----------------------------------------------------------------------------
(* Messages of the door *)

\* Whether the ack names another command than the one that is waited for.
Stale(a) == doorPendingSeq > 0 /\ a.seq > 0 /\ a.seq # doorPendingSeq

HandleDoorAck(a) ==
  /\ a \in acks
  /\ acks' = acks \ {a}
  /\ IF Stale(a) THEN UNCHANGED <<wait, doorLocked>>
     ELSE /\ StopWaiting
          /\ doorLocked' = IF ~a.ok THEN doorLocked
                           ELSE IF a.says = {} THEN doorPendingTargetLocked
                                ELSE TRUE \in a.says
  /\ UNCHANGED <<doorCommandSeq, sending, inbox, bolt, reports, moves>>

\* Mutant of ApplyLightStatus: only a confirmation changes what is shown.
ApplyConfirmation(locked) ==
  /\ locked \in reports
  /\ reports' = reports \ {locked}
  /\ IF doorPending /\ locked = doorPendingTargetLocked
     THEN StopWaiting /\ doorLocked' = locked
     ELSE UNCHANGED <<wait, doorLocked>>
  /\ UNCHANGED <<doorCommandSeq, sending, inbox, bolt, acks, moves>>

\* applyLightStatus, for the part of a status report about the lock.
ApplyLightStatus(locked) ==
  /\ locked \in reports
  /\ reports' = reports \ {locked}
  /\ doorLocked' = locked
  /\ IF doorPending /\ locked = doorPendingTargetLocked THEN StopWaiting
     ELSE UNCHANGED wait
  /\ UNCHANGED <<doorCommandSeq, sending, inbox, bolt, acks, moves>>

\* A sensor frame carries the lock's state too, and confirms nothing.
ApplySensorData(locked) ==
  /\ locked \in reports
  /\ reports' = reports \ {locked}
  /\ doorLocked' = locked
  /\ UNCHANGED <<doorCommandSeq, wait, sending, inbox, bolt, acks, moves>>

-----------------------------------------------------------------------------
(* The scene, and the door itself *)

\* leaveHome shows the door as locked, and sends the door nothing.
LeaveHome ==
  /\ moves < MaxMoves
  /\ moves' = moves + 1
  /\ doorLocked' = TRUE
  /\ UNCHANGED <<doorCommandSeq, wait, sending, door>>

\* The door answers, with or without the seq and the state.
DoorExecutes(p, ok) ==
  /\ p \in inbox
  /\ inbox' = inbox \ {p}
  /\ bolt' = IF ok THEN ~p.unlock ELSE bolt
  /\ \E s \in {0, p.seq},
        says \in {{}} \cup (IF ok THEN {{bolt'}} ELSE {}) :
       acks' = acks \cup {[seq |-> s, ok |-> ok, says |-> says]}
  /\ UNCHANGED <<doorCommandSeq, wait, doorLocked, sending, reports, moves>>

DoorReports ==
  /\ reports' = reports \cup {bolt}
  /\ UNCHANGED <<doorCommandSeq, wait, doorLocked, sending, inbox, bolt, acks,
                 moves>>

TurnedByHand ==
  /\ moves < MaxMoves
  /\ moves' = moves + 1
  /\ bolt' = ~bolt
  /\ UNCHANGED <<doorCommandSeq, wait, doorLocked, sending, inbox, acks,
                 reports>>

Next ==
  \/ \E by \in Sources, unlock \in BOOLEAN : SendDoorControl(by, unlock)
  \/ \E c \in sending : Transmit(c) \/ SendOk(c) \/ SendFails(c)
  \/ AckTimeout
  \/ \E a \in acks : HandleDoorAck(a)
  \/ \E r \in reports : ApplyLightStatus(r) \/ ApplySensorData(r)
  \/ LeaveHome
  \/ \E p \in inbox, ok \in BOOLEAN : DoorExecutes(p, ok)
  \/ DoorReports
  \/ TurnedByHand

Spec == Init /\ [][Next]_vars

\* The timer fires; sends settle, as every transport but one has a timeout;
\* the door reports its state periodically and reports arrive.
Fairness ==
  /\ WF_vars(AckTimeout)
  /\ WF_vars(\E c \in sending : SendOk(c) \/ SendFails(c))
  /\ WF_vars(DoorReports)
  /\ \A r \in BOOLEAN : WF_vars(ApplyLightStatus(r) \/ ApplySensorData(r))

FairSpec == Spec /\ Fairness

-----------------------------------------------------------------------------
(* Properties *)

\* The variables keep their types, and every seq that is waited for, timed,
\* being sent or under way is one that sendDoorControl has issued.
TypeOK ==
  /\ doorCommandSeq \in 0..MaxSeq
  /\ doorPending \in BOOLEAN /\ doorPendingTargetLocked \in BOOLEAN
  /\ doorPendingSeq \in 0..doorCommandSeq /\ doorAckTimer \in 0..doorCommandSeq
  /\ doorLocked \in BOOLEAN /\ bolt \in BOOLEAN
  /\ sending \subseteq Command /\ inbox \subseteq Packet
  /\ acks \subseteq Ack /\ reports \subseteq BOOLEAN
  /\ \A m \in sending \cup inbox \cup acks : m.seq <= doorCommandSeq
  /\ moves \in 0..MaxMoves

\* The three variables of a wait and its timer agree, although the button,
\* the face recogniser and the cloud overwrite each other's: a command is
\* waited for exactly while the timer of that very command is armed, so no
\* wait lasts for ever and no timer ends the wait of another command.
WaitIsTimed ==
  /\ doorPending <=> doorPendingSeq # 0
  /\ doorAckTimer = doorPendingSeq

\* Whatever the order in which older commands are sent, fail or are
\* acknowledged, the terminal waits for the newest command or for none.
CW == INSTANCE CommandWait
        WITH issued <- doorCommandSeq, waiting <- doorPendingSeq
WaitForNewest == CW!Spec

\* Every wait ends, whether or not the door answers: the buttons come back.
WaitEnds == doorPending ~> ~doorPending

\* Once nobody commands or turns the lock any more, the terminal ends up
\* showing the door's true state, in spite of late acks and reports.
ShownFollowsDoor == <>[](doorLocked = bolt)
=============================================================================
