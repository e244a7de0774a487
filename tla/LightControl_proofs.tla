------------------------ MODULE LightControl_proofs ------------------------
(***************************************************************************)
(* Theorems about LightControl, for every set of callers and every number  *)
(* of commands; that no wait and no lock is left behind needs that the     *)
(* planner and the leave-home scene, which set no timer, are not used.     *)
(***************************************************************************)
EXTENDS LightControl, TLAPS

\* What is waited for, as CommandWait sees it, and the inductive invariant
\* for every set of callers.
Waiting == IF livingLightPending THEN ledPendingSeq ELSE 0

NewestIsWaitedFor == livingLightPending => ledPendingSeq = ledCommandSeq

IInv == TypeOK /\ NewestIsWaitedFor

\* One operation on the variables of the wait: a new command, its end, which
\* may forget the seq or not, or nothing.
Begun == /\ ledCommandSeq < MaxSeq /\ ledCommandSeq' = ledCommandSeq + 1
         /\ livingLightPending' = TRUE /\ ledPendingSeq' = ledCommandSeq'
         /\ livingLightPendingTargetOn' \in BOOLEAN
Ended == /\ livingLightPending' = FALSE /\ ledPendingSeq' \in {0, ledPendingSeq}
         /\ UNCHANGED <<ledCommandSeq, livingLightPendingTargetOn>>
Kept  == UNCHANGED <<pending, ledCommandSeq>>

\* The steps of the lamp's messages, which set no command under way.
Heard ==
  \/ \E a \in acks : HandleLedAck(a)
  \/ \E r \in reports : ApplyLed(r) \/ ApplyLiving(r)
  \/ \E on \in BOOLEAN : ApplyCached(on)

\* The steps that touch neither the wait nor the messages.
Quiet ==
  \/ \E c \in sending : SendOk(c)
  \/ CloudFinally \/ CloudReturns \/ HoldEnds
  \/ LampReports \/ WallSwitch \/ UNCHANGED vars

\* Every step of the system does one of the three to the wait.
LEMMA StepOfWait ==
  ASSUME [Next]_vars
  PROVE  Begun \/ Ended \/ Kept
<1>1. ASSUME NEW by \in Sources, NEW on \in BOOLEAN, SendLightControl(by, on)
      PROVE  Begun
  BY <1>1 DEF SendLightControl, Begun
<1>2. ASSUME NEW c \in sending, Transmit(c)
      PROVE  Kept
  BY <1>2 DEF Transmit, Kept
<1>3. ASSUME NEW c \in sending, SendFails(c)
      PROVE  Ended
  BY <1>3 DEF SendFails, Ended
<1>4. ASSUME ControlTimeout
      PROVE  Ended \/ Kept
  BY <1>4 DEF ControlTimeout, Confirmed, Ended, Kept
<1>5. ASSUME Heard
      PROVE  Ended \/ Kept
  BY <1>5 DEF Heard, HandleLedAck, ApplyLed, ApplyLiving, ApplyCached,
              ShowLiving, Confirmed, Ended, Kept
<1>6. ASSUME \E p \in inbox, ok \in BOOLEAN : LampExecutes(p, ok)
      PROVE  Kept
  BY <1>6 DEF LampExecutes, Kept
<1>7. ASSUME Quiet
      PROVE  Kept
  BY <1>7 DEF Quiet, SendOk, CloudFinally, CloudReturns, HoldEnds, LampReports,
              WallSwitch, vars, Kept
<1>8. QED
  BY <1>1, <1>2, <1>3, <1>4, <1>5, <1>6, <1>7 DEF Next, Heard, Quiet

\* A step leaves every message in place, removes it, or adds one with a seq
\* that has been issued.
LEMMA StepOfMessages ==
  ASSUME IInv, [Next]_vars
  PROVE  /\ sending' \subseteq Command /\ inbox' \subseteq Packet
         /\ acks' \subseteq Ack
         /\ \A m \in sending' \cup inbox' \cup acks' : m.seq <= ledCommandSeq'
<1> USE LightControlAssumption
<1>0. /\ ledCommandSeq \in 0..MaxSeq /\ lamp \in BOOLEAN
      /\ sending \subseteq Command /\ inbox \subseteq Packet /\ acks \subseteq Ack
      /\ \A m \in sending \cup inbox \cup acks : m.seq <= ledCommandSeq
  BY DEF IInv, TypeOK
<1>1. ASSUME NEW by \in Sources, NEW on \in BOOLEAN, SendLightControl(by, on)
      PROVE  /\ sending' \subseteq Command /\ UNCHANGED <<inbox, acks>>
             /\ ledCommandSeq' = ledCommandSeq + 1
             /\ \A m \in sending' : m.seq <= ledCommandSeq'
  <2> DEFINE new == [seq |-> ledCommandSeq', on |-> on, by |-> by,
                     sent |-> FALSE]
  <2>1. new \in Command /\ new.seq = ledCommandSeq'
    BY <1>0, <1>1 DEF SendLightControl, Command
  <2>2. sending' = sending \cup {new} /\ UNCHANGED <<inbox, acks>>
        /\ ledCommandSeq' = ledCommandSeq + 1
    BY <1>1 DEF SendLightControl, light
  <2>3. \A m \in sending : m.seq \in Nat
    BY <1>0 DEF Command
  <2>4. \A m \in sending : m.seq <= ledCommandSeq + 1
    BY <1>0, <2>3
  <2>5. new.seq <= ledCommandSeq'
    BY <1>0, <2>1, <2>2
  <2> HIDE DEF new
  <2>6. QED
    BY <1>0, <2>1, <2>2, <2>4, <2>5
<1>2. ASSUME NEW c \in sending, Transmit(c)
      PROVE  /\ sending' \subseteq Command /\ inbox' \subseteq Packet
             /\ UNCHANGED <<acks, ledCommandSeq>>
             /\ \A m \in sending' \cup inbox' : m.seq <= ledCommandSeq
  <2> DEFINE sent == [c EXCEPT !.sent = TRUE]
             packet == [seq |-> c.seq, on |-> c.on]
  <2>1. c \in Command /\ c.seq <= ledCommandSeq
    BY <1>0
  <2>2. sent \in Command /\ sent.seq = c.seq
    BY <2>1 DEF Command
  <2>3. packet \in Packet /\ packet.seq = c.seq
    BY <2>1 DEF Packet, Command
  <2>4. /\ sending' = (sending \ {c}) \cup {sent}
        /\ inbox' = inbox \cup {packet}
        /\ UNCHANGED <<acks, ledCommandSeq>>
    BY <1>2 DEF Transmit
  <2>5. QED
    BY <1>0, <2>1, <2>2, <2>3, <2>4
<1>3. ASSUME NEW p \in inbox, NEW ok \in BOOLEAN, LampExecutes(p, ok)
      PROVE  /\ inbox' \subseteq Packet /\ acks' \subseteq Ack
             /\ UNCHANGED <<sending, ledCommandSeq>>
             /\ \A m \in inbox' \cup acks' : m.seq <= ledCommandSeq
  <2>1. p \in Packet /\ p.seq <= ledCommandSeq
    BY <1>0
  <2>2. p.on \in BOOLEAN /\ p.seq \in 0..MaxSeq
    BY <2>1 DEF Packet
  <2>3. lamp' \in BOOLEAN
    BY <1>0, <1>3, <2>2 DEF LampExecutes
  <2>4. PICK says \in {{}} \cup (IF ok THEN {{lamp'}} ELSE {}) :
          acks' = acks \cup {[seq |-> p.seq, ok |-> ok, says |-> says]}
    BY <1>3 DEF LampExecutes
  <2>5. says \in {{}, {TRUE}, {FALSE}}
    BY <2>3, <2>4
  <2>6. [seq |-> p.seq, ok |-> ok, says |-> says] \in Ack
    BY <2>2, <2>5 DEF Ack
  <2>7. inbox' = inbox \ {p} /\ UNCHANGED <<sending, ledCommandSeq>>
    BY <1>3 DEF LampExecutes
  <2>8. QED
    BY <1>0, <2>1, <2>4, <2>6, <2>7
<1>4. ASSUME Heard \/ Quiet \/ ControlTimeout \/ \E c \in sending : SendFails(c)
      PROVE  /\ sending' \subseteq sending /\ acks' \subseteq acks
             /\ UNCHANGED <<inbox, ledCommandSeq>>
  BY <1>4 DEF Heard, Quiet, ControlTimeout, HandleLedAck, ApplyLed, ApplyLiving,
              ApplyCached, ShowLiving, SendOk, SendFails, CloudFinally,
              CloudReturns, HoldEnds, LampReports, WallSwitch, vars, light
<1>5. \A m \in inbox \cup acks : m.seq \in Nat
  <2>1. \A m \in Packet : m.seq \in Nat
    BY DEF Packet
  <2>2. \A m \in Ack : m.seq \in Nat
    BY DEF Ack
  <2>3. QED
    BY <1>0, <2>1, <2>2
<1>6. CASE \E by \in Sources, on \in BOOLEAN : SendLightControl(by, on)
  <2>1. \A m \in inbox \cup acks : m.seq <= ledCommandSeq + 1
    BY <1>0, <1>5
  <2>2. QED
    BY <1>0, <1>1, <1>6, <2>1
<1>7. CASE \E c \in sending : Transmit(c)
  BY <1>0, <1>2, <1>7
<1>8. CASE \E p \in inbox, ok \in BOOLEAN : LampExecutes(p, ok)
  BY <1>0, <1>3, <1>8
<1>9. CASE Heard \/ Quiet \/ ControlTimeout \/ \E c \in sending : SendFails(c)
  BY <1>0, <1>4, <1>9
<1>10. QED
  BY <1>6, <1>7, <1>8, <1>9 DEF Next, Heard, Quiet

\* The flags, the display and the lamp remain Booleans.
LEMMA StepOfFlags ==
  ASSUME IInv, [Next]_vars
  PROVE  /\ controlTimer' \in BOOLEAN /\ livingLightControlInFlight' \in BOOLEAN
         /\ livingLightOn' \in BOOLEAN /\ optimistic' \in BOOLEAN
         /\ hasLiveLedStatus' \in BOOLEAN /\ answering' \in BOOLEAN
         /\ lamp' \in BOOLEAN /\ reports' \subseteq BOOLEAN
         /\ moves' \in 0..MaxMoves
<1> USE LightControlAssumption
<1>0. /\ controlTimer \in BOOLEAN /\ livingLightControlInFlight \in BOOLEAN
      /\ livingLightOn \in BOOLEAN /\ optimistic \in BOOLEAN
      /\ hasLiveLedStatus \in BOOLEAN /\ answering \in BOOLEAN
      /\ lamp \in BOOLEAN /\ reports \subseteq BOOLEAN /\ moves \in 0..MaxMoves
      /\ sending \subseteq Command /\ inbox \subseteq Packet
  BY DEF IInv, TypeOK
<1>1. ASSUME NEW by \in Sources, NEW on \in BOOLEAN, SendLightControl(by, on)
      PROVE  /\ controlTimer' \in BOOLEAN /\ livingLightControlInFlight' \in BOOLEAN
             /\ livingLightOn' \in BOOLEAN /\ optimistic' \in BOOLEAN
             /\ UNCHANGED <<hasLiveLedStatus, answering, lamp, reports, moves>>
  BY <1>0, <1>1 DEF SendLightControl, TakeLock, light
<1>2. ASSUME NEW c \in sending, SendOk(c) \/ SendFails(c)
      PROVE  /\ controlTimer' \in BOOLEAN /\ livingLightControlInFlight' \in BOOLEAN
             /\ livingLightOn' \in {livingLightOn, c.on} /\ optimistic' \in BOOLEAN
             /\ answering' \in BOOLEAN
             /\ UNCHANGED <<hasLiveLedStatus, lamp, reports, moves>>
  BY <1>0, <1>2 DEF SendOk, SendFails, light
<1>3. \A c \in sending : c.on \in BOOLEAN
  BY <1>0 DEF Command
<1>4. ASSUME NEW a \in acks, HandleLedAck(a)
      PROVE  /\ controlTimer' \in {controlTimer, FALSE}
             /\ livingLightControlInFlight' \in {livingLightControlInFlight, FALSE}
             /\ livingLightOn' \in {livingLightOn, (TRUE \in a.says)}
             /\ optimistic' \in BOOLEAN /\ hasLiveLedStatus' \in BOOLEAN
             /\ UNCHANGED <<answering, lamp, reports, moves>>
  BY <1>0, <1>4 DEF HandleLedAck, Confirmed
<1>5. ASSUME NEW r \in BOOLEAN, ApplyLed(r) \/ ShowLiving(r)
      PROVE  /\ controlTimer' \in {controlTimer, FALSE}
             /\ livingLightControlInFlight' \in {livingLightControlInFlight, FALSE}
             /\ livingLightOn' \in {livingLightOn, r}
             /\ optimistic' \in {optimistic, FALSE}
             /\ hasLiveLedStatus' \in {hasLiveLedStatus, TRUE}
             /\ UNCHANGED <<answering, lamp, moves>>
  BY <1>5 DEF ApplyLed, ShowLiving, Confirmed
<1>6. ASSUME \E r \in reports : ApplyLed(r) \/ ApplyLiving(r)
      PROVE  reports' \subseteq reports /\ \E r \in BOOLEAN : ApplyLed(r) \/ ShowLiving(r)
  BY <1>0, <1>6 DEF ApplyLed, ApplyLiving
<1>7. ASSUME \E on \in BOOLEAN : ApplyCached(on)
      PROVE  UNCHANGED reports /\ \E r \in BOOLEAN : ShowLiving(r)
  BY <1>7 DEF ApplyCached
<1>8. ASSUME NEW p \in inbox, NEW ok \in BOOLEAN, LampExecutes(p, ok)
      PROVE  /\ lamp' \in BOOLEAN
             /\ UNCHANGED <<controlTimer, livingLightControlInFlight, shown,
                            answering, reports, moves>>
  <2>1. p.on \in BOOLEAN
    BY <1>0 DEF Packet
  <2>2. QED
    BY <1>0, <1>8, <2>1 DEF LampExecutes
<1>9. ASSUME \/ CloudFinally \/ CloudReturns \/ ControlTimeout \/ HoldEnds
             \/ LampReports \/ WallSwitch
             \/ \E c \in sending : Transmit(c)
             \/ UNCHANGED vars
      PROVE  /\ controlTimer' \in {controlTimer, FALSE}
             /\ livingLightControlInFlight' \in BOOLEAN
             /\ optimistic' \in {optimistic, FALSE}
             /\ answering' \in {answering, FALSE}
             /\ lamp' \in {lamp, ~lamp}
             /\ reports' \in {reports, reports \cup {lamp}}
             /\ moves' = moves \/ (moves < MaxMoves /\ moves' = moves + 1)
             /\ UNCHANGED <<livingLightOn, hasLiveLedStatus>>
  BY <1>0, <1>9 DEF CloudFinally, CloudReturns, ControlTimeout, Confirmed, HoldEnds,
     LampReports, WallSwitch, Transmit, vars, shown, light
<1>10. CASE \E by \in Sources, on \in BOOLEAN : SendLightControl(by, on)
  BY <1>0, <1>1, <1>10
<1>11. CASE \E c \in sending : SendOk(c) \/ SendFails(c)
  BY <1>0, <1>2, <1>3, <1>11
<1>12. CASE Heard
  <2>1. CASE \E a \in acks : HandleLedAck(a)
    <3>1. PICK a \in acks : HandleLedAck(a)
      BY <2>1
    <3>2. (TRUE \in a.says) \in BOOLEAN
      OBVIOUS
    <3>3. QED
      BY <1>0, <1>4, <3>1, <3>2
  <2>2. CASE \E r \in reports : ApplyLed(r) \/ ApplyLiving(r)
    BY <1>0, <1>5, <1>6, <2>2
  <2>3. CASE \E on \in BOOLEAN : ApplyCached(on)
    BY <1>0, <1>5, <1>7, <2>3
  <2>4. QED
    BY <1>12, <2>1, <2>2, <2>3 DEF Heard
<1>13. CASE \E p \in inbox, ok \in BOOLEAN : LampExecutes(p, ok)
  BY <1>0, <1>8, <1>13 DEF shown
<1>14. moves' = moves \/ (moves < MaxMoves /\ moves' = moves + 1)
         => moves' \in 0..MaxMoves
  BY <1>0
<1>15. CASE \/ CloudFinally \/ CloudReturns \/ ControlTimeout \/ HoldEnds
            \/ LampReports \/ WallSwitch
            \/ \E c \in sending : Transmit(c)
            \/ UNCHANGED vars
  BY <1>0, <1>9, <1>14, <1>15
<1>16. QED
  BY <1>10, <1>11, <1>12, <1>13, <1>15 DEF Next, Heard

-----------------------------------------------------------------------------
(* Types, and which command is waited for *)

LEMMA Initially == Init => IInv
<1> SUFFICES ASSUME Init
             PROVE  IInv
  OBVIOUS
<1>1. /\ ledCommandSeq \in 0..MaxSeq /\ moves \in 0..MaxMoves
      /\ ledPendingSeq \in 0..ledCommandSeq
  BY LightControlAssumption DEF Init
<1>2. /\ livingLightPending \in BOOLEAN /\ livingLightPendingTargetOn \in BOOLEAN
      /\ controlTimer \in BOOLEAN /\ livingLightControlInFlight \in BOOLEAN
      /\ livingLightOn \in BOOLEAN /\ optimistic \in BOOLEAN
      /\ hasLiveLedStatus \in BOOLEAN /\ answering \in BOOLEAN
      /\ lamp \in BOOLEAN
  BY DEF Init
<1>3. sending = {} /\ inbox = {} /\ acks = {} /\ reports = {}
  BY DEF Init
<1>4. NewestIsWaitedFor
  BY DEF Init, NewestIsWaitedFor
<1>5. QED
  BY <1>1, <1>2, <1>3, <1>4 DEF IInv, TypeOK

LEMMA Inductive ==
  ASSUME IInv, [Next]_vars
  PROVE  IInv'
<1>1. /\ ledCommandSeq \in 0..MaxSeq /\ MaxSeq \in Nat
      /\ ledPendingSeq \in 0..ledCommandSeq
      /\ livingLightPending \in BOOLEAN /\ livingLightPendingTargetOn \in BOOLEAN
      /\ NewestIsWaitedFor
  BY LightControlAssumption DEF IInv, TypeOK
<1>2. /\ ledCommandSeq' \in 0..MaxSeq /\ ledPendingSeq' \in 0..ledCommandSeq'
      /\ livingLightPending' \in BOOLEAN /\ livingLightPendingTargetOn' \in BOOLEAN
      /\ NewestIsWaitedFor'
  <2>1. CASE Begun
    <3>1. ledCommandSeq' \in 1..MaxSeq
      BY <1>1, <2>1 DEF Begun
    <3>2. /\ livingLightPending' = TRUE /\ ledPendingSeq' = ledCommandSeq'
          /\ livingLightPendingTargetOn' \in BOOLEAN
      BY <2>1 DEF Begun
    <3>3. NewestIsWaitedFor'
      BY <3>2 DEF NewestIsWaitedFor
    <3>4. QED
      BY <1>1, <3>1, <3>2, <3>3
  <2>2. CASE Ended
    <3>1. /\ livingLightPending' = FALSE /\ ledPendingSeq' \in {0, ledPendingSeq}
          /\ UNCHANGED <<ledCommandSeq, livingLightPendingTargetOn>>
      BY <2>2 DEF Ended
    <3>2. NewestIsWaitedFor'
      BY <3>1 DEF NewestIsWaitedFor
    <3>3. 0 \in 0..ledCommandSeq
      BY <1>1
    <3>4. QED
      BY <1>1, <3>1, <3>2, <3>3
  <2>3. CASE Kept
    <3>1. UNCHANGED <<ledCommandSeq, livingLightPending, ledPendingSeq,
                      livingLightPendingTargetOn>>
      BY <2>3 DEF Kept, pending
    <3>2. NewestIsWaitedFor'
      BY <1>1, <3>1 DEF NewestIsWaitedFor
    <3>3. QED
      BY <1>1, <3>1, <3>2
  <2>4. QED
    BY <2>1, <2>2, <2>3, StepOfWait
<1>3. QED
  BY <1>2, StepOfMessages, StepOfFlags DEF IInv, TypeOK

THEOREM Invariance == Spec => []IInv
<1>1. IInv /\ [Next]_vars => IInv'
  BY Inductive
<1>2. QED
  BY <1>1, Initially, PTL DEF Spec

\* The variables of the light's handlers keep their types, and no seq is
\* waited for or under way that sendLightControl has not issued.
THEOREM TypeCorrect == Spec => []TypeOK
<1>1. IInv => TypeOK
  BY DEF IInv
<1>2. QED
  BY <1>1, Invariance, PTL

\* The terminal waits for the newest light command or for none, whichever of
\* the five callers issue commands: LightControl implements CommandWait.
THEOREM NewestWait == Spec => WaitForNewest
<1>1. Init => CW!Init
  BY DEF Init, CW!Init
<1>2. IInv /\ [Next]_vars => [CW!Next]_CW!vars
  <2> SUFFICES ASSUME IInv, [Next]_vars
               PROVE  CW!Next \/ UNCHANGED CW!vars
    OBVIOUS
  <2>1. CASE Begun
    BY <2>1 DEF Begun, CW!Next, CW!Issue
  <2>2. CASE Ended
    BY <2>2 DEF Ended, CW!Next, CW!End, CW!vars
  <2>3. CASE Kept
    BY <2>3 DEF Kept, pending, CW!vars
  <2>4. QED
    BY <2>1, <2>2, <2>3, StepOfWait
<1>3. QED
  BY <1>1, <1>2, Invariance, PTL DEF Spec, WaitForNewest, CW!Spec

-----------------------------------------------------------------------------
(* No wait and no lock is left behind *)

TimedSources == Sources \subseteq {"ui", "voice", "cloud"}

TapSending == \E c \in sending : c.by = "ui"

HolderSending == \E c \in sending : c.by \in {"ui", "voice", "cloud"}

\* Who is sending after a step: a transmission changes nobody's name.
LEMMA SendersKept ==
  ASSUME IInv, NEW c \in sending, Transmit(c)
  PROVE  (TapSending => TapSending') /\ (HolderSending => HolderSending')
<1> DEFINE sent == [c EXCEPT !.sent = TRUE]
<1>1. c \in Command
  BY DEF IInv, TypeOK
<1>2. sent.by = c.by
  BY <1>1 DEF Command
<1>3. sending' = (sending \ {c}) \cup {sent}
  BY DEF Transmit
<1> HIDE DEF sent
<1>4. QED
  BY <1>2, <1>3 DEF TapSending, HolderSending

LEMMA TimedStep ==
  ASSUME IInv, TimedSources, PendingIsTimed, [Next]_vars
  PROVE  PendingIsTimed'
<1>0. /\ livingLightPending => controlTimer \/ TapSending
      /\ controlTimer \in BOOLEAN
  BY DEF PendingIsTimed, TapSending, IInv, TypeOK
<1>1. ASSUME NEW by \in Sources, NEW on \in BOOLEAN, SendLightControl(by, on)
      PROVE  controlTimer' \/ TapSending'
  <2> DEFINE new == [seq |-> ledCommandSeq', on |-> on, by |-> by,
                     sent |-> FALSE]
  <2>1. CASE by = "ui"
    <3>1. new \in sending' /\ new.by = "ui"
      BY <1>1, <2>1 DEF SendLightControl
    <3>2. QED
      BY <3>1 DEF TapSending
  <2>2. CASE by \in {"voice", "cloud"}
    BY <1>1, <2>2 DEF SendLightControl, TakeLock
  <2>3. QED
    BY <2>1, <2>2 DEF TimedSources
<1>2. ASSUME NEW c \in sending, Transmit(c)
      PROVE  UNCHANGED <<livingLightPending, controlTimer>>
             /\ (TapSending => TapSending')
  BY <1>2, SendersKept DEF Transmit, pending
<1>3. ASSUME NEW c \in sending, SendOk(c)
      PROVE  /\ UNCHANGED livingLightPending
             /\ livingLightPending => controlTimer' \/ TapSending'
  BY <1>0, <1>3 DEF SendOk, TapSending, pending
<1>4. ASSUME NEW c \in sending, SendFails(c)
      PROVE  livingLightPending' = FALSE
  BY <1>4 DEF SendFails
<1>5. ASSUME ControlTimeout
      PROVE  livingLightPending' = FALSE
  BY <1>5 DEF ControlTimeout, Confirmed, pending, IInv, TypeOK
<1>6. ASSUME Heard
      PROVE  /\ livingLightPending' = FALSE \/ UNCHANGED <<livingLightPending, controlTimer>>
             /\ UNCHANGED sending
  BY <1>6 DEF Heard, HandleLedAck, ApplyLed, ApplyLiving, ApplyCached,
              ShowLiving, Confirmed, pending
<1>7. ASSUME \/ CloudFinally \/ CloudReturns \/ HoldEnds
             \/ \E p \in inbox, ok \in BOOLEAN : LampExecutes(p, ok)
             \/ LampReports \/ WallSwitch \/ UNCHANGED vars
      PROVE  UNCHANGED <<livingLightPending, controlTimer, sending>>
  BY <1>7 DEF CloudFinally, CloudReturns, HoldEnds, LampExecutes, LampReports,
              WallSwitch, vars, pending
<1>8. (livingLightPending' => controlTimer' \/ TapSending') => PendingIsTimed'
  BY DEF PendingIsTimed, TapSending
<1>9. UNCHANGED sending => TapSending' = TapSending
  BY DEF TapSending
<1>10. QED
  BY <1>0, <1>1, <1>2, <1>3, <1>4, <1>5, <1>6, <1>7, <1>8, <1>9, Zenon DEF Next, Heard

\* When the tap, the assistant and the cloud are the only callers, no light
\* command waits without a timer that will end its wait.
THEOREM TimedWait ==
  ASSUME TimedSources
  PROVE  Spec => []PendingIsTimed
<1>1. Init => PendingIsTimed
  BY DEF Init, PendingIsTimed
<1>2. IInv /\ PendingIsTimed /\ [Next]_vars => PendingIsTimed'
  BY TimedStep
<1>3. QED
  BY <1>1, <1>2, Invariance, PTL DEF Spec

LEMMA LockStep ==
  ASSUME IInv, TimedSources, LockIsHeld, [Next]_vars
  PROVE  LockIsHeld'
<1> DEFINE Free == ~livingLightControlInFlight
           Held == livingLightPending \/ answering \/ HolderSending
<1>0. /\ livingLightControlInFlight => Held
      /\ livingLightPending \in BOOLEAN
      /\ \A c \in sending : c.by \in {"ui", "voice", "cloud"}
  <2>1. \A c \in Command : c.by \in Sources
    BY DEF Command
  <2>2. QED
    BY <2>1 DEF LockIsHeld, HolderSending, IInv, TypeOK, TimedSources
<1>1. ASSUME NEW by \in Sources, NEW on \in BOOLEAN, SendLightControl(by, on)
      PROVE  Held'
  BY <1>1 DEF SendLightControl
<1>2. ASSUME NEW c \in sending, Transmit(c)
      PROVE  Free' \/ Held'
  <2>1. UNCHANGED <<livingLightControlInFlight, livingLightPending, answering>>
    BY <1>2 DEF Transmit, pending
  <2>2. HolderSending => HolderSending'
    BY <1>2, SendersKept
  <2>3. QED
    BY <1>0, <2>1, <2>2
<1>3. ASSUME NEW c \in sending, SendOk(c)
      PROVE  Free' \/ Held'
  <2>1. CASE c.by = "cloud"
    BY <1>3, <2>1 DEF SendOk
  <2>2. CASE c.by \in {"ui", "voice"}
    BY <1>3, <2>2 DEF SendOk
  <2>3. QED
    BY <1>0, <2>1, <2>2
<1>4. ASSUME NEW c \in sending, SendFails(c)
      PROVE  Free' \/ Held'
  BY <1>0, <1>4 DEF SendFails
<1>5. ASSUME ControlTimeout \/ Heard
      PROVE  \/ Free'
             \/ UNCHANGED <<livingLightControlInFlight, livingLightPending,
                            answering, sending>>
  BY <1>5 DEF ControlTimeout, Heard, HandleLedAck, ApplyLed, ApplyLiving,
              ApplyCached, ShowLiving, Confirmed, pending
<1>6. ASSUME CloudFinally \/ CloudReturns
      PROVE  Free' \/ Held'
  <2>1. /\ livingLightControlInFlight' =
             (livingLightControlInFlight /\ livingLightPending)
        /\ livingLightPending' = livingLightPending
    BY <1>6 DEF CloudFinally, CloudReturns, pending
  <2>2. QED
    BY <1>0, <2>1, Zenon
<1>7. ASSUME \/ HoldEnds
             \/ \E p \in inbox, ok \in BOOLEAN : LampExecutes(p, ok)
             \/ LampReports \/ WallSwitch \/ UNCHANGED vars
      PROVE  UNCHANGED <<livingLightControlInFlight, livingLightPending,
                         answering, sending>>
  BY <1>7 DEF HoldEnds, LampExecutes, LampReports, WallSwitch, vars, pending
<1>8. ASSUME UNCHANGED <<livingLightControlInFlight, livingLightPending,
                         answering, sending>>
      PROVE  Free' \/ Held'
  BY <1>0, <1>8 DEF HolderSending
<1>9. Free' \/ Held' => LockIsHeld'
  BY DEF LockIsHeld, HolderSending
<1> HIDE DEF Free, Held
<1>10. QED
  BY <1>1, <1>2, <1>3, <1>4, <1>5, <1>6, <1>7, <1>8, <1>9 DEF Next, Heard, Free

\* Under the same condition the lock that the callers share is never left
\* behind: whoever finds it taken finds work that will release it.
THEOREM LockReleased ==
  ASSUME TimedSources
  PROVE  Spec => []LockIsHeld
<1>1. Init => LockIsHeld
  BY DEF Init, LockIsHeld
<1>2. IInv /\ LockIsHeld /\ [Next]_vars => LockIsHeld'
  BY LockStep
<1>3. QED
  BY <1>1, <1>2, Invariance, PTL DEF Spec
=============================================================================
