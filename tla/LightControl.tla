---------------------------- MODULE LightControl ----------------------------
(***************************************************************************)
(* The living-room light as the terminal commands and shows it:            *)
(* sendLightControl with its callers, the pending and in-flight flags, the *)
(* acknowledgement timer and the optimistic display, and the messages of   *)
(* the lamp's node, in entry/src/main/ets/pages/Index.ets.                 *)
(*                                                                         *)
(* Five callers share the flags and clear them by rules of their own: the  *)
(* tap ("ui"), the voice assistant, the cloud poll, the action planner and *)
(* the leave-home scene.  hasLivingLightPendingTarget always equals        *)
(* livingLightPending and is left out.                                     *)
(***************************************************************************)
EXTENDS Naturals

CONSTANTS
  Sources,    \* the callers that are used, out of AllSources
  MaxSeq,     \* bound of the model: commands ever issued
  MaxMoves    \* bound of the model: how often a command is sent again or
              \* someone uses the wall switch

AllSources == {"ui", "voice", "cloud", "planner", "scene"}

ASSUME LightControlAssumption ==
  Sources \subseteq AllSources /\ MaxSeq \in Nat /\ MaxMoves \in Nat

VARIABLES
  ledCommandSeq,              \* seq of the newest command
  livingLightPending,
  ledPendingSeq,              \* seq of the last command sent, or 0
  livingLightPendingTargetOn,
  controlTimer,               \* livingLightControlTimerId # -1
  livingLightControlInFlight, \* the callers' lock
  livingLightOn,              \* what the terminal shows
  optimistic,                 \* now < livingLightOptimisticUntil
  hasLiveLedStatus,
  sending,                    \* commands whose sendEncryptedCommand waits
  answering,                  \* executeCloudCommand waits in ackCloudCommand
  inbox, lamp, acks, reports, \* environment: packets, the lamp, its messages
  moves                       \* commands sent again, uses of the wall switch

pending == <<livingLightPending, ledPendingSeq, livingLightPendingTargetOn>>
shown == <<livingLightOn, optimistic, hasLiveLedStatus>>
light == <<inbox, lamp, acks, reports, moves>>
vars == <<ledCommandSeq, pending, controlTimer, livingLightControlInFlight,
          shown, sending, answering, light>>

Command == [seq : 1..MaxSeq, on : BOOLEAN, by : Sources, sent : BOOLEAN]
Packet == [seq : 1..MaxSeq, on : BOOLEAN]
\* says is the field val, {} without it; a refusal's val is not read.
Ack == [seq : 0..MaxSeq, ok : BOOLEAN, says : {{}, {TRUE}, {FALSE}}]

Init ==
  /\ ledCommandSeq = 0
  /\ livingLightPending = FALSE /\ ledPendingSeq = 0
  /\ livingLightPendingTargetOn = TRUE
  /\ controlTimer = FALSE /\ livingLightControlInFlight = FALSE
  /\ livingLightOn = FALSE /\ optimistic = FALSE /\ hasLiveLedStatus = FALSE
  /\ sending = {} /\ answering = FALSE
  /\ inbox = {} /\ acks = {} /\ reports = {} /\ lamp \in BOOLEAN
  /\ moves = 0

-----------------------------------------------------------------------------
(* The callers of sendLightControl *)

CloudAtWork == answering \/ \E c \in sending : c.by = "cloud"

\* The tests that each caller makes first.  The tap clears a lock older than
\* three seconds, which the cloud or the assistant may hold.
MayCommand(by, on) ==
  CASE by = "ui"    -> ~livingLightPending /\ on = ~livingLightOn
    [] by = "voice" -> /\ ~livingLightPending /\ ~livingLightControlInFlight
                       /\ on = ~livingLightOn
    [] by = "cloud" -> ~livingLightControlInFlight /\ ~CloudAtWork
    [] by = "scene" -> ~on
    [] OTHER        -> TRUE

\* Mutant of TakeLock: the assistant sets its timer when the send is over,
\* as the tap does.
TakeLockOnly(by) ==
  /\ livingLightControlInFlight' =
       (livingLightControlInFlight \/ by \in {"ui", "voice", "cloud"})
  /\ controlTimer' = (controlTimer \/ by = "cloud")
  /\ optimistic' = (optimistic /\ by \notin {"ui", "cloud"})

\* What the caller sets around the call: its lock and the timer; the tap sets
\* the timer only once the command has been sent.
TakeLock(by) ==
  /\ livingLightControlInFlight' =
       (livingLightControlInFlight \/ by \in {"ui", "voice", "cloud"})
  /\ controlTimer' = (controlTimer \/ by \in {"voice", "cloud"})
  /\ optimistic' = (optimistic /\ by \notin {"ui", "cloud"})

SendLightControl(by, on) ==
  /\ MayCommand(by, on) /\ ledCommandSeq < MaxSeq
  /\ TakeLock(by)
  /\ ledCommandSeq' = ledCommandSeq + 1
  /\ livingLightPending' = TRUE
  /\ ledPendingSeq' = ledCommandSeq'
  /\ livingLightPendingTargetOn' = on
  /\ livingLightOn' = (livingLightOn /\ by # "scene")
  /\ sending' = sending \cup {[seq |-> ledCommandSeq', on |-> on, by |-> by,
                               sent |-> FALSE]}
  /\ UNCHANGED <<hasLiveLedStatus, answering, light>>

\* A transport that then fails or times out may have sent the packet all the
\* same, and the next one sends it again.
Transmit(c) ==
  /\ c \in sending
  /\ c.sent => moves < MaxMoves
  /\ moves' = IF c.sent THEN moves + 1 ELSE moves
  /\ sending' = (sending \ {c}) \cup {[c EXCEPT !.sent = TRUE]}
  /\ inbox' = inbox \cup {[seq |-> c.seq, on |-> c.on]}
  /\ UNCHANGED <<ledCommandSeq, pending, controlTimer,
                 livingLightControlInFlight, shown, answering, lamp, acks,
                 reports>>

\* Mutant of SendOk: the wait begins when the command has been sent.
SendOkWaits(c) ==
  /\ c \in sending /\ c.sent
  /\ sending' = sending \ {c}
  /\ livingLightOn' = c.on /\ livingLightPending' = TRUE
  /\ ledPendingSeq' = c.seq /\ livingLightPendingTargetOn' = c.on
  /\ controlTimer' = TRUE
  /\ UNCHANGED <<ledCommandSeq, livingLightControlInFlight, optimistic,
                 hasLiveLedStatus, answering, light>>

\* The send's success is shown before the lamp has said anything, and even
\* if it has refused meanwhile.
SendOk(c) ==
  /\ c \in sending /\ c.sent
  /\ sending' = sending \ {c}
  /\ livingLightOn' = c.on
  /\ optimistic' = TRUE
  /\ controlTimer' = (controlTimer \/ (c.by = "ui" /\ livingLightPending))
  /\ livingLightControlInFlight' =
       (livingLightControlInFlight /\ c.by \notin {"ui", "voice"})
  /\ answering' = (answering \/ c.by = "cloud")
  /\ UNCHANGED <<ledCommandSeq, pending, hasLiveLedStatus, light>>

\* Mutant of SendFails: no finally, no catch of the caller's own.
SendFailsBare(c) ==
  /\ c \in sending
  /\ sending' = sending \ {c}
  /\ livingLightPending' = FALSE
  /\ UNCHANGED <<ledCommandSeq, ledPendingSeq, livingLightPendingTargetOn,
                 controlTimer, livingLightControlInFlight, shown, answering,
                 light>>

\* sendLightControl's catch ends whatever is pending; then the caller's own
\* catch and finally run.  The cloud's may first report the failure.
SendFails(c) ==
  /\ c \in sending
  /\ sending' = sending \ {c}
  /\ livingLightPending' = FALSE
  /\ controlTimer' = (controlTimer /\ c.by \notin {"ui", "voice"})
  /\ optimistic' = (optimistic /\ c.by # "ui")
  /\ \E tell \in {FALSE} \cup (IF c.by = "cloud" THEN {TRUE} ELSE {}) :
       /\ answering' = (answering \/ tell)
       /\ livingLightControlInFlight' =
            (livingLightControlInFlight
               /\ (tell \/ c.by \notin {"ui", "voice", "cloud"}))
  /\ UNCHANGED <<ledCommandSeq, ledPendingSeq, livingLightPendingTargetOn,
                 livingLightOn, hasLiveLedStatus, light>>

\* executeCloudCommand's finally, once the cloud has been answered.
CloudFinally ==
  /\ answering /\ answering' = FALSE
  /\ livingLightControlInFlight' =
       (livingLightControlInFlight /\ livingLightPending)
  /\ UNCHANGED <<ledCommandSeq, pending, controlTimer, shown, sending, light>>

\* A light command of the cloud that is not carried out, for another lamp or
\* with the light busy or the bridge away: it ends in the same finally, and may
\* release a lock that it does not hold.
CloudReturns ==
  /\ "cloud" \in Sources /\ ~CloudAtWork
  /\ livingLightControlInFlight' =
       (livingLightControlInFlight /\ livingLightPending)
  /\ UNCHANGED <<ledCommandSeq, pending, controlTimer, shown, sending,
                 answering, light>>

-----------------------------------------------------------------------------
(* Timers *)

\* livingLightPending and all that is cleared with it, save the display.
Confirmed ==
  /\ livingLightPending' = FALSE /\ ledPendingSeq' = 0
  /\ livingLightControlInFlight' = FALSE
  /\ controlTimer' = FALSE
  /\ UNCHANGED livingLightPendingTargetOn

\* Mutant of ControlTimeout: the handle is cleared and the wait is not.
ControlTimeoutForgets ==
  /\ controlTimer /\ controlTimer' = FALSE
  /\ UNCHANGED <<ledCommandSeq, pending, livingLightControlInFlight, shown,
                 sending, answering, light>>

\* startLivingLightControlTimer's callback, 12 s later; it does not ask for
\* which command the timer was set.
ControlTimeout ==
  /\ controlTimer
  /\ IF livingLightPending THEN Confirmed
     ELSE controlTimer' = FALSE /\ UNCHANGED <<pending, livingLightControlInFlight>>
  /\ UNCHANGED <<ledCommandSeq, shown, sending, answering, light>>

\* LED_OPTIMISTIC_HOLD_MS have passed.
HoldEnds ==
  /\ optimistic /\ optimistic' = FALSE
  /\ UNCHANGED <<ledCommandSeq, pending, controlTimer,
                 livingLightControlInFlight, livingLightOn, hasLiveLedStatus,
                 sending, answering, light>>

-----------------------------------------------------------------------------
(* Messages of the lamp *)

\* The led branch of handleDeviceAck.
HandleLedAck(a) ==
  /\ a \in acks
  /\ acks' = acks \ {a}
  /\ LET stale == livingLightPending /\ a.seq > 0 /\ a.seq # ledPendingSeq
         read  == ~stale /\ a.ok /\ a.says # {}
         mine  == ~stale /\ a.seq \in {0, ledPendingSeq}
     IN  /\ livingLightOn' = IF read THEN TRUE \in a.says ELSE livingLightOn
         /\ hasLiveLedStatus' = (hasLiveLedStatus \/ read)
         /\ optimistic' = (optimistic /\ ~read /\ ~mine)
         /\ IF mine THEN Confirmed
            ELSE UNCHANGED <<pending, controlTimer, livingLightControlInFlight>>
  /\ UNCHANGED <<ledCommandSeq, sending, answering, inbox, lamp, reports, moves>>

Contradicts(on) == livingLightPending /\ on # livingLightPendingTargetOn

\* applyLightStatus for a report with the field led: what contradicts the
\* pending command is ignored, anything else is shown.
ApplyLed(on) ==
  /\ on \in reports
  /\ reports' = reports \ {on}
  /\ hasLiveLedStatus' = TRUE
  /\ IF Contradicts(on)
     THEN UNCHANGED <<pending, controlTimer, livingLightControlInFlight,
                      livingLightOn, optimistic>>
     ELSE /\ livingLightOn' = on /\ optimistic' = FALSE
          /\ IF livingLightPending THEN Confirmed
             ELSE UNCHANGED <<pending, controlTimer, livingLightControlInFlight>>
  /\ UNCHANGED <<ledCommandSeq, sending, answering, inbox, lamp, acks, moves>>

\* The same for the field living, which the optimistic display outlives.
ShowLiving(on) ==
  /\ IF livingLightPending
     THEN IF Contradicts(on)
          THEN UNCHANGED <<pending, controlTimer, livingLightControlInFlight,
                           livingLightOn, optimistic>>
          ELSE Confirmed /\ livingLightOn' = on /\ optimistic' = FALSE
     ELSE /\ livingLightOn' = IF optimistic THEN livingLightOn ELSE on
          /\ UNCHANGED <<pending, controlTimer, livingLightControlInFlight,
                         optimistic>>
  /\ UNCHANGED <<ledCommandSeq, hasLiveLedStatus, sending, answering, inbox,
                 lamp, acks, moves>>

ApplyLiving(on) == on \in reports /\ reports' = reports \ {on} /\ ShowLiving(on)

\* What the bridge remembers, of whatever age, comes with every poll and
\* every message of the bridge; it counts until the lamp itself has reported,
\* and for a pending command.
ApplyCached(on) ==
  /\ livingLightPending \/ ~hasLiveLedStatus
  /\ ShowLiving(on)
  /\ UNCHANGED reports

-----------------------------------------------------------------------------
(* The lamp *)

LampExecutes(p, ok) ==
  /\ p \in inbox
  /\ inbox' = inbox \ {p}
  /\ lamp' = IF ok THEN p.on ELSE lamp
  /\ \E says \in {{}} \cup (IF ok THEN {{lamp'}} ELSE {}) :
       acks' = acks \cup {[seq |-> p.seq, ok |-> ok, says |-> says]}
  /\ UNCHANGED <<ledCommandSeq, pending, controlTimer,
                 livingLightControlInFlight, shown, sending, answering,
                 reports, moves>>

LampReports ==
  /\ reports' = reports \cup {lamp}
  /\ UNCHANGED <<ledCommandSeq, pending, controlTimer,
                 livingLightControlInFlight, shown, sending, answering, inbox,
                 lamp, acks, moves>>

WallSwitch ==
  /\ moves < MaxMoves
  /\ moves' = moves + 1
  /\ lamp' = ~lamp
  /\ UNCHANGED <<ledCommandSeq, pending, controlTimer,
                 livingLightControlInFlight, shown, sending, answering, inbox,
                 acks, reports>>

Next ==
  \/ \E by \in Sources, on \in BOOLEAN : SendLightControl(by, on)
  \/ \E c \in sending : Transmit(c) \/ SendOk(c) \/ SendFails(c)
  \/ CloudFinally \/ CloudReturns \/ ControlTimeout \/ HoldEnds
  \/ \E a \in acks : HandleLedAck(a)
  \/ \E r \in reports : ApplyLed(r) \/ ApplyLiving(r)
  \/ \E on \in BOOLEAN : ApplyCached(on)
  \/ \E p \in inbox, ok \in BOOLEAN : LampExecutes(p, ok)
  \/ LampReports \/ WallSwitch

Spec == Init /\ [][Next]_vars

\* Timers fire; sends and answers to the cloud settle, as they have timeouts;
\* the lamp keeps reporting its led field, and reports arrive.
Fairness ==
  /\ WF_vars(ControlTimeout) /\ WF_vars(HoldEnds) /\ WF_vars(CloudFinally)
  /\ WF_vars(\E c \in sending : SendOk(c) \/ SendFails(c))
  /\ WF_vars(LampReports)
  /\ \A r \in BOOLEAN : SF_vars(ApplyLed(r))

FairSpec == Spec /\ Fairness

-----------------------------------------------------------------------------
(* Properties *)

\* The variables keep their types, and every seq in use is one that
\* sendLightControl has issued.
TypeOK ==
  /\ ledCommandSeq \in 0..MaxSeq /\ ledPendingSeq \in 0..ledCommandSeq
  /\ livingLightPending \in BOOLEAN /\ livingLightPendingTargetOn \in BOOLEAN
  /\ controlTimer \in BOOLEAN /\ livingLightControlInFlight \in BOOLEAN
  /\ livingLightOn \in BOOLEAN /\ optimistic \in BOOLEAN
  /\ hasLiveLedStatus \in BOOLEAN /\ answering \in BOOLEAN
  /\ sending \subseteq Command /\ inbox \subseteq Packet /\ acks \subseteq Ack
  /\ \A m \in sending \cup inbox \cup acks : m.seq <= ledCommandSeq
  /\ lamp \in BOOLEAN /\ reports \subseteq BOOLEAN /\ moves \in 0..MaxMoves

\* Every pending command of the tap, the assistant or the cloud has a timer,
\* or is a tap's that is still being sent: the five rules by which callers
\* clear each other's flags and timer leave none to wait for ever.
PendingIsTimed ==
  livingLightPending =>
    controlTimer \/ \E c \in sending : c.by = "ui"

\* The lock that refuses the assistant and the cloud is never left behind:
\* someone is sending, the cloud is being answered, or a command is pending.
LockIsHeld ==
  livingLightControlInFlight =>
    livingLightPending \/ answering \/ \E c \in sending : c.by \in {"ui", "voice", "cloud"}

\* Whatever the order in which older commands are sent, fail or are
\* acknowledged, the terminal waits for the newest command or for none.
CW == INSTANCE CommandWait
        WITH issued <- ledCommandSeq,
             waiting <- IF livingLightPending THEN ledPendingSeq ELSE 0
WaitForNewest == CW!Spec

\* Every wait ends, whether or not the lamp answers: taps count again.
WaitEnds == []<>~livingLightPending

\* docs/禹家终端详细使用说明.md:116: once nobody commands or switches the
\* lamp any more, the terminal ends up showing its true state, in spite of
\* the optimistic display and of reports that are ignored while it waits.
IconFollowsLamp == <>[](livingLightOn = lamp)
=============================================================================
