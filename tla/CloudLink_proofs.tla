-------------------------- MODULE CloudLink_proofs --------------------------
(***************************************************************************)
(* What holds of the cloud link whatever the number of packets: its types; *)
(* no queued alarm or state is forgotten; a post is executed once; a       *)
(* command that was acknowledged is not carried out again; a request goes  *)
(* only over a socket that the broker has subscribed; and whoever has the  *)
(* turn can come to its end.                                               *)
(*                                                                         *)
(* All of them come from one inductive invariant, LinkInv; the last needs  *)
(* EndInv besides.                                                         *)
(***************************************************************************)
EXTENDS CloudLink, TLAPS

\* What travels: a request, and a request on the wire with its answer.
Bodies == [from : Posters \cup {"hello"}, packet : Nat,
           says : {"packet", "poll", "ack"}, mine : BOOLEAN]
Sent == [body : Bodies, answer : Answers \cup {"none"}]

Given == {"ok", "command"}  \* the answers with which a post succeeds

Wire == Sent \cup {Nothing}
Calls == [at : Waits \cup {"idle", "closing", "opening", "returned", "threw"},
          sent : BOOLEAN, wait : {"open", "done", "failed"},
          answer : Answers \cup {"none"}, body : Bodies \cup {"nothing"}]

ReportTypes ==
    /\ inFlight \in [Reporters -> BOOLEAN]
    /\ slot \in [Slots -> [issued : Nat, pending : Nat, posting : Nat, retry : BOOLEAN]]
    /\ slot["alarm"].issued + slot["actuator"].issued <= MaxPackets
    /\ command \in [at : {"idle", "poll", "carry", "yes", "unsupported", "no"},
                    acked : BOOLEAN]
    /\ post \in [Posters -> {"none", "queued", "running"}]

MqttTypes ==
    /\ socket \in {"none", "new", "connack", "suback"} /\ connected \in BOOLEAN
    /\ call \in Calls
    /\ wire \in [now : Wire, late : Wire]

LinkTypes ==
    /\ turn \in Posters \cup {"none"} /\ session \in {"none", "good", "stale"}
    /\ attempt \in 1..2 /\ past \in [executed : Nat, mismatched : 0..1]
    /\ cloud \in [stored : [Slots -> Nat], waiting : BOOLEAN]

\* The socket of a client that is connected, or whose SUBACK has come, is the
\* subscribed one or none; a client that connects is not connected.
SocketInv ==
    /\ connected => socket \in {"none", "suback"}
    /\ call.at \in {"closing", "opening", "connack", "suback"} => ~connected
    /\ call.at = "suback" /\ call.wait = "done" => socket \in {"none", "suback"}

\* The call under way is that of the poster who has the turn: its hello or its
\* request; a request is on the wire from its publication to its answer.
CallInv ==
    /\ turn = "none" => call = Idle /\ past = Fresh
    /\ turn # "none" => call.at # "idle" /\ call.body \in {Hello, Request(turn)}
    /\ wire.now # Nothing =>
         /\ call.at = "answer" /\ call.wait # "done" /\ wire.now.body = call.body
    /\ call.answer # "none" =>
         call.at = "returned" \/ (call.at = "answer" /\ call.wait = "done")
    /\ wire.late # Nothing =>
         /\ wire.late.body.from # "hello"
         /\ wire.late.body.mine => call.at = "threw" /\ call.body.from # "hello"

\* A post that runs has the turn, and whoever waits for one has a post.
PostInv ==
    /\ \A p \in Posters : post[p] = "running" <=> turn = p
    /\ \A r \in Reporters : post[r] # "none" <=> inFlight[r]
    /\ post["command"] # "none" <=> command.at \notin {"idle", "carry"}
    /\ \A r, q \in Reporters : inFlight[r] /\ inFlight[q] => r = q

\* What the cloud has stored of a slot: what was issued, unless the slot still
\* has a packet for it, and at least what it has answered for.
SlotInv ==
    \A s \in Slots :
      /\ cloud.stored[s] <= slot[s].issued /\ slot[s].posting <= slot[s].issued
      /\ IF slot[s].pending = 0 THEN cloud.stored[s] = slot[s].issued
         ELSE slot[s].pending = slot[s].issued /\ (inFlight[s] \/ slot[s].retry)
      /\ wire.now # Nothing /\ wire.now.answer \in Given /\ wire.now.body.from = s
           => wire.now.body.packet <= cloud.stored[s]
      /\ call.answer \in Given /\ call.body.from = s
           => call.body.packet <= cloud.stored[s]
      /\ wire.late # Nothing /\ wire.late.body.from = s
           => wire.late.body.packet <= slot[s].issued

\* The post under way may still be executed: its request is not sent yet, is on
\* the wire unanswered, or was refused for a lost session and will be repeated.
Unspent ==
    \/ call.at \in {"closing", "opening", "connack", "suback"}
    \/ call.at # "idle" /\ call.body.from = "hello"
    \/ wire.now # Nothing /\ wire.now.answer \in {"none", "stale"}
    \/ wire.late # Nothing /\ wire.late.body.mine /\ wire.late.answer = "none"
    \/ call.answer = "stale"

OnceInv ==
    /\ past.executed <= 1 + past.mismatched
    /\ Unspent => past.executed <= past.mismatched
    /\ attempt = 1 => past.mismatched = 0

\* The cloud hands out a command only as long as no acknowledgement came.
AckInv ==
    /\ command.at = "carry" => ~command.acked
    /\ command.acked => ~cloud.waiting
    /\ wire.now # Nothing =>
         /\ wire.now.answer = "command" => ~command.acked
         /\ wire.now.answer \in Given /\ wire.now.body.says = "ack" => ~cloud.waiting
    /\ call.answer = "command" => ~command.acked
    /\ call.answer \in Given /\ call.body.says = "ack" => ~cloud.waiting

LinkInv ==
    /\ ReportTypes /\ MqttTypes /\ LinkTypes
    /\ SocketInv /\ CallInv /\ PostInv /\ SlotInv /\ OnceInv /\ AckInv

-----------------------------------------------------------------------------
(* The types *)

LEMMA InitTypes == Init => ReportTypes /\ MqttTypes /\ LinkTypes
<1>1. Init => ReportTypes
  <2>1. 0 + 0 <= MaxPackets
    BY CloudBounds
  <2> QED
    BY <2>1 DEF Init, ReportsInit, ReportTypes, Slots
<1>2. Init => MqttTypes
  <2>1. Idle \in Calls /\ Nothing \in Wire
    BY DEF Idle, Calls, Wire
  <2>2. [now |-> Nothing, late |-> Nothing] \in [now : Wire, late : Wire]
    BY <2>1
  <2>3. Init => call = Idle /\ wire = [now |-> Nothing, late |-> Nothing]
                /\ socket = "none" /\ connected = FALSE
    BY DEF Init, MqttInit
  <2> QED
    BY <2>1, <2>2, <2>3 DEF MqttTypes
<1>3. Init => LinkTypes
  BY DEF Init, LinkTypes, Fresh
<1> QED
  BY <1>1, <1>2, <1>3

LEMMA NamesAre ==
    /\ "alarm" \in Slots /\ "actuator" \in Slots /\ Slots \subseteq Reporters
    /\ "report" \in Reporters /\ "report" \notin Slots
    /\ Reporters \subseteq Posters /\ "command" \in Posters /\ "command" \notin Reporters
    /\ "none" \notin Posters /\ "hello" \notin Posters
BY DEF Slots, Reporters, Posters

\* Requests that are over stay well-formed.
LEMMA RetiredType ==
    ASSUME MqttTypes
    PROVE  Retired \in [now : Wire, late : Wire]
<1>1. wire.now \in Wire /\ wire.late \in Wire /\ Nothing \in Wire
  BY DEF MqttTypes, Wire
<1> QED
  BY <1>1 DEF Retired

\* A request that fails leaves well-formed variables.
LEMMA ThrowType ==
    ASSUME MqttTypes, Throw, UNCHANGED <<socket, connected>>
    PROVE  MqttTypes'
<1>1. call'.body = call.body /\ wire' \in [now : Wire, late : Wire]
  BY RetiredType DEF Throw, Idle
<1>2. call.body \in Bodies \cup {"nothing"}
  BY DEF MqttTypes, Calls
<1>3. call' \in Calls
  BY <1>2 DEF Throw, Idle, Calls
<1> QED
  BY <1>1, <1>3 DEF MqttTypes

LEMMA PublishType ==
    ASSUME MqttTypes, NEW b \in Bodies, Publish(b), UNCHANGED socket, connected' \in BOOLEAN
    PROVE  MqttTypes'
<1>1. CASE socket = "none"
  <2>1. wire' \in [now : Wire, late : Wire]
    BY <1>1, RetiredType DEF Publish
  <2>2. call' \in Calls
    BY <1>1 DEF Publish, Idle, Calls
  <2> QED
    BY <2>1, <2>2 DEF MqttTypes
<1>2. CASE socket # "none"
  <2>1. [body |-> b, answer |-> "none"] \in Wire
    BY DEF Wire, Sent
  <2>2. wire' \in [now : Wire, late : Wire]
    BY <1>2, <2>1 DEF Publish, MqttTypes
  <2>3. call' = [at |-> "answer", sent |-> FALSE, wait |-> "open", answer |-> "none", body |-> b]
    BY <1>2 DEF Publish, Waiting
  <2>4. call' \in Calls
    BY <2>3 DEF Waits, Calls
  <2> QED
    BY <2>2, <2>4 DEF MqttTypes
<1> QED
  BY <1>1, <1>2

LEMMA StartType ==
    ASSUME MqttTypes, NEW b \in Bodies, StartRequest(b)
    PROVE  MqttTypes'
<1>1. CASE connected /\ socket # "none" /\ Publish(b) /\ UNCHANGED <<socket, connected>>
  BY <1>1, PublishType DEF MqttTypes
<1>2. CASE Abandon /\ call' = [Idle EXCEPT !.at = "closing", !.body = b] /\ UNCHANGED wire
  BY <1>2 DEF MqttTypes, Abandon, Idle, Waits, Calls
<1> QED
  BY <1>1, <1>2 DEF StartRequest

LEMMA RequestType ==
    ASSUME ReportTypes
    PROVE  Hello \in Bodies /\ \A p \in Posters : Request(p) \in Bodies
BY DEF ReportTypes, Hello, Request, Bodies, Posters, Reporters, Slots

LEMMA MqttStepType ==
    ASSUME MqttTypes, MqttNext, call.at = "suback" => call.body \in Bodies
    PROVE  MqttTypes'
<1>1. CASE Throw /\ UNCHANGED <<socket, connected>>
  BY <1>1, ThrowType
<1>0. /\ call \in Calls /\ wire \in [now : Wire, late : Wire]
      /\ call = [at |-> call.at, sent |-> call.sent, wait |-> call.wait,
                 answer |-> call.answer, body |-> call.body]
  BY DEF MqttTypes, Calls
<1>2. CASE OldClosed
  BY <1>2 DEF OldClosed, MqttTypes, Calls
<1>3. ASSUME NEW at \in Waits, call' = Waiting(at, call.body), UNCHANGED <<socket, connected, wire>>
      PROVE  MqttTypes'
  <2>1. Waiting(at, call.body) \in Calls
    BY <1>0 DEF Waiting, Calls
  <2> QED
    BY <1>3, <2>1 DEF MqttTypes
<1>4. CASE SocketOpens
  BY <1>1, <1>3, <1>4 DEF SocketOpens, Waits
<1>5. CASE SendEnds
  <2>1. CASE call' = [call EXCEPT !.sent = TRUE] /\ UNCHANGED <<socket, connected, wire>>
    BY <1>0, <2>1 DEF MqttTypes, Calls
  <2> QED
    BY <1>1, <1>5, <2>1 DEF SendEnds
<1>6. CASE HandleConnack \/ HandleSuback
  <2>1. call' = [call EXCEPT !.wait = "done"] /\ UNCHANGED <<connected, wire>>
    BY <1>6 DEF HandleConnack, HandleSuback
  <2>2. call' \in Calls
    BY <1>0, <2>1 DEF Calls
  <2>3. socket' \in {"connack", "suback"}
    BY <1>6 DEF HandleConnack, HandleSuback
  <2> QED
    BY <2>1, <2>2, <2>3 DEF MqttTypes
<1>7. CASE ConnackTaken
  BY <1>1, <1>3, <1>7 DEF ConnackTaken, Waits
<1>8. CASE SubackTaken
  <2>1. call.body \in Bodies /\ Publish(call.body) /\ connected' = TRUE /\ UNCHANGED socket
    BY <1>8 DEF SubackTaken, Done
  <2> QED
    BY <2>1, PublishType
<1>9. CASE TimesOut
  <2>1. CASE call' = [call EXCEPT !.wait = "failed"] /\ UNCHANGED <<socket, connected, wire>>
    BY <1>0, <2>1 DEF MqttTypes, Calls
  <2> QED
    BY <1>1, <1>9, <2>1 DEF TimesOut
<1>10. CASE IdentityFails \/ OpenFails \/ WaitRejected
  BY <1>1, <1>10 DEF IdentityFails, OpenFails, WaitRejected
<1>11. CASE AnswerTaken
  <2>1. [Idle EXCEPT !.at = "returned", !.body = call.body, !.answer = call.answer] \in Calls
    BY <1>0 DEF Idle, Calls
  <2> QED
    BY <1>11, <2>1, RetiredType DEF AnswerTaken, MqttTypes
<1>12. CASE SocketLost
  <2>1. Rejected(call) \in Calls
    BY <1>0 DEF Rejected, Calls
  <2> QED
    BY <1>12, <2>1 DEF SocketLost, Abandon, MqttTypes
<1>13. ASSUME NEW k \in {"now", "late"}, HandleResponse(k)
       PROVE  MqttTypes'
  <2>1. wire[k] \in Wire /\ wire[k] # Nothing /\ Nothing \in Wire
    BY <1>0, <1>13 DEF HandleResponse, Wire
  <2>2. wire' \in [now : Wire, late : Wire]
    BY <1>0, <1>13, <2>1 DEF HandleResponse
  <2>3. wire[k].answer \in Answers \cup {"none"}
    BY <2>1 DEF Wire, Sent
  <2>4. call' \in Calls
    BY <1>0, <1>13, <2>3 DEF HandleResponse, Calls
  <2> QED
    BY <1>13, <2>2, <2>4 DEF HandleResponse, MqttTypes
<1> QED
  BY <1>2, <1>4, <1>5, <1>6, <1>7, <1>8, <1>9, <1>10, <1>11, <1>12, <1>13 DEF MqttNext, AwaitEnds


LEMMA FlushType ==
    ASSUME ReportTypes, NEW s \in Slots, UNCHANGED command,
           NEW sl \in [Slots -> [issued : Nat, pending : Nat, posting : Nat, retry : BOOLEAN]],
           sl["alarm"].issued + sl["actuator"].issued <= MaxPackets,
           Flush(s, sl)
    PROVE  ReportTypes'
<1> DEFINE SlotType == [issued : Nat, pending : Nat, posting : Nat, retry : BOOLEAN]
<1>1. /\ slot' \in [Slots -> SlotType]
      /\ \A r \in Slots : slot'[r].issued = sl[r].issued
  <2>1. CASE slot' = sl
    BY <2>1
  <2>2. CASE slot' = Scheduled(sl, s)
    BY <2>2 DEF Scheduled
  <2>3. CASE slot' = [sl EXCEPT ![s].posting = sl[s].pending]
    BY <2>3
  <2> QED
    BY <2>1, <2>2, <2>3 DEF Flush
<1>2. inFlight' \in [Reporters -> BOOLEAN] /\ post' \in [Posters -> {"none", "queued", "running"}]
  BY NamesAre DEF Flush, ReportTypes, Queued
<1> QED
  BY <1>1, <1>2, NamesAre DEF ReportTypes

LEMMA ReportStepType ==
    ASSUME ReportTypes, ReportsNext
    PROVE  ReportTypes'
<1>1. CASE ReportCloud
  BY <1>1, NamesAre DEF ReportCloud, ReportTypes, Queued
<1>2. ASSUME NEW s \in Slots, QueueReport(s) PROVE ReportTypes'
  <2> DEFINE new == slot[s].issued + 1
             SlotType == [issued : Nat, pending : Nat, posting : Nat, retry : BOOLEAN]
             sl == [slot EXCEPT ![s].issued = new, ![s].pending = new]
             one == [slot[s] EXCEPT !.issued = new, !.pending = new]
  <2>1. sl \in [Slots -> SlotType]
    <3>1. slot \in [Slots -> SlotType] /\ new \in Nat
      BY DEF ReportTypes
    <3> HIDE DEF new
    <3>2. one \in SlotType
      <4>1. slot[s] \in SlotType
        BY <3>1
      <4> QED
        BY <3>1, <4>1
    <3>3. sl = [slot EXCEPT ![s] = one]
      BY <3>1
    <3> HIDE DEF one, SlotType, sl
    <3> QED
      BY <3>1, <3>2, <3>3
  <2>2. sl["alarm"].issued + sl["actuator"].issued <= MaxPackets
    <3>1. slot["alarm"].issued \in Nat /\ slot["actuator"].issued \in Nat
      BY NamesAre DEF ReportTypes
    <3>2. slot["alarm"].issued + slot["actuator"].issued + 1 <= MaxPackets
      BY <1>2, <3>1, CloudBounds DEF QueueReport
    <3>3. CASE s = "alarm"
      BY <3>1, <3>2, <3>3, NamesAre DEF ReportTypes
    <3>4. CASE s = "actuator"
      BY <3>1, <3>2, <3>4, NamesAre DEF ReportTypes
    <3> QED
      BY <3>3, <3>4 DEF Slots
  <2>3. Flush(s, sl) /\ UNCHANGED command
    BY <1>2 DEF QueueReport
  <2> QED
    BY <2>1, <2>2, <2>3, FlushType
<1>3. ASSUME NEW s \in Slots, RetryFires(s) PROVE ReportTypes'
  <2> DEFINE sl == [slot EXCEPT ![s].retry = FALSE]
  <2>1. /\ sl \in [Slots -> [issued : Nat, pending : Nat, posting : Nat, retry : BOOLEAN]]
        /\ \A r \in Slots : sl[r].issued = slot[r].issued
    BY DEF ReportTypes
  <2>2. sl["alarm"].issued + sl["actuator"].issued <= MaxPackets
    BY <2>1, NamesAre DEF ReportTypes
  <2>3. Flush(s, sl) /\ UNCHANGED command
    BY <1>3 DEF RetryFires
  <2> QED
    BY <2>1, <2>2, <2>3, FlushType
<1>4. CASE PollCommand \/ CarryOut \/ LeaveForRetry \/ Refuse
  BY <1>4, NamesAre DEF PollCommand, CarryOut, LeaveForRetry, Refuse, ReportTypes, Queued
<1> QED
  BY <1>1, <1>2, <1>3, <1>4 DEF ReportsNext

\* The end of a report, and of a poll or an acknowledgement.
LEMMA EndType ==
    ASSUME ReportTypes, NEW r \in Reporters, NEW ok \in BOOLEAN, ReportEnds(r, ok)
    PROVE  ReportTypes'
<1> DEFINE SlotType == [issued : Nat, pending : Nat, posting : Nat, retry : BOOLEAN]
           own == IF r \in Slots THEN [slot EXCEPT ![r] = SlotAfter(r, ok)] ELSE slot
           woken == IF r = "report" THEN {"actuator"} ELSE Slots \ {r}
<1>1. slot \in [Slots -> SlotType]
  BY DEF ReportTypes
<1>2. r \in Slots => SlotAfter(r, ok) \in SlotType /\ SlotAfter(r, ok).issued = slot[r].issued
  BY <1>1 DEF SlotAfter
<1>3. own \in [Slots -> SlotType] /\ \A s \in Slots : own[s].issued = slot[s].issued
  <2> HIDE DEF SlotType
  <2> QED
    BY <1>1, <1>2
<1> HIDE DEF own
<1>4. slot' = [s \in Slots |-> [own[s] EXCEPT
                  !.retry = @ \/ (s \in woken /\ own[s].pending # 0)]]
  BY DEF ReportEnds, own
<1>5. slot' \in [Slots -> SlotType] /\ \A s \in Slots : slot'[s].issued = slot[s].issued
  BY <1>3, <1>4
<1>6. /\ inFlight' \in [Reporters -> BOOLEAN] /\ UNCHANGED command
      /\ post' \in [Posters -> {"none", "queued", "running"}]
  BY NamesAre DEF ReportEnds, ReportTypes
<1> QED
  BY <1>5, <1>6, NamesAre DEF ReportTypes

LEMMA CommandEndType ==
    ASSUME ReportTypes, NEW ok \in BOOLEAN, NEW found \in BOOLEAN, CommandEnds(ok, found)
    PROVE  ReportTypes'
<1>1. command' \in [at : {"idle", "poll", "carry", "yes", "unsupported", "no"}, acked : BOOLEAN]
  BY DEF CommandEnds, ReportTypes
<1>2. post' \in [Posters -> {"none", "queued", "running"}]
  BY NamesAre DEF CommandEnds, ReportTypes, Queued
<1> QED
  BY <1>1, <1>2 DEF CommandEnds, ReportTypes

LEMMA PostEndsType ==
    ASSUME ReportTypes, MqttTypes, LinkTypes, turn # "none",
           NEW ok \in BOOLEAN, NEW found \in BOOLEAN, PostEnds(ok, found), session' = session
    PROVE  ReportTypes' /\ MqttTypes' /\ LinkTypes'
<1>1. ReportTypes'
  <2>1. turn = "command" \/ turn \in Reporters
    BY DEF LinkTypes, Posters
  <2> QED
    BY <2>1, EndType, CommandEndType DEF PostEnds
<1>2. MqttTypes'
  <2>1. Idle \in Calls
    BY DEF Idle, Calls
  <2>2. wire.late \in Wire /\ wire.late # Nothing => [wire.late EXCEPT !.body.mine = FALSE] \in Wire
    <3>1. ASSUME wire.late \in Sent
          PROVE  [wire.late EXCEPT !.body.mine = FALSE] \in Sent
      <4>1. wire.late.body \in Bodies
        BY <3>1 DEF Sent
      <4>2. [wire.late.body EXCEPT !.mine = FALSE] \in Bodies
        BY <4>1 DEF Bodies
      <4> QED
        BY <3>1, <4>2 DEF Sent
    <3> QED
      BY <3>1 DEF Wire
  <2>3. wire' \in [now : Wire, late : Wire]
    BY <2>2 DEF PostEnds, MqttTypes, Wire
  <2> QED
    BY <2>1, <2>3 DEF PostEnds, MqttTypes
<1>3. LinkTypes'
  BY DEF PostEnds, LinkTypes, Fresh
<1> QED
  BY <1>1, <1>2, <1>3

LEMMA PostOnceType ==
    ASSUME ReportTypes, MqttTypes, NEW p \in Posters, NEW s \in {"none", "good", "stale"},
           PostOnce(p, s)
    PROVE  MqttTypes' /\ session' \in {"none", "good", "stale"}
BY RequestType, StartType DEF PostOnce

LEMMA AnswersType ==
    ASSUME ReportTypes, MqttTypes, LinkTypes, NEW k \in {"now", "late"}, CloudAnswers(k)
    PROVE  ReportTypes' /\ MqttTypes' /\ LinkTypes'
<1>1. wire[k] \in Sent /\ wire \in [now : Wire, late : Wire]
  BY DEF CloudAnswers, MqttTypes, Wire
<1>2. PICK a \in Answers : Answered(k, a)
  BY DEF CloudAnswers, Answers
<1>3. [wire[k] EXCEPT !.answer = a] \in Wire
  BY <1>1 DEF Wire, Sent
<1>4. wire' \in [now : Wire, late : Wire]
  <2>1. wire' = [wire EXCEPT ![k] = [wire[k] EXCEPT !.answer = a]]
    BY <1>1, <1>2 DEF Answered
  <2> QED
    BY <1>1, <1>3, <2>1
<1>5. MqttTypes' /\ ReportTypes'
  BY <1>4 DEF CloudAnswers, MqttTypes, ReportTypes, reportVars
<1>6. past' = past \/ \E b : b \in Bodies /\ Executes(b)
  <2>1. wire[k].body \in Bodies
    BY <1>1 DEF Sent
  <2> QED
    BY <2>1 DEF CloudAnswers
<1>7. past' \in [executed : Nat, mismatched : 0..1] /\ cloud' \in [stored : [Slots -> Nat], waiting : BOOLEAN]
  <2>1. CASE UNCHANGED <<past, cloud>>
    BY <2>1 DEF LinkTypes
  <2>2. ASSUME NEW b \in Bodies, Executes(b)
        PROVE  /\ past' \in [executed : Nat, mismatched : 0..1]
               /\ cloud' \in [stored : [Slots -> Nat], waiting : BOOLEAN]
    <3>1. past' \in [executed : Nat, mismatched : 0..1]
      BY <2>2 DEF Executes, LinkTypes
    <3>2. b.packet \in Nat /\ cloud.stored \in [Slots -> Nat] /\ cloud.waiting \in BOOLEAN
      BY DEF Bodies, LinkTypes
    <3>3. cloud' \in [stored : [Slots -> Nat], waiting : BOOLEAN]
      BY <2>2, <3>2 DEF Executes
    <3> QED
      BY <3>1, <3>3
  <2>3. wire[k].body \in Bodies
    BY <1>1 DEF Sent
  <2> QED
    BY <2>1, <2>2, <2>3 DEF CloudAnswers
<1> QED
  BY <1>5, <1>7 DEF CloudAnswers, LinkTypes

LEMMA TypesStep == LinkInv /\ [Next]_vars => (ReportTypes /\ MqttTypes /\ LinkTypes)'
<1> SUFFICES ASSUME LinkInv, [Next]_vars PROVE (ReportTypes /\ MqttTypes /\ LinkTypes)'
  OBVIOUS
<1>0. /\ ReportTypes /\ MqttTypes /\ LinkTypes
      /\ turn # "none" <=> call.at # "idle"
      /\ turn # "none" => turn \in Posters /\ call.body \in Bodies
  <2>1. ReportTypes /\ MqttTypes /\ LinkTypes /\ CallInv
    BY DEF LinkInv
  <2>2. turn # "none" => turn \in Posters
    BY <2>1 DEF LinkTypes
  <2>3. turn # "none" => call.body \in Bodies
    BY <2>1, <2>2, RequestType DEF CallInv
  <2> QED
    BY <2>1, <2>2, <2>3 DEF CallInv, Idle
<1>1. CASE ReportsNext /\ UNCHANGED <<mqttVars, linkVars>>
  BY <1>0, <1>1, ReportStepType DEF mqttVars, linkVars, MqttTypes, LinkTypes
<1>2. CASE MqttNext /\ UNCHANGED <<reportVars, linkVars>>
  BY <1>0, <1>2, MqttStepType DEF reportVars, linkVars, ReportTypes, LinkTypes
<1>3. ASSUME NEW p \in Posters, TakeTurn(p) PROVE (ReportTypes /\ MqttTypes /\ LinkTypes)'
  <2>1. MqttTypes' /\ session' \in {"none", "good", "stale"}
    BY <1>0, <1>3, PostOnceType DEF TakeTurn, LinkTypes
  <2> QED
    BY <1>0, <1>3, <2>1 DEF TakeTurn, ReportTypes, LinkTypes, Fresh
<1>4. CASE HelloAnswered
  <2>1. turn \in Posters
    BY <1>0, <1>4 DEF HelloAnswered
  <2>2. MqttTypes'
    BY <1>0, <1>4, <2>1, RequestType, StartType DEF HelloAnswered
  <2> QED
    BY <1>0, <1>4, <2>2 DEF HelloAnswered, reportVars, ReportTypes, LinkTypes
<1>5. CASE PostSucceeds \/ PostFails
  <2>1. turn # "none"
    BY <1>0, <1>5 DEF PostSucceeds, PostFails, Renewable
  <2>2. PICK ok \in BOOLEAN : \E found \in BOOLEAN : PostEnds(ok, found) /\ session' = session
    BY <1>5 DEF PostSucceeds, PostFails
  <2> QED
    BY <1>0, <2>1, <2>2, PostEndsType
<1>6. CASE RenewAndRepeat
  <2>1. turn \in Posters
    BY <1>0, <1>6 DEF RenewAndRepeat, Renewable
  <2>2. MqttTypes' /\ session' \in {"none", "good", "stale"}
    BY <1>0, <1>6, <2>1, PostOnceType DEF RenewAndRepeat
  <2> QED
    BY <1>0, <1>6, <2>2 DEF RenewAndRepeat, reportVars, ReportTypes, LinkTypes
<1>7. ASSUME NEW k \in {"now", "late"}, CloudAnswers(k) PROVE (ReportTypes /\ MqttTypes /\ LinkTypes)'
  BY <1>0, <1>7, AnswersType
<1>8. CASE CloudForgets
  BY <1>0, <1>8 DEF CloudForgets, reportVars, mqttVars, ReportTypes, MqttTypes, LinkTypes
<1>9. CASE UNCHANGED vars
  BY <1>0, <1>9 DEF vars, reportVars, mqttVars, linkVars, ReportTypes, MqttTypes, LinkTypes
<1> QED
  BY <1>1, <1>2, <1>3, <1>4, <1>5, <1>6, <1>7, <1>8, <1>9 DEF Next, LinkSteps


-----------------------------------------------------------------------------
(* The socket *)

LEMMA StartSocket ==
    ASSUME MqttTypes, SocketInv, NEW b, StartRequest(b)
    PROVE  SocketInv'
<1>1. CASE connected /\ socket # "none" /\ Publish(b) /\ UNCHANGED <<socket, connected>>
  <2>1. call'.at \in {"threw", "answer"}
    BY <1>1 DEF Publish, Waiting, Idle
  <2> QED
    BY <1>1, <2>1 DEF SocketInv
<1>2. CASE Abandon /\ call' = [Idle EXCEPT !.at = "closing", !.body = b]
  BY <1>2 DEF Abandon, Idle, SocketInv
<1> QED
  BY <1>1, <1>2 DEF StartRequest

LEMMA MqttStepSocket ==
    ASSUME MqttTypes, SocketInv, MqttNext
    PROVE  SocketInv'
<1> USE DEF SocketInv
<1>0. call \in Calls
  BY DEF MqttTypes
<1>1. CASE Throw /\ UNCHANGED <<socket, connected>>
  BY <1>1 DEF Throw, Idle
<1>2. CASE OldClosed
  BY <1>0, <1>2 DEF OldClosed, Calls
<1>3. CASE SocketOpens
  BY <1>1, <1>3 DEF SocketOpens, Waiting
<1>4. CASE SendEnds
  BY <1>0, <1>1, <1>4 DEF SendEnds, Calls
<1>5. CASE HandleConnack \/ HandleSuback
  BY <1>0, <1>5 DEF HandleConnack, HandleSuback, Calls
<1>6. CASE ConnackTaken
  BY <1>1, <1>6 DEF ConnackTaken, Waiting, Done
<1>7. CASE SubackTaken
  <2>1. call'.at \in {"threw", "answer"}
    <3>1. Publish(call.body)
      BY <1>7 DEF SubackTaken
    <3>2. \/ call' = [Idle EXCEPT !.at = "threw", !.body = call.body]
          \/ call' = Waiting("answer", call.body)
      BY <3>1 DEF Publish
    <3>3. [Idle EXCEPT !.at = "threw", !.body = call.body].at = "threw"
      BY DEF Idle
    <3>4. Waiting("answer", call.body).at = "answer"
      BY DEF Waiting
    <3> QED
      BY <3>2, <3>3, <3>4
  <2>2. socket' \in {"none", "suback"}
    BY <1>7 DEF SubackTaken, Done
  <2> QED
    BY <2>1, <2>2
<1>8. CASE TimesOut
  BY <1>0, <1>1, <1>8 DEF TimesOut, Calls
<1>9. CASE IdentityFails \/ OpenFails \/ WaitRejected
  BY <1>1, <1>9 DEF IdentityFails, OpenFails, WaitRejected
<1>10. CASE AnswerTaken
  BY <1>10 DEF AnswerTaken, Idle
<1>11. CASE SocketLost
  BY <1>0, <1>11 DEF SocketLost, Abandon, Rejected, Calls
<1>12. ASSUME NEW k \in {"now", "late"}, HandleResponse(k)
       PROVE  SocketInv'
  BY <1>0, <1>12 DEF HandleResponse, IsPending, Calls
<1> QED
  BY <1>2, <1>3, <1>4, <1>5, <1>6, <1>7, <1>8, <1>9, <1>10, <1>11, <1>12 DEF MqttNext, AwaitEnds

LEMMA SocketStep == LinkInv /\ [Next]_vars => SocketInv'
<1> SUFFICES ASSUME LinkInv, [Next]_vars PROVE SocketInv'
  OBVIOUS
<1>0. MqttTypes /\ SocketInv
  BY DEF LinkInv
<1>1. CASE UNCHANGED <<socket, connected, call>>
  BY <1>0, <1>1 DEF SocketInv
<1>2. CASE MqttNext
  BY <1>0, <1>2, MqttStepSocket
<1>3. CASE \E b : StartRequest(b)
  BY <1>0, <1>3, StartSocket
<1>4. CASE call' = Idle /\ UNCHANGED <<socket, connected>>
  BY <1>0, <1>4 DEF Idle, SocketInv
<1> QED
  BY <1>1, <1>2, <1>3, <1>4 DEF Next, vars, mqttVars, TakeTurn, PostOnce, LinkSteps, HelloAnswered,
     PostSucceeds, PostFails, PostEnds, RenewAndRepeat, CloudAnswers, CloudForgets

-----------------------------------------------------------------------------
(* The posts *)

\* Nothing of this happens to a post that is queued or runs.
LEMMA FlushPost ==
    ASSUME ReportTypes, PostInv, NEW s \in Slots, NEW sl, Flush(s, sl), UNCHANGED <<command, turn>>
    PROVE  PostInv'
<1>1. CASE UNCHANGED <<inFlight, post>>
  BY <1>1 DEF PostInv
<1>2. CASE /\ \A r \in Reporters : ~inFlight[r]
           /\ inFlight' = [inFlight EXCEPT ![s] = TRUE] /\ post' = Queued(s)
  BY <1>2, NamesAre DEF PostInv, ReportTypes, Queued
<1> QED
  BY <1>1, <1>2 DEF Flush

LEMMA PostStep == LinkInv /\ [Next]_vars => PostInv'
<1> SUFFICES ASSUME LinkInv, [Next]_vars PROVE PostInv'
  OBVIOUS
<1>0. ReportTypes /\ LinkTypes /\ PostInv /\ CallInv
  BY DEF LinkInv
<1>1. CASE UNCHANGED <<reportVars, turn>>
  BY <1>0, <1>1 DEF PostInv, reportVars
<1>2. ASSUME ReportsNext, UNCHANGED turn PROVE PostInv'
  <2>1. CASE ReportCloud
    BY <1>0, <1>2, <2>1, NamesAre DEF ReportCloud, Queued, PostInv, ReportTypes
  <2>2. ASSUME NEW s \in Slots, QueueReport(s) \/ RetryFires(s) PROVE PostInv'
    BY <1>0, <1>2, <2>2, FlushPost DEF QueueReport, RetryFires
  <2>3. CASE PollCommand \/ CarryOut \/ Refuse
    BY <1>0, <1>2, <2>3, NamesAre DEF PollCommand, CarryOut, Refuse, Queued, PostInv, ReportTypes
  <2>4. CASE LeaveForRetry
    BY <1>0, <1>2, <2>4, NamesAre DEF LeaveForRetry, PostInv, ReportTypes
  <2> QED
    BY <1>2, <2>1, <2>2, <2>3, <2>4 DEF ReportsNext
<1>3. ASSUME NEW p \in Posters, TakeTurn(p) PROVE PostInv'
  BY <1>0, <1>3, NamesAre DEF TakeTurn, PostInv, ReportTypes
<1>4. ASSUME NEW ok \in BOOLEAN, NEW found \in BOOLEAN, PostEnds(ok, found), turn # "none" PROVE PostInv'
  <2>1. CASE turn = "command"
    <3>1. CommandEnds(ok, found) /\ turn' = "none"
      BY <1>4, <2>1 DEF PostEnds
    <3>2. post["command"] = "running" /\ \A p \in Posters : p # "command" => post[p] # "running"
      BY <1>0, <2>1, NamesAre DEF PostInv
    <3>3. /\ UNCHANGED inFlight
          /\ \/ /\ command'.at \in {"idle", "carry"} /\ post' = [post EXCEPT !["command"] = "none"]
             \/ /\ command'.at = "no" /\ post' = [post EXCEPT !["command"] = "queued"]
      BY <1>0, <3>1 DEF CommandEnds, ReportTypes, Queued
    <3> QED
      BY <1>0, <3>1, <3>2, <3>3, NamesAre DEF PostInv, ReportTypes
  <2>2. CASE turn # "command"
    <3>1. turn \in Reporters /\ ReportEnds(turn, ok) /\ turn' = "none"
      BY <1>0, <1>4, <2>2 DEF PostEnds, LinkTypes, Posters
    <3>2. post[turn] = "running" /\ \A p \in Posters : p # turn => post[p] # "running"
      BY <1>0, <3>1, NamesAre DEF PostInv
    <3> QED
      BY <1>0, <3>1, <3>2, NamesAre DEF ReportEnds, PostInv, ReportTypes
  <2> QED
    BY <2>1, <2>2
<1>5. CASE PostSucceeds \/ PostFails
  <2>1. call.at \in {"returned", "threw"}
    BY <1>5 DEF PostSucceeds, PostFails, Renewable
  <2>2. turn # "none"
    BY <1>0, <2>1 DEF CallInv, Idle
  <2> QED
    BY <1>4, <1>5, <2>2 DEF PostSucceeds, PostFails
<1> QED
  BY <1>1, <1>2, <1>3, <1>5 DEF Next, vars, linkVars, LinkSteps, HelloAnswered, RenewAndRepeat,
     CloudAnswers, CloudForgets

-----------------------------------------------------------------------------
(* The call and what is on the wire *)

\* The request of a running post stays what it was.
LEMMA RequestStays ==
    ASSUME ReportTypes, LinkTypes, PostInv, turn # "none", ReportsNext, UNCHANGED turn
    PROVE  Request(turn)' = Request(turn)
<1>1. turn \in Posters /\ post[turn] = "running"
  BY DEF LinkTypes, PostInv
<1>2. CASE turn = "command"
  <2>1. command.at \notin {"idle", "carry"}
    BY <1>1, <1>2 DEF PostInv
  <2>2. UNCHANGED command
    BY <2>1 DEF ReportsNext, ReportCloud, QueueReport, RetryFires, PollCommand, CarryOut,
                LeaveForRetry, Refuse
  <2> QED
    BY <1>2, <2>2, NamesAre DEF Request
<1>3. CASE turn = "report"
  BY <1>3, NamesAre DEF Request
<1>4. CASE turn \in Slots
  <2>1. inFlight[turn]
    BY <1>1, <1>4, NamesAre DEF PostInv
  <2>2. ASSUME NEW s \in Slots, NEW sl, Flush(s, sl),
               sl \in [Slots -> [issued : Nat, pending : Nat, posting : Nat, retry : BOOLEAN]]
        PROVE  slot'[turn].posting = sl[turn].posting
    BY <1>4, <2>1, <2>2, NamesAre DEF Flush, Scheduled
  <2>3. ASSUME NEW s \in Slots, QueueReport(s) PROVE slot'[turn].posting = slot[turn].posting
    <3> DEFINE new == slot[s].issued + 1
               sl == [slot EXCEPT ![s].issued = new, ![s].pending = new]
    <3>1. /\ sl \in [Slots -> [issued : Nat, pending : Nat, posting : Nat, retry : BOOLEAN]]
          /\ sl[turn].posting = slot[turn].posting
      <4>1. /\ slot \in [Slots -> [issued : Nat, pending : Nat, posting : Nat, retry : BOOLEAN]]
            /\ new \in Nat
        BY DEF ReportTypes
      <4> HIDE DEF new
      <4> QED
        BY <1>4, <4>1
    <3>2. Flush(s, sl)
      BY <2>3 DEF QueueReport
    <3> QED
      BY <2>2, <3>1, <3>2
  <2>4. ASSUME NEW s \in Slots, RetryFires(s) PROVE slot'[turn].posting = slot[turn].posting
    <3> DEFINE sl == [slot EXCEPT ![s].retry = FALSE]
    <3>1. /\ sl \in [Slots -> [issued : Nat, pending : Nat, posting : Nat, retry : BOOLEAN]]
          /\ sl[turn].posting = slot[turn].posting
      BY <1>4 DEF ReportTypes
    <3>2. Flush(s, sl)
      BY <2>4 DEF RetryFires
    <3> QED
      BY <2>2, <3>1, <3>2
  <2>5. slot'[turn].posting = slot[turn].posting
    BY <2>3, <2>4 DEF ReportsNext, ReportCloud, PollCommand, CarryOut, LeaveForRetry, Refuse
  <2>6. turn # "command"
    BY <1>4 DEF Slots
  <2> QED
    BY <1>4, <2>5, <2>6 DEF Request
<1> QED
  BY <1>1, <1>2, <1>3, <1>4 DEF Posters, Reporters


\* A request starts when nothing of it is under way or on the wire.
LEMMA StartCall ==
    ASSUME MqttTypes, CallInv, call.at \in {"idle", "returned"}, NEW b \in Bodies,
           StartRequest(b), turn' # "none", b \in {Hello, Request(turn)'}
    PROVE  CallInv'
<1>1. wire.now = Nothing /\ (wire.late # Nothing => wire.late.body.from # "hello" /\ ~wire.late.body.mine)
  BY DEF CallInv, MqttTypes, Wire, Sent, Bodies
<1>0. Hello' = Hello
  BY DEF Hello
<1>2. CASE Publish(b)
  <2>1. CASE socket = "none"
    <3>1. wire'.now = Nothing /\ wire'.late = wire.late
      BY <1>1, <1>2, <2>1 DEF Publish, Retired
    <3>2. call'.at = "threw" /\ call'.body = b /\ call'.answer = "none"
      BY <1>2, <2>1 DEF Publish, Idle
    <3> QED
      BY <1>0, <1>1, <3>1, <3>2 DEF CallInv
  <2>2. CASE socket # "none"
    <3>1. wire'.now.body = b /\ wire'.late = wire.late
      BY <1>1, <1>2, <2>2 DEF Publish, MqttTypes
    <3>2. call'.at = "answer" /\ call'.body = b /\ call'.answer = "none" /\ call'.wait = "open"
      BY <1>2, <2>2 DEF Publish, Waiting
    <3> QED
      BY <1>0, <1>1, <3>1, <3>2 DEF CallInv
  <2> QED
    BY <2>1, <2>2
<1>3. CASE call' = [Idle EXCEPT !.at = "closing", !.body = b] /\ UNCHANGED wire
  <2>1. call'.at = "closing" /\ call'.body = b /\ call'.answer = "none"
    BY <1>3 DEF Idle
  <2> QED
    BY <1>0, <1>1, <1>3, <2>1 DEF CallInv
<1> QED
  BY <1>2, <1>3 DEF StartRequest

\* A request that fails leaves the wire with its call.
LEMMA ThrowCall ==
    ASSUME MqttTypes, CallInv, turn # "none", Throw, UNCHANGED <<turn, slot, command>>
    PROVE  CallInv'
<1>1. call'.at = "threw" /\ call'.body = call.body /\ call'.answer = "none"
  BY DEF Throw, Idle
<1>2. /\ wire'.now = Nothing
      /\ \/ wire'.late = wire.late
         \/ wire'.late = wire.now /\ wire.now # Nothing /\ wire.now.body.from # "hello"
  BY DEF Throw, Retired
<1>3. Hello' = Hello /\ Request(turn)' = Request(turn)
  BY DEF Hello, Request
<1>4. CASE wire'.late = wire.late
  BY <1>1, <1>2, <1>3, <1>4 DEF CallInv
<1>5. CASE wire'.late = wire.now /\ wire.now # Nothing /\ wire.now.body.from # "hello"
  BY <1>1, <1>2, <1>3, <1>5 DEF CallInv
<1> QED
  BY <1>2, <1>4, <1>5

LEMMA MqttStepCall ==
    ASSUME MqttTypes, CallInv, MqttNext, UNCHANGED <<turn, slot, command, past>>
    PROVE  CallInv'
<1>0. /\ call \in Calls /\ wire \in [now : Wire, late : Wire]
      /\ Hello' = Hello /\ Request(turn)' = Request(turn)
      /\ call.at # "idle" => turn # "none"
  BY DEF MqttTypes, Hello, Request, CallInv, Idle
<1>1. CASE Throw /\ call.at # "idle"
  BY <1>0, <1>1, ThrowCall
\* The call goes on, and nothing of it is on the wire.
<1>2. ASSUME UNCHANGED wire, call.at \notin {"idle", "threw", "returned", "answer"},
             call'.body = call.body, call'.answer = "none", call'.at # "idle"
      PROVE  CallInv'
  BY <1>0, <1>2 DEF CallInv
<1>3. CASE OldClosed
  BY <1>0, <1>2, <1>3 DEF OldClosed, Calls, CallInv
<1>4. CASE SocketOpens
  BY <1>0, <1>1, <1>2, <1>4 DEF SocketOpens, Waiting
<1>5. CASE SendEnds
  <2>1. CASE call' = [call EXCEPT !.sent = TRUE] /\ UNCHANGED wire
    BY <1>0, <1>5, <2>1 DEF SendEnds, Waits, Calls, CallInv
  <2> QED
    BY <1>1, <1>5, <2>1 DEF SendEnds, Waits
<1>6. CASE HandleConnack \/ HandleSuback
  BY <1>0, <1>2, <1>6 DEF HandleConnack, HandleSuback, Calls, CallInv
<1>7. CASE ConnackTaken
  BY <1>0, <1>1, <1>2, <1>7 DEF ConnackTaken, Waiting, Done
<1>8. CASE SubackTaken
  <2>1. /\ call.at = "suback" /\ Publish(call.body) /\ wire.now = Nothing
        /\ wire.late # Nothing => wire.late.body.from # "hello" /\ ~wire.late.body.mine
        /\ call.body \in {Hello, Request(turn)} /\ turn # "none"
    BY <1>0, <1>8 DEF SubackTaken, Done, CallInv, Wire, Sent, Bodies
  <2>2. CASE socket = "none"
    <3>1. Throw
      BY <2>1, <2>2 DEF Publish, Throw
    <3> QED
      BY <1>1, <2>1, <3>1
  <2>3. CASE socket # "none"
    <3>1. wire'.now.body = call.body /\ wire'.late = wire.late
      BY <1>0, <2>1, <2>3 DEF Publish
    <3>2. call'.at = "answer" /\ call'.body = call.body /\ call'.answer = "none" /\ call'.wait = "open"
      BY <2>1, <2>3 DEF Publish, Waiting
    <3> QED
      BY <1>0, <2>1, <3>1, <3>2 DEF CallInv
  <2> QED
    BY <2>2, <2>3
<1>9. CASE TimesOut
  <2>1. CASE call.at = "answer" /\ call' = [call EXCEPT !.wait = "failed"] /\ UNCHANGED wire
    BY <1>0, <1>9, <2>1 DEF TimesOut, Calls, CallInv
  <2> QED
    BY <1>1, <1>9, <2>1 DEF TimesOut
<1>10. CASE IdentityFails \/ OpenFails \/ WaitRejected
  BY <1>1, <1>10 DEF IdentityFails, OpenFails, WaitRejected, Waits
<1>11. CASE AnswerTaken
  <2>1. wire.now = Nothing /\ wire'.now = Nothing /\ wire'.late = wire.late /\ call.at = "answer"
    BY <1>0, <1>11 DEF AnswerTaken, Done, CallInv, Retired
  <2>2. call'.at = "returned" /\ call'.body = call.body
    BY <1>11 DEF AnswerTaken, Idle
  <2> QED
    BY <1>0, <2>1, <2>2 DEF CallInv
<1>12. CASE SocketLost
  <2>1. CASE call' = call
    BY <1>0, <1>12, <2>1 DEF SocketLost, CallInv
  <2>2. CASE call.at \in Waits /\ call.wait = "open" /\ call' = [call EXCEPT !.wait = "failed"]
    BY <1>0, <1>12, <2>2 DEF SocketLost, CallInv, Waits, Calls
  <2> QED
    BY <1>12, <2>1, <2>2 DEF SocketLost, Rejected
<1>13. ASSUME NEW k \in {"now", "late"}, HandleResponse(k)
       PROVE  CallInv'
  <2>1. CASE k = "now" /\ call.at = "answer" /\ call.wait = "open"
    <3>1. /\ call'.at = "answer" /\ call'.wait = "done" /\ call'.body = call.body
          /\ wire'.now = Nothing /\ wire'.late = wire.late
      BY <1>0, <1>13, <2>1 DEF HandleResponse, IsPending, Calls
    <3> QED
      BY <1>0, <2>1, <3>1 DEF CallInv
  <2>2. CASE call' = call
    <3>1. wire'.now \in {wire.now, Nothing} /\ wire'.late \in {wire.late, Nothing}
      BY <1>0, <1>13 DEF HandleResponse
    <3> QED
      BY <1>0, <2>2, <3>1 DEF CallInv
  <2> QED
    BY <1>13, <2>1, <2>2 DEF HandleResponse, IsPending
<1> QED
  BY <1>3, <1>4, <1>5, <1>6, <1>7, <1>8, <1>9, <1>10, <1>11, <1>12, <1>13 DEF MqttNext, AwaitEnds

\* An answer of the cloud changes no body, and what it says of the past is said
\* of the post under way.
LEMMA AnswersCall ==
    ASSUME MqttTypes, LinkTypes, CallInv, NEW k \in {"now", "late"}, CloudAnswers(k)
    PROVE  CallInv'
<1>0. /\ call \in Calls /\ wire \in [now : Wire, late : Wire] /\ UNCHANGED <<call, turn>>
      /\ Hello' = Hello /\ Request(turn)' = Request(turn)
  BY DEF MqttTypes, Hello, Request, CloudAnswers, reportVars
<1>1. PICK a : wire' = [wire EXCEPT ![k].answer = a]
  BY DEF CloudAnswers, Answered
<1>2. /\ wire[k] # Nothing /\ wire[k] \in Sent
      /\ \A j \in {"now", "late"} : j # k => wire'[j] = wire[j]
      /\ wire'[k].body = wire[k].body
  BY <1>0, <1>1 DEF CloudAnswers, Wire, Sent
<1>3. wire'.now.body = wire.now.body \/ wire'.now = wire.now
  BY <1>2
<1>4. wire'.now # Nothing => wire.now # Nothing
  BY <1>2
<1>5. wire'.late # Nothing => wire.late # Nothing
  BY <1>2
<1>6. wire'.late.body = wire.late.body
  BY <1>2
<1>7. turn = "none" => past' = past
  <2> SUFFICES ASSUME turn = "none" PROVE past' = past
    OBVIOUS
  <2>1. call.at = "idle"
    BY DEF CallInv, Idle
  <2>2. ~wire[k].body.mine
    <3>1. k = "late" /\ wire.late # Nothing
      BY <1>2, <2>1 DEF CallInv
    <3>2. wire.late.body.mine # TRUE
      BY <2>1, <3>1 DEF CallInv
    <3> QED
      BY <1>2, <3>1, <3>2 DEF Sent, Bodies
  <2>3. ASSUME Executes(wire[k].body) PROVE past' = past
    <3>1. past' = [past EXCEPT !.executed = @ + 0]
      BY <2>2, <2>3 DEF Executes
    <3> QED
      BY <3>1 DEF LinkTypes
  <2> QED
    BY <2>3 DEF CloudAnswers
<1> QED
  BY <1>0, <1>3, <1>4, <1>5, <1>6, <1>7 DEF CallInv

LEMMA CallStep == LinkInv /\ [Next]_vars => CallInv'
<1> SUFFICES ASSUME LinkInv, [Next]_vars PROVE CallInv'
  OBVIOUS
<1>0. ReportTypes /\ MqttTypes /\ LinkTypes /\ CallInv /\ PostInv
  BY DEF LinkInv
<1>1. CASE UNCHANGED <<call, wire, turn, slot, command, past>>
  BY <1>0, <1>1 DEF CallInv, Hello, Request
<1>2. CASE ReportsNext /\ UNCHANGED <<mqttVars, linkVars>>
  <2>1. turn # "none" => Request(turn)' = Request(turn)
    BY <1>0, <1>2, RequestStays DEF linkVars
  <2> QED
    BY <1>0, <1>2, <2>1 DEF CallInv, Hello, mqttVars, linkVars
<1>3. CASE MqttNext /\ UNCHANGED <<reportVars, linkVars>>
  BY <1>0, <1>3, MqttStepCall DEF reportVars, linkVars
<1>4. ASSUME NEW p \in Posters, TakeTurn(p) PROVE CallInv'
  <2>1. /\ call.at = "idle" /\ turn' = p /\ turn' # "none"
    BY <1>0, <1>4, NamesAre DEF TakeTurn, CallInv, Idle
  <2>2. Request(p)' = Request(p) /\ Hello \in Bodies /\ Request(p) \in Bodies
    BY <1>0, <1>4, RequestType DEF TakeTurn, Request
  <2>3. PICK b \in {Hello, Request(p)} : StartRequest(b)
    BY <1>4 DEF TakeTurn, PostOnce
  <2> QED
    BY <1>0, <2>1, <2>2, <2>3, StartCall
<1>5. CASE HelloAnswered \/ RenewAndRepeat
  <2>1. /\ call.at = "returned" /\ turn' = turn /\ UNCHANGED <<slot, command>>
    BY <1>5 DEF HelloAnswered, RenewAndRepeat, Renewable, reportVars
  <2>2. turn # "none" /\ turn \in Posters
    BY <1>0, <2>1 DEF CallInv, Idle, LinkTypes
  <2>3. Request(turn)' = Request(turn) /\ Hello \in Bodies /\ Request(turn) \in Bodies
    BY <1>0, <2>1, <2>2, RequestType DEF Request
  <2>4. PICK b \in {Hello, Request(turn)} : StartRequest(b)
    BY <1>5 DEF HelloAnswered, RenewAndRepeat, PostOnce
  <2> QED
    BY <1>0, <2>1, <2>2, <2>3, <2>4, StartCall
<1>6. ASSUME NEW ok, NEW found, PostEnds(ok, found), call.at \in {"returned", "threw"} PROVE CallInv'
  <2>1. turn' = "none" /\ call' = Idle /\ past' = Fresh /\ Fresh' = Fresh /\ Idle' = Idle
    BY <1>6 DEF PostEnds, Fresh, Idle
  <2>2. wire'.now = wire.now /\ wire.now = Nothing
    BY <1>0, <1>6 DEF PostEnds, CallInv, MqttTypes
  <2>3. wire'.late # Nothing => wire.late # Nothing /\ wire'.late = [wire.late EXCEPT !.body.mine = FALSE]
    BY <1>0, <1>6 DEF PostEnds, MqttTypes
  <2>4. wire'.late # Nothing => wire'.late.body.from # "hello" /\ ~wire'.late.body.mine
    <3>1. wire.late # Nothing => wire.late \in Sent /\ wire.late.body \in Bodies
      BY <1>0 DEF MqttTypes, Wire, Sent
    <3>2. wire'.late # Nothing => wire'.late.body = [wire.late.body EXCEPT !.mine = FALSE]
      BY <2>3, <3>1 DEF Sent
    <3> QED
      BY <1>0, <2>3, <3>1, <3>2 DEF Bodies, CallInv
  <2> QED
    BY <2>1, <2>2, <2>4 DEF CallInv, Idle
<1>7. CASE PostSucceeds \/ PostFails
  BY <1>6, <1>7 DEF PostSucceeds, PostFails, Renewable
<1>8. ASSUME NEW k \in {"now", "late"}, CloudAnswers(k) PROVE CallInv'
  BY <1>0, <1>8, AnswersCall
<1> QED
  BY <1>1, <1>2, <1>3, <1>4, <1>5, <1>7, <1>8 DEF Next, vars, reportVars, mqttVars, linkVars, LinkSteps,
     CloudForgets


-----------------------------------------------------------------------------
(* The slots *)

\* The state of one slot: what is said of it and of the packets in transit.
SlotFine(s) ==
    /\ cloud.stored[s] <= slot[s].issued /\ slot[s].posting <= slot[s].issued
    /\ IF slot[s].pending = 0 THEN cloud.stored[s] = slot[s].issued
       ELSE slot[s].pending = slot[s].issued /\ (inFlight[s] \/ slot[s].retry)

SlotType == [issued : Nat, pending : Nat, posting : Nat, retry : BOOLEAN]

\* A slot that is queued, retried or passed over.
LEMMA FlushSlot ==
    ASSUME ReportTypes, MqttTypes, LinkTypes, SlotInv, NEW s \in Slots,
           NEW sl \in [Slots -> SlotType], Flush(s, sl), UNCHANGED <<cloud, call, wire>>,
           \A q \in Slots : q # s => sl[q] = slot[q],
           slot[s].issued <= sl[s].issued, sl[s].posting = slot[s].posting,
           IF sl[s].pending = 0 THEN cloud.stored[s] = sl[s].issued
                                ELSE sl[s].pending = sl[s].issued
    PROVE  SlotInv'
<1>0. /\ slot \in [Slots -> SlotType] /\ inFlight \in [Reporters -> BOOLEAN]
      /\ cloud.stored \in [Slots -> Nat] /\ Slots \subseteq Reporters
  BY NamesAre DEF ReportTypes, LinkTypes, SlotType
<1>1. /\ slot' \in [Slots -> SlotType]
      /\ \A q \in Slots : q # s => slot'[q] = slot[q]
      /\ \A q \in Slots : inFlight[q] => inFlight'[q]
      /\ slot'[s].issued = sl[s].issued /\ slot'[s].pending = sl[s].pending
      /\ slot'[s].posting \in {sl[s].posting, sl[s].pending}
      /\ slot'[s].pending # 0 => inFlight'[s] \/ slot'[s].retry
  <2>1. CASE (sl[s].pending = 0 \/ inFlight[s]) /\ slot' = sl /\ UNCHANGED <<inFlight, post>>
    BY <1>0, <2>1
  <2>2. CASE slot' = Scheduled(sl, s) /\ UNCHANGED <<inFlight, post>>
    BY <1>0, <2>2 DEF Scheduled, SlotType
  <2>3. CASE /\ slot' = [sl EXCEPT ![s].posting = sl[s].pending]
             /\ inFlight' = [inFlight EXCEPT ![s] = TRUE]
    BY <1>0, <2>3 DEF SlotType
  <2> QED
    BY <2>1, <2>2, <2>3 DEF Flush
<1>2. ASSUME NEW q \in Slots PROVE SlotFine(q)' /\ slot[q].issued <= slot'[q].issued
  <2>1. CASE q # s
    BY <1>0, <1>1, <2>1 DEF SlotInv, SlotFine, SlotType
  <2>2. CASE q = s
    <3>1. cloud.stored[s] <= slot[s].issued /\ slot[s].posting <= slot[s].issued
      BY DEF SlotInv
    <3>2. /\ cloud.stored[s] \in Nat /\ slot[s].issued \in Nat /\ slot[s].posting \in Nat
          /\ sl[s].issued \in Nat /\ sl[s].pending \in Nat
      BY <1>0 DEF SlotType
    <3>3. cloud'.stored[s] <= slot'[s].issued /\ slot[s].posting <= slot'[s].issued
      BY <1>1, <3>1, <3>2
    <3>4. slot'[s].posting <= slot'[s].issued
      BY <1>1, <3>2, <3>3
    <3> QED
      BY <1>1, <2>2, <3>3, <3>4 DEF SlotFine
  <2> QED
    BY <2>1, <2>2
<1>3. ASSUME NEW q \in Slots, wire.late # Nothing, wire.late.body.from = q,
             wire.late.body.packet \in Nat
      PROVE  wire.late.body.packet <= slot'[q].issued
  BY <1>0, <1>1, <1>2, <1>3 DEF SlotInv, SlotType
<1>4. wire.late # Nothing => wire.late.body.packet \in Nat
  BY DEF MqttTypes, Wire, Sent, Bodies
<1>5. ASSUME NEW q \in Slots
      PROVE  (/\ wire.now # Nothing /\ wire.now.answer \in Given /\ wire.now.body.from = q
                   => wire.now.body.packet <= cloud.stored[q]
              /\ call.answer \in Given /\ call.body.from = q
                   => call.body.packet <= cloud.stored[q])'
  BY DEF SlotInv
<1> QED
  BY <1>2, <1>3, <1>4, <1>5 DEF SlotInv, SlotFine

LEMMA ReportStepSlot ==
    ASSUME ReportTypes, MqttTypes, LinkTypes, SlotInv, ReportsNext, UNCHANGED <<cloud, call, wire>>
    PROVE  SlotInv'
<1>0. slot \in [Slots -> SlotType] /\ cloud.stored \in [Slots -> Nat]
  BY DEF ReportTypes, LinkTypes, SlotType
<1>1. CASE ReportCloud
  BY <1>1, NamesAre DEF ReportCloud, ReportTypes, SlotInv
<1>2. ASSUME NEW s \in Slots, QueueReport(s) PROVE SlotInv'
  <2> DEFINE new == slot[s].issued + 1
             one == [slot[s] EXCEPT !.issued = new, !.pending = new]
             sl == [slot EXCEPT ![s].issued = new, ![s].pending = new]
  <2>1. new \in Nat /\ new # 0 /\ slot[s].issued <= new
    BY <1>0 DEF SlotType
  <2> HIDE DEF new
  <2>2. /\ one \in SlotType /\ one.issued = new /\ one.pending = new /\ one.posting = slot[s].posting
    BY <1>0, <2>1 DEF SlotType
  <2>3. sl = [slot EXCEPT ![s] = one]
    BY <1>0
  <2>4. Flush(s, sl)
    BY <1>2 DEF QueueReport, new
  <2> HIDE DEF one, sl
  <2>5. /\ sl \in [Slots -> SlotType] /\ \A q \in Slots : q # s => sl[q] = slot[q]
        /\ sl[s] = one
    BY <1>0, <2>2, <2>3
  <2> QED
    BY <2>1, <2>2, <2>4, <2>5, FlushSlot
<1>3. ASSUME NEW s \in Slots, RetryFires(s) PROVE SlotInv'
  <2> DEFINE one == [slot[s] EXCEPT !.retry = FALSE]
             sl == [slot EXCEPT ![s].retry = FALSE]
  <2>1. /\ one \in SlotType /\ one.issued = slot[s].issued /\ one.pending = slot[s].pending
        /\ one.posting = slot[s].posting
    BY <1>0 DEF SlotType
  <2>2. sl = [slot EXCEPT ![s] = one]
    BY <1>0
  <2>3. Flush(s, sl)
    BY <1>3 DEF RetryFires
  <2> HIDE DEF one, sl
  <2>4. /\ sl \in [Slots -> SlotType] /\ \A q \in Slots : q # s => sl[q] = slot[q]
        /\ sl[s] = one
    BY <1>0, <2>1, <2>2
  <2>5. /\ IF slot[s].pending = 0 THEN cloud.stored[s] = slot[s].issued
                                  ELSE slot[s].pending = slot[s].issued
        /\ slot[s].issued <= slot[s].issued
    BY <1>0 DEF SlotInv, SlotType
  <2> QED
    BY <2>1, <2>3, <2>4, <2>5, FlushSlot
<1>4. CASE PollCommand \/ CarryOut \/ LeaveForRetry \/ Refuse
  BY <1>4 DEF PollCommand, CarryOut, LeaveForRetry, Refuse, SlotInv
<1> QED
  BY <1>1, <1>2, <1>3, <1>4 DEF ReportsNext

\* What is on the wire for a slot was issued.
LEMMA OnWire ==
    ASSUME CallInv, SlotInv, wire.now # Nothing, NEW s \in Slots, wire.now.body.from = s
    PROVE  wire.now.body.packet <= slot[s].issued
<1>1. wire.now.body \in {Hello, Request(turn)}
  BY DEF CallInv, Idle
<1>2. wire.now.body = Request(turn)
  BY <1>1, NamesAre DEF Hello
<1>3. turn = s /\ wire.now.body.packet = slot[s].posting
  BY <1>2 DEF Request
<1> QED
  BY <1>3 DEF SlotInv

\* Nothing is said of a call without an answer, nor of a request without one.
LEMMA StartSlot ==
    ASSUME MqttTypes, CallInv, SlotInv, call.at \in {"idle", "returned"}, NEW b,
           StartRequest(b), UNCHANGED <<inFlight, slot, cloud>>
    PROVE  SlotInv'
<1>1. wire.now = Nothing
  BY DEF CallInv
<1>2. /\ call'.answer = "none"
      /\ wire'.now = Nothing \/ wire'.now.answer = "none"
      /\ wire'.late = wire.late
  <2>1. CASE Publish(b) /\ socket = "none"
    <3>1. call' = [Idle EXCEPT !.at = "threw", !.body = b] /\ wire' = Retired
      BY <2>1 DEF Publish
    <3>2. call'.answer = "none"
      BY <3>1 DEF Idle
    <3>3. wire'.now = Nothing /\ wire'.late = wire.late
      BY <1>1, <3>1 DEF Retired
    <3> QED
      BY <3>2, <3>3
  <2>2. CASE Publish(b) /\ socket # "none"
    BY <2>2 DEF Publish, Waiting, MqttTypes
  <2>3. CASE call' = [Idle EXCEPT !.at = "closing", !.body = b] /\ UNCHANGED wire
    BY <1>1, <2>3 DEF Idle
  <2> QED
    BY <2>1, <2>2, <2>3 DEF StartRequest
<1> QED
  BY <1>2 DEF SlotInv, Given

LEMMA MqttStepSlot ==
    ASSUME MqttTypes, CallInv, SlotInv, MqttNext, UNCHANGED <<inFlight, slot, cloud>>
    PROVE  SlotInv'
<1>0. call \in Calls /\ wire \in [now : Wire, late : Wire]
  BY DEF MqttTypes
<1>1. CASE UNCHANGED wire /\ call'.answer = "none"
  BY <1>1 DEF SlotInv, Given
\* The request leaves the wire.
<1>2. CASE /\ wire' = Retired
           /\ \/ call'.answer = "none"
              \/ call'.answer = call.answer /\ call'.body = call.body
  <2>1. wire'.now = Nothing /\ wire'.late \in {wire.late, wire.now}
    BY <1>2 DEF Retired
  <2>2. ASSUME NEW s \in Slots, wire'.late # Nothing, wire'.late.body.from = s
        PROVE  wire'.late.body.packet <= slot[s].issued
    BY <2>1, <2>2, OnWire DEF SlotInv
  <2> QED
    BY <1>2, <2>1, <2>2 DEF SlotInv, Given
<1>3. CASE Throw
  BY <1>2, <1>3 DEF Throw, Idle
<1>4. CASE UNCHANGED wire /\ call'.answer = call.answer /\ call'.body = call.body
  BY <1>4 DEF SlotInv
<1>5. CASE OldClosed \/ HandleConnack \/ HandleSuback
  BY <1>0, <1>4, <1>5 DEF OldClosed, HandleConnack, HandleSuback, Calls
<1>6. CASE SocketOpens \/ ConnackTaken
  BY <1>1, <1>3, <1>6 DEF SocketOpens, ConnackTaken, Waiting
<1>7. CASE SendEnds
  BY <1>0, <1>3, <1>4, <1>7 DEF SendEnds, Calls
<1>8. CASE SubackTaken
  <2>1. wire.now = Nothing
    BY <1>8 DEF SubackTaken, Done, CallInv
  <2>2. CASE socket = "none"
    BY <1>3, <1>8, <2>2 DEF SubackTaken, Publish, Throw
  <2>3. CASE socket # "none"
    <3>1. call'.answer = "none" /\ wire'.now.answer = "none" /\ wire'.late = wire.late
      BY <1>0, <1>8, <2>3 DEF SubackTaken, Publish, Waiting
    <3> QED
      BY <3>1 DEF SlotInv, Given
  <2> QED
    BY <2>2, <2>3
<1>9. CASE TimesOut
  BY <1>0, <1>3, <1>4, <1>9 DEF TimesOut, Calls
<1>10. CASE IdentityFails \/ OpenFails \/ WaitRejected
  BY <1>3, <1>10 DEF IdentityFails, OpenFails, WaitRejected
<1>11. CASE AnswerTaken
  <2>1. call'.answer = call.answer /\ call'.body = call.body /\ wire' = Retired
    BY <1>11 DEF AnswerTaken, Idle
  <2> QED
    BY <1>2, <2>1
<1>12. CASE SocketLost
  BY <1>0, <1>4, <1>12 DEF SocketLost, Rejected, Calls
<1>13. ASSUME NEW k \in {"now", "late"}, HandleResponse(k)
       PROVE  SlotInv'
  <2>1. wire'.now \in {wire.now, Nothing} /\ wire'.late \in {wire.late, Nothing}
    BY <1>0, <1>13 DEF HandleResponse
  <2>2. \/ UNCHANGED call
        \/ wire.now # Nothing /\ call'.answer = wire.now.answer /\ call'.body = wire.now.body
    <3>1. CASE IsPending(k)
      BY <1>0, <1>13, <3>1 DEF HandleResponse, IsPending, Calls, CallInv
    <3> QED
      BY <1>13, <3>1 DEF HandleResponse
  <2> QED
    BY <2>1, <2>2 DEF SlotInv
<1> QED
  BY <1>5, <1>6, <1>7, <1>8, <1>9, <1>10, <1>11, <1>12, <1>13 DEF MqttNext, AwaitEnds


\* A slot whose report ends: an empty one has been stored, another is retried.
LEMMA EndSlot ==
    ASSUME ReportTypes, LinkTypes, SlotInv, NEW r \in Reporters, NEW ok \in BOOLEAN,
           ReportEnds(r, ok), UNCHANGED cloud,
           ok /\ r \in Slots => slot[r].posting <= cloud.stored[r]
    PROVE  \A s \in Slots : SlotFine(s)' /\ slot'[s].issued = slot[s].issued
<1> DEFINE own == IF r \in Slots THEN [slot EXCEPT ![r] = SlotAfter(r, ok)] ELSE slot
           woken == IF r = "report" THEN {"actuator"} ELSE Slots \ {r}
           kept == IF ok /\ slot[r].pending = slot[r].posting THEN 0 ELSE slot[r].pending
<1>0. /\ slot \in [Slots -> SlotType] /\ inFlight \in [Reporters -> BOOLEAN]
      /\ cloud.stored \in [Slots -> Nat] /\ Slots \subseteq Reporters
  BY NamesAre DEF ReportTypes, LinkTypes, SlotType
<1>1. r \in Slots => /\ SlotAfter(r, ok) \in SlotType
                     /\ SlotAfter(r, ok).issued = slot[r].issued
                     /\ SlotAfter(r, ok).pending = kept
                     /\ SlotAfter(r, ok).posting = 0
                     /\ kept # 0 => SlotAfter(r, ok).retry
  BY <1>0 DEF SlotAfter, SlotType
<1>2. /\ own \in [Slots -> SlotType]
      /\ \A s \in Slots : s # r => own[s] = slot[s]
      /\ r \in Slots => own[r] = SlotAfter(r, ok)
  BY <1>0, <1>1
<1>3. /\ slot' = [s \in Slots |-> [own[s] EXCEPT
                    !.retry = @ \/ (s \in woken /\ own[s].pending # 0)]]
      /\ inFlight' = [inFlight EXCEPT ![r] = FALSE]
  BY DEF ReportEnds
<1> HIDE DEF own, woken, kept
<1>4. \A s \in Slots : /\ slot'[s].issued = own[s].issued /\ slot'[s].pending = own[s].pending
                       /\ slot'[s].posting = own[s].posting
                       /\ own[s].retry => slot'[s].retry
  BY <1>2, <1>3 DEF SlotType
<1>5. ASSUME NEW s \in Slots PROVE SlotFine(s)' /\ slot'[s].issued = slot[s].issued
  <2>1. CASE s # r
    <3>1. inFlight'[s] = inFlight[s]
      BY <1>0, <1>3, <2>1
    <3> QED
      BY <1>2, <1>4, <2>1, <3>1 DEF SlotFine, SlotInv
  <2>2. CASE s = r
    <3>1. /\ slot'[s].issued = slot[s].issued /\ slot'[s].pending = kept
          /\ slot'[s].posting = 0 /\ (kept # 0 => slot'[s].retry)
      BY <1>1, <1>2, <1>4, <2>2
    <3>2. /\ slot[s].issued \in Nat /\ slot[s].pending \in Nat /\ slot[s].posting \in Nat
          /\ cloud.stored[s] \in Nat /\ cloud.stored[s] <= slot[s].issued
      BY <1>0 DEF SlotInv, SlotType
    <3>3. kept # 0 => kept = slot[s].issued
      BY <2>2 DEF kept, SlotInv
    <3>4. kept = 0 => cloud.stored[s] = slot[s].issued
      <4>1. CASE slot[s].pending = 0
        BY <4>1 DEF SlotInv
      <4>2. CASE slot[s].pending # 0 /\ kept = 0
        <5>1. ok /\ slot[s].pending = slot[s].posting /\ slot[s].pending = slot[s].issued
          BY <2>2, <4>2 DEF kept, SlotInv
        <5>2. slot[s].posting <= cloud.stored[s]
          BY <2>2, <5>1
        <5> QED
          BY <3>2, <5>1, <5>2
      <4> QED
        BY <4>1, <4>2
    <3> QED
      BY <3>1, <3>2, <3>3, <3>4 DEF SlotFine
  <2> QED
    BY <2>1, <2>2
<1> QED
  BY <1>5

LEMMA PostEndsSlot ==
    ASSUME ReportTypes, MqttTypes, LinkTypes, CallInv, SlotInv, call.at \in {"returned", "threw"},
           NEW ok \in BOOLEAN, NEW found \in BOOLEAN, PostEnds(ok, found),
           ok => ~IsHello /\ call.answer \in Given
    PROVE  SlotInv'
<1>1. turn \in Posters /\ call.body \in {Hello, Request(turn)} /\ wire.now = Nothing
  BY DEF LinkTypes, CallInv, Idle
<1>2. /\ call'.answer = "none" /\ wire'.now = Nothing
      /\ wire'.late # Nothing => wire.late # Nothing /\ wire'.late = [wire.late EXCEPT !.body.mine = FALSE]
  BY <1>1 DEF PostEnds, MqttTypes, Idle
<1>3. wire'.late # Nothing => /\ wire.late # Nothing
                              /\ wire'.late.body.from = wire.late.body.from
                              /\ wire'.late.body.packet = wire.late.body.packet
  <2>1. wire.late # Nothing => wire.late \in Sent /\ wire.late.body \in Bodies
    BY DEF MqttTypes, Wire, Sent
  <2>2. wire'.late # Nothing => wire'.late.body = [wire.late.body EXCEPT !.mine = FALSE]
    BY <1>2, <2>1 DEF Sent
  <2> QED
    BY <1>2, <2>1, <2>2 DEF Bodies
<1>4. \A s \in Slots : SlotFine(s)' /\ slot'[s].issued = slot[s].issued
  <2>1. CASE turn = "command"
    BY <2>1 DEF PostEnds, CommandEnds, SlotInv, SlotFine
  <2>2. CASE turn # "command"
    <3>1. turn \in Reporters /\ ReportEnds(turn, ok) /\ UNCHANGED cloud
      BY <1>1, <2>2 DEF PostEnds, Posters
    <3>2. ok /\ turn \in Slots => slot[turn].posting <= cloud.stored[turn]
      <4>1. ok => call.body = Request(turn)
        BY <1>1 DEF IsHello, Hello
      <4>2. ok /\ turn \in Slots => call.body.from = turn /\ call.body.packet = slot[turn].posting
        BY <4>1 DEF Request
      <4> QED
        BY <4>2 DEF SlotInv
    <3> QED
      BY <3>1, <3>2, EndSlot
  <2> QED
    BY <2>1, <2>2
<1> QED
  BY <1>2, <1>3, <1>4 DEF SlotInv, SlotFine, Given

LEMMA AnswersSlot ==
    ASSUME ReportTypes, MqttTypes, LinkTypes, CallInv, SlotInv,
           NEW k \in {"now", "late"}, CloudAnswers(k)
    PROVE  SlotInv'
<1>0. /\ wire \in [now : Wire, late : Wire] /\ UNCHANGED <<call, slot, inFlight>>
      /\ cloud.stored \in [Slots -> Nat] /\ slot \in [Slots -> SlotType]
  BY DEF MqttTypes, CloudAnswers, reportVars, LinkTypes, ReportTypes, SlotType
<1>1. PICK a \in Answers : /\ wire' = [wire EXCEPT ![k].answer = a]
                           /\ a \in Given /\ wire[k].body.from # "hello" => Executes(wire[k].body)
                           /\ cloud' = cloud \/ Executes(wire[k].body)
  BY DEF CloudAnswers, Answered, Answers, Given
<1>2. /\ wire[k] # Nothing /\ wire[k] \in Sent /\ wire[k].body.packet \in Nat
      /\ \A j \in {"now", "late"} : j # k => wire'[j] = wire[j]
      /\ wire'[k].body = wire[k].body /\ wire'[k].answer = a
  BY <1>0, <1>1 DEF CloudAnswers, Wire, Sent, Bodies
<1>3. \A s \in Slots : wire[k].body.from = s => wire[k].body.packet <= slot[s].issued
  <2>1. CASE k = "now"
    BY <1>2, <2>1, OnWire
  <2>2. CASE k = "late"
    BY <1>2, <2>2 DEF SlotInv
  <2> QED
    BY <2>1, <2>2
<1>4. ASSUME NEW s \in Slots
      PROVE  /\ cloud'.stored[s] \in Nat /\ cloud.stored[s] \in Nat
             /\ cloud.stored[s] <= cloud'.stored[s] /\ cloud'.stored[s] <= slot[s].issued
             /\ a \in Given /\ wire[k].body.from = s => wire[k].body.packet <= cloud'.stored[s]
  <2>1. cloud.stored[s] \in Nat /\ slot[s].issued \in Nat /\ cloud.stored[s] <= slot[s].issued
    BY <1>0 DEF SlotInv, SlotType
  <2>2. s # "hello"
    BY DEF Slots
  <2>3. CASE Executes(wire[k].body)
    <3>1. cloud'.stored[s] = IF s = wire[k].body.from /\ wire[k].body.packet > cloud.stored[s]
                               THEN wire[k].body.packet ELSE cloud.stored[s]
      BY <2>3 DEF Executes
    <3> QED
      BY <1>2, <1>3, <2>1, <3>1
  <2>4. CASE cloud' = cloud /\ ~Executes(wire[k].body)
    BY <1>1, <2>1, <2>2, <2>4
  <2> QED
    BY <1>1, <2>3, <2>4
<1>5. \A s \in Slots : slot[s].pending = 0 => cloud'.stored[s] = slot[s].issued
  <2> SUFFICES ASSUME NEW s \in Slots, slot[s].pending = 0
               PROVE cloud'.stored[s] = slot[s].issued
    OBVIOUS
  <2>1. cloud.stored[s] = slot[s].issued
    BY DEF SlotInv
  <2> QED
    BY <1>4, <2>1
<1>6. ASSUME NEW s \in Slots, wire'.now # Nothing, wire'.now.answer \in Given, wire'.now.body.from = s
      PROVE  wire'.now.body.packet <= cloud'.stored[s]
  <2>1. CASE k = "now"
    BY <1>2, <1>4, <1>6, <2>1
  <2>2. CASE k = "late"
    <3>1. wire'.now = wire.now
      BY <1>2, <2>2
    <3>2. wire.now.body.packet <= cloud.stored[s] /\ wire.now.body.packet \in Nat
      BY <1>0, <1>6, <3>1 DEF SlotInv, Wire, Sent, Bodies
    <3> QED
      BY <1>4, <3>1, <3>2
  <2> QED
    BY <2>1, <2>2
<1>7. ASSUME NEW s \in Slots, call.answer \in Given, call.body.from = s
      PROVE  call.body.packet <= cloud'.stored[s]
  <2>1. call.body.packet <= cloud.stored[s]
    BY <1>7 DEF SlotInv
  <2>2. call.body.packet \in Nat
    <3>1. call.at # "idle" /\ turn # "none"
      BY <1>7 DEF CallInv, Given, Idle
    <3>2. call.body \in Bodies
      BY <3>1, RequestType DEF CallInv, LinkTypes
    <3> QED
      BY <3>2 DEF Bodies
  <2> QED
    BY <1>4, <2>1, <2>2
<1>8. ASSUME NEW s \in Slots, wire'.late # Nothing, wire'.late.body.from = s
      PROVE  wire'.late.body.packet <= slot[s].issued
  <2>1. CASE k = "late"
    BY <1>2, <1>3, <1>8, <2>1
  <2>2. CASE k = "now"
    <3>1. wire'.late = wire.late
      BY <1>2, <2>2
    <3> QED
      BY <1>8, <3>1 DEF SlotInv
  <2> QED
    BY <2>1, <2>2
<1>9. \A s \in Slots : SlotFine(s)'
  BY <1>0, <1>4, <1>5 DEF SlotFine, SlotInv
<1> QED
  BY <1>0, <1>6, <1>7, <1>8, <1>9 DEF SlotInv, SlotFine

LEMMA SlotStep == LinkInv /\ [Next]_vars => SlotInv'
<1> SUFFICES ASSUME LinkInv, [Next]_vars PROVE SlotInv'
  OBVIOUS
<1>0. ReportTypes /\ MqttTypes /\ LinkTypes /\ CallInv /\ SlotInv
  BY DEF LinkInv
<1>1. CASE UNCHANGED <<inFlight, slot, call, wire, cloud>>
  BY <1>0, <1>1 DEF SlotInv
<1>2. CASE ReportsNext /\ UNCHANGED <<mqttVars, linkVars>>
  BY <1>0, <1>2, ReportStepSlot DEF mqttVars, linkVars
<1>3. CASE MqttNext /\ UNCHANGED <<reportVars, linkVars>>
  BY <1>0, <1>3, MqttStepSlot DEF reportVars, linkVars
<1>4. ASSUME NEW p \in Posters, TakeTurn(p) PROVE SlotInv'
  <2>1. call.at = "idle" /\ UNCHANGED <<inFlight, slot, cloud>> /\ \E b : StartRequest(b)
    BY <1>0, <1>4 DEF TakeTurn, PostOnce, CallInv, Idle
  <2> QED
    BY <1>0, <2>1, StartSlot
<1>5. CASE HelloAnswered \/ RenewAndRepeat
  <2>1. call.at = "returned" /\ UNCHANGED <<inFlight, slot, cloud>> /\ \E b : StartRequest(b)
    BY <1>5 DEF HelloAnswered, RenewAndRepeat, Renewable, PostOnce, reportVars
  <2> QED
    BY <1>0, <2>1, StartSlot
<1>6. CASE PostSucceeds
  BY <1>0, <1>6, PostEndsSlot DEF PostSucceeds, Given
<1>7. CASE PostFails
  BY <1>0, <1>7, PostEndsSlot DEF PostFails, Renewable
<1>8. ASSUME NEW k \in {"now", "late"}, CloudAnswers(k) PROVE SlotInv'
  BY <1>0, <1>8, AnswersSlot
<1> QED
  BY <1>1, <1>2, <1>3, <1>4, <1>5, <1>6, <1>7, <1>8 DEF Next, vars, reportVars, mqttVars, linkVars,
     LinkSteps, CloudForgets


-----------------------------------------------------------------------------
(* Executions *)

LEMMA MqttStepUnspent ==
    ASSUME MqttTypes, CallInv, MqttNext, Unspent'
    PROVE  Unspent
<1>0. call \in Calls /\ wire \in [now : Wire, late : Wire]
  BY DEF MqttTypes
<1> USE DEF Unspent
<1>1. ASSUME Throw, call.at \in Waits \cup {"closing", "opening"} PROVE Unspent
  <2>1. call'.at = "threw" /\ call'.body = call.body /\ call'.answer = "none"
    BY <1>1 DEF Throw, Idle
  <2>2. wire'.now = Nothing /\ wire'.late \in {wire.late, wire.now}
    BY <1>1 DEF Throw, Retired
  <2>3. CASE call.body.from = "hello"
    BY <1>1, <2>3 DEF Waits
  <2>4. CASE wire'.late # Nothing /\ wire'.late.body.mine /\ wire'.late.answer = "none"
    <3>1. CASE wire'.late = wire.late
      BY <1>1, <2>4, <3>1
    <3>2. CASE wire'.late = wire.now
      BY <2>4, <3>2
    <3> QED
      BY <2>2, <3>1, <3>2
  <2> QED
    BY <2>1, <2>2, <2>3, <2>4
<1>2. CASE call.at \in {"closing", "opening", "connack", "suback"}
  BY <1>2
<1>3. CASE call.at = "answer" /\ SendEnds
  <2>1. CASE call' = [call EXCEPT !.sent = TRUE] /\ UNCHANGED wire
    BY <1>0, <1>3, <2>1 DEF Calls
  <2> QED
    BY <1>1, <1>3, <2>1 DEF SendEnds, Waits
<1>4. CASE call.at = "answer" /\ TimesOut
  <2>1. call' = [call EXCEPT !.wait = "failed"] /\ UNCHANGED wire
    BY <1>4 DEF TimesOut
  <2> QED
    BY <1>0, <1>4, <2>1 DEF Calls
<1>5. CASE WaitRejected
  BY <1>1, <1>5 DEF WaitRejected, Waits
<1>6. CASE AnswerTaken
  <2>1. wire.now = Nothing /\ wire'.now = Nothing /\ wire'.late = wire.late /\ call.at = "answer"
    BY <1>0, <1>6 DEF AnswerTaken, Done, CallInv, Retired
  <2>2. call'.at = "returned" /\ call'.body = call.body /\ call'.answer = call.answer
    BY <1>6 DEF AnswerTaken, Idle
  <2> QED
    BY <2>1, <2>2
<1>7. CASE SocketLost
  <2>1. UNCHANGED wire
    BY <1>7 DEF SocketLost
  <2>2. call'.at = call.at /\ call'.body = call.body /\ call'.answer = call.answer
    BY <1>0, <1>7 DEF SocketLost, Rejected, Calls
  <2> QED
    BY <2>1, <2>2
<1>8. ASSUME NEW k \in {"now", "late"}, HandleResponse(k) PROVE Unspent
  <2>1. wire'.now \in {wire.now, Nothing} /\ wire'.late \in {wire.late, Nothing}
    BY <1>0, <1>8 DEF HandleResponse
  <2>2. CASE UNCHANGED call
    BY <2>1, <2>2
  <2>3. CASE IsPending(k)
    <3>1. /\ wire.now # Nothing /\ call'.answer = wire.now.answer /\ call'.body = call.body
          /\ call'.at = call.at
      BY <1>0, <1>8, <2>3 DEF HandleResponse, IsPending, Calls
    <3> QED
      BY <2>1, <3>1
  <2> QED
    BY <1>8, <2>2, <2>3 DEF HandleResponse
<1> QED
  BY <1>2, <1>3, <1>4, <1>5, <1>6, <1>7, <1>8 DEF MqttNext, AwaitEnds, OldClosed, IdentityFails,
     SocketOpens, OpenFails, SendEnds, ConnackTaken, SubackTaken, TimesOut, HandleConnack,
     HandleSuback, Done, Waits

LEMMA AnswersOnce ==
    ASSUME MqttTypes, LinkTypes, CallInv, OnceInv, NEW k \in {"now", "late"}, CloudAnswers(k)
    PROVE  OnceInv'
<1>0. /\ wire \in [now : Wire, late : Wire] /\ UNCHANGED <<call, attempt>>
      /\ past.executed \in Nat /\ past.mismatched \in {0, 1}
      /\ past = [executed |-> past.executed, mismatched |-> past.mismatched]
  BY DEF MqttTypes, CloudAnswers, LinkTypes
<1>1. PICK a \in Answers :
        /\ wire' = [wire EXCEPT ![k].answer = a]
        /\ \/ past' = past
           \/ wire[k].body.from # "hello" /\ Executes(wire[k].body) /\ (k = "now" => a # "stale")
  BY DEF CloudAnswers, Answered, Answers
<1>2. /\ wire[k] # Nothing /\ wire[k] \in Sent /\ wire[k].answer = "none"
      /\ \A j \in {"now", "late"} : j # k => wire'[j] = wire[j]
      /\ wire'[k].body = wire[k].body /\ wire'[k].answer = a /\ a # "none"
      /\ wire[k].body.mine \in BOOLEAN
  BY <1>0, <1>1 DEF CloudAnswers, Wire, Sent, Bodies, Answers
<1>3. CASE past' = past
  <2>1. Unspent' => Unspent
    BY <1>0, <1>2 DEF Unspent
  <2> QED
    BY <1>0, <1>3, <2>1 DEF OnceInv
<1>4. CASE /\ wire[k].body.from # "hello" /\ Executes(wire[k].body) /\ (k = "now" => a # "stale")
  <2>1. past' = [past EXCEPT !.executed = @ + (IF wire[k].body.mine THEN 1 ELSE 0)]
    BY <1>4 DEF Executes
  <2>2. CASE ~wire[k].body.mine
    <3>1. past' = past
      BY <1>0, <2>1, <2>2
    <3> QED
      BY <1>3, <3>1
  <2>3. CASE wire[k].body.mine
    <3>1. Unspent
      BY <1>2, <2>3 DEF Unspent
    <3>2. past.executed <= past.mismatched
      BY <3>1 DEF OnceInv
    <3>3. past'.executed = past.executed + 1 /\ past'.mismatched = past.mismatched
      BY <1>0, <2>1, <2>3
    <3>4. ~Unspent'
      <4>1. CASE k = "now"
        <5>1. /\ call.at = "answer" /\ call.wait # "done" /\ wire.now.body = call.body
              /\ call.answer = "none"
          BY <1>2, <4>1 DEF CallInv
        <5>2. wire'.late # Nothing => ~wire'.late.body.mine
          <6>1. wire'.late = wire.late
            BY <1>2, <4>1
          <6>2. wire.late # Nothing => wire.late.body.mine \in BOOLEAN
            BY <1>0 DEF Wire, Sent, Bodies
          <6> QED
            BY <5>1, <6>1, <6>2 DEF CallInv
        <5> QED
          BY <1>0, <1>2, <1>4, <4>1, <5>1, <5>2 DEF Unspent
      <4>2. CASE k = "late"
        <5>1. call.at = "threw" /\ call.body.from # "hello" /\ wire.now = Nothing /\ call.answer = "none"
          BY <1>2, <2>3, <4>2 DEF CallInv
        <5>2. wire'.now = wire.now
          BY <1>2, <4>2
        <5> QED
          BY <1>0, <1>2, <4>2, <5>1, <5>2 DEF Unspent
      <4> QED
        BY <4>1, <4>2
    <3> QED
      BY <1>0, <3>2, <3>3, <3>4 DEF OnceInv
  <2> QED
    BY <1>2, <2>2, <2>3
<1> QED
  BY <1>1, <1>3, <1>4

LEMMA OnceStep == LinkInv /\ [Next]_vars => OnceInv'
<1> SUFFICES ASSUME LinkInv, [Next]_vars PROVE OnceInv'
  OBVIOUS
<1>0. MqttTypes /\ LinkTypes /\ CallInv /\ OnceInv
  BY DEF LinkInv
<1>1. CASE UNCHANGED <<call, wire, attempt, past>>
  BY <1>0, <1>1 DEF OnceInv, Unspent
<1>2. CASE MqttNext /\ UNCHANGED <<reportVars, linkVars>>
  BY <1>0, <1>2, MqttStepUnspent DEF linkVars, OnceInv
<1>3. CASE past' = Fresh /\ attempt' = 1
  BY <1>3 DEF OnceInv, Fresh
<1>4. CASE HelloAnswered
  <2>1. Unspent
    BY <1>4 DEF HelloAnswered, IsHello, Unspent
  <2> QED
    BY <1>0, <1>4, <2>1 DEF HelloAnswered, OnceInv, LinkTypes
<1>5. CASE RenewAndRepeat
  <2>1. /\ past.executed \in Nat /\ past.mismatched = 0 /\ past.executed <= 1
        /\ call.answer = "stale" => past.executed <= 0
        /\ call.answer \in {"stale", "mismatch"}
    BY <1>0, <1>5 DEF RenewAndRepeat, Renewable, OnceInv, Unspent, LinkTypes
  <2>2. /\ attempt' = 2 /\ past'.executed = past.executed
        /\ past'.mismatched = IF call.answer = "mismatch" THEN 1 ELSE 0
    BY <1>0, <1>5 DEF RenewAndRepeat, LinkTypes
  <2>3. past.executed <= past'.mismatched /\ past'.mismatched \in {0, 1}
    BY <2>1, <2>2
  <2> QED
    BY <2>1, <2>2, <2>3 DEF OnceInv
<1>6. ASSUME NEW k \in {"now", "late"}, CloudAnswers(k) PROVE OnceInv'
  BY <1>0, <1>6, AnswersOnce
<1> QED
  BY <1>1, <1>2, <1>3, <1>4, <1>5, <1>6 DEF Next, vars, mqttVars, linkVars, LinkSteps, TakeTurn,
     PostSucceeds, PostFails, PostEnds, CloudForgets

-----------------------------------------------------------------------------
(* The command and its acknowledgement *)

LEMMA MqttStepAck ==
    ASSUME MqttTypes, CallInv, AckInv, MqttNext, UNCHANGED <<command, cloud>>
    PROVE  AckInv'
<1>0. call \in Calls /\ wire \in [now : Wire, late : Wire]
  BY DEF MqttTypes
\* Of the request on the wire nothing new is said, and of the call what was
\* said of it or of the request.
<1>1. ASSUME \/ wire'.now = wire.now \/ wire'.now = Nothing \/ wire'.now.answer = "none",
             \/ call'.answer = "none"
             \/ call'.answer = call.answer /\ call'.body = call.body
             \/ wire.now # Nothing /\ call'.answer = wire.now.answer /\ call'.body = wire.now.body
      PROVE  AckInv'
  BY <1>1 DEF AckInv, Given
<1>2. CASE Throw
  BY <1>1, <1>2 DEF Throw, Retired, Idle
<1>3. CASE OldClosed \/ HandleConnack \/ HandleSuback
  BY <1>0, <1>1, <1>3 DEF OldClosed, HandleConnack, HandleSuback, Calls
<1>4. CASE SocketOpens \/ ConnackTaken
  BY <1>1, <1>2, <1>4 DEF SocketOpens, ConnackTaken, Waiting
<1>5. CASE SendEnds
  BY <1>0, <1>1, <1>2, <1>5 DEF SendEnds, Calls
<1>6. CASE SubackTaken
  <2>1. CASE socket = "none"
    BY <1>2, <1>6, <2>1 DEF SubackTaken, Publish, Throw
  <2>2. CASE socket # "none"
    BY <1>0, <1>1, <1>6, <2>2 DEF SubackTaken, Publish, Waiting
  <2> QED
    BY <2>1, <2>2
<1>7. CASE TimesOut
  BY <1>0, <1>1, <1>2, <1>7 DEF TimesOut, Calls
<1>8. CASE IdentityFails \/ OpenFails \/ WaitRejected
  BY <1>2, <1>8 DEF IdentityFails, OpenFails, WaitRejected
<1>9. CASE AnswerTaken
  <2>1. call'.answer = call.answer /\ call'.body = call.body /\ wire'.now = Nothing
    BY <1>9 DEF AnswerTaken, Idle, Retired
  <2> QED
    BY <1>1, <2>1
<1>10. CASE SocketLost
  BY <1>0, <1>1, <1>10 DEF SocketLost, Rejected, Calls
<1>11. ASSUME NEW k \in {"now", "late"}, HandleResponse(k) PROVE AckInv'
  <2>1. wire'.now \in {wire.now, Nothing}
    BY <1>0, <1>11 DEF HandleResponse
  <2>2. \/ UNCHANGED call
        \/ wire.now # Nothing /\ call'.answer = wire.now.answer /\ call'.body = wire.now.body
    <3>1. CASE IsPending(k)
      BY <1>0, <1>11, <3>1 DEF HandleResponse, IsPending, Calls, CallInv
    <3> QED
      BY <1>11, <3>1 DEF HandleResponse
  <2> QED
    BY <1>1, <2>1, <2>2
<1> QED
  BY <1>3, <1>4, <1>5, <1>6, <1>7, <1>8, <1>9, <1>10, <1>11 DEF MqttNext, AwaitEnds

LEMMA StartAck ==
    ASSUME MqttTypes, CallInv, AckInv, call.at \in {"idle", "returned"}, NEW b,
           StartRequest(b), UNCHANGED <<command, cloud>>
    PROVE  AckInv'
<1>1. wire.now = Nothing
  BY DEF CallInv
<1>2. /\ call'.answer = "none"
      /\ wire'.now = Nothing \/ wire'.now.answer = "none"
  <2>1. CASE Publish(b) /\ socket = "none"
    <3>1. call' = [Idle EXCEPT !.at = "threw", !.body = b] /\ wire' = Retired
      BY <2>1 DEF Publish
    <3> QED
      BY <3>1 DEF Idle, Retired
  <2>2. CASE Publish(b) /\ socket # "none"
    BY <2>2 DEF Publish, Waiting, MqttTypes
  <2>3. CASE call' = [Idle EXCEPT !.at = "closing", !.body = b] /\ UNCHANGED wire
    BY <1>1, <2>3 DEF Idle
  <2> QED
    BY <2>1, <2>2, <2>3 DEF StartRequest
<1> QED
  BY <1>2 DEF AckInv, Given

\* The end of a post: only an acknowledgement that was answered is taken for
\* one that came, and only the answer to a poll leads to a command.
LEMMA PostEndsAck ==
    ASSUME ReportTypes, MqttTypes, LinkTypes, CallInv, AckInv, call.at \in {"returned", "threw"},
           NEW ok \in BOOLEAN, NEW found \in BOOLEAN, PostEnds(ok, found),
           ok => ~IsHello /\ call.answer \in Given, ok /\ found => call.answer = "command"
    PROVE  AckInv'
<1>1. turn \in Posters /\ call.body \in {Hello, Request(turn)} /\ wire.now = Nothing
  BY DEF LinkTypes, CallInv, Idle
<1>2. call'.answer = "none" /\ wire'.now = Nothing /\ UNCHANGED cloud
  BY <1>1 DEF PostEnds, MqttTypes, Idle
<1>3. CASE turn # "command"
  <2>1. UNCHANGED command
    BY <1>3 DEF PostEnds, ReportEnds
  <2> QED
    BY <1>2, <2>1 DEF AckInv, Given
<1>4. CASE turn = "command"
  <2>1. CommandEnds(ok, found)
    BY <1>4 DEF PostEnds
  <2>2. ok /\ command.at # "poll" => ~cloud.waiting
    <3>1. ok => call.body = Request(turn)
      BY <1>1 DEF IsHello, Hello
    <3>2. ok /\ command.at # "poll" => call.body.says = "ack"
      BY <1>4, <3>1 DEF Request
    <3> QED
      BY <3>2 DEF AckInv
  <2>3. ok /\ found => ~command.acked
    BY DEF AckInv
  <2>4. CASE ok /\ command.at = "poll" /\ found /\ command' = [command EXCEPT !.at = "carry"]
    BY <1>2, <2>3, <2>4 DEF AckInv, Given, ReportTypes
  <2>5. CASE command' = [command EXCEPT !.at = "idle", !.acked = @ \/ (ok /\ command.at # "poll")]
    <3>1. command'.at = "idle" /\ (command'.acked => command.acked \/ (ok /\ command.at # "poll"))
      BY <2>5 DEF ReportTypes
    <3>2. command'.acked => ~cloud.waiting
      BY <2>2, <3>1 DEF AckInv
    <3> QED
      BY <1>2, <3>1, <3>2 DEF AckInv, Given
  <2>6. CASE command' = [command EXCEPT !.at = "no"]
    BY <1>2, <2>6 DEF AckInv, Given, ReportTypes
  <2> QED
    BY <2>1, <2>4, <2>5, <2>6 DEF CommandEnds
<1> QED
  BY <1>3, <1>4

LEMMA AnswersAck ==
    ASSUME MqttTypes, LinkTypes, CallInv, AckInv, NEW k \in {"now", "late"}, CloudAnswers(k)
    PROVE  AckInv'
<1>0. /\ wire \in [now : Wire, late : Wire] /\ UNCHANGED <<call, command>>
      /\ cloud.waiting \in BOOLEAN
  BY DEF MqttTypes, CloudAnswers, reportVars, LinkTypes
<1>1. PICK a \in Answers :
        /\ wire' = [wire EXCEPT ![k].answer = a]
        /\ cloud' = cloud \/ Executes(wire[k].body)
        /\ a = "command" => cloud.waiting \/ k = "late"
        /\ a \in Given => wire[k].body.from = "hello" \/ Executes(wire[k].body)
  BY DEF CloudAnswers, Answered, Answers, Given
<1>2. /\ wire[k] # Nothing /\ wire[k] \in Sent
      /\ \A j \in {"now", "late"} : j # k => wire'[j] = wire[j]
      /\ wire'[k].body = wire[k].body /\ wire'[k].answer = a
  BY <1>0, <1>1 DEF CloudAnswers, Wire, Sent
<1>6. ASSUME NEW b, Executes(b) PROVE cloud'.waiting = (cloud.waiting /\ b.says # "ack")
  BY <1>6 DEF Executes
<1>3. cloud'.waiting => cloud.waiting
  <2>1. CASE Executes(wire[k].body)
    <3>1. cloud'.waiting = (cloud.waiting /\ wire[k].body.says # "ack")
      BY <1>6, <2>1
    <3> QED
      BY <3>1, Zenon
  <2> QED
    BY <1>1, <2>1
<1>4. CASE k = "late"
  <2>1. wire'.now = wire.now
    BY <1>2, <1>4
  <2> QED
    BY <1>0, <1>3, <2>1 DEF AckInv
<1>5. CASE k = "now"
  <2>1. a = "command" => ~command.acked
    BY <1>1, <1>5 DEF AckInv
  <2>2. a \in Given /\ wire.now.body.says = "ack" => ~cloud'.waiting
    <3>1. wire.now.body.from = "hello" => wire.now.body.says # "ack"
      <4>1. wire.now.body \in {Hello, Request(turn)}
        BY <1>2, <1>5 DEF CallInv, Idle
      <4>2. CASE wire.now.body = Hello
        BY <4>2 DEF Hello
      <4>3. CASE wire.now.body = Request(turn)
        <5>1. turn \in Posters \cup {"none"} /\ wire.now.body.from = turn
          BY <4>3 DEF LinkTypes, Request
        <5> QED
          BY <5>1, NamesAre
      <4> QED
        BY <4>1, <4>2, <4>3
    <3>2. Executes(wire.now.body) /\ wire.now.body.says = "ack" => ~cloud'.waiting
      <4>1. Executes(wire.now.body) =>
               cloud'.waiting = (cloud.waiting /\ wire.now.body.says # "ack")
        BY <1>6
      <4> QED
        BY <4>1, Zenon
    <3> QED
      BY <1>1, <1>5, <3>1, <3>2
  <2>3. wire'.now.body = wire.now.body /\ wire'.now.answer = a
    BY <1>2, <1>5
  <2> QED
    BY <1>0, <1>3, <2>1, <2>2, <2>3 DEF AckInv
<1> QED
  BY <1>4, <1>5

LEMMA AckStep == LinkInv /\ [Next]_vars => AckInv'
<1> SUFFICES ASSUME LinkInv, [Next]_vars PROVE AckInv'
  OBVIOUS
<1>0. ReportTypes /\ MqttTypes /\ LinkTypes /\ CallInv /\ AckInv
  BY DEF LinkInv
<1>1. CASE UNCHANGED <<command, call, wire, cloud>>
  BY <1>0, <1>1 DEF AckInv
<1>2. CASE ReportsNext /\ UNCHANGED <<mqttVars, linkVars>>
  <2>1. command'.acked = command.acked /\ (command'.at = "carry" => command.at = "carry")
    BY <1>0, <1>2 DEF ReportsNext, ReportCloud, QueueReport, RetryFires, PollCommand, CarryOut,
       LeaveForRetry, Refuse, ReportTypes
  <2> QED
    BY <1>0, <1>2, <2>1 DEF AckInv, mqttVars, linkVars
<1>3. CASE MqttNext /\ UNCHANGED <<reportVars, linkVars>>
  BY <1>0, <1>3, MqttStepAck DEF reportVars, linkVars
<1>4. ASSUME NEW p \in Posters, TakeTurn(p) PROVE AckInv'
  <2>1. call.at = "idle" /\ UNCHANGED <<command, cloud>> /\ \E b : StartRequest(b)
    BY <1>0, <1>4 DEF TakeTurn, PostOnce, CallInv, Idle
  <2> QED
    BY <1>0, <2>1, StartAck
<1>5. CASE HelloAnswered \/ RenewAndRepeat
  <2>1. call.at = "returned" /\ UNCHANGED <<command, cloud>> /\ \E b : StartRequest(b)
    BY <1>5 DEF HelloAnswered, RenewAndRepeat, Renewable, PostOnce, reportVars
  <2> QED
    BY <1>0, <2>1, StartAck
<1>6. CASE PostSucceeds
  BY <1>0, <1>6, PostEndsAck DEF PostSucceeds, Given
<1>7. CASE PostFails
  BY <1>0, <1>7, PostEndsAck DEF PostFails, Renewable
<1>8. ASSUME NEW k \in {"now", "late"}, CloudAnswers(k) PROVE AckInv'
  BY <1>0, <1>8, AnswersAck
<1> QED
  BY <1>1, <1>2, <1>3, <1>4, <1>5, <1>6, <1>7, <1>8 DEF Next, vars, reportVars, mqttVars, linkVars,
     LinkSteps, CloudForgets


-----------------------------------------------------------------------------
(* The theorems *)

LEMMA LinkInvInit == Init => LinkInv
<1> SUFFICES ASSUME Init PROVE LinkInv
  OBVIOUS
<1>1. ReportTypes /\ MqttTypes /\ LinkTypes
  BY InitTypes
<1>2. SocketInv /\ CallInv
  BY DEF Init, MqttInit, SocketInv, CallInv, Idle
<1>3. PostInv
  BY NamesAre DEF Init, ReportsInit, PostInv
<1>4. SlotInv
  <2>1. call.answer = "none" /\ wire.now = Nothing /\ wire.late = Nothing
    BY DEF Init, MqttInit, Idle
  <2>2. \A s \in Slots : /\ cloud.stored[s] = 0 /\ slot[s].issued = 0
                          /\ slot[s].pending = 0 /\ slot[s].posting = 0
    BY DEF Init, ReportsInit
  <2> QED
    <3>1. call.answer \notin Given
      BY <2>1 DEF Given
    <3>2. 0 <= 0
      OBVIOUS
    <3>3. \A s \in Slots : SlotFine(s)
      BY <2>2, <3>2 DEF SlotFine
    <3> QED
      BY <2>1, <3>1, <3>3 DEF SlotInv, SlotFine
<1>5. OnceInv
  BY DEF Init, MqttInit, OnceInv, Unspent, Fresh, Idle
<1>6. AckInv
  BY DEF Init, ReportsInit, MqttInit, AckInv, Idle, Given
<1> QED
  BY <1>1, <1>2, <1>3, <1>4, <1>5, <1>6 DEF LinkInv

LEMMA LinkInvStep == LinkInv /\ [Next]_vars => LinkInv'
BY TypesStep, SocketStep, PostStep, CallStep, SlotStep, OnceStep, AckStep DEF LinkInv

LEMMA LinkInvAlways == Spec => []LinkInv
BY LinkInvInit, LinkInvStep, PTL DEF Spec

\* Every variable of the link, of the client and of the reports keeps its type:
\* the packets stay within their bound, a post is tried at most twice.
THEOREM TypeCorrect == Spec => []TypeOK
<1>1. LinkInv => TypeOK
  <2> SUFFICES ASSUME LinkInv PROVE TypeOK
    OBVIOUS
  <2>0. ReportTypes /\ MqttTypes /\ LinkTypes /\ SlotInv /\ OnceInv
    BY DEF LinkInv
  <2>1. ASSUME NEW s \in Slots
        PROVE  slot[s] \in [issued : 0..MaxPackets, pending : 0..MaxPackets,
                            posting : 0..MaxPackets, retry : BOOLEAN]
    <3>1. /\ slot[s] \in SlotType /\ slot["alarm"].issued \in Nat /\ slot["actuator"].issued \in Nat
          /\ slot["alarm"].issued + slot["actuator"].issued <= MaxPackets
      BY <2>0, NamesAre DEF ReportTypes, SlotType
    <3>2. slot[s].issued \in Nat /\ slot[s].pending \in Nat /\ slot[s].posting \in Nat
      BY <3>1 DEF SlotType
    <3>3. slot[s].issued <= MaxPackets
      BY <3>1, CloudBounds DEF Slots
    <3>4. /\ slot[s].posting <= slot[s].issued
          /\ slot[s].pending # 0 => slot[s].pending = slot[s].issued
      BY <2>0 DEF SlotInv
    <3>5. /\ slot[s].issued \in 0..MaxPackets /\ slot[s].pending \in 0..MaxPackets
          /\ slot[s].posting \in 0..MaxPackets
      BY <3>2, <3>3, <3>4, CloudBounds
    <3> QED
      BY <3>1, <3>5 DEF SlotType
  <2>2. past \in [executed : 0..2, mismatched : 0..1]
    BY <2>0 DEF LinkTypes, OnceInv
  <2> QED
    BY <2>0, <2>1, <2>2 DEF TypeOK, ReportTypes, MqttTypes, LinkTypes, Calls
<1> QED
  BY <1>1, LinkInvAlways, PTL

\* An alarm or an actuator state that was queued is never lost: it is pending
\* and under way or has its timer set, or the cloud has it; and two reports are
\* never under way at once.
THEOREM NoneForgotten == Spec => []NothingForgotten
<1>1. LinkInv => NothingForgotten
  BY DEF LinkInv, SlotInv, PostInv, NothingForgotten
<1> QED
  BY <1>1, LinkInvAlways, PTL

\* The cloud executes one post at most once, although it is repeated after a
\* lost session and may arrive after it was given up; twice only if the answer
\* to the first was sealed with the other cipher.
THEOREM NeverTwice == Spec => []ExecutedOnce
<1>1. LinkInv => ExecutedOnce
  BY DEF LinkInv, OnceInv, ExecutedOnce
<1> QED
  BY <1>1, LinkInvAlways, PTL

\* No answer to an earlier poll, however late, makes the terminal carry out a
\* command that it has acknowledged.
THEOREM CarriedOnce == Spec => []CarriedOutOnce
<1>1. LinkInv => CarriedOutOnce
  BY DEF LinkInv, AckInv, CarriedOutOnce
<1> QED
  BY <1>1, LinkInvAlways, PTL

\* A request goes only over a socket whose subscription was confirmed, also
\* when sockets are lost and reopened between the steps of connecting.
THEOREM OnlySubscribed == Spec => PublishSubscribed
<1>1. LinkInv /\ [Next]_vars => [wire.now = Nothing /\ wire'.now # Nothing => socket = "suback"]_vars
  <2> SUFFICES ASSUME LinkInv, Next, wire.now = Nothing, wire'.now # Nothing
               PROVE  socket = "suback"
    OBVIOUS
  <2>0. MqttTypes /\ SocketInv
    BY DEF LinkInv
  <2>1. CASE wire'.now = wire.now
    BY <2>1
  <2>2. ASSUME NEW b, Publish(b), socket \in {"none", "suback"} PROVE socket = "suback"
    BY <2>2 DEF Publish, Retired
  <2>3. ASSUME NEW b, StartRequest(b) PROVE socket = "suback"
    <3>1. CASE connected /\ Publish(b)
      BY <2>0, <2>2, <3>1 DEF SocketInv
    <3>2. CASE UNCHANGED wire
      BY <2>1, <3>2
    <3> QED
      BY <2>3, <3>1, <3>2 DEF StartRequest
  <2>4. CASE wire' = Retired
    BY <2>4 DEF Retired
  <2>5. CASE MqttNext
    <3>1. CASE SubackTaken
      BY <2>0, <2>2, <3>1 DEF SubackTaken, Done, SocketInv
    <3>2. ASSUME NEW k \in {"now", "late"}, HandleResponse(k) PROVE socket = "suback"
      BY <3>2 DEF HandleResponse
    <3> QED
      BY <2>1, <2>4, <2>5, <3>1, <3>2 DEF MqttNext, AwaitEnds, OldClosed, IdentityFails, SocketOpens,
         OpenFails, SendEnds, ConnackTaken, TimesOut, WaitRejected, AnswerTaken, HandleConnack,
         HandleSuback, SocketLost, Throw
  <2>6. ASSUME NEW ok, NEW found, PostEnds(ok, found) PROVE socket = "suback"
    <3>1. wire'.now = wire.now
      BY <2>0, <2>6 DEF PostEnds, MqttTypes
    <3> QED
      BY <2>1, <3>1
  <2>7. ASSUME NEW k \in {"now", "late"}, CloudAnswers(k) PROVE socket = "suback"
    <3>1. PICK a : wire' = [wire EXCEPT ![k].answer = a] /\ wire[k] # Nothing
      BY <2>7 DEF CloudAnswers, Answered
    <3>2. k = "late" /\ wire'.now = wire.now
      BY <2>0, <3>1 DEF MqttTypes
    <3> QED
      BY <2>1, <3>2
  <2> QED
    BY <2>1, <2>3, <2>5, <2>6, <2>7 DEF Next, mqttVars, LinkSteps, TakeTurn, PostOnce, HelloAnswered,
       RenewAndRepeat, PostSucceeds, PostFails, CloudForgets
<1> QED
  BY <1>1, LinkInvAlways, PTL DEF Spec, PublishSubscribed

-----------------------------------------------------------------------------
(* The end of a turn *)

\* A hello is answered with a session or an error, never as a request is.
Fits(b, a) == a # "none" /\ b.from = "hello" => a \in {"ok", "refused"}

\* A call that is over, or about to be, has an answer that fits its request.
EndInv ==
    /\ wire.now # Nothing => Fits(wire.now.body, wire.now.answer)
    /\ Fits(call.body, call.answer)
    /\ call.at = "returned" \/ (call.at = "answer" /\ call.wait = "done") => call.answer # "none"

\* Nothing is answered yet.
LEMMA EndUnanswered ==
    ASSUME call'.answer = "none", call'.at # "returned",
           call'.at = "answer" => call'.wait # "done",
           \/ wire'.now = Nothing
           \/ wire'.now.answer = "none"
           \/ EndInv /\ wire'.now = wire.now
    PROVE  EndInv'
BY DEF EndInv, Fits

LEMMA StartEnd ==
    ASSUME MqttTypes, CallInv, EndInv, call.at \in {"idle", "returned"}, NEW b, StartRequest(b)
    PROVE  EndInv'
<1>1. wire.now = Nothing
  BY DEF CallInv
<1>2. CASE Publish(b)
  <2>1. CASE socket = "none"
    <3>1. wire'.now = Nothing
      BY <1>2, <2>1 DEF Publish, Retired
    <3>2. call'.at = "threw" /\ call'.answer = "none"
      BY <1>2, <2>1 DEF Publish, Idle
    <3> QED
      BY <3>1, <3>2, EndUnanswered
  <2>2. CASE socket # "none"
    <3>1. wire'.now.answer = "none" /\ call'.at = "answer" /\ call'.wait = "open" /\ call'.answer = "none"
      BY <1>2, <2>2 DEF Publish, Waiting, MqttTypes
    <3> QED
      BY <3>1, EndUnanswered
  <2> QED
    BY <2>1, <2>2
<1>3. CASE call' = [Idle EXCEPT !.at = "closing", !.body = b] /\ UNCHANGED wire
  <2>1. call'.at = "closing" /\ call'.answer = "none" /\ wire'.now = Nothing
    BY <1>1, <1>3 DEF Idle
  <2> QED
    BY <2>1, EndUnanswered
<1> QED
  BY <1>2, <1>3 DEF StartRequest

LEMMA MqttStepEnd ==
    ASSUME MqttTypes, CallInv, EndInv, MqttNext
    PROVE  EndInv'
<1>0. call \in Calls /\ wire \in [now : Wire, late : Wire]
  BY DEF MqttTypes
<1>1. CASE Throw
  <2>1. wire'.now = Nothing /\ call'.at = "threw" /\ call'.answer = "none"
    BY <1>1 DEF Throw, Retired, Idle
  <2> QED
    BY <2>1, EndUnanswered
<1>2. ASSUME NEW at \in {"connack", "suback"}, call' = Waiting(at, call.body), UNCHANGED wire
      PROVE  EndInv'
  <2>1. call'.at = at /\ call'.answer = "none"
    BY <1>2 DEF Waiting
  <2> QED
    BY <1>2, <2>1, EndUnanswered
\* The call goes on without its answer.
<1>3. ASSUME UNCHANGED wire, call'.body = call.body, call'.answer = call.answer,
             call'.at = "answer" => call.at = "answer" /\ call'.wait \in {call.wait, "failed"},
             call'.at # "returned"
      PROVE  EndInv'
  BY <1>3 DEF EndInv, Fits
<1>4. CASE OldClosed
  BY <1>0, <1>3, <1>4 DEF OldClosed, Calls
<1>5. CASE SocketOpens \/ ConnackTaken
  BY <1>1, <1>2, <1>5 DEF SocketOpens, ConnackTaken
<1>6. CASE SendEnds
  <2>1. CASE call.at \in Waits /\ call' = [call EXCEPT !.sent = TRUE] /\ UNCHANGED wire
    BY <1>0, <1>3, <2>1 DEF Calls, Waits
  <2> QED
    BY <1>1, <1>6, <2>1 DEF SendEnds
<1>7. CASE HandleConnack \/ HandleSuback
  BY <1>0, <1>3, <1>7 DEF HandleConnack, HandleSuback, Calls
<1>8. CASE SubackTaken
  <2>1. wire.now = Nothing /\ Publish(call.body)
    BY <1>8 DEF SubackTaken, Done, CallInv
  <2>2. CASE socket = "none"
    <3>1. Throw
      BY <2>1, <2>2 DEF Publish, Throw
    <3> QED
      BY <1>1, <3>1
  <2>3. CASE socket # "none"
    <3>1. wire'.now.answer = "none" /\ call'.at = "answer" /\ call'.wait = "open" /\ call'.answer = "none"
      BY <1>0, <2>1, <2>3 DEF Publish, Waiting
    <3> QED
      BY <3>1, EndUnanswered
  <2> QED
    BY <2>2, <2>3
<1>9. CASE TimesOut
  <2>1. CASE call.at = "answer" /\ call' = [call EXCEPT !.wait = "failed"] /\ UNCHANGED wire
    BY <1>0, <1>3, <2>1 DEF Calls
  <2> QED
    BY <1>1, <1>9, <2>1 DEF TimesOut
<1>10. CASE IdentityFails \/ OpenFails \/ WaitRejected
  BY <1>1, <1>10 DEF IdentityFails, OpenFails, WaitRejected
<1>11. CASE AnswerTaken
  <2>1. wire'.now = Nothing
    BY <1>11 DEF AnswerTaken, Retired
  <2>2. call'.at = "returned" /\ call'.body = call.body /\ call'.answer = call.answer
    BY <1>11 DEF AnswerTaken, Idle
  <2>3. call.answer # "none"
    BY <1>11 DEF AnswerTaken, Done, EndInv
  <2> QED
    BY <2>1, <2>2, <2>3 DEF EndInv, Fits
<1>12. CASE SocketLost
  <2>1. CASE call' = call
    BY <1>12, <2>1 DEF SocketLost, EndInv
  <2>2. CASE call.at \in Waits /\ call.wait = "open" /\ call' = [call EXCEPT !.wait = "failed"]
    BY <1>0, <1>3, <1>12, <2>2 DEF SocketLost, Waits, Calls
  <2> QED
    BY <1>12, <2>1, <2>2 DEF SocketLost, Rejected
<1>13. ASSUME NEW k \in {"now", "late"}, HandleResponse(k)
       PROVE  EndInv'
  <2>1. CASE IsPending(k) /\ call' = [call EXCEPT !.wait = "done", !.answer = wire[k].answer]
    <3>1. /\ k = "now" /\ wire.now # Nothing /\ wire.now.answer # "none"
          /\ wire.now.body = call.body /\ wire'.now = Nothing
      BY <1>0, <1>13, <2>1 DEF HandleResponse, IsPending, CallInv
    <3>2. call'.body = call.body /\ call'.answer = wire.now.answer
      BY <1>0, <2>1, <3>1 DEF Calls
    <3> QED
      BY <3>1, <3>2 DEF EndInv, Fits
  <2>2. CASE call' = call
    <3>1. wire'.now \in {wire.now, Nothing}
      BY <1>0, <1>13 DEF HandleResponse
    <3> QED
      BY <2>2, <3>1 DEF EndInv
  <2> QED
    BY <1>13, <2>1, <2>2 DEF HandleResponse
<1> QED
  BY <1>4, <1>5, <1>6, <1>7, <1>8, <1>9, <1>10, <1>11, <1>12, <1>13 DEF MqttNext, AwaitEnds

LEMMA AnswersEnd ==
    ASSUME MqttTypes, EndInv, NEW k \in {"now", "late"}, CloudAnswers(k)
    PROVE  EndInv'
<1>0. wire \in [now : Wire, late : Wire] /\ UNCHANGED call
  BY DEF MqttTypes, CloudAnswers
<1>1. PICK a : /\ wire' = [wire EXCEPT ![k].answer = a]
               /\ k = "now" => (wire[k].body.from = "hello" => a \in {"ok", "refused"})
  BY DEF CloudAnswers, Answered
<1>2. wire[k] \in Sent
  BY <1>0 DEF CloudAnswers, Wire
<1>3. CASE k = "now"
  <2>1. wire'.now.body = wire.now.body /\ wire'.now.answer = a
    BY <1>0, <1>1, <1>2, <1>3 DEF Sent
  <2> QED
    BY <1>0, <1>1, <1>3, <2>1 DEF EndInv, Fits
<1>4. CASE k = "late"
  <2>1. wire'.now = wire.now
    BY <1>0, <1>1, <1>4
  <2> QED
    BY <1>0, <2>1 DEF EndInv
<1> QED
  BY <1>3, <1>4

LEMMA EndStep == LinkInv /\ EndInv /\ [Next]_vars => EndInv'
<1> SUFFICES ASSUME LinkInv, EndInv, [Next]_vars PROVE EndInv'
  OBVIOUS
<1>0. MqttTypes /\ CallInv
  BY DEF LinkInv
<1>1. CASE UNCHANGED <<call, wire>>
  BY <1>1 DEF EndInv
<1>2. CASE MqttNext
  BY <1>0, <1>2, MqttStepEnd
<1>3. ASSUME NEW p \in Posters, TakeTurn(p) PROVE EndInv'
  <2>1. call.at = "idle" /\ \E b : StartRequest(b)
    BY <1>0, <1>3 DEF TakeTurn, PostOnce, CallInv, Idle
  <2> QED
    BY <1>0, <2>1, StartEnd
<1>4. CASE HelloAnswered \/ RenewAndRepeat
  <2>1. call.at = "returned" /\ \E b : StartRequest(b)
    BY <1>4 DEF HelloAnswered, RenewAndRepeat, Renewable, PostOnce
  <2> QED
    BY <1>0, <2>1, StartEnd
<1>5. CASE PostSucceeds \/ PostFails
  <2>1. PICK ok, found : PostEnds(ok, found)
    BY <1>5 DEF PostSucceeds, PostFails
  <2>2. call'.at = "idle" /\ call'.answer = "none" /\ wire'.now = wire.now
    BY <1>0, <2>1 DEF PostEnds, Idle, MqttTypes
  <2> QED
    BY <2>2, EndUnanswered
<1>6. ASSUME NEW k \in {"now", "late"}, CloudAnswers(k) PROVE EndInv'
  BY <1>0, <1>6, AnswersEnd
<1> QED
  BY <1>1, <1>2, <1>3, <1>4, <1>5, <1>6
     DEF Next, vars, reportVars, mqttVars, linkVars, LinkSteps, CloudForgets

\* Whoever has the turn has a post that runs and a call that is under way or
\* over, and a call that is over ended in a way that postSecure has a branch
\* for: it goes on with the session, succeeds, repeats the request or fails.
TurnCanEnd ==
    \A p \in Posters : turn = p <=>
        /\ post[p] = "running"
        /\ \/ call.at \in Waits \cup {"closing", "opening", "threw"}
           \/ call.at = "returned" /\ IF IsHello THEN call.answer \in {"ok", "refused"}
                                                 ELSE call.answer \in Answers

\* postSecure keeps the turn in no state it has no way out of: the state core
\* of TurnIsReturned.
THEOREM NoTurnIsKept == Spec => []TurnCanEnd
<1>1. Init => EndInv
  BY DEF Init, MqttInit, EndInv, Fits, Idle
<1>2. LinkInv /\ EndInv => TurnCanEnd
  <2> SUFFICES ASSUME LinkInv, EndInv, NEW p \in Posters, turn = p
               PROVE  \/ call.at \in Waits \cup {"closing", "opening", "threw"}
                      \/ call.at = "returned" /\ IF IsHello THEN call.answer \in {"ok", "refused"}
                                                            ELSE call.answer \in Answers
    BY DEF TurnCanEnd, LinkInv, PostInv
  <2>1. call \in Calls /\ call.at # "idle"
    BY NamesAre DEF LinkInv, MqttTypes, CallInv
  <2> QED
    BY <2>1 DEF EndInv, Fits, IsHello, Calls
<1> QED
  BY <1>1, <1>2, EndStep, LinkInvAlways, PTL DEF Spec
=============================================================================
