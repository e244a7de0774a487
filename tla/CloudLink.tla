------------------------------ MODULE CloudLink ------------------------------
(***************************************************************************)
(* The terminal and the cloud over MQTT: the posters of CloudReports take  *)
(* turns at CloudSecureClient.postSecure, which keeps an ECDH session with *)
(* the cloud, renews it when the cloud has lost it, and sends its requests *)
(* through CloudMqtt.                                                      *)
(*                                                                         *)
(* The cloud is external: it answers a hello with a session, executes a    *)
(* request sealed for a session it knows, and says so when it does not     *)
(* know the session; it may execute a request late and refuse any.         *)
(***************************************************************************)
EXTENDS CloudReports, CloudMqtt

VARIABLES
    turn,       \* requestInFlight, and for whom
    session,    \* "none", "good", or "stale": the cloud does not know it (any more)
    attempt,    \* postSecureOnce: first or second
    past,       \* history of the post under way: executions at the cloud, mismatches found here
    cloud       \* the cloud: newest packet of each slot, the command waiting there

linkVars == <<turn, session, attempt, past, cloud>>
vars == <<reportVars, mqttVars, linkVars>>

Fresh == [executed |-> 0, mismatched |-> 0]

Init ==
    /\ ReportsInit /\ MqttInit
    /\ turn = "none" /\ session = "none" /\ attempt = 1 /\ past = Fresh
    /\ cloud = [stored |-> [s \in Slots |-> 0], waiting |-> TRUE]

-----------------------------------------------------------------------------
\* A request: whose it is, what it carries, and whether its post goes on.
Request(p) == [from |-> p,
               packet |-> IF p \in Slots THEN slot[p].posting ELSE 0,
               says |-> IF p # "command" THEN "packet" ELSE IF command.at = "poll" THEN "poll" ELSE "ack",
               mine |-> TRUE]
Hello == [from |-> "hello", packet |-> 0, says |-> "packet", mine |-> TRUE]

(* postSecureOnce from its start: a session that is there and not about to
   expire is used, else ensureSession says hello first. *)
PostOnce(p, s) ==
    \/ /\ s # "none"
       /\ StartRequest(Request(p)) /\ session' = s
    \/ StartRequest(Hello) /\ session' = "none"

(* waitForRequestTurn finds requestInFlight FALSE. *)
TakeTurn(p) ==
    /\ turn = "none" /\ post[p] = "queued"
    /\ turn' = p /\ attempt' = 1 /\ past' = Fresh
    /\ post' = [post EXCEPT ![p] = "running"]
    /\ PostOnce(p, session)
    /\ UNCHANGED <<crowd, inFlight, slot, command, cloud>>

(* postSecure ends: finally gives the turn back, and its caller goes on. *)
PostEnds(ok, found) ==
    /\ turn' = "none" /\ attempt' = 1 /\ past' = Fresh
    /\ call' = Idle
    /\ wire' = [wire EXCEPT !.late = IF @ = Nothing THEN Nothing ELSE [@ EXCEPT !.body.mine = FALSE]]
    /\ IF turn = "command" THEN CommandEnds(ok, found) ELSE ReportEnds(turn, ok)
    /\ UNCHANGED <<socket, connected, cloud>>

IsHello == call.body.from = "hello"

(* The cloud answered the hello: the new session seals the request. *)
HelloAnswered ==
    /\ call.at = "returned" /\ IsHello /\ call.answer = "ok"
    /\ session' = "good"
    /\ StartRequest(Request(turn))
    /\ UNCHANGED <<reportVars, turn, attempt, past, cloud>>

PostSucceeds ==
    /\ call.at = "returned" /\ ~IsHello /\ call.answer \in {"ok", "command"}
    /\ PostEnds(TRUE, call.answer = "command")
    /\ UNCHANGED session

\* secure session not found or expired, secure crypto changed; the mismatch is
\* found here, when the answer is opened
\* Mutant of Renewable: every error is taken for a lost session.
AnyError ==
    \/ call.at = "threw"
    \/ call.at = "returned" /\ ~IsHello /\ call.answer \in {"stale", "mismatch", "refused"}

Renewable == call.at = "returned" /\ ~IsHello /\ call.answer \in {"stale", "mismatch"}

(* The catch of postSecure: the session is dropped and the request repeated. *)
\* Mutant of RenewAndRepeat: it goes on until the cloud knows the session.
RepeatForEver ==
    /\ Renewable
    /\ attempt' = attempt + 1
    /\ past' = [past EXCEPT !.mismatched = IF call.answer = "mismatch" THEN 1 ELSE 0]
    /\ PostOnce(turn, "none")
    /\ UNCHANGED <<reportVars, turn, cloud>>

RenewAndRepeat ==
    /\ Renewable /\ attempt = 1
    /\ attempt' = 2
    /\ past' = [past EXCEPT !.mismatched = IF call.answer = "mismatch" THEN 1 ELSE 0]
    /\ PostOnce(turn, "none")
    /\ UNCHANGED <<reportVars, turn, cloud>>

PostFails ==
    /\ \/ call.at = "threw"
       \/ call.at = "returned" /\ call.answer = "refused"
       \/ Renewable /\ attempt = 2
    /\ PostEnds(FALSE, FALSE)
    /\ UNCHANGED session

-----------------------------------------------------------------------------
(* The cloud executes a request. *)
Executes(b) ==
    /\ past' = [past EXCEPT !.executed = @ + (IF b.mine THEN 1 ELSE 0)]
    /\ cloud' = [stored  |-> [s \in Slots |-> IF s = b.from /\ b.packet > cloud.stored[s]
                                              THEN b.packet ELSE cloud.stored[s]],
                 waiting |-> cloud.waiting /\ b.says # "ack"]

Answered(k, a) == wire' = [wire EXCEPT ![k].answer = a]

CloudAnswers(k) ==
    /\ wire[k] # Nothing /\ wire[k].answer = "none"
    /\ LET b == wire[k].body IN
       \/ /\ b.from = "hello" /\ Answered(k, "ok")
          /\ UNCHANGED <<past, cloud>>
       \/ /\ b.from # "hello" /\ (session # "stale" \/ k = "late")
          /\ Executes(b)
          /\ \/ Answered(k, IF b.says = "poll" /\ cloud.waiting THEN "command" ELSE "ok")
             \/ k = "now" /\ Answered(k, "mismatch")
       \/ /\ b.from # "hello" /\ session = "stale" /\ k = "now" /\ Answered(k, "stale")
          /\ UNCHANGED <<past, cloud>>
       \/ /\ k = "now" /\ Answered(k, "refused")
          /\ UNCHANGED <<past, cloud>>
    /\ UNCHANGED <<reportVars, socket, connected, call, turn, session, attempt>>

(* The cloud restarts, or changes its cipher: it does not know the session. *)
CloudForgets ==
    /\ session = "good"
    /\ session' = "stale"
    /\ UNCHANGED <<reportVars, mqttVars, turn, attempt, past, cloud>>

LinkSteps ==
    \/ HelloAnswered \/ PostSucceeds \/ RenewAndRepeat \/ PostFails

Next ==
    \/ ReportsNext /\ UNCHANGED <<mqttVars, linkVars>>
    \/ MqttNext /\ UNCHANGED <<reportVars, linkVars>>
    \/ \E p \in Posters : TakeTurn(p)
    \/ LinkSteps
    \/ \E k \in {"now", "late"} : CloudAnswers(k)
    \/ CloudForgets

(* Awaits end and their continuations run; nothing is assumed of the cloud, of
   the order in which callers get the turn, or of the timers of the slots. *)
Fairness ==
    /\ WF_vars(AwaitEnds /\ UNCHANGED <<reportVars, linkVars>>)
    /\ WF_vars(LinkSteps)

Spec == Init /\ [][Next]_vars /\ Fairness

-----------------------------------------------------------------------------
(* The type invariant of the three modules. *)
TypeOK ==
    /\ inFlight \in [Reporters -> BOOLEAN]
    /\ \A s \in Slots : slot[s] \in
         [issued : 0..MaxPackets, pending : 0..MaxPackets,
          posting : 0..MaxPackets, retry : BOOLEAN]
    /\ command \in [at : {"idle", "poll", "carry", "yes", "unsupported", "no"},
                    acked : BOOLEAN]
    /\ post \in [Posters -> {"none", "queued", "running"}]
    /\ socket \in {"none", "new", "connack", "suback"} /\ connected \in BOOLEAN
    /\ call.at \in Waits \cup {"idle", "closing", "opening", "returned", "threw"}
    /\ call.wait \in {"open", "done", "failed"} /\ call.sent \in BOOLEAN
    /\ call.answer \in Answers \cup {"none"}
    /\ turn \in Posters \cup {"none"} /\ session \in {"none", "good", "stale"}
    /\ attempt \in 1..2 /\ past \in [executed : 0..2, mismatched : 0..1]

(* What the slots hold is never lost: a pending packet is the newest one and is
   being posted or has its timer set, an empty slot means that the cloud has the
   newest packet; and at most one report is under way.  (flushCloudAlarmReport
   and flushCloudActuatorReport, whose flags, slots and timers are changed by
   each other between their awaits.) *)
NothingForgotten ==
    /\ \A s \in Slots :
         IF slot[s].pending = 0 THEN cloud.stored[s] = slot[s].issued
         ELSE slot[s].pending = slot[s].issued /\ (inFlight[s] \/ slot[s].retry)
    /\ \A r, q \in Reporters : inFlight[r] /\ inFlight[q] => r = q

(* One post is executed by the cloud at most once, although postSecure repeats
   it and a request that was given up may still arrive; twice only if the
   answer to the first was sealed with the other cipher. *)
ExecutedOnce ==
    past.executed <= 1 + past.mismatched

(* A command that was acknowledged, as far as the terminal knows, is never
   carried out again: no poll takes the late answer to an earlier poll for its
   own (reqId of request and handlePacket). *)
CarriedOutOnce ==
    command.at = "carry" => ~command.acked

(* A request is published only on a socket whose subscription to the response
   topic has been confirmed, whatever was lost since connected became TRUE. *)
PublishSubscribed ==
    [][wire.now = Nothing /\ wire'.now # Nothing => socket = "suback"]_vars

(* The turn always comes back: no lost packet, refused CONNACK, closed socket
   or forgotten session makes postSecure keep requestInFlight. *)
TurnIsReturned == turn # "none" ~> turn = "none"
=============================================================================
