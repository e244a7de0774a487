------------------------------ MODULE CloudMqtt ------------------------------
(***************************************************************************)
(* CloudMqttClient: requests to the cloud over MQTT in a WebSocket, one at *)
(* a time, because its only caller, CloudSecureClient, holds a turn.  A    *)
(* request connects first if it must, publishes, and waits for the answer  *)
(* with its id on the shared response topic.                               *)
(*                                                                         *)
(* A generation of the client is one value of socket: whatever happens on  *)
(* an older socket is ignored, except a failing ping, whose handler does   *)
(* not look at the generation; its effect is that of SocketLost, and so it *)
(* is one of the causes of that action.  Packets are whole: the parsing of *)
(* bytes is not modelled.                                                  *)
(***************************************************************************)
EXTENDS Naturals

VARIABLES
    socket,     \* "none", or what has arrived on it: "new", "connack", "suback"
    connected,  \* connected, and with it the heartbeat's timer
    call,       \* the request under way
    wire        \* the requests between here and the cloud

mqttVars == <<socket, connected, call, wire>>

Nothing == [body |-> "nothing"]

\* The answer to come back; "command" is the answer to a poll that found one.
Answers == {"ok", "command", "stale", "mismatch", "refused"}

Idle == [at |-> "idle", sent |-> FALSE, wait |-> "open", answer |-> "none", body |-> "nothing"]

MqttInit ==
    /\ socket = "none" /\ connected = FALSE
    /\ call = Idle
    /\ wire = [now |-> Nothing, late |-> Nothing]

\* The steps of a request that wait for a packet from the other side
Waits == {"connack", "suback", "answer"}

(* abandon gives up the socket and rejects every waiter: the wait of the call
   c, if it is still open. *)
\* Mutant of Abandon: the client stays connected, only its socket is gone.
AbandonSocket ==
    socket' = "none" /\ UNCHANGED connected

Abandon ==
    socket' = "none" /\ connected' = FALSE

Rejected(c) ==
    IF c.at \in Waits /\ c.wait = "open" THEN [c EXCEPT !.wait = "failed"] ELSE c

(* A step that sends a packet and then waits for the packet that answers it. *)
Waiting(at, body) == [at |-> at, sent |-> FALSE, wait |-> "open", answer |-> "none", body |-> body]

(* Of the requests that are over, the last one is followed (a bound). *)
Retired ==
    [now  |-> Nothing,
     late |-> IF wire.now = Nothing \/ wire.now.body.from = "hello" THEN wire.late ELSE wire.now]

Throw ==
    /\ call' = [Idle EXCEPT !.at = "threw", !.body = call.body]
    /\ wire' = Retired

-----------------------------------------------------------------------------
(* publish, after waitForResponse entered the request: without a socket
   sendPacket throws and rejectRequest removes it. *)
Publish(body) ==
    IF socket = "none"
    THEN /\ call' = [Idle EXCEPT !.at = "threw", !.body = body]
         /\ wire' = Retired
    ELSE /\ call' = Waiting("answer", body)
         /\ wire' = [wire EXCEPT !.now = [body |-> body, answer |-> "none"]]

(* request: connect returns at once, or runs connectOnce, which begins with
   disconnect. *)
StartRequest(body) ==
    \/ /\ connected /\ socket # "none"
       /\ Publish(body)
       /\ UNCHANGED <<socket, connected>>
    \/ /\ ~connected \/ socket = "none"
       /\ Abandon
       /\ call' = [Idle EXCEPT !.at = "closing", !.body = body]
       /\ UNCHANGED wire

(* The old socket is closed and the identity files are there. *)
OldClosed ==
    /\ call.at = "closing"
    /\ socket' = "new"
    /\ call' = [call EXCEPT !.at = "opening"]
    /\ UNCHANGED <<connected, wire>>

IdentityFails ==
    /\ call.at = "closing"
    /\ Throw
    /\ UNCHANGED <<socket, connected>>

(* socket.connect returned: CONNECT is sent, if the socket is still ours. *)
SocketOpens ==
    /\ call.at = "opening"
    /\ \/ /\ socket # "none"
          /\ call' = Waiting("connack", call.body)
          /\ UNCHANGED wire
       \/ /\ socket = "none"
          /\ Throw
    /\ UNCHANGED <<socket, connected>>

(* socket.connect fails or takes more than 8 s; the socket stays in place. *)
OpenFails ==
    /\ call.at = "opening"
    /\ Throw
    /\ UNCHANGED <<socket, connected>>

(* The callback of socket.send, which the answering packet may overtake. *)
SendEnds ==
    /\ call.at \in Waits /\ ~call.sent
    /\ \/ /\ call' = [call EXCEPT !.sent = TRUE]
          /\ UNCHANGED wire
       \/ Throw
    /\ UNCHANGED <<socket, connected>>

(* handlePacket: CONNACK with code 0, SUBACK.  A CONNACK that refuses is
   ignored. *)
HandleConnack ==
    /\ call.at = "connack" /\ call.wait = "open" /\ socket = "new"
    /\ socket' = "connack"
    /\ call' = [call EXCEPT !.wait = "done"]
    /\ UNCHANGED <<connected, wire>>

HandleSuback ==
    /\ call.at = "suback" /\ call.wait = "open" /\ socket = "connack"
    /\ socket' = "suback"
    /\ call' = [call EXCEPT !.wait = "done"]
    /\ UNCHANGED <<connected, wire>>

Done(at) == call.at = at /\ call.sent /\ call.wait = "done"

(* After CONNACK the subscription is sent. *)
ConnackTaken ==
    /\ Done("connack")
    /\ \/ /\ socket # "none"
          /\ call' = Waiting("suback", call.body)
          /\ UNCHANGED wire
       \/ /\ socket = "none"
          /\ Throw
    /\ UNCHANGED <<socket, connected>>

(* After SUBACK the client is connected, whether the socket is still there or
   not, and the request that connected publishes. *)
SubackTaken ==
    /\ Done("suback")
    /\ connected' = TRUE
    /\ Publish(call.body)
    /\ UNCHANGED socket

(* handlePacket: a publication on the response topic settles the request with
   its id, if that is still pending. *)
\* Mutant of IsPending: the request that waits takes any answer, as if the id of
\* the answer were not compared.
AnyIsPending(k) == call.at = "answer" /\ call.wait = "open"

IsPending(k) == k = "now" /\ call.at = "answer" /\ call.wait = "open"

HandleResponse(k) ==
    /\ socket = "suback" /\ wire[k] # Nothing /\ wire[k].answer # "none"
    /\ \/ /\ IsPending(k)
          /\ call' = [call EXCEPT !.wait = "done", !.answer = wire[k].answer]
       \/ /\ ~IsPending(k)
          /\ UNCHANGED call
    /\ wire' = [wire EXCEPT ![k] = Nothing]
    /\ UNCHANGED <<socket, connected>>

(* withTimeout of CONNACK and SUBACK runs from the end of the send; the timer
   of a request runs from before its publication. *)
\* Mutant of TimesOut: a request has no timer of its own.
TimesOutConnecting ==
    /\ call.wait = "open"
    /\ call.at \in {"connack", "suback"} /\ call.sent
    /\ Throw
    /\ UNCHANGED <<socket, connected>>

TimesOut ==
    /\ call.wait = "open"
    /\ \/ /\ call.at \in {"connack", "suback"} /\ call.sent
          /\ Throw
       \/ /\ call.at = "answer"
          /\ call' = [call EXCEPT !.wait = "failed"]
          /\ UNCHANGED wire
    /\ UNCHANGED <<socket, connected>>

(* A rejected wait is noticed when the send before it is over. *)
WaitRejected ==
    /\ call.at \in Waits /\ call.sent /\ call.wait = "failed"
    /\ Throw
    /\ UNCHANGED <<socket, connected>>

AnswerTaken ==
    /\ Done("answer")
    /\ call' = [Idle EXCEPT !.at = "returned", !.body = call.body, !.answer = call.answer]
    /\ wire' = Retired
    /\ UNCHANGED <<socket, connected>>

(* The socket closes or errs, a message is an error, a ping fails, or the
   heartbeat finds no socket: handleFailure, abandon. *)
SocketLost ==
    /\ socket # "none" \/ connected
    /\ Abandon
    /\ call' = Rejected(call)
    /\ UNCHANGED wire

(* Every await of a request ends: closing, opening and sending by their
   callbacks (assumed of the WebSocket), the waits by packet or timeout. *)
AwaitEnds ==
    \/ OldClosed \/ IdentityFails \/ SocketOpens \/ OpenFails \/ SendEnds
    \/ ConnackTaken \/ SubackTaken \/ TimesOut \/ WaitRejected \/ AnswerTaken

MqttNext ==
    \/ AwaitEnds
    \/ HandleConnack \/ HandleSuback \/ SocketLost
    \/ \E k \in {"now", "late"} : HandleResponse(k)
=============================================================================
