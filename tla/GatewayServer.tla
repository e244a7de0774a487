--------------------------- MODULE GatewayServer ---------------------------
(***************************************************************************)
(* The threads of the native local gateway                                 *)
(* (entry/src/main/cpp/local_gateway.cpp, class LocalGateway): the JS      *)
(* thread that starts and stops the two servers, one accept loop per       *)
(* server, one detached thread per connection, and the ring of sensor      *)
(* events that the JS thread drains.                                       *)
(*                                                                         *)
(* The HTTPS server is a proxy: its connection thread cuts the decrypted   *)
(* stream into requests and sends each over a connection of its own to the *)
(* HTTP server, so the proxy connections queue up in the same backlog as   *)
(* the devices' connections.  A connection of the HTTP server is named     *)
(* after its peer: a device, or the TLS client whose thread opened it.     *)
(*                                                                         *)
(* Steps that only touch a thread's own data are merged with the step on   *)
(* shared data that follows them.                                          *)
(***************************************************************************)
EXTENDS Naturals, Sequences, FiniteSets

CONSTANTS
  Devices,      \* peers of the HTTP server
  TlsClients,   \* peers of the HTTPS server
  None,         \* nobody
  Scripts,      \* the streams each TLS client may send, see Unit
  MaxEvents,    \* the 100 of PushEvent
  MaxKeepAlive, \* MAX_HTTPS_KEEP_ALIVE_REQUESTS
  MaxRequest,   \* MAX_REQUEST_BYTES, in units
  MaxOpen,      \* bound of the model: peers connected at a time
  MaxReports    \* bound of the model: sensor reports ever pushed

Servers == {"http", "https"}
Peers == Devices \cup TlsClients

\* A piece of a request: a header line, the end of the headers or body.  The
\* end stands for what the headers say: Content-Length and Connection.  "req"
\* is history: the request of the client to which the piece belongs.
Unit == [part : {"line", "end", "body"}, length : 0..MaxRequest,
         close : BOOLEAN, req : Nat]

ASSUME ServerAssumption ==
  /\ Devices \cap TlsClients = {} /\ None \notin Peers
  /\ Scripts \in [TlsClients -> SUBSET Seq(Unit)]
  /\ MaxEvents \in Nat \ {0} /\ MaxKeepAlive \in Nat \ {0}
  /\ MaxRequest \in Nat /\ MaxOpen \in Nat /\ MaxReports \in Nat

VARIABLES
  running,    \* running_ and httpsRunning_
  listening,  \* is the server's listening socket open?
  backlog,    \* connections the kernel holds for accept, per server
  loop,       \* acceptThread_ and httpsThread_: where each loop is
  js,         \* what the JS thread is doing: idle, or a step of Stop
  tlsReady,   \* httpsConfig_ and the rest of the TLS material are set up
  handshake,  \* httpsHandshakeMutex_: the client whose thread owns it
  http,       \* the HTTP connection of each peer
  tls,        \* the HTTPS connection of each TLS client
  events,     \* events_: the ids of the reports in the ring
  pushed,     \* reports pushed so far, the id of the last one
  drained     \* history: the ids the JS thread has received, in order

serverVars == <<running, listening, loop, js, tlsReady>>
eventVars == <<events, pushed, drained>>
vars == <<serverVars, backlog, handshake, http, tls, eventVars>>

\* The JS thread is idle or in a step of Stop for one of the servers.
Idle == [at |-> "idle", server |-> "http"]

\* The states of an HTTP connection: queued, in its HandleClient before and
\* after the shared step; answered, reset or refused with its proxy unaware.
HttpState == {"none", "queued", "handling", "sending", "answered", "reset",
              "refused"}
TlsState == {"none", "queued", "waiting", "handshaking", "reading",
             "proxying", "closing"}

\* "answers" and "gaps" are history: the answers the client got, and its
\* requests that nobody answered.
NoTls == [st |-> "none", unread |-> <<>>, pending |-> <<>>, request |-> <<>>,
          served |-> 0, answers |-> <<>>, gaps |-> {}]

Init ==
  /\ running = [s \in Servers |-> FALSE]
  /\ listening = [s \in Servers |-> FALSE]
  /\ backlog = [s \in Servers |-> <<>>]
  /\ loop = [s \in Servers |-> "none"]
  /\ js = Idle
  /\ tlsReady = FALSE
  /\ handshake = None
  /\ http = [p \in Peers |-> "none"]
  /\ tls = [c \in TlsClients |-> NoTls]
  /\ events = <<>> /\ pushed = 0 /\ drained = <<>>

-----------------------------------------------------------------------------
(* The JS thread: Start, StartHttps, DrainEvents, and Stop in its steps *)

StopOf(s) == [at |-> "stop", server |-> s]

\* Stop turns from the HTTP server to the HTTPS server and then returns.
AfterStopOf(s) == IF s = "http" THEN StopOf("https") ELSE Idle

\* The server listens and has its accept loop; a start that fails leaves
\* everything as it was.
Launch(s) ==
  /\ js = Idle /\ ~running[s]
  /\ running' = [running EXCEPT ![s] = TRUE]
  /\ listening' = [listening EXCEPT ![s] = TRUE]
  /\ loop' = [loop EXCEPT ![s] = "check"]
  /\ UNCHANGED <<js, backlog, handshake, http, tls, eventVars>>

Start == Launch("http") /\ UNCHANGED tlsReady
StartHttps == Launch("https") /\ tlsReady' = TRUE

DrainEvents ==
  /\ js = Idle /\ events # <<>>
  /\ drained' = drained \o events
  /\ events' = <<>>
  /\ UNCHANGED <<serverVars, backlog, handshake, http, tls, pushed>>

BeginStop ==
  /\ js = Idle
  /\ js' = StopOf("http")
  /\ UNCHANGED <<running, listening, loop, tlsReady, backlog, handshake,
                 http, tls, eventVars>>

\* running_.exchange(false)
ClearFlag ==
  /\ js.at = "stop"
  /\ running' = [running EXCEPT ![js.server] = FALSE]
  /\ js' = IF running[js.server] THEN [js EXCEPT !.at = "close"]
                                 ELSE AfterStopOf(js.server)
  /\ UNCHANGED <<listening, loop, tlsReady, backlog, handshake, http, tls,
                 eventVars>>

\* Mutant of CloseListener: the socket is closed without being shut down,
\* which leaves a thread that is blocked in accept where it is.
OnlyClose ==
  /\ js.at = "close"
  /\ js' = [js EXCEPT !.at = "join"]
  /\ UNCHANGED <<running, listening, backlog, loop, tlsReady, handshake, http,
                 tls, eventVars>>

\* The listening socket is shut down and closed: accept fails from now on, and
\* the kernel resets the connections that nobody had accepted.
CloseListener ==
  /\ js.at = "close"
  /\ listening' = [listening EXCEPT ![js.server] = FALSE]
  /\ backlog' = [backlog EXCEPT ![js.server] = <<>>]
  /\ http' = [p \in Peers |-> IF js.server = "http" /\ http[p] = "queued"
                THEN IF p \in TlsClients THEN "reset" ELSE "none"
                ELSE http[p]]
  /\ tls' = [c \in TlsClients |->
               IF js.server = "https" /\ tls[c].st = "queued" THEN NoTls
                                                              ELSE tls[c]]
  /\ js' = [js EXCEPT !.at = "join"]
  /\ UNCHANGED <<running, loop, tlsReady, handshake, eventVars>>

\* Mutant of JoinLoop: Stop does not join the loop's thread.
LeaveLoop ==
  /\ js.at = "join"
  /\ tlsReady' = (tlsReady /\ js.server = "http")
  /\ js' = AfterStopOf(js.server)
  /\ UNCHANGED <<running, listening, loop, backlog, handshake, http, tls,
                 eventVars>>

\* join, and FreeHttps after it.  The connection threads are detached: nobody
\* waits for them, although those of HTTPS still use what FreeHttps frees.
JoinLoop ==
  /\ js.at = "join" /\ loop[js.server] = "done"
  /\ loop' = [loop EXCEPT ![js.server] = "none"]
  /\ tlsReady' = (tlsReady /\ js.server = "http")
  /\ js' = AfterStopOf(js.server)
  /\ UNCHANGED <<running, listening, backlog, handshake, http, tls, eventVars>>

-----------------------------------------------------------------------------
(* The accept loops: AcceptLoop and HttpsAcceptLoop *)

CheckFlag(s) ==
  /\ loop[s] = "check"
  /\ loop' = [loop EXCEPT ![s] = IF running[s] THEN "accept" ELSE "done"]
  /\ UNCHANGED <<running, listening, js, tlsReady, backlog, handshake, http,
                 tls, eventVars>>

\* A connection gets a detached thread of its own.
Accept(s) ==
  /\ loop[s] = "accept" /\ listening[s] /\ backlog[s] # <<>>
  /\ LET p == Head(backlog[s]) IN
       /\ http' = IF s = "http" THEN [http EXCEPT ![p] = "handling"] ELSE http
       /\ tls' = IF s = "https" THEN [tls EXCEPT ![p].st = "waiting"] ELSE tls
  /\ backlog' = [backlog EXCEPT ![s] = Tail(@)]
  /\ loop' = [loop EXCEPT ![s] = "check"]
  /\ UNCHANGED <<running, listening, js, tlsReady, handshake, eventVars>>

AcceptFails(s) ==
  /\ loop[s] = "accept" /\ ~listening[s]
  /\ loop' = [loop EXCEPT ![s] = "check"]
  /\ UNCHANGED <<running, listening, js, tlsReady, backlog, handshake, http,
                 tls, eventVars>>

-----------------------------------------------------------------------------
(* A connection of the HTTP server: HandleClient serves one request *)

\* The peers that have a connection.
Open == {d \in Devices : http[d] # "none"} \cup
        {c \in TlsClients : tls[c].st # "none"}

ConnectHttp(d) ==
  /\ http[d] = "none" /\ listening["http"] /\ Cardinality(Open) < MaxOpen
  /\ http' = [http EXCEPT ![d] = "queued"]
  /\ backlog' = [backlog EXCEPT !["http"] = Append(@, d)]
  /\ UNCHANGED <<serverVars, handshake, tls, eventVars>>

\* Mutants of Ring: the newest event is the one that is dropped; none is.
RingFull(q) == IF Len(q) > MaxEvents THEN SubSeq(q, 1, MaxEvents) ELSE q
RingUnbounded(q) == q

\* PushEvent keeps the newest MaxEvents events.
Ring(q) == IF Len(q) > MaxEvents THEN Tail(q) ELSE q

\* A sensor report is in the ring before it is answered.
HandleReport(p) ==
  /\ http[p] = "handling" /\ pushed < MaxReports
  /\ pushed' = pushed + 1
  /\ events' = Ring(Append(events, pushed'))
  /\ http' = [http EXCEPT ![p] = "sending"]
  /\ UNCHANGED <<serverVars, backlog, handshake, tls, drained>>

\* Health, state, command, invalid and cut-off requests (the commands are in
\* GatewayQueue); a request that never ends is handled after 3 s.
HandleOther(p) ==
  /\ http[p] = "handling"
  /\ http' = [http EXCEPT ![p] = "sending"]
  /\ UNCHANGED <<serverVars, backlog, handshake, tls, eventVars>>

\* SendJson, whether or not the peer reads it, and the end of the thread.
SendJson(p) ==
  /\ http[p] = "sending"
  /\ http' = [http EXCEPT ![p] = IF p \in TlsClients THEN "answered"
                                                     ELSE "none"]
  /\ UNCHANGED <<serverVars, backlog, handshake, tls, eventVars>>

-----------------------------------------------------------------------------
(* The stream of an HTTPS connection and the requests cut from it *)

\* Positions of the units that end the headers of a request.
HeaderEnds(p) == {i \in DOMAIN p : p[i].part = "end"}

\* Units up to the end of the first headers and of their Content-Length.
\* A Content-Length so large that the sum wraps around in a size_t (479) is
\* not modelled: Unit has lengths up to MaxRequest.
Expected(p) ==
  LET at == CHOOSE i \in HeaderEnds(p) : \A j \in HeaderEnds(p) : i <= j
  IN  at + p[at].length

Oversized(p) == IF HeaderEnds(p) # {} THEN Expected(p) > MaxRequest
                                      ELSE Len(p) >= MaxRequest
Framed(p) == HeaderEnds(p) # {} /\ Len(p) >= Expected(p)

\* Mutant of Remainder: what the client sent ahead is dropped.
RemainderLost(p) == <<>>

\* What pending.erase leaves for the next request.
Remainder(p) == SubSeq(p, Expected(p) + 1, Len(p))

\* How a stream is numbered: requests from 1 on and in order, each as far as
\* its headers say, if the stream has that much.
Numbered(s) ==
  \A i \in DOMAIN s :
    LET begins == i = 1 \/ s[i - 1].req # s[i].req
        rest == SubSeq(s, i, Len(s))
    IN  /\ s[i].req \in IF i = 1 THEN {1} ELSE {s[i - 1].req, s[i - 1].req + 1}
        /\ \A j \in i..Len(s) :
             /\ s[i].req <= s[j].req
             /\ begins /\ Framed(rest) =>
                  (s[j].req = s[i].req <=> j < i + Expected(rest))

ASSUME StreamAssumption == \A c \in TlsClients : \A s \in Scripts[c] : Numbered(s)

\* RequestKeepsConnectionAlive, and the limit of requests per connection.
KeepsAlive(c) ==
  /\ \A i \in HeaderEnds(tls[c].request) : ~tls[c].request[i].close
  /\ tls[c].served + 1 < MaxKeepAlive

ConnectTls(c) ==
  /\ tls[c].st = "none" /\ listening["https"] /\ Cardinality(Open) < MaxOpen
  /\ \E s \in Scripts[c] :
       tls' = [tls EXCEPT ![c].st = "queued", ![c].unread = s]
  /\ backlog' = [backlog EXCEPT !["https"] = Append(@, c)]
  /\ UNCHANGED <<serverVars, handshake, http, eventVars>>

\* One handshake at a time.
LockHandshake(c) ==
  /\ tls[c].st = "waiting" /\ handshake = None
  /\ handshake' = c
  /\ tls' = [tls EXCEPT ![c].st = "handshaking"]
  /\ UNCHANGED <<serverVars, backlog, http, eventVars>>

\* Mutant of FinishHandshake: a failed handshake returns without unlocking.
KeepLockOnFailure(c) ==
  /\ tls[c].st = "handshaking"
  /\ \E st \in {"reading", "closing"} :
       /\ st = "reading" => tlsReady
       /\ handshake' = IF st = "reading" THEN None ELSE handshake
       /\ tls' = [tls EXCEPT ![c].st = st]
  /\ UNCHANGED <<serverVars, backlog, http, eventVars>>

\* The handshake succeeds or fails; either way the lock is released.  With the
\* configuration freed it cannot succeed.
FinishHandshake(c) ==
  /\ tls[c].st = "handshaking"
  /\ handshake' = None
  /\ \E st \in {"reading", "closing"} :
       /\ st = "reading" => tlsReady
       /\ tls' = [tls EXCEPT ![c].st = st]
  /\ UNCHANGED <<serverVars, backlog, http, eventVars>>

ReadMore(c) ==
  /\ tls[c].st = "reading"
  /\ ~Framed(tls[c].pending) /\ ~Oversized(tls[c].pending)
  /\ \E n \in DOMAIN tls[c].unread :
       tls' = [tls EXCEPT
         ![c].pending = @ \o SubSeq(tls[c].unread, 1, n),
         ![c].unread = SubSeq(@, n + 1, Len(@))]
  /\ UNCHANGED <<serverVars, backlog, handshake, http, eventVars>>

\* The peer closes, is silent for 8 s or sends too much.
GiveUp(c) ==
  /\ tls[c].st = "reading"
  /\ ~Framed(tls[c].pending) \/ Oversized(tls[c].pending)
  /\ tls' = [tls EXCEPT ![c].st = "closing"]
  /\ UNCHANGED <<serverVars, backlog, handshake, http, eventVars>>

\* A request is cut off the stream and sent over a new connection to the HTTP
\* server, which is refused when that server does not listen.
ProxyRequest(c) ==
  /\ tls[c].st = "reading"
  /\ Framed(tls[c].pending) /\ ~Oversized(tls[c].pending)
  /\ tls' = [tls EXCEPT
       ![c].st = "proxying",
       ![c].request = SubSeq(tls[c].pending, 1, Expected(tls[c].pending)),
       ![c].pending = Remainder(@)]
  /\ IF listening["http"]
     THEN /\ http' = [http EXCEPT ![c] = "queued"]
          /\ backlog' = [backlog EXCEPT !["http"] = Append(@, c)]
     ELSE /\ http' = [http EXCEPT ![c] = "refused"]
          /\ UNCHANGED backlog
  /\ UNCHANGED <<serverVars, handshake, eventVars>>

\* The HTTP server has closed the proxy connection.  Its answer, or a 503, goes
\* to the client with the rewritten Connection header; of a connection that was
\* reset there is no answer, and nothing is sent.
ForwardAnswer(c) ==
  /\ tls[c].st = "proxying" /\ http[c] \in {"answered", "refused", "reset"}
  /\ \E written \in BOOLEAN :
       /\ http[c] = "reset" => written
       /\ tls' = [tls EXCEPT
            ![c].answers = IF written /\ http[c] # "reset"
              THEN Append(@, [req |-> tls[c].request[1].req,
                              alive |-> KeepsAlive(c)])
              ELSE @,
            ![c].gaps = IF http[c] = "reset"
                        THEN @ \cup {tls[c].request[1].req} ELSE @,
            ![c].served = @ + 1,
            ![c].request = <<>>,
            ![c].st = IF /\ KeepsAlive(c) /\ written
                         /\ tls[c].served + 1 < MaxKeepAlive
                      THEN "reading" ELSE "closing"]
  /\ http' = [http EXCEPT ![c] = "none"]
  /\ UNCHANGED <<serverVars, backlog, handshake, eventVars>>

CloseTls(c) ==
  /\ tls[c].st = "closing"
  /\ tls' = [tls EXCEPT ![c] = NoTls]
  /\ UNCHANGED <<serverVars, backlog, handshake, http, eventVars>>

\* A connection thread that Stop left behind uses the TLS configuration that
\* FreeHttps has released: besides failing, or going on, the process may die.
\* The application then starts again from nothing.
Crash(c) ==
  /\ tls[c].st \in {"handshaking", "reading", "proxying"} /\ ~tlsReady
  /\ running' = [s \in Servers |-> FALSE]
  /\ listening' = [s \in Servers |-> FALSE]
  /\ backlog' = [s \in Servers |-> <<>>]
  /\ loop' = [s \in Servers |-> "none"]
  /\ js' = Idle
  /\ tlsReady' = FALSE
  /\ handshake' = None
  /\ http' = [p \in Peers |-> "none"]
  /\ tls' = [d \in TlsClients |-> NoTls]
  /\ events' = <<>> /\ pushed' = 0 /\ drained' = <<>>

-----------------------------------------------------------------------------
StopStep == ClearFlag \/ CloseListener \/ JoinLoop
LoopStep(s) == CheckFlag(s) \/ Accept(s) \/ AcceptFails(s)
HttpStep(p) == HandleReport(p) \/ HandleOther(p) \/ SendJson(p)
TlsStep(c) == \/ LockHandshake(c) \/ FinishHandshake(c) \/ ReadMore(c)
              \/ GiveUp(c) \/ ProxyRequest(c) \/ ForwardAnswer(c)
              \/ CloseTls(c)

Next ==
  \/ Start \/ StartHttps \/ \E s \in Servers : LoopStep(s)
  \/ DrainEvents \/ BeginStop \/ StopStep
  \/ \E d \in Devices : ConnectHttp(d)
  \/ \E p \in Peers : HttpStep(p)
  \/ \E c \in TlsClients : ConnectTls(c) \/ TlsStep(c) \/ Crash(c)

Spec == Init /\ [][Next]_vars

\* Threads are scheduled, and every socket a connection thread waits on has a
\* timeout, except the proxy's: its end is the HTTP server's to bring about.
\* The lock is free again and again, and a thread that waits for it gets it.
FairSpec ==
  /\ Spec
  /\ WF_vars(StopStep)
  /\ \A s \in Servers : WF_vars(LoopStep(s))
  /\ \A p \in Peers : WF_vars(HttpStep(p))
  /\ \A c \in TlsClients : WF_vars(TlsStep(c)) /\ SF_vars(LockHandshake(c))

-----------------------------------------------------------------------------
\* Every variable keeps its type.
TypeOK ==
  /\ running \in [Servers -> BOOLEAN] /\ listening \in [Servers -> BOOLEAN]
  /\ backlog \in [Servers -> Seq(Peers)]
  /\ loop \in [Servers -> {"none", "check", "accept", "done"}]
  /\ js \in [at : {"idle", "stop", "close", "join"}, server : Servers]
  /\ tlsReady \in BOOLEAN
  /\ handshake \in TlsClients \cup {None}
  /\ http \in [Peers -> HttpState]
  /\ tls \in [TlsClients ->
       [st : TlsState, unread : Seq(Unit), pending : Seq(Unit),
        request : Seq(Unit), served : 0..MaxKeepAlive, gaps : SUBSET Nat,
        answers : Seq([req : Nat, alive : BOOLEAN])]]
  /\ events \in Seq(1..MaxReports) /\ Len(events) <= MaxEvents
  /\ drained \in Seq(1..MaxReports)
  /\ pushed \in 0..MaxReports

\* Once Stop has returned, and until the next Start, a server has no accept
\* thread (a Start that assigned over a joinable std::thread would end the
\* process), no listening socket and no connection in its backlog.
StoppedIsStopped ==
  \A s \in Servers : js = Idle /\ ~running[s] =>
    /\ loop[s] = "none" /\ ~listening[s] /\ backlog[s] = <<>>

\* What is left of a stream after its first n requests.
IsAfter(rest, s, n) ==
  \E k \in 0..Len(s) : /\ rest = SubSeq(s, k + 1, Len(s))
                       /\ \A i \in DOMAIN s : s[i].req > n <=> i > k

\* However the stream is cut into reads, the request that is proxied is the
\* next one of the client, whole and alone, and what follows it is kept.
StreamIntact(c) ==
  tls[c].st \in {"reading", "proxying"} =>
    \E s \in Scripts[c] : LET ahead == tls[c].pending \o tls[c].unread IN
      /\ IsAfter(tls[c].request \o ahead, s, tls[c].served)
      /\ tls[c].st = "proxying" => IsAfter(ahead, s, tls[c].served + 1)

\* No byte of an HTTPS client's stream is lost or served with another request;
\* the client receives the answers in the order of its requests, one each
\* and none left out, except for a request whose proxy connection a Stop of
\* the HTTP server reset; it gets at most MaxKeepAlive answers, and an answer
\* that says that the connection closes, as the last one it may get must, is
\* the last one it gets.
AnswersInOrder ==
  \A c \in TlsClients : LET a == tls[c].answers IN
    /\ StreamIntact(c)
    /\ Len(a) <= MaxKeepAlive
    /\ \A i \in DOMAIN a :
         /\ a[i].alive => i < MaxKeepAlive
         /\ i < Len(a) => a[i].req < a[i + 1].req /\ a[i].alive
    /\ {a[i].req : i \in DOMAIN a} \cup tls[c].gaps =
         1..(Len(a) + Cardinality(tls[c].gaps))
    /\ a # <<>> /\ ~a[Len(a)].alive => tls[c].st = "closing"

\* The JS thread receives the reports in the order in which they were pushed,
\* each once, and misses one only when MaxEvents newer ones came first.
ReportsKept ==
  LET all == drained \o events IN
    /\ \A i, j \in DOMAIN all : i < j => all[i] < all[j]
    /\ \A e \in 1..pushed : \/ \E i \in DOMAIN all : all[i] = e
                            \/ e + MaxEvents <= pushed

\* Stop, which blocks the JS thread, returns: the JS thread is idle again and
\* again.
StopReturns == []<>(js = Idle)

\* Every HTTPS connection comes to its end: it is accepted or reset, it gets
\* its turn at the handshake lock, and no proxied request hangs although the
\* proxy waits for the HTTP server without a timeout, also when that server is
\* stopped under it.
ConnectionEnds == \A c \in TlsClients : []<>(tls[c].st = "none")
=============================================================================
