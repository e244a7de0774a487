------------------------ MODULE GatewayServer_proofs ------------------------
(***************************************************************************)
(* For any number of devices and TLS clients, any streams and any bounds:  *)
(* Stop leaves nothing behind; the requests of an HTTPS client are served  *)
(* whole and its answers come in order; no sensor report is lost or        *)
(* reordered but those the ring had no room for; no thread waits for what  *)
(* cannot come.                                                            *)
(***************************************************************************)
EXTENDS GatewayServer, SequenceTheorems, FiniteSetTheorems,
        WellFoundedInduction, TLAPS

\* What the invariant needs to know of the variables it is about.
ServerType ==
  /\ running \in [Servers -> BOOLEAN]
  /\ listening \in [Servers -> BOOLEAN]
  /\ DOMAIN backlog = Servers
  /\ loop \in [Servers -> {"none", "check", "accept", "done"}]
  /\ js \in [at : {"idle", "stop", "close", "join"}, server : Servers]

\* Stop is at work on a server: it has taken the flag and not yet joined.
Ending(s) == js.at \in {"close", "join"} /\ js.server = s

\* Nothing is left of a server.
Gone(s) == loop[s] = "none" /\ ~listening[s] /\ backlog[s] = <<>>

(***************************************************************************)
(* StoppedIsStopped speaks of the moments at which the JS thread is idle;  *)
(* in between, a server that is not running is either gone or Stop is at   *)
(* work on it, and its backlog is not filled again once it does not        *)
(* listen.                                                                 *)
(***************************************************************************)
ServerInv ==
  /\ ServerType
  /\ \A s \in Servers :
       /\ Ending(s) => ~running[s]
       /\ ~running[s] => Ending(s) \/ Gone(s)
       /\ ~listening[s] => backlog[s] = <<>>
       /\ js.at = "join" /\ js.server = s => ~listening[s]

LEMMA ServerInvInit == Init => ServerInv
BY DEF Init, ServerInv, ServerType, Ending, Gone, Idle, Servers

\* A step that leaves the servers and their backlogs alone.
LEMMA Untouched ==
  ASSUME ServerInv, UNCHANGED <<running, listening, loop, js, backlog>>
  PROVE  ServerInv'
BY DEF ServerInv, ServerType, Ending, Gone

\* A peer joins the backlog of a server that listens.
LEMMA Joins ==
  ASSUME ServerInv, UNCHANGED <<running, listening, loop, js>>,
         NEW s \in Servers, listening[s], NEW q,
         backlog' = [backlog EXCEPT ![s] = q]
  PROVE  ServerInv'
<1>1. DOMAIN backlog' = Servers /\ \A r \in Servers : r # s => backlog'[r] = backlog[r]
  BY DEF ServerInv, ServerType
<1>2. ServerType'
  BY <1>1 DEF ServerInv, ServerType
<1>3. ASSUME NEW r \in Servers
      PROVE  (/\ Ending(r) => ~running[r]
              /\ ~running[r] => Ending(r) \/ Gone(r)
              /\ ~listening[r] => backlog[r] = <<>>
              /\ js.at = "join" /\ js.server = r => ~listening[r])'
  <2>1. CASE r = s
    <3>1. ~Gone(s)
      BY DEF Gone
    <3> QED
      BY <2>1, <3>1 DEF ServerInv, Ending
  <2>2. CASE r # s
    BY <1>1, <2>2 DEF ServerInv, Ending, Gone
  <2> QED
    BY <2>1, <2>2
<1> QED
  BY <1>2, <1>3 DEF ServerInv

LEMMA ServerInvStep == ServerInv /\ [Next]_vars => ServerInv'
<1> SUFFICES ASSUME ServerInv, [Next]_vars PROVE ServerInv'
  OBVIOUS
<1> USE DEF serverVars, eventVars
<1>1. CASE UNCHANGED vars
  BY <1>1, Untouched DEF vars
<1>2. CASE Start \/ StartHttps
  <2>1. ASSUME NEW s \in Servers, Launch(s) PROVE ServerInv'
    BY <2>1 DEF Launch, ServerInv, ServerType, Ending, Gone, Idle
  <2> QED
    BY <1>2, <2>1 DEF Start, StartHttps, Servers
<1>3. ASSUME NEW s \in Servers, CheckFlag(s) PROVE ServerInv'
  BY <1>3 DEF CheckFlag, ServerInv, ServerType, Ending, Gone
<1>4. ASSUME NEW s \in Servers, Accept(s) PROVE ServerInv'
  <2>1. s \in Servers /\ loop[s] = "accept" /\ listening[s]
    BY <1>4 DEF Accept
  <2>2. /\ UNCHANGED <<running, listening, js>>
        /\ backlog' = [backlog EXCEPT ![s] = Tail(@)]
        /\ loop' = [loop EXCEPT ![s] = "check"]
    BY <1>4 DEF Accept
  <2> QED
    BY <2>1, <2>2 DEF ServerInv, ServerType, Ending, Gone
<1>5. ASSUME NEW s \in Servers, AcceptFails(s) PROVE ServerInv'
  BY <1>5 DEF AcceptFails, ServerInv, ServerType, Ending, Gone
<1>6. CASE DrainEvents
  BY <1>6, Untouched DEF DrainEvents
<1>7. CASE BeginStop
  BY <1>7 DEF BeginStop, ServerInv, ServerType, Ending, Gone, Idle, StopOf, Servers
<1>8. CASE ClearFlag
  BY <1>8 DEF ClearFlag, ServerInv, ServerType, Ending, Gone, Idle, StopOf,
              AfterStopOf, Servers
<1>9. CASE CloseListener
  <2>1. /\ js.at = "close" /\ js' = [js EXCEPT !.at = "join"]
        /\ listening' = [listening EXCEPT ![js.server] = FALSE]
        /\ backlog' = [backlog EXCEPT ![js.server] = <<>>]
        /\ UNCHANGED <<running, loop>>
    BY <1>9 DEF CloseListener
  <2> QED
    BY <2>1 DEF ServerInv, ServerType, Ending, Gone
<1>10. CASE JoinLoop
  BY <1>10 DEF JoinLoop, ServerInv, ServerType, Ending, Gone, Idle, StopOf,
               AfterStopOf, Servers
<1>11. ASSUME NEW d \in Devices, ConnectHttp(d) PROVE ServerInv'
  BY <1>11, Joins DEF ConnectHttp, Servers
<1>12. ASSUME NEW p \in Peers, HttpStep(p) PROVE ServerInv'
  BY <1>12, Untouched DEF HttpStep, HandleReport, HandleOther, SendJson
<1>13. ASSUME NEW c \in TlsClients, ConnectTls(c) PROVE ServerInv'
  BY <1>13, Joins DEF ConnectTls, Servers
<1>14. ASSUME NEW c \in TlsClients, TlsStep(c) PROVE ServerInv'
  <2>1. CASE ProxyRequest(c)
    <3>1. CASE listening["http"]
      BY <2>1, <3>1, Joins DEF ProxyRequest, Servers
    <3>2. CASE ~listening["http"]
      BY <2>1, <3>2, Untouched DEF ProxyRequest
    <3> QED
      BY <3>1, <3>2
  <2>2. CASE \/ LockHandshake(c) \/ FinishHandshake(c) \/ ReadMore(c)
             \/ GiveUp(c) \/ ForwardAnswer(c) \/ CloseTls(c)
    BY <2>2, Untouched DEF LockHandshake, FinishHandshake, ReadMore, GiveUp,
                           ForwardAnswer, CloseTls
  <2> QED
    BY <1>14, <2>1, <2>2 DEF TlsStep
<1>15. ASSUME NEW c \in TlsClients, Crash(c) PROVE ServerInv'
  BY <1>15 DEF Crash, ServerInv, ServerType, Ending, Gone, Idle, Servers
<1> QED
  BY <1>1, <1>2, <1>3, <1>4, <1>5, <1>6, <1>7, <1>8, <1>9, <1>10, <1>11, <1>12,
     <1>13, <1>14, <1>15 DEF Next, LoopStep, StopStep

(***************************************************************************)
(* When Stop has returned, no accept thread, no listening socket and no    *)
(* waiting connection of either server is left, whichever connections and  *)
(* crashes of the process came in between.                                 *)
(***************************************************************************)
THEOREM NothingLeft == Spec => []StoppedIsStopped
<1>1. ServerInv => StoppedIsStopped
  BY DEF ServerInv, StoppedIsStopped, Ending, Gone, Idle
<1> QED
  BY <1>1, ServerInvInit, ServerInvStep, PTL DEF Spec

-----------------------------------------------------------------------------
(* Requests in a stream *)

\* A finite non-empty set of numbers has a least element.
LEMMA LeastOf ==
  ASSUME NEW q, IsFiniteSet(q), q # {}, q \subseteq Nat
  PROVE  \E e \in q : \A f \in q : e <= f
<1> DEFINE Least(r) == \E e \in r : \A f \in r : e <= f
           Without == {r \in FiniteSubsetsOf(q) : r # {} /\ ~Least(r)}
<1>1. SUFFICES ASSUME ~Least(q)
               PROVE FALSE
  OBVIOUS
<1>2. q \in Without
  BY <1>1 DEF FiniteSubsetsOf
<1>3. PICK r \in Without :
        \A s \in Without : ~(<<s, r>> \in StrictSubsetOrdering(q))
  <2>1. Without \subseteq FiniteSubsetsOf(q)
    OBVIOUS
  <2>2. Without # {}
    BY <1>2
  <2> QED
    BY <2>1, <2>2, FS_StrictSubsetOrderingWellFounded, WFMin, Zenon
<1>4. PICK x \in r : x \in Nat
  BY DEF FiniteSubsetsOf
<1>5. IsFiniteSet(r \ {x}) /\ r \ {x} \in FiniteSubsetsOf(q)
  BY FS_RemoveElement DEF FiniteSubsetsOf
<1>6. r \ {x} \notin Without
  <2>1. <<r \ {x}, r>> \in StrictSubsetOrdering(q)
    BY <1>4, <1>5 DEF StrictSubsetOrdering, FiniteSubsetsOf
  <2> QED
    BY <1>3, <2>1
<1>7. CASE r \ {x} = {}
  <2>1. \A f \in r : x <= f
    BY <1>4, <1>7
  <2> QED
    BY <2>1, <1>4
<1>8. CASE r \ {x} # {}
  <2>1. PICK e \in r \ {x} : \A f \in r \ {x} : e <= f
    BY <1>5, <1>6, <1>8
  <2>2. e \in Nat
    BY <2>1 DEF FiniteSubsetsOf
  <2>3. (\A f \in r : e <= f) \/ (\A f \in r : x <= f)
    BY <1>4, <2>1, <2>2 DEF FiniteSubsetsOf
  <2> QED
    BY <2>1, <2>3, <1>4
<1> QED
  BY <1>7, <1>8

\* The first headers of a stream end at its first "end", which Expected adds
\* the announced length to.
LEMMA ExpectedIs ==
  ASSUME NEW p \in Seq(Unit), HeaderEnds(p) # {}
  PROVE  \E at \in HeaderEnds(p) :
           /\ \A j \in HeaderEnds(p) : at <= j
           /\ Expected(p) = at + p[at].length
           /\ at \in 1..Len(p) /\ Expected(p) \in Nat /\ Expected(p) >= at
<1>1. Len(p) \in Nat /\ DOMAIN p = 1..Len(p) /\ \A i \in 1..Len(p) : p[i] \in Unit
  BY LenProperties
<1>2. HeaderEnds(p) \subseteq 1..Len(p)
  BY <1>1 DEF HeaderEnds
<1>3. IsFiniteSet(HeaderEnds(p))
  <2>1. IsFiniteSet(1..Len(p))
    BY <1>1, FS_Interval
  <2> QED
    BY <1>2, <2>1, FS_Subset
<1>4. \E e \in HeaderEnds(p) : \A f \in HeaderEnds(p) : e <= f
  <2>1. HeaderEnds(p) \subseteq Nat
    BY <1>1, <1>2
  <2> QED
    BY <1>3, <2>1, LeastOf
<1> DEFINE at == CHOOSE i \in HeaderEnds(p) : \A j \in HeaderEnds(p) : i <= j
<1>5. at \in HeaderEnds(p) /\ \A j \in HeaderEnds(p) : at <= j
  BY <1>4
<1>6. Expected(p) = at + p[at].length
  BY DEF Expected
<1> HIDE DEF at
<1>7. p[at].length \in Nat
  BY <1>1, <1>2, <1>5, ServerAssumption DEF Unit
<1> QED
  BY <1>1, <1>2, <1>5, <1>6, <1>7

\* What is read of a stream, as soon as it holds a whole request, frames the
\* request that the whole stream begins with.
LEMMA FramedPrefix ==
  ASSUME NEW p \in Seq(Unit), NEW u \in Seq(Unit), Framed(p)
  PROVE  Framed(p \o u) /\ Expected(p \o u) = Expected(p)
<1> DEFINE r == p \o u
<1>1. /\ r \in Seq(Unit) /\ Len(r) = Len(p) + Len(u)
      /\ \A i \in 1..Len(p) : r[i] = p[i]
      /\ DOMAIN r = 1..Len(r) /\ DOMAIN p = 1..Len(p)
      /\ Len(p) \in Nat /\ Len(u) \in Nat
  BY ConcatProperties, LenProperties
<1> HIDE DEF r
<1>2. HeaderEnds(p) \subseteq HeaderEnds(r) /\ HeaderEnds(p) # {}
  BY <1>1 DEF HeaderEnds, Framed
<1>3. PICK a \in HeaderEnds(p) : /\ \A j \in HeaderEnds(p) : a <= j
                                 /\ Expected(p) = a + p[a].length
                                 /\ a \in 1..Len(p)
  BY <1>2, ExpectedIs
<1>4. PICK b \in HeaderEnds(r) : /\ \A j \in HeaderEnds(r) : b <= j
                                 /\ Expected(r) = b + r[b].length
                                 /\ b \in 1..Len(r)
  BY <1>1, <1>2, ExpectedIs
<1>5. b <= a
  BY <1>2, <1>4
<1>6. b \in HeaderEnds(p)
  BY <1>1, <1>3, <1>4, <1>5 DEF HeaderEnds
<1>7. a = b
  BY <1>3, <1>4, <1>5, <1>6
<1>8. Expected(r) = Expected(p)
  BY <1>1, <1>3, <1>4, <1>7
<1>9. Len(p) >= Expected(p) /\ Expected(p) \in Nat
  BY <1>2, ExpectedIs DEF Framed
<1> QED
  BY <1>1, <1>2, <1>8, <1>9 DEF Framed, r

\* A framed request is a non-empty beginning of what was read, and what is
\* left of that starts right behind it.
LEMMA CutParts ==
  ASSUME NEW p \in Seq(Unit), Framed(p)
  PROVE  LET x == Expected(p)
             request == SubSeq(p, 1, x)
             rest == Remainder(p)
         IN  /\ x \in Nat /\ x >= 1 /\ x <= Len(p)
             /\ request \in Seq(Unit) /\ Len(request) = x /\ request # <<>>
             /\ \A i \in 1..x : request[i] = p[i]
             /\ rest \in Seq(Unit) /\ Len(rest) = Len(p) - x
             /\ \A i \in 1..(Len(p) - x) : rest[i] = p[x + i]
<1> DEFINE x == Expected(p)
           request == SubSeq(p, 1, x)
           rest == Remainder(p)
<1>1. Len(p) \in Nat /\ \A i \in 1..Len(p) : p[i] \in Unit
  BY LenProperties
<1>2. x \in Nat /\ x >= 1 /\ x <= Len(p)
  <2>1. PICK at \in 1..Len(p) : x \in Nat /\ x >= at
    BY ExpectedIs DEF Framed
  <2> QED
    BY <1>1, <2>1 DEF Framed
<1>3. /\ request \in Seq(Unit) /\ Len(request) = x /\ \A i \in 1..x : request[i] = p[i]
      /\ rest \in Seq(Unit) /\ Len(rest) = Len(p) - x
      /\ \A i \in 1..(Len(p) - x) : rest[i] = p[x + i]
  <2>1. \A i \in 1..x : p[i] \in Unit
    BY <1>1, <1>2
  <2>2. \A i \in (x + 1)..Len(p) : p[i] \in Unit
    BY <1>1, <1>2
  <2>3. /\ request \in Seq(Unit) /\ Len(request) = IF 1 <= x THEN x - 1 + 1 ELSE 0
        /\ \A i \in 1..(x - 1 + 1) : request[i] = p[1 + i - 1]
    <3>1. 1 \in Int /\ x \in Int
      BY <1>2
    <3> HIDE DEF x
    <3> QED
      BY <2>1, <3>1, SubSeqProperties
  <2>4. /\ rest \in Seq(Unit)
        /\ Len(rest) = IF x + 1 <= Len(p) THEN Len(p) - (x + 1) + 1 ELSE 0
        /\ \A i \in 1..(Len(p) - (x + 1) + 1) : rest[i] = p[x + 1 + i - 1]
    <3>1. x + 1 \in Int /\ Len(p) \in Int
      BY <1>1, <1>2
    <3>2. rest = SubSeq(p, x + 1, Len(p))
      BY DEF Remainder
    <3> HIDE DEF x, rest
    <3> QED
      BY <2>2, <3>1, <3>2, SubSeqProperties
  <2> HIDE DEF x, rest, request
  <2> QED
    BY <1>1, <1>2, <2>3, <2>4
<1> HIDE DEF x, rest, request
<1>4. request # <<>>
  BY <1>2, <1>3
<1> QED
  BY <1>2, <1>3, <1>4 DEF x, rest, request

\* The request that is cut off a stream's rest is the next one, and what
\* follows it is the rest after it.
LEMMA CutRequest ==
  ASSUME NEW s \in Seq(Unit), Numbered(s), NEW p \in Seq(Unit), NEW u \in Seq(Unit),
         NEW n \in Nat, IsAfter(p \o u, s, n), Framed(p)
  PROVE  LET request == SubSeq(p, 1, Expected(p))
         IN  /\ request \in Seq(Unit) /\ request # <<>>
             /\ request[1].req = n + 1
             /\ Remainder(p) \in Seq(Unit)
             /\ request \o (Remainder(p) \o u) = p \o u
             /\ IsAfter(Remainder(p) \o u, s, n + 1)
<1> DEFINE r == p \o u
           x == Expected(p)
           request == SubSeq(p, 1, x)
           rest == Remainder(p)
<1>1. /\ r \in Seq(Unit) /\ Len(r) = Len(p) + Len(u)
      /\ Len(p) \in Nat /\ Len(u) \in Nat /\ Len(s) \in Nat
      /\ \A i \in 1..Len(p) : r[i] = p[i]
      /\ DOMAIN s = 1..Len(s) /\ \A i \in 1..Len(s) : s[i] \in Unit
      /\ \A i \in 1..Len(p) : p[i] \in Unit
  BY ConcatProperties, LenProperties
<1>2. x \in Nat /\ x >= 1 /\ x <= Len(p)
  BY CutParts
<1>3. Framed(r) /\ Expected(r) = x
  BY FramedPrefix
<1>4. PICK k \in 0..Len(s) : /\ r = SubSeq(s, k + 1, Len(s))
                             /\ \A i \in DOMAIN s : s[i].req > n <=> i > k
  BY DEF IsAfter
<1>5. r \in Seq(Unit) /\ \A i \in 1..Len(r) : r[i] = IF i <= Len(p) THEN p[i] ELSE u[i - Len(p)]
  BY <1>1, ConcatProperties
<1> HIDE DEF r
<1>6. k \in Nat /\ Len(r) = Len(s) - k /\ \A i \in 1..Len(r) : r[i] = s[k + i]
  <2>1. /\ Len(SubSeq(s, k + 1, Len(s))) = IF k + 1 <= Len(s) THEN Len(s) - (k + 1) + 1 ELSE 0
        /\ \A i \in 1..(Len(s) - (k + 1) + 1) : SubSeq(s, k + 1, Len(s))[i] = s[k + 1 + i - 1]
    <3>1. k + 1 \in Int /\ Len(s) \in Int /\ \A i \in (k + 1)..Len(s) : s[i] \in Unit
      BY <1>1
    <3> QED
      BY <3>1, SubSeqProperties
  <2>2. Len(r) = Len(s) - k /\ k \in Nat
    <3>1. k \in Nat /\ k <= Len(s) /\ Len(s) \in Nat
      BY <1>1
    <3>2. Len(r) = IF k + 1 <= Len(s) THEN Len(s) - (k + 1) + 1 ELSE 0
      BY <1>4, <2>1
    <3>3. CASE k + 1 <= Len(s)
      BY <3>1, <3>2, <3>3
    <3>4. CASE ~(k + 1 <= Len(s))
      <4>1. Len(r) = 0 /\ k = Len(s)
        BY <3>1, <3>2, <3>4
      <4> QED
        BY <3>1, <4>1
    <3> QED
      BY <3>3, <3>4
  <2>3. ASSUME NEW i \in 1..Len(r)
        PROVE  r[i] = s[k + i]
    <3>1. k + 1 + i - 1 = k + i /\ i \in 1..(Len(s) - (k + 1) + 1)
      BY <1>1, <2>2
    <3>2. SubSeq(s, k + 1, Len(s))[i] = s[k + 1 + i - 1]
      BY <2>1, <3>1
    <3> QED
      BY <1>4, <3>1, <3>2
  <2> QED
    BY <2>2, <2>3
<1>7. k + 1 \in DOMAIN s /\ k + x <= Len(s)
  BY <1>1, <1>2, <1>6
<1> DEFINE first == k + 1
           begins == first = 1 \/ s[first - 1].req # s[first].req
<1>8. /\ s[first].req \in IF first = 1 THEN {1} ELSE {s[first - 1].req, s[first - 1].req + 1}
      /\ \A j \in first..Len(s) :
           /\ s[first].req <= s[j].req
           /\ begins => (s[j].req = s[first].req <=> j < first + x)
  <2>1. first \in DOMAIN s
    BY <1>7
  <2>2. Framed(SubSeq(s, first, Len(s))) /\ Expected(SubSeq(s, first, Len(s))) = x
    BY <1>3, <1>4
  <2> HIDE DEF first, x
  <2> QED
    BY <2>1, <2>2 DEF Numbered
<1>9. /\ first \in 1..Len(s) /\ first = k + 1
      /\ s[first].req \in Nat /\ s[first].req > n
  <2>1. first \in 1..Len(s) /\ first > k /\ first \in DOMAIN s
    BY <1>1, <1>6, <1>7
  <2> HIDE DEF first
  <2>2. s[first].req \in Nat /\ s[first].req > n
    BY <1>1, <1>4, <2>1 DEF Unit
  <2> QED
    BY <2>1, <2>2 DEF first
<1> HIDE DEF first
<1>10. begins /\ s[first].req = n + 1
  <2>1. CASE k = 0
    BY <1>8, <1>9, <2>1
  <2>2. CASE k # 0
    <3>1. k \in 1..Len(s) /\ first - 1 = k /\ s[k].req \in Nat /\ first # 1
      BY <1>1, <1>6, <1>9, <2>2 DEF Unit
    <3>2. s[k].req <= n
      <4>1. k \in DOMAIN s /\ ~(k > k)
        BY <1>1, <3>1
      <4>2. ~(s[k].req > n)
        BY <1>4, <4>1
      <4> QED
        BY <3>1, <4>2
    <3>3. s[first].req \in {s[k].req, s[k].req + 1}
      BY <1>8, <3>1
    <3>4. s[first].req = n + 1 /\ s[k].req # s[first].req
      BY <1>9, <3>1, <3>2, <3>3
    <3> QED
      BY <3>1, <3>4
  <2> QED
    BY <2>1, <2>2
<1>11. /\ request \in Seq(Unit) /\ Len(request) = x /\ \A i \in 1..x : request[i] = p[i]
       /\ rest \in Seq(Unit) /\ Len(rest) = Len(p) - x
       /\ \A i \in 1..(Len(p) - x) : rest[i] = p[x + i]
  BY CutParts
<1> HIDE DEF x, rest, request
<1>12. request # <<>> /\ request[1].req = n + 1
  <2>1. request[1] = r[1] /\ r[1] = s[first]
    BY <1>1, <1>2, <1>6, <1>9, <1>11
  <2>2. Len(request) # 0
    BY <1>2, <1>11
  <2> QED
    BY <1>10, <2>1, <2>2
<1>13. rest \o u \in Seq(Unit) /\ Len(rest \o u) = Len(p) - x + Len(u)
       /\ \A i \in 1..(Len(p) - x + Len(u)) :
            (rest \o u)[i] = IF i <= Len(p) - x THEN p[x + i] ELSE u[i - (Len(p) - x)]
  <2>1. /\ rest \o u \in Seq(Unit) /\ Len(rest \o u) = Len(rest) + Len(u)
        /\ \A i \in 1..(Len(rest) + Len(u)) :
             (rest \o u)[i] = IF i <= Len(rest) THEN rest[i] ELSE u[i - Len(rest)]
    BY <1>11, ConcatProperties
  <2>2. ASSUME NEW i \in 1..(Len(p) - x + Len(u)), i <= Len(p) - x
        PROVE  rest[i] = p[x + i]
    BY <1>1, <1>2, <1>11, <2>2
  <2> QED
    BY <1>11, <2>1, <2>2
<1>14. request \o (rest \o u) = r
  <2> DEFINE left == rest \o u
             whole == request \o left
  <2>1. /\ whole \in Seq(Unit)
        /\ Len(whole) = x + (Len(p) - x + Len(u))
        /\ \A i \in 1..(x + (Len(p) - x + Len(u))) :
             whole[i] = IF i <= x THEN request[i] ELSE (rest \o u)[i - x]
    <3>1. left \in Seq(Unit) /\ Len(left) = Len(p) - x + Len(u)
      BY <1>13
    <3> HIDE DEF left
    <3>2. /\ whole \in Seq(Unit) /\ Len(whole) = Len(request) + Len(left)
          /\ \A i \in 1..(Len(request) + Len(left)) :
               whole[i] = IF i <= Len(request) THEN request[i] ELSE left[i - Len(request)]
      BY <1>11, <3>1, ConcatProperties
    <3> QED
      BY <1>11, <3>1, <3>2 DEF left
  <2>2. Len(whole) = Len(r)
    BY <1>1, <1>2, <2>1
  <2>3. ASSUME NEW i \in 1..Len(r)
        PROVE  whole[i] = r[i]
    <3>1. i \in 1..(x + (Len(p) - x + Len(u))) /\ i \in Nat
      BY <1>1, <1>2
    <3>2. CASE i <= x
      <4>1. i \in 1..x /\ i <= Len(p)
        BY <1>1, <1>2, <3>1, <3>2
      <4>2. whole[i] = request[i]
        BY <2>1, <3>1, <3>2
      <4>3. request[i] = p[i]
        BY <1>11, <4>1
      <4> QED
        BY <1>5, <4>1, <4>2, <4>3
    <3>3. CASE ~(i <= x)
      <4>1. i - x \in 1..(Len(p) - x + Len(u)) /\ x + (i - x) = i
            /\ i - x - (Len(p) - x) = i - Len(p) /\ (i - x <= Len(p) - x <=> i <= Len(p))
        BY <1>1, <1>2, <3>1, <3>3
      <4>2. whole[i] = (rest \o u)[i - x]
        BY <2>1, <3>1, <3>3
      <4>3. (rest \o u)[i - x] = IF i <= Len(p) THEN p[i] ELSE u[i - Len(p)]
        BY <1>13, <4>1
      <4> QED
        BY <1>5, <4>2, <4>3
    <3> QED
      BY <3>2, <3>3
  <2>4. whole \in Seq(Unit)
    BY <2>1
  <2> HIDE DEF whole
  <2>5. whole = r
    BY <1>5, <2>2, <2>3, <2>4, SeqEqual
  <2> QED
    BY <2>5 DEF whole
<1>15. rest \o u = SubSeq(s, k + x + 1, Len(s))
  <2> DEFINE tail == SubSeq(s, k + x + 1, Len(s))
  <2>1. /\ tail \in Seq(Unit)
        /\ Len(tail) = IF k + x + 1 <= Len(s) THEN Len(s) - (k + x + 1) + 1 ELSE 0
        /\ \A i \in 1..(Len(s) - (k + x + 1) + 1) : tail[i] = s[k + x + 1 + i - 1]
    <3>1. k + x + 1 \in Int /\ Len(s) \in Int /\ \A i \in (k + x + 1)..Len(s) : s[i] \in Unit
      BY <1>1, <1>2, <1>6
    <3> QED
      BY <3>1, SubSeqProperties
  <2> HIDE DEF tail
  <2>2. Len(tail) = Len(s) - k - x /\ Len(s) - k = Len(p) + Len(u)
    <3>1. Len(s) - k = Len(p) + Len(u)
      BY <1>1, <1>6
    <3>2. k + x <= Len(s) /\ k \in Nat /\ x \in Nat /\ Len(s) \in Nat
      BY <1>1, <1>2, <1>6, <1>7
    <3>3. CASE k + x + 1 <= Len(s)
      <4>1. Len(tail) = Len(s) - (k + x + 1) + 1
        BY <2>1, <3>3
      <4>2. Len(s) - (k + x + 1) + 1 = Len(s) - k - x
        BY <3>2
      <4> QED
        BY <3>1, <4>1, <4>2
    <3>4. CASE ~(k + x + 1 <= Len(s))
      <4>1. Len(tail) = 0 /\ k + x = Len(s)
        BY <2>1, <3>2, <3>4
      <4> QED
        BY <3>1, <3>2, <4>1
    <3> QED
      BY <3>3, <3>4
  <2>3. Len(tail) = Len(rest \o u)
    <3>1. Len(p) \in Nat /\ Len(u) \in Nat /\ x \in Nat
      BY <1>1, <1>2
    <3>2. Len(rest \o u) = Len(p) - x + Len(u)
      BY <1>13
    <3> QED
      BY <2>2, <3>1, <3>2
  <2>4. ASSUME NEW i \in 1..Len(tail)
        PROVE  tail[i] = (rest \o u)[i]
    <3>1. i \in 1..(Len(p) - x + Len(u)) /\ i \in Nat /\ x + i \in 1..Len(r)
          /\ i \in 1..(Len(s) - (k + x + 1) + 1)
      BY <1>1, <1>2, <1>6, <2>2
    <3>2. tail[i] = s[k + (x + i)]
      <4>1. k + x + 1 + i - 1 = k + (x + i)
        BY <1>2, <1>6, <3>1
      <4>2. tail[i] = s[k + x + 1 + i - 1]
        BY <2>1, <3>1
      <4> QED
        BY <4>1, <4>2
    <3>3. r[x + i] = s[k + (x + i)]
      BY <1>6, <3>1
    <3>4. r[x + i] = IF x + i <= Len(p) THEN p[x + i] ELSE u[x + i - Len(p)]
      <4> DEFINE m == x + i
      <4>1. m \in 1..Len(r)
        BY <3>1
      <4> HIDE DEF m
      <4>2. r[m] = IF m <= Len(p) THEN p[m] ELSE u[m - Len(p)]
        BY <1>5, <4>1
      <4> QED
        BY <1>2, <3>1, <4>2 DEF m
    <3>5. (x + i <= Len(p) <=> i <= Len(p) - x) /\ x + i - Len(p) = i - (Len(p) - x)
      BY <1>1, <1>2, <3>1
    <3>6. (rest \o u)[i] = IF i <= Len(p) - x THEN p[x + i] ELSE u[i - (Len(p) - x)]
      BY <1>13, <3>1
    <3> QED
      BY <3>2, <3>3, <3>4, <3>5, <3>6
  <2>5. tail = rest \o u
    BY <1>13, <2>1, <2>3, <2>4, SeqEqual
  <2> QED
    BY <2>5 DEF tail
<1>16. IsAfter(rest \o u, s, n + 1)
  <2>1. k + x \in 0..Len(s)
    BY <1>1, <1>2, <1>6, <1>7
  <2>2. ASSUME NEW i \in DOMAIN s
        PROVE  s[i].req > n + 1 <=> i > k + x
    <3>1. i \in 1..Len(s) /\ s[i].req \in Nat
      BY <1>1 DEF Unit
    <3>2. CASE i <= k
      <4>1. ~(s[i].req > n)
        <5>1. ~(i > k)
          BY <1>6, <3>1, <3>2
        <5> QED
          BY <1>4, <5>1
      <4> QED
        BY <1>2, <1>6, <3>1, <3>2, <4>1
    <3>3. CASE i > k
      <4>1. i \in first..Len(s)
        BY <1>1, <1>6, <1>9, <3>1, <3>3
      <4>2. n + 1 <= s[i].req /\ (s[i].req = n + 1 <=> i < first + x)
        BY <1>8, <1>10, <4>1
      <4> QED
        BY <1>2, <1>6, <1>9, <3>1, <4>2
    <3> QED
      BY <1>6, <3>1, <3>2, <3>3
  <2>3. k + x + 1 = (k + x) + 1
    OBVIOUS
  <2> QED
    BY <1>15, <2>1, <2>2, <2>3 DEF IsAfter
<1> QED
  BY <1>11, <1>12, <1>14, <1>16 DEF x, rest, request, r

-----------------------------------------------------------------------------
(* One TLS connection *)

TlsRecord == [st : TlsState, unread : Seq(Unit), pending : Seq(Unit),
              request : Seq(Unit), served : 0..MaxKeepAlive, gaps : SUBSET Nat,
              answers : Seq([req : Nat, alive : BOOLEAN])]

\* What one connection record x of client c satisfies beyond AnswersInOrder:
\* every request served so far is an answer or a gap, the stream the client
\* chose is what is left of it, and a connection that is not closing has room
\* for one more request and has been promised to stay open.
GoodConnection(c, x) ==
  /\ x \in TlsRecord
  /\ x.st = "none" => x = NoTls
  /\ x.st # "proxying" => x.request = <<>>
  /\ IsFiniteSet(x.gaps)
  /\ {x.answers[i].req : i \in DOMAIN x.answers} \cup x.gaps =
       1..(Len(x.answers) + Cardinality(x.gaps))
  /\ Len(x.answers) <= MaxKeepAlive
  /\ \A i \in DOMAIN x.answers :
       /\ x.answers[i].alive => i < MaxKeepAlive
       /\ i < Len(x.answers) => /\ x.answers[i].req < x.answers[i + 1].req
                                /\ x.answers[i].alive
  /\ x.st # "closing" =>
       /\ \A i \in DOMAIN x.answers : x.answers[i].alive
       /\ x.served = Len(x.answers) + Cardinality(x.gaps)
       /\ x.served < MaxKeepAlive
  /\ x.st \notin {"none", "closing"} =>
       \E s \in Scripts[c] :
         /\ IsAfter(x.request \o (x.pending \o x.unread), s, x.served)
         /\ x.st = "proxying" =>
              /\ IsAfter(x.pending \o x.unread, s, x.served + 1)
              /\ x.request # <<>> /\ x.request[1].req = x.served + 1

\* How a connection's record changes: it begins without a request, and none of
\* the changes but the forwarding of an answer touches the answers.
LEMMA NoConnection ==
  ASSUME NEW c \in TlsClients
  PROVE  NoTls \in TlsRecord /\ GoodConnection(c, NoTls)
<1>1. IsFiniteSet({}) /\ Cardinality({}) = 0
  BY FS_EmptySet
<1>2. NoTls \in TlsRecord
  BY ServerAssumption DEF NoTls, TlsRecord, TlsState
<1> QED
  BY <1>1, <1>2, ServerAssumption DEF GoodConnection, NoTls

LEMMA StreamIs ==
  ASSUME NEW c \in TlsClients, NEW s \in Scripts[c]
  PROVE  /\ s \in Seq(Unit) /\ Numbered(s)
         /\ Len(s) \in Nat /\ DOMAIN s = 1..Len(s) /\ \A i \in 1..Len(s) : s[i] \in Unit
<1>1. s \in Seq(Unit) /\ Numbered(s)
  BY ServerAssumption, StreamAssumption
<1> QED
  BY <1>1, LenProperties

\* What is read of a stream and what is left make up the stream.
LEMMA SplitAt ==
  ASSUME NEW q \in Seq(Unit), NEW n \in 1..Len(q)
  PROVE  /\ SubSeq(q, 1, n) \in Seq(Unit) /\ SubSeq(q, n + 1, Len(q)) \in Seq(Unit)
         /\ SubSeq(q, 1, n) \o SubSeq(q, n + 1, Len(q)) = q
<1>1. Len(q) \in Nat /\ n \in Nat /\ n <= Len(q) /\ \A i \in 1..Len(q) : q[i] \in Unit
  BY LenProperties
<1>2. SubSeq(q, 1, n) \in Seq(Unit)
  <2>1. 1 \in Int /\ n \in Int /\ \A i \in 1..n : q[i] \in Unit
    BY <1>1
  <2> QED
    BY <2>1, SubSeqProperties
<1>3. SubSeq(q, n + 1, Len(q)) \in Seq(Unit)
  <2>1. n + 1 \in Int /\ Len(q) \in Int /\ \A i \in (n + 1)..Len(q) : q[i] \in Unit
    BY <1>1
  <2> QED
    BY <2>1, SubSeqProperties
<1>4. SubSeq(q, 1, n) \o SubSeq(q, n + 1, Len(q)) = SubSeq(q, 1, Len(q))
  <2>1. 1 \in 1..(Len(q) + 1) /\ n \in (1 - 1)..Len(q) /\ Len(q) \in n..Len(q)
    BY <1>1
  <2> QED
    BY <2>1, ConcatAdjacentSubSeq
<1> QED
  BY <1>2, <1>3, <1>4, SubSeqFull

LEMMA NewConnection ==
  ASSUME NEW c \in TlsClients, NEW s \in Scripts[c]
  PROVE  GoodConnection(c, [NoTls EXCEPT !.st = "queued", !.unread = s])
<1> DEFINE x == [NoTls EXCEPT !.st = "queued", !.unread = s]
<1>1. /\ s \in Seq(Unit) /\ Numbered(s) /\ Len(s) \in Nat /\ DOMAIN s = 1..Len(s)
      /\ \A i \in 1..Len(s) : s[i] \in Unit
  BY StreamIs
<1>2. /\ x.st = "queued" /\ x.unread = s /\ x.request = <<>> /\ x.pending = <<>>
      /\ x.served = 0 /\ x.answers = <<>> /\ x.gaps = {}
      /\ x \in TlsRecord
  <2>1. NoTls \in TlsRecord
    BY NoConnection
  <2>2. x \in TlsRecord
    BY <1>1, <2>1 DEF TlsRecord, TlsState
  <2> QED
    BY <2>2 DEF NoTls
<1>3. \A i \in DOMAIN s : s[i].req > 0 <=> i > 0
  <2>1. ASSUME NEW i \in DOMAIN s
        PROVE  s[i].req > 0
    <3>1. 1 \in DOMAIN s /\ i \in 1..Len(s)
      BY <1>1
    <3>2. s[1].req = 1 /\ s[1].req <= s[i].req
      BY <1>1, <3>1 DEF Numbered
    <3>3. s[i].req \in Nat
      BY <1>1, <3>1 DEF Unit
    <3> QED
      BY <3>2, <3>3
  <2> QED
    BY <1>1, <2>1
<1>4. <<>> \o (<<>> \o s) = s /\ SubSeq(s, 1, Len(s)) = s
  BY <1>1, ConcatEmptySeq, SubSeqFull
<1>5. IsAfter(s, s, 0)
  <2>1. s = SubSeq(s, 0 + 1, Len(s))
    BY <1>4
  <2> QED
    BY <1>1, <1>3, <2>1 DEF IsAfter
<1>6. IsAfter(x.request \o (x.pending \o x.unread), s, x.served)
  BY <1>2, <1>4, <1>5
<1>7. IsFiniteSet({}) /\ Cardinality({}) = 0
  BY FS_EmptySet
<1> HIDE DEF x
<1>8. GoodConnection(c, x)
  BY <1>2, <1>6, <1>7, ServerAssumption DEF GoodConnection
<1> QED
  BY <1>8 DEF x

LEMMA Advances ==
  ASSUME NEW c \in TlsClients, NEW x, GoodConnection(c, x),
         x.st \in {"queued", "waiting", "handshaking"},
         NEW st \in {"waiting", "handshaking", "reading"}
  PROVE  GoodConnection(c, [x EXCEPT !.st = st])
<1> DEFINE y == [x EXCEPT !.st = st]
<1>1. /\ y.st = st /\ y \in TlsRecord
      /\ y.request = x.request /\ y.pending = x.pending /\ y.unread = x.unread
      /\ y.served = x.served /\ y.answers = x.answers /\ y.gaps = x.gaps
  BY DEF GoodConnection, TlsRecord, TlsState
<1> HIDE DEF y
<1> QED
  BY <1>1 DEF GoodConnection, y

LEMMA Closes ==
  ASSUME NEW c \in TlsClients, NEW x, GoodConnection(c, x), x.st # "proxying"
  PROVE  GoodConnection(c, [x EXCEPT !.st = "closing"])
<1> DEFINE y == [x EXCEPT !.st = "closing"]
<1>1. /\ y.st = "closing" /\ y \in TlsRecord
      /\ y.request = x.request /\ y.pending = x.pending /\ y.unread = x.unread
      /\ y.served = x.served /\ y.answers = x.answers /\ y.gaps = x.gaps
  BY DEF GoodConnection, TlsRecord, TlsState
<1> HIDE DEF y
<1> QED
  BY <1>1 DEF GoodConnection, y

LEMMA Reads ==
  ASSUME NEW c \in TlsClients, NEW x, GoodConnection(c, x), x.st = "reading",
         NEW n \in DOMAIN x.unread
  PROVE  GoodConnection(c, [x EXCEPT
           !.pending = @ \o SubSeq(x.unread, 1, n),
           !.unread = SubSeq(@, n + 1, Len(@))])
<1> DEFINE got == SubSeq(x.unread, 1, n)
           left == SubSeq(x.unread, n + 1, Len(x.unread))
           y == [x EXCEPT !.pending = @ \o SubSeq(x.unread, 1, n),
                          !.unread = SubSeq(@, n + 1, Len(@))]
<1>1. /\ x.unread \in Seq(Unit) /\ x.pending \in Seq(Unit) /\ x.request = <<>>
      /\ x \in TlsRecord
  BY DEF GoodConnection, TlsRecord
<1>2. n \in 1..Len(x.unread)
  BY <1>1, LenProperties
<1>3. got \in Seq(Unit) /\ left \in Seq(Unit) /\ got \o left = x.unread
  BY <1>1, <1>2, SplitAt
<1>6. (x.pending \o got) \o left = x.pending \o x.unread
  <2> HIDE DEF got, left
  <2>1. (x.pending \o got) \o left = x.pending \o (got \o left)
    <3>1. \A p, q, r \in Seq(Unit) : (p \o q) \o r = p \o (q \o r)
      BY ConcatAssociative
    <3> QED
      BY <1>1, <1>3, <3>1, Zenon
  <2> QED
    BY <1>3, <2>1
<1>7. /\ y.st = "reading" /\ y.pending = x.pending \o got /\ y.unread = left
      /\ y.request = x.request
      /\ y.served = x.served /\ y.answers = x.answers /\ y.gaps = x.gaps
  BY <1>1 DEF GoodConnection, TlsRecord
<1>8. y \in TlsRecord
  <2>1. x.pending \o got \in Seq(Unit)
    BY <1>1, <1>3, ConcatProperties
  <2> HIDE DEF got, left
  <2> QED
    BY <1>1, <1>3, <2>1 DEF TlsRecord, got, left
<1> HIDE DEF y, got, left
<1>9. GoodConnection(c, y)
  BY <1>1, <1>6, <1>7, <1>8 DEF GoodConnection
<1> QED
  BY <1>9 DEF y, got, left

LEMMA Cuts ==
  ASSUME NEW c \in TlsClients, NEW x, GoodConnection(c, x), x.st = "reading",
         Framed(x.pending)
  PROVE  GoodConnection(c, [x EXCEPT
           !.st = "proxying",
           !.request = SubSeq(x.pending, 1, Expected(x.pending)),
           !.pending = Remainder(@)])
<1> DEFINE request == SubSeq(x.pending, 1, Expected(x.pending))
           rest == Remainder(x.pending)
           y == [x EXCEPT !.st = "proxying",
                   !.request = SubSeq(x.pending, 1, Expected(x.pending)),
                   !.pending = Remainder(@)]
<1>1. /\ x.unread \in Seq(Unit) /\ x.pending \in Seq(Unit) /\ x.request = <<>>
      /\ x \in TlsRecord /\ x.served \in Nat
  BY ServerAssumption DEF GoodConnection, TlsRecord
<1>2. PICK s \in Scripts[c] : IsAfter(x.request \o (x.pending \o x.unread), s, x.served)
  BY DEF GoodConnection
<1>3. s \in Seq(Unit) /\ Numbered(s)
  BY StreamIs
<1>4. IsAfter(x.pending \o x.unread, s, x.served)
  <2>1. x.pending \o x.unread \in Seq(Unit)
    BY <1>1, ConcatProperties
  <2>2. <<>> \o (x.pending \o x.unread) = x.pending \o x.unread
    BY <2>1, ConcatEmptySeq
  <2> QED
    BY <1>1, <1>2, <2>2
<1>5. /\ request \in Seq(Unit) /\ request # <<>>
      /\ request[1].req = x.served + 1
      /\ rest \in Seq(Unit)
      /\ request \o (rest \o x.unread) = x.pending \o x.unread
      /\ IsAfter(rest \o x.unread, s, x.served + 1)
  BY <1>1, <1>3, <1>4, CutRequest
<1> HIDE DEF request, rest
<1>6. /\ y.st = "proxying" /\ y.pending = rest /\ y.unread = x.unread
      /\ y.request = request
      /\ y.served = x.served /\ y.answers = x.answers /\ y.gaps = x.gaps
      /\ y \in TlsRecord
  BY <1>1, <1>5 DEF GoodConnection, TlsRecord, TlsState, request, rest
<1> HIDE DEF y
<1>7. \E t \in Scripts[c] :
         /\ IsAfter(y.request \o (y.pending \o y.unread), t, y.served)
         /\ y.st = "proxying" =>
              /\ IsAfter(y.pending \o y.unread, t, y.served + 1)
              /\ y.request # <<>> /\ y.request[1].req = y.served + 1
  BY <1>4, <1>5, <1>6
<1>8. /\ IsFiniteSet(y.gaps)
      /\ {y.answers[i].req : i \in DOMAIN y.answers} \cup y.gaps =
           1..(Len(y.answers) + Cardinality(y.gaps))
      /\ Len(y.answers) <= MaxKeepAlive
      /\ \A i \in DOMAIN y.answers :
           /\ y.answers[i].alive => i < MaxKeepAlive
           /\ i < Len(y.answers) => /\ y.answers[i].req < y.answers[i + 1].req
                                    /\ y.answers[i].alive
      /\ \A i \in DOMAIN y.answers : y.answers[i].alive
      /\ y.served = Len(y.answers) + Cardinality(y.gaps)
      /\ y.served < MaxKeepAlive
  BY <1>6 DEF GoodConnection
<1> QED
  BY <1>6, <1>7, <1>8 DEF GoodConnection, y

\* The answer to the request that is proxied, sent on, lost with its
\* connection or not written, is accounted for.
LEMMA Forwards ==
  ASSUME NEW c \in TlsClients, NEW x, GoodConnection(c, x), x.st = "proxying",
         NEW lost \in BOOLEAN, NEW written \in BOOLEAN, lost => written,
         NEW alive \in BOOLEAN, alive => x.served + 1 < MaxKeepAlive
  PROVE  GoodConnection(c, [x EXCEPT
           !.answers = IF written /\ ~lost
                         THEN Append(@, [req |-> x.request[1].req, alive |-> alive])
                         ELSE @,
           !.gaps = IF lost THEN @ \cup {x.request[1].req} ELSE @,
           !.served = @ + 1,
           !.request = <<>>,
           !.st = IF alive /\ written /\ x.served + 1 < MaxKeepAlive
                    THEN "reading" ELSE "closing"])
<1> DEFINE Answer == [req : Nat, alive : BOOLEAN]
           new == [req |-> x.request[1].req, alive |-> alive]
           a == IF written /\ ~lost THEN Append(x.answers, new) ELSE x.answers
           g == IF lost THEN x.gaps \cup {x.request[1].req} ELSE x.gaps
           st == IF alive /\ written /\ x.served + 1 < MaxKeepAlive
                   THEN "reading" ELSE "closing"
           y == [x EXCEPT !.answers = a, !.gaps = g, !.served = @ + 1,
                          !.request = <<>>, !.st = st]
           n == x.served + 1
<1>1. /\ x \in TlsRecord /\ x.answers \in Seq(Answer) /\ x.gaps \in SUBSET Nat
      /\ x.served \in Nat /\ x.served < MaxKeepAlive /\ MaxKeepAlive \in Nat
      /\ x.pending \in Seq(Unit) /\ x.unread \in Seq(Unit)
      /\ IsFiniteSet(x.gaps) /\ \A i \in DOMAIN x.answers : x.answers[i].alive
  BY ServerAssumption DEF GoodConnection, TlsRecord
<1>2. PICK s \in Scripts[c] : /\ IsAfter(x.pending \o x.unread, s, n)
                              /\ x.request[1].req = n
  BY DEF GoodConnection
<1>3. /\ Len(x.answers) \in Nat /\ DOMAIN x.answers = 1..Len(x.answers)
      /\ \A i \in 1..Len(x.answers) : x.answers[i] \in Answer
      /\ Cardinality(x.gaps) \in Nat
  <2> HIDE DEF Answer
  <2>1. /\ Len(x.answers) \in Nat /\ DOMAIN x.answers = 1..Len(x.answers)
        /\ \A i \in 1..Len(x.answers) : x.answers[i] \in Answer
    BY <1>1, LenProperties
  <2>2. Cardinality(x.gaps) \in Nat
    BY <1>1, FS_CardinalityType
  <2> QED
    BY <2>1, <2>2
<1>4. /\ {x.answers[i].req : i \in 1..Len(x.answers)} \cup x.gaps = 1..x.served
      /\ x.served = Len(x.answers) + Cardinality(x.gaps)
  BY <1>3 DEF GoodConnection
<1>5. n \in Nat /\ n \notin 1..x.served /\ 1..n = 1..x.served \cup {n} /\ n <= MaxKeepAlive
  BY <1>1
<1>6. new \in Answer /\ new.req = n /\ new.alive = alive
  BY <1>2, <1>5
<1> HIDE DEF new, n
<1>7. a \in Seq(Answer) /\ g \in SUBSET Nat
  BY <1>1, <1>2, <1>5, <1>6, AppendProperties
<1>8. /\ y \in TlsRecord /\ y.answers = a /\ y.gaps = g /\ y.served = n
      /\ y.request = <<>> /\ y.st = st
      /\ y.pending = x.pending /\ y.unread = x.unread
  <2>1. st \in {"reading", "closing"}
    OBVIOUS
  <2>2. x.served + 1 \in 0..MaxKeepAlive /\ n = x.served + 1
    BY <1>1 DEF n
  <2> HIDE DEF a, g, st
  <2>3. y \in TlsRecord
    <3>1. <<>> \in Seq(Unit) /\ st \in TlsState
      BY <2>1, EmptySeq DEF TlsState
    <3> QED
      BY <1>1, <1>7, <2>2, <3>1 DEF TlsRecord
  <2>4. /\ y.answers = a /\ y.gaps = g /\ y.served = x.served + 1
        /\ y.request = <<>> /\ y.st = st
        /\ y.pending = x.pending /\ y.unread = x.unread
    BY <1>1 DEF TlsRecord
  <2> QED
    BY <2>2, <2>3, <2>4
<1>9. /\ IsFiniteSet(g)
      /\ {a[i].req : i \in DOMAIN a} \cup g = 1..(Len(a) + Cardinality(g))
      /\ Len(a) <= MaxKeepAlive
      /\ \A i \in DOMAIN a :
           /\ a[i].alive => i < MaxKeepAlive
           /\ i < Len(a) => a[i].req < a[i + 1].req /\ a[i].alive
      /\ st # "closing" => /\ \A i \in DOMAIN a : a[i].alive
                           /\ n = Len(a) + Cardinality(g)
                           /\ n < MaxKeepAlive
  <2>0. \A i \in 1..Len(x.answers) :
          /\ x.answers[i].alive => i < MaxKeepAlive
          /\ i < Len(x.answers) => x.answers[i].req < x.answers[i + 1].req
    BY <1>3 DEF GoodConnection
  <2>1. CASE written /\ ~lost
    <3>1. /\ a = Append(x.answers, new) /\ g = x.gaps
          /\ st # "closing" => alive /\ n < MaxKeepAlive
      BY <2>1 DEF n
    <3>2. /\ Len(a) = Len(x.answers) + 1 /\ DOMAIN a = 1..Len(a)
          /\ \A i \in 1..Len(x.answers) : a[i] = x.answers[i]
          /\ a[Len(a)] = new
      BY <1>1, <1>6, <1>7, <3>1, AppendProperties, LenProperties
    <3> HIDE DEF a, g, st
    <3>3. \A i \in 1..Len(a) : i \in 1..Len(x.answers) \/ i = Len(a)
      BY <1>3, <3>2
    <3>4. {a[i].req : i \in DOMAIN a} = {x.answers[i].req : i \in 1..Len(x.answers)} \cup {n}
      <4>1. Len(a) \in 1..Len(a) /\ \A i \in 1..Len(x.answers) : i \in 1..Len(a)
        BY <1>3, <3>2
      <4> QED
        BY <1>6, <3>2, <3>3, <4>1
    <3>5. Len(a) + Cardinality(g) = n
      BY <1>3, <1>4, <3>1, <3>2 DEF n
    <3>6. {a[i].req : i \in DOMAIN a} \cup g = 1..(Len(a) + Cardinality(g))
      BY <1>4, <1>5, <3>1, <3>4, <3>5
    <3>7. Len(a) <= n /\ Len(a) \in Nat
      BY <1>3, <1>4, <3>2 DEF n
    <3>8. ASSUME NEW i \in DOMAIN a
          PROVE  /\ a[i].alive => i < MaxKeepAlive
                 /\ i < Len(a) => a[i].req < a[i + 1].req /\ a[i].alive
                 /\ alive => a[i].alive
      <4>1. CASE i = Len(a)
        <5>1. a[i] = new /\ (alive => n < MaxKeepAlive)
          BY <3>2, <4>1 DEF n
        <5> QED
          BY <1>1, <1>5, <1>6, <3>7, <4>1, <5>1
      <4>2. CASE i \in 1..Len(x.answers)
        <5>1. a[i] = x.answers[i] /\ a[i].alive /\ (a[i].alive => i < MaxKeepAlive)
          BY <1>1, <1>3, <2>0, <3>2, <4>2
        <5>2. a[i].req < n /\ a[i].req \in Nat
          <6>1. x.answers[i].req \in 1..x.served
            BY <1>4, <4>2
          <6> QED
            BY <1>1, <5>1, <6>1 DEF n
        <5>3. CASE i = Len(x.answers)
          <6>1. a[i + 1].req = n
            BY <1>6, <3>2, <5>3
          <6> QED
            BY <5>1, <5>2, <6>1
        <5>4. CASE i # Len(x.answers)
          <6>1. i + 1 \in 1..Len(x.answers) /\ i < Len(x.answers)
            BY <1>3, <4>2, <5>4
          <6>2. a[i + 1] = x.answers[i + 1] /\ x.answers[i].req < x.answers[i + 1].req
            BY <2>0, <3>2, <4>2, <6>1
          <6> QED
            BY <5>1, <6>2
        <5> QED
          BY <5>3, <5>4
      <4> QED
        BY <3>2, <3>3, <4>1, <4>2
    <3>9. Len(a) <= MaxKeepAlive
      BY <1>1, <1>5, <3>7
    <3> QED
      BY <1>1, <3>1, <3>5, <3>6, <3>8, <3>9
  <2>2. CASE lost
    <3>1. /\ a = x.answers /\ g = x.gaps \cup {n}
          /\ st # "closing" => n < MaxKeepAlive
      BY <1>2, <2>2 DEF n
    <3> HIDE DEF a, g, st
    <3>2. n \notin x.gaps
      BY <1>4, <1>5
    <3>3. IsFiniteSet(g) /\ Cardinality(g) = Cardinality(x.gaps) + 1
      BY <1>1, <3>1, <3>2, FS_AddElement
    <3>4. Len(a) + Cardinality(g) = n
      BY <1>3, <1>4, <3>1, <3>3 DEF n
    <3>5. {a[i].req : i \in DOMAIN a} \cup g = 1..(Len(a) + Cardinality(g))
      BY <1>3, <1>4, <1>5, <3>1, <3>4
    <3>6. Len(a) <= MaxKeepAlive
      BY <3>1 DEF GoodConnection
    <3> QED
      BY <1>1, <1>3, <2>0, <3>1, <3>3, <3>4, <3>5, <3>6
  <2>3. CASE ~written
    <3>1. a = x.answers /\ g = x.gaps /\ st = "closing"
      BY <2>3
    <3> HIDE DEF a, g, st
    <3>2. Len(a) <= MaxKeepAlive
      BY <3>1 DEF GoodConnection
    <3>3. {a[i].req : i \in DOMAIN a} \cup g = 1..(Len(a) + Cardinality(g))
      BY <3>1 DEF GoodConnection
    <3> QED
      BY <1>1, <1>3, <2>0, <3>1, <3>2, <3>3
  <2> QED
    BY <2>1, <2>2, <2>3
<1>10. IsAfter(<<>> \o (x.pending \o x.unread), s, n)
  <2>1. x.pending \o x.unread \in Seq(Unit)
    BY <1>1, ConcatProperties
  <2>2. <<>> \o (x.pending \o x.unread) = x.pending \o x.unread
    BY <2>1, ConcatEmptySeq
  <2> QED
    BY <1>2, <2>2
<1>11. st \in {"reading", "closing"}
  OBVIOUS
<1> HIDE DEF a, g, st, y
<1>12. GoodConnection(c, y)
  BY <1>8, <1>9, <1>10, <1>11 DEF GoodConnection
<1> QED
  BY <1>12 DEF y, a, g, st, new

\* The connections of all clients, and the backlog of the HTTPS server, in
\* which each client that was not accepted yet waits once.
ConnectionInv ==
  /\ tls \in [TlsClients -> TlsRecord]
  /\ \A c \in TlsClients : GoodConnection(c, tls[c])
  /\ backlog \in [Servers -> Seq(Peers)]
  /\ \A i \in DOMAIN backlog["https"] :
       /\ backlog["https"][i] \in TlsClients
       /\ tls[backlog["https"][i]].st = "queued"
       /\ \A j \in DOMAIN backlog["https"] :
            backlog["https"][i] = backlog["https"][j] => i = j

LEMMA ConnectionInvInit == Init => ConnectionInv
<1>1. <<>> \in Seq(Peers)
  BY EmptySeq
<1> QED
  BY <1>1, NoConnection DEF Init, ConnectionInv, Servers

\* A connection that is not in the backlog changes into another good one; the
\* other server's backlog may grow.
LEMMA OneConnection ==
  ASSUME ConnectionInv, NEW c \in TlsClients, NEW x, GoodConnection(c, x),
         tls[c].st # "queued", tls' = [tls EXCEPT ![c] = x],
         \/ UNCHANGED backlog
         \/ \E p \in Peers : backlog' = [backlog EXCEPT !["http"] = Append(@, p)]
  PROVE  ConnectionInv'
<1>1. x \in TlsRecord
  BY DEF GoodConnection
<1>2. tls' \in [TlsClients -> TlsRecord]
  BY <1>1 DEF ConnectionInv
<1>3. ASSUME NEW d \in TlsClients
      PROVE  GoodConnection(d, tls'[d])
  BY DEF ConnectionInv
<1>4. backlog' \in [Servers -> Seq(Peers)] /\ backlog'["https"] = backlog["https"]
  <2>1. CASE UNCHANGED backlog
    BY <2>1 DEF ConnectionInv
  <2>2. ASSUME NEW p \in Peers, backlog' = [backlog EXCEPT !["http"] = Append(@, p)]
        PROVE  backlog' \in [Servers -> Seq(Peers)] /\ backlog'["https"] = backlog["https"]
    <3>1. "http" \in Servers /\ "https" \in Servers /\ "http" # "https"
      BY DEF Servers
    <3>2. Append(backlog["http"], p) \in Seq(Peers)
      BY <3>1, AppendProperties DEF ConnectionInv
    <3> QED
      BY <2>2, <3>1, <3>2 DEF ConnectionInv
  <2> QED
    BY <2>1, <2>2
<1>5. \A d \in TlsClients : tls[d].st = "queued" => tls'[d].st = "queued"
  BY DEF ConnectionInv
<1> QED
  BY <1>2, <1>3, <1>4, <1>5 DEF ConnectionInv

LEMMA ConnectionInvStep == ConnectionInv /\ [Next]_vars => ConnectionInv'
<1> SUFFICES ASSUME ConnectionInv, [Next]_vars PROVE ConnectionInv'
  OBVIOUS
<1>0. /\ tls \in [TlsClients -> TlsRecord] /\ backlog \in [Servers -> Seq(Peers)]
      /\ TlsClients \subseteq Peers
      /\ "http" \in Servers /\ "https" \in Servers /\ "http" # "https"
  BY DEF ConnectionInv, Servers, Peers
<1>1. CASE UNCHANGED <<tls, backlog>>
  BY <1>1 DEF ConnectionInv
<1>2. CASE CloseListener
  <2>1. js.server \in Servers => backlog' \in [Servers -> Seq(Peers)]
    <3>1. <<>> \in Seq(Peers)
      BY EmptySeq
    <3> QED
      BY <1>0, <1>2, <3>1 DEF CloseListener
  <2>2. backlog' \in [Servers -> Seq(Peers)]
    <3>1. CASE js.server \in Servers
      BY <2>1, <3>1
    <3>2. CASE js.server \notin Servers
      BY <1>0, <1>2, <3>2 DEF CloseListener
    <3> QED
      BY <3>1, <3>2
  <2>3. CASE js.server = "https"
    <3>1. backlog'["https"] = <<>>
      BY <1>0, <1>2, <2>3 DEF CloseListener
    <3>2. tls' = [c \in TlsClients |-> IF tls[c].st = "queued" THEN NoTls ELSE tls[c]]
      BY <1>2, <2>3 DEF CloseListener
    <3>3. tls' \in [TlsClients -> TlsRecord]
      BY <1>0, <3>2, NoConnection
    <3>4. \A c \in TlsClients : GoodConnection(c, tls'[c])
      BY <3>2, NoConnection DEF ConnectionInv
    <3> QED
      BY <2>2, <3>1, <3>3, <3>4 DEF ConnectionInv
  <2>4. CASE js.server # "https"
    <3>1. tls' = [c \in TlsClients |-> tls[c]]
      BY <1>2, <2>4 DEF CloseListener
    <3>2. tls' = tls /\ backlog'["https"] = backlog["https"]
      BY <1>0, <1>2, <2>4, <3>1 DEF CloseListener
    <3> QED
      BY <2>2, <3>2 DEF ConnectionInv
  <2> QED
    BY <2>3, <2>4
<1>3. ASSUME NEW s \in Servers, Accept(s) PROVE ConnectionInv'
  <2> DEFINE q == backlog[s]
  <2>1. /\ q \in Seq(Peers) /\ q # <<>>
        /\ backlog' = [backlog EXCEPT ![s] = Tail(@)]
    BY <1>0, <1>3 DEF Accept
  <2>2. /\ Tail(q) \in Seq(Peers) /\ Len(Tail(q)) = Len(q) - 1
        /\ \A i \in 1..Len(Tail(q)) : Tail(q)[i] = q[i + 1]
        /\ Len(q) \in Nat /\ DOMAIN q = 1..Len(q) /\ DOMAIN Tail(q) = 1..Len(Tail(q))
        /\ Head(q) = q[1] /\ Len(q) # 0
    BY <2>1, HeadTailProperties, LenProperties, EmptySeq
  <2>3. backlog' \in [Servers -> Seq(Peers)] /\ backlog'[s] = Tail(q)
    BY <1>0, <2>1, <2>2
  <2>4. CASE s = "http"
    <3>1. UNCHANGED tls /\ backlog'["https"] = backlog["https"]
      BY <1>0, <1>3, <2>1, <2>4 DEF Accept
    <3> QED
      BY <2>3, <3>1 DEF ConnectionInv
  <2>5. CASE s = "https"
    <3> DEFINE c == q[1]
    <3>1. c \in TlsClients /\ tls[c].st = "queued"
      BY <2>2, <2>5 DEF ConnectionInv
    <3>2. tls' = [tls EXCEPT ![c] = [tls[c] EXCEPT !.st = "waiting"]]
      BY <1>0, <1>3, <2>2, <2>5 DEF Accept
    <3> HIDE DEF c
    <3>3. GoodConnection(c, [tls[c] EXCEPT !.st = "waiting"])
      BY <3>1, Advances DEF ConnectionInv
    <3>4. tls' \in [TlsClients -> TlsRecord] /\ \A d \in TlsClients : GoodConnection(d, tls'[d])
      <4>1. [tls[c] EXCEPT !.st = "waiting"] \in TlsRecord
        BY <3>3 DEF GoodConnection
      <4>2. tls' \in [TlsClients -> TlsRecord]
        BY <1>0, <3>1, <3>2, <4>1
      <4>3. ASSUME NEW d \in TlsClients PROVE GoodConnection(d, tls'[d])
        <5>1. CASE d = c
          BY <1>0, <3>2, <3>3, <5>1
        <5>2. CASE d # c
          BY <1>0, <3>2, <5>2 DEF ConnectionInv
        <5> QED
          BY <5>1, <5>2
      <4> QED
        BY <4>2, <4>3
    <3>5. ASSUME NEW i \in DOMAIN backlog'["https"]
          PROVE  /\ backlog'["https"][i] \in TlsClients
                 /\ tls'[backlog'["https"][i]].st = "queued"
                 /\ \A j \in DOMAIN backlog'["https"] :
                      backlog'["https"][i] = backlog'["https"][j] => i = j
      <4>1. /\ \A j \in DOMAIN backlog'["https"] :
                 /\ j + 1 \in DOMAIN q /\ j \in Nat /\ backlog'["https"][j] = q[j + 1]
            /\ i + 1 # 1 /\ 1 \in DOMAIN q
        <5> DEFINE rest == Tail(q)
                   n == Len(q)
        <5>1. /\ backlog'["https"] = rest /\ DOMAIN rest = 1..Len(rest) /\ Len(rest) = n - 1
              /\ \A j \in 1..Len(rest) : rest[j] = q[j + 1]
              /\ n \in Nat /\ DOMAIN q = 1..n /\ n # 0
          BY <2>2, <2>3, <2>5
        <5> HIDE DEF rest, n, q
        <5>2. DOMAIN rest = 1..(n - 1) /\ i \in 1..(n - 1)
          BY <5>1
        <5>3. ASSUME NEW j \in 1..(n - 1)
              PROVE  j + 1 \in DOMAIN q /\ j \in Nat /\ backlog'["https"][j] = q[j + 1]
          <6>1. j + 1 \in 1..n /\ j \in Nat
            BY <5>1
          <6> QED
            BY <5>1, <5>2, <6>1
        <5>4. i + 1 # 1 /\ 1 \in 1..n
          BY <5>1, <5>2
        <5> QED
          BY <5>1, <5>2, <5>3, <5>4
      <4>2. q[i + 1] \in TlsClients /\ tls[q[i + 1]].st = "queued" /\ q[i + 1] # c
        BY <2>5, <4>1 DEF ConnectionInv, c
      <4>3. tls'[q[i + 1]] = tls[q[i + 1]]
        BY <1>0, <3>2, <4>2
      <4>4. ASSUME NEW j \in DOMAIN backlog'["https"], backlog'["https"][i] = backlog'["https"][j]
            PROVE  i = j
        <5>1. i + 1 = j + 1
          BY <2>5, <4>1, <4>4 DEF ConnectionInv
        <5> QED
          BY <4>1, <5>1
      <4> QED
        BY <4>1, <4>2, <4>3, <4>4
    <3> QED
      BY <2>3, <3>4, <3>5 DEF ConnectionInv
  <2> QED
    BY <2>4, <2>5 DEF Servers
<1>4. ASSUME NEW d \in Devices, ConnectHttp(d) PROVE ConnectionInv'
  <2>1. d \in Peers /\ backlog' = [backlog EXCEPT !["http"] = Append(@, d)] /\ UNCHANGED tls
    BY <1>4 DEF ConnectHttp, Peers
  <2>2. Append(backlog["http"], d) \in Seq(Peers)
    BY <1>0, <2>1, AppendProperties
  <2>3. backlog' \in [Servers -> Seq(Peers)] /\ backlog'["https"] = backlog["https"]
    BY <1>0, <2>1, <2>2
  <2> QED
    BY <2>1, <2>3 DEF ConnectionInv
<1>5. ASSUME NEW c \in TlsClients, ConnectTls(c) PROVE ConnectionInv'
  <2> DEFINE q == backlog["https"]
  <2>1. PICK s \in Scripts[c] : tls' = [tls EXCEPT ![c].st = "queued", ![c].unread = s]
    BY <1>5 DEF ConnectTls
  <2>2. /\ tls[c].st = "none" /\ tls[c] = NoTls /\ c \in Peers
        /\ backlog' = [backlog EXCEPT !["https"] = Append(@, c)]
    BY <1>0, <1>5 DEF ConnectTls, ConnectionInv, GoodConnection
  <2> DEFINE x == [NoTls EXCEPT !.st = "queued", !.unread = s]
  <2>3. tls' = [tls EXCEPT ![c] = x] /\ x.st = "queued"
    BY <1>0, <2>1, <2>2 DEF NoTls
  <2>4. GoodConnection(c, x)
    BY NewConnection
  <2> HIDE DEF x
  <2>5. tls' \in [TlsClients -> TlsRecord] /\ \A d \in TlsClients : GoodConnection(d, tls'[d])
    <3>1. x \in TlsRecord
      BY <2>4 DEF GoodConnection
    <3>2. tls' \in [TlsClients -> TlsRecord]
      BY <1>0, <2>3, <3>1
    <3>3. ASSUME NEW d \in TlsClients PROVE GoodConnection(d, tls'[d])
      <4>1. CASE d = c
        BY <1>0, <2>3, <2>4, <4>1
      <4>2. CASE d # c
        BY <1>0, <2>3, <4>2 DEF ConnectionInv
      <4> QED
        BY <4>1, <4>2
    <3> QED
      BY <3>2, <3>3
  <2>6. /\ q \in Seq(Peers) /\ Append(q, c) \in Seq(Peers)
        /\ Len(Append(q, c)) = Len(q) + 1
        /\ \A i \in 1..Len(q) : Append(q, c)[i] = q[i]
        /\ Append(q, c)[Len(q) + 1] = c
        /\ Len(q) \in Nat /\ DOMAIN q = 1..Len(q) /\ DOMAIN Append(q, c) = 1..(Len(q) + 1)
    BY <1>0, <2>2, AppendProperties, LenProperties
  <2>7. backlog' \in [Servers -> Seq(Peers)] /\ backlog'["https"] = Append(q, c)
    BY <1>0, <2>2, <2>6
  <2>8. \A i \in DOMAIN q : q[i] \in TlsClients /\ tls[q[i]].st = "queued" /\ q[i] # c
    BY <2>2 DEF ConnectionInv
  <2>9. ASSUME NEW i \in DOMAIN backlog'["https"]
        PROVE  /\ backlog'["https"][i] \in TlsClients
               /\ tls'[backlog'["https"][i]].st = "queued"
               /\ \A j \in DOMAIN backlog'["https"] :
                    backlog'["https"][i] = backlog'["https"][j] => i = j
    <3>1. \A j \in DOMAIN backlog'["https"] :
             \/ j \in DOMAIN q /\ backlog'["https"][j] = q[j] /\ q[j] # c
             \/ j = Len(q) + 1 /\ backlog'["https"][j] = c
      BY <2>6, <2>7, <2>8
    <3>2. \A j, k \in DOMAIN q : q[j] = q[k] => j = k
      BY DEF ConnectionInv
    <3>3. \A d \in TlsClients : tls[d].st = "queued" => tls'[d].st = "queued"
      BY <1>0, <2>3
    <3>4. tls'[c].st = "queued"
      BY <1>0, <2>3
    <3> QED
      BY <2>8, <3>1, <3>2, <3>3, <3>4
  <2> QED
    BY <2>5, <2>7, <2>9 DEF ConnectionInv
<1>6. ASSUME NEW c \in TlsClients, TlsStep(c) PROVE ConnectionInv'
  <2>0. GoodConnection(c, tls[c]) /\ tls[c] \in TlsRecord
    BY DEF ConnectionInv
  <2>1. CASE LockHandshake(c)
    <3>1. /\ tls' = [tls EXCEPT ![c] = [tls[c] EXCEPT !.st = "handshaking"]]
          /\ tls[c].st = "waiting" /\ UNCHANGED backlog
      BY <1>0, <2>1 DEF LockHandshake
    <3>2. GoodConnection(c, [tls[c] EXCEPT !.st = "handshaking"])
      BY <2>0, <3>1, Advances
    <3> QED
      BY <3>1, <3>2, OneConnection
  <2>2. CASE FinishHandshake(c)
    <3>1. PICK st \in {"reading", "closing"} :
             tls' = [tls EXCEPT ![c] = [tls[c] EXCEPT !.st = st]]
      BY <1>0, <2>2 DEF FinishHandshake
    <3>2. tls[c].st = "handshaking" /\ UNCHANGED backlog
      BY <2>2 DEF FinishHandshake
    <3>3. GoodConnection(c, [tls[c] EXCEPT !.st = st])
      BY <2>0, <3>2, Advances, Closes
    <3> QED
      BY <3>1, <3>2, <3>3, OneConnection
  <2>3. CASE ReadMore(c)
    <3>1. PICK n \in DOMAIN tls[c].unread :
            tls' = [tls EXCEPT ![c] = [tls[c] EXCEPT
                      !.pending = @ \o SubSeq(tls[c].unread, 1, n),
                      !.unread = SubSeq(@, n + 1, Len(@))]]
      BY <1>0, <2>0, <2>3 DEF ReadMore, TlsRecord
    <3>2. tls[c].st = "reading" /\ UNCHANGED backlog
      BY <2>3 DEF ReadMore
    <3>3. GoodConnection(c, [tls[c] EXCEPT
                      !.pending = @ \o SubSeq(tls[c].unread, 1, n),
                      !.unread = SubSeq(@, n + 1, Len(@))])
      BY <2>0, <3>2, Reads
    <3> QED
      BY <3>1, <3>2, <3>3, OneConnection
  <2>4. CASE GiveUp(c)
    <3>1. /\ tls' = [tls EXCEPT ![c] = [tls[c] EXCEPT !.st = "closing"]]
          /\ tls[c].st = "reading" /\ UNCHANGED backlog
      BY <1>0, <2>4 DEF GiveUp
    <3>2. GoodConnection(c, [tls[c] EXCEPT !.st = "closing"])
      BY <2>0, <3>1, Closes
    <3> QED
      BY <3>1, <3>2, OneConnection
  <2>5. CASE ProxyRequest(c)
    <3>1. /\ tls' = [tls EXCEPT ![c] = [tls[c] EXCEPT
                      !.st = "proxying",
                      !.request = SubSeq(tls[c].pending, 1, Expected(tls[c].pending)),
                      !.pending = Remainder(@)]]
      BY <1>0, <2>0, <2>5 DEF ProxyRequest, TlsRecord
    <3>2. /\ tls[c].st = "reading" /\ Framed(tls[c].pending)
          /\ \/ UNCHANGED backlog
             \/ backlog' = [backlog EXCEPT !["http"] = Append(@, c)]
      BY <2>5 DEF ProxyRequest
    <3>3. GoodConnection(c, [tls[c] EXCEPT
                      !.st = "proxying",
                      !.request = SubSeq(tls[c].pending, 1, Expected(tls[c].pending)),
                      !.pending = Remainder(@)])
      BY <2>0, <3>2, Cuts
    <3> QED
      BY <1>0, <3>1, <3>2, <3>3, OneConnection
  <2>6. CASE ForwardAnswer(c)
    <3> DEFINE lost == http[c] = "reset"
               alive == KeepsAlive(c)
               next(written) == [tls[c] EXCEPT
                 !.answers = IF written /\ ~lost
                   THEN Append(@, [req |-> tls[c].request[1].req, alive |-> alive])
                   ELSE @,
                 !.gaps = IF lost THEN @ \cup {tls[c].request[1].req} ELSE @,
                 !.served = @ + 1,
                 !.request = <<>>,
                 !.st = IF alive /\ written /\ tls[c].served + 1 < MaxKeepAlive
                          THEN "reading" ELSE "closing"]
    <3>1. PICK written \in BOOLEAN : /\ lost => written
                                     /\ tls' = [tls EXCEPT ![c] = next(written)]
      <4> DEFINE answers(written) == IF written /\ ~lost
                   THEN Append(tls[c].answers, [req |-> tls[c].request[1].req, alive |-> alive])
                   ELSE tls[c].answers
                 gaps == IF lost THEN tls[c].gaps \cup {tls[c].request[1].req}
                                 ELSE tls[c].gaps
                 st(written) == IF alive /\ written /\ tls[c].served + 1 < MaxKeepAlive
                                  THEN "reading" ELSE "closing"
      <4>1. PICK written \in BOOLEAN :
              /\ lost => written
              /\ tls' = [tls EXCEPT ![c].answers = answers(written), ![c].gaps = gaps,
                                    ![c].served = tls[c].served + 1, ![c].request = <<>>,
                                    ![c].st = st(written)]
        BY <1>0, <2>0, <2>6 DEF ForwardAnswer, TlsRecord
      <4>2. next(written) = [tls[c] EXCEPT !.answers = answers(written), !.gaps = gaps,
                               !.served = tls[c].served + 1, !.request = <<>>,
                               !.st = st(written)]
        BY <2>0 DEF TlsRecord
      <4> HIDE DEF answers, gaps, st, next
      <4>3. tls' = [tls EXCEPT ![c] = next(written)]
        BY <1>0, <2>0, <4>1, <4>2 DEF TlsRecord
      <4> QED
        BY <4>1, <4>3
    <3>2. tls[c].st = "proxying" /\ UNCHANGED backlog
      BY <2>6 DEF ForwardAnswer
    <3>3. lost \in BOOLEAN /\ alive \in BOOLEAN /\ (alive => tls[c].served + 1 < MaxKeepAlive)
      BY DEF KeepsAlive
    <3> HIDE DEF lost, alive
    <3>4. GoodConnection(c, next(written))
      BY <2>0, <3>1, <3>2, <3>3, Forwards
    <3> HIDE DEF next
    <3> QED
      BY <3>1, <3>2, <3>4, OneConnection
  <2>7. CASE CloseTls(c)
    <3>1. /\ tls' = [tls EXCEPT ![c] = NoTls]
          /\ tls[c].st = "closing" /\ UNCHANGED backlog
      BY <2>7 DEF CloseTls
    <3> QED
      BY <3>1, NoConnection, OneConnection
  <2> QED
    BY <1>6, <2>1, <2>2, <2>3, <2>4, <2>5, <2>6, <2>7 DEF TlsStep
<1>7. ASSUME NEW c \in TlsClients, Crash(c) PROVE ConnectionInv'
  <2>1. <<>> \in Seq(Peers) /\ backlog'["https"] = <<>>
    BY <1>0, <1>7, EmptySeq DEF Crash
  <2>2. backlog' \in [Servers -> Seq(Peers)]
    BY <1>7, <2>1 DEF Crash
  <2>3. /\ tls' \in [TlsClients -> TlsRecord]
        /\ \A d \in TlsClients : GoodConnection(d, tls'[d])
    BY <1>7, NoConnection DEF Crash
  <2> QED
    BY <2>1, <2>2, <2>3 DEF ConnectionInv
<1> USE DEF serverVars, eventVars
<1>8. CASE UNCHANGED vars
  BY <1>1, <1>8 DEF vars
<1>9. CASE Start \/ StartHttps
  BY <1>1, <1>9 DEF Start, StartHttps, Launch
<1>10. ASSUME NEW s \in Servers, CheckFlag(s) \/ AcceptFails(s) PROVE ConnectionInv'
  BY <1>1, <1>10 DEF CheckFlag, AcceptFails
<1>11. CASE DrainEvents \/ BeginStop \/ ClearFlag \/ JoinLoop
  BY <1>1, <1>11 DEF DrainEvents, BeginStop, ClearFlag, JoinLoop
<1>12. ASSUME NEW p \in Peers, HttpStep(p) PROVE ConnectionInv'
  BY <1>1, <1>12 DEF HttpStep, HandleReport, HandleOther, SendJson
<1> QED
  BY <1>2, <1>3, <1>4, <1>5, <1>6, <1>7, <1>8, <1>9, <1>10, <1>11, <1>12
     DEF Next, LoopStep, StopStep

-----------------------------------------------------------------------------
(* The ring of sensor reports *)

\* The ring holds the reports pushed last, without a gap; the JS thread has
\* received older ones in order, and every older one that it has not received
\* was pushed out by MaxEvents newer ones.
EventInv ==
  /\ pushed \in 0..MaxReports
  /\ events \in Seq(1..MaxReports) /\ drained \in Seq(1..MaxReports)
  /\ Len(events) <= MaxEvents /\ Len(events) <= pushed
  /\ \A i \in 1..Len(events) : events[i] = pushed - Len(events) + i
  /\ \A i, j \in 1..Len(drained) : i < j => drained[i] < drained[j]
  /\ \A i \in 1..Len(drained) : drained[i] <= pushed - Len(events)
  /\ \A e \in 1..(pushed - Len(events)) :
       (\E i \in 1..Len(drained) : drained[i] = e) \/ e + MaxEvents <= pushed

\* No report has been pushed.
LEMMA EventInvEmpty ==
  ASSUME events = <<>>, pushed = 0, drained = <<>>
  PROVE  EventInv
<1>1. <<>> \in Seq(1..MaxReports) /\ Len(<<>>) = 0
  BY EmptySeq
<1> QED
  BY <1>1, ServerAssumption DEF EventInv

\* What the JS thread has received and what is in the ring, one after the other.
LEMMA Received ==
  ASSUME EventInv
  PROVE  /\ drained \o events \in Seq(1..MaxReports)
         /\ Len(drained \o events) = Len(drained) + Len(events)
         /\ \A i \in 1..Len(drained) : (drained \o events)[i] = drained[i]
         /\ \A i \in 1..Len(events) :
              /\ Len(drained) + i \in 1..Len(drained \o events)
              /\ (drained \o events)[Len(drained) + i] = pushed - Len(events) + i
         /\ \A i \in 1..Len(drained \o events) :
              \/ i \in 1..Len(drained)
              \/ i - Len(drained) \in 1..Len(events)
         /\ \A i, j \in 1..Len(drained \o events) :
              i < j => (drained \o events)[i] < (drained \o events)[j]
         /\ Len(drained) \in Nat /\ Len(events) \in Nat /\ pushed \in Nat
<1> DEFINE m == Len(drained)
           n == Len(events)
           all == drained \o events
<1>1. /\ m \in Nat /\ n \in Nat /\ pushed \in Nat /\ MaxReports \in Nat
      /\ \A i \in 1..m : drained[i] \in 1..MaxReports
      /\ \A i \in 1..n : events[i] = pushed - n + i
  BY LenProperties, ServerAssumption DEF EventInv
<1>2. /\ all \in Seq(1..MaxReports) /\ Len(all) = m + n
      /\ \A i \in 1..(m + n) : all[i] = IF i <= m THEN drained[i] ELSE events[i - m]
  BY ConcatProperties DEF EventInv
<1>3. /\ \A i, j \in 1..m : i < j => drained[i] < drained[j]
      /\ \A i \in 1..m : drained[i] <= pushed - n
      /\ n <= pushed
  BY DEF EventInv
<1> HIDE DEF m, n, all
<1>4. \A i \in 1..m : all[i] = drained[i]
  BY <1>1, <1>2
<1>5. ASSUME NEW i \in 1..n
      PROVE  m + i \in 1..(m + n) /\ all[m + i] = pushed - n + i
  <2>1. m + i \in 1..(m + n) /\ ~(m + i <= m) /\ (m + i) - m = i
    BY <1>1
  <2> QED
    BY <1>1, <1>2, <2>1
<1>6. \A i \in 1..(m + n) : i \in 1..m \/ i - m \in 1..n
  BY <1>1
<1>7. ASSUME NEW i \in 1..(m + n), NEW j \in 1..(m + n), i < j
      PROVE  all[i] < all[j]
  <2>1. CASE j \in 1..m
    <3>1. i \in 1..m
      BY <1>1, <1>7, <2>1
    <3> QED
      BY <1>3, <1>4, <1>7, <2>1, <3>1
  <2>2. CASE j - m \in 1..n
    <3>1. all[j] = pushed - n + (j - m)
      <4>1. all[m + (j - m)] = pushed - n + (j - m)
        BY <1>5, <2>2
      <4>2. m + (j - m) = j
        BY <1>1
      <4> QED
        BY <4>1, <4>2
    <3>2. CASE i \in 1..m
      <4>1. all[i] = drained[i] /\ drained[i] <= pushed - n /\ drained[i] \in Nat
        BY <1>1, <1>3, <1>4, <3>2
      <4> QED
        BY <1>1, <2>2, <3>1, <4>1
    <3>3. CASE i - m \in 1..n
      <4>1. all[m + (i - m)] = pushed - n + (i - m)
        BY <1>5, <3>3
      <4>2. m + (i - m) = i
        BY <1>1
      <4> QED
        BY <1>1, <1>7, <3>1, <4>1, <4>2
    <3> QED
      BY <1>6, <3>2, <3>3
  <2> QED
    BY <1>6, <2>1, <2>2
<1>8. /\ all \in Seq(1..MaxReports) /\ Len(all) = m + n
      /\ m \in Nat /\ n \in Nat /\ pushed \in Nat
  BY <1>1, <1>2
<1> QED
  BY <1>4, <1>5, <1>6, <1>7, <1>8 DEF m, n, all

\* A report joins the ring.
LEMMA Pushes ==
  ASSUME EventInv, pushed < MaxReports, pushed' = pushed + 1,
         events' = Ring(Append(events, pushed')), UNCHANGED drained
  PROVE  EventInv'
<1> DEFINE n == Len(events)
           q == Append(events, pushed + 1)
<1>1. /\ n \in Nat /\ pushed \in Nat /\ MaxReports \in Nat /\ MaxEvents \in Nat \ {0}
      /\ pushed + 1 \in 1..MaxReports
      /\ \A i \in 1..n : events[i] = pushed - n + i
      /\ n <= pushed /\ n <= MaxEvents
  BY LenProperties, ServerAssumption DEF EventInv
<1>2. /\ q \in Seq(1..MaxReports) /\ Len(q) = n + 1 /\ q # <<>>
      /\ \A i \in 1..n : q[i] = events[i]
      /\ q[n + 1] = pushed + 1
  <2>1. events \in Seq(1..MaxReports)
    BY DEF EventInv
  <2>2. /\ q \in Seq(1..MaxReports) /\ Len(q) = n + 1
        /\ \A i \in 1..n : q[i] = events[i]
        /\ q[n + 1] = pushed + 1
    BY <1>1, <2>1, AppendProperties
  <2> HIDE DEF q, n
  <2>3. n + 1 # 0 /\ Len(<<>>) = 0
    BY <1>1, EmptySeq
  <2>4. q # <<>>
    BY <2>2, <2>3
  <2> QED
    BY <2>2, <2>4
<1>3. events' = Ring(q)
  OBVIOUS
<1> HIDE DEF n, q
<1>4. \A i \in 1..(n + 1) : q[i] = pushed - n + i
  <2> SUFFICES ASSUME NEW i \in 1..(n + 1) PROVE q[i] = pushed - n + i
    OBVIOUS
  <2>1. CASE i \in 1..n
    BY <1>1, <1>2, <2>1 DEF n
  <2>2. CASE i = n + 1
    BY <1>1, <1>2, <2>2
  <2> QED
    BY <1>1, <2>1, <2>2
<1>5. \E k \in {0, 1} :
        /\ events' \in Seq(1..MaxReports) /\ Len(events') = n + 1 - k
        /\ \A i \in 1..Len(events') : events'[i] = pushed' - Len(events') + i
        /\ k = 1 => n = MaxEvents
        /\ Len(events') <= MaxEvents
  <2>1. CASE n + 1 > MaxEvents
    <3>1. events' = Tail(q) /\ n = MaxEvents
      <4>1. Len(q) > MaxEvents
        BY <1>2, <2>1
      <4>2. n = MaxEvents
        BY <1>1, <2>1
      <4> QED
        BY <1>3, <4>1, <4>2 DEF Ring
    <3>2. /\ Tail(q) \in Seq(1..MaxReports) /\ Len(Tail(q)) = Len(q) - 1
          /\ \A i \in 1..Len(Tail(q)) : Tail(q)[i] = q[i + 1]
      BY <1>2, HeadTailProperties
    <3>3. Len(events') = n
      BY <1>1, <1>2, <3>1, <3>2
    <3>4. ASSUME NEW i \in 1..n PROVE events'[i] = pushed' - n + i
      <4>1. i + 1 \in 1..(n + 1) /\ events'[i] = q[i + 1]
        <5>1. i + 1 \in 1..(n + 1)
          BY <1>1
        <5>2. i \in 1..Len(Tail(q))
          BY <3>1, <3>3
        <5> QED
          BY <3>1, <3>2, <5>1, <5>2
      <4>2. q[i + 1] = pushed - n + (i + 1)
        BY <1>4, <4>1
      <4> QED
        BY <1>1, <4>1, <4>2
    <3>5. Len(events') = n + 1 - 1
      BY <1>1, <3>3
    <3> QED
      BY <1>1, <3>1, <3>2, <3>3, <3>4, <3>5
  <2>2. CASE ~(n + 1 > MaxEvents)
    <3>1. events' = q
      BY <1>2, <1>3, <2>2 DEF Ring
    <3>2. Len(events') = n + 1 - 0 /\ Len(events') <= MaxEvents
      BY <1>1, <1>2, <2>2, <3>1
    <3>3. ASSUME NEW i \in 1..Len(events')
          PROVE  events'[i] = pushed' - Len(events') + i
      <4>1. i \in 1..(n + 1) /\ i \in Nat
        BY <1>1, <3>2
      <4>2. events'[i] = pushed - n + i
        BY <1>4, <3>1, <4>1
      <4>3. pushed' - (n + 1 - 0) + i = pushed - n + i
        BY <1>1, <4>1
      <4> QED
        BY <3>2, <4>2, <4>3
    <3> QED
      BY <1>2, <3>1, <3>2, <3>3
  <2> QED
    BY <2>1, <2>2
<1>6. PICK k \in {0, 1} :
        /\ events' \in Seq(1..MaxReports) /\ Len(events') = n + 1 - k
        /\ \A i \in 1..Len(events') : events'[i] = pushed' - Len(events') + i
        /\ k = 1 => n = MaxEvents
        /\ Len(events') <= MaxEvents
  BY <1>5
<1>7. /\ drained \in Seq(1..MaxReports) /\ Len(drained) \in Nat
      /\ \A i \in 1..Len(drained) : drained[i] \in Nat /\ drained[i] <= pushed - n
  BY LenProperties, ServerAssumption DEF EventInv, n
<1>8. Len(events') <= pushed' /\ pushed' - Len(events') = pushed - n + k
  <2>1. CASE k = 0
    <3>1. Len(events') = n + 1 - 0
      BY <1>6, <2>1
    <3>2. n + 1 - 0 <= pushed + 1 /\ pushed + 1 - (n + 1 - 0) = pushed - n + 0
      BY <1>1
    <3> QED
      BY <1>1, <2>1, <3>1, <3>2
  <2>2. CASE k = 1
    <3>1. Len(events') = n + 1 - 1
      BY <1>6, <2>2
    <3>2. n + 1 - 1 <= pushed + 1 /\ pushed + 1 - (n + 1 - 1) = pushed - n + 1
      BY <1>1
    <3> QED
      BY <1>1, <2>2, <3>1, <3>2
  <2> QED
    BY <2>1, <2>2
<1>9. \A i \in 1..Len(drained) : drained[i] <= pushed' - Len(events')
  BY <1>1, <1>7, <1>8
<1>10. ASSUME NEW e \in 1..(pushed - n + k)
       PROVE  (\E i \in 1..Len(drained) : drained[i] = e) \/ e + MaxEvents <= pushed'
  <2>1. CASE e <= pushed - n
    <3>1. e \in 1..(pushed - n) /\ e \in Nat
      BY <1>1, <2>1
    <3>2. (\E i \in 1..Len(drained) : drained[i] = e) \/ e + MaxEvents <= pushed
      BY <3>1 DEF EventInv, n
    <3> QED
      BY <1>1, <3>1, <3>2
  <2>2. CASE ~(e <= pushed - n)
    <3>1. k = 1 /\ e = pushed - n + 1 /\ n = MaxEvents
      BY <1>1, <1>6, <2>2
    <3> QED
      BY <1>1, <3>1
  <2> QED
    BY <2>1, <2>2
<1>11. pushed' \in 0..MaxReports
  BY <1>1
<1>12. \A i, j \in 1..Len(drained) : i < j => drained[i] < drained[j]
  BY DEF EventInv
<1> QED
  BY <1>6, <1>7, <1>8, <1>9, <1>10, <1>11, <1>12 DEF EventInv

\* The JS thread takes the ring.
LEMMA Drains ==
  ASSUME EventInv, drained' = drained \o events, events' = <<>>, UNCHANGED pushed
  PROVE  EventInv'
<1> DEFINE m == Len(drained)
           n == Len(events)
<1>1. /\ drained' \in Seq(1..MaxReports) /\ Len(drained') = m + n
      /\ \A i \in 1..m : drained'[i] = drained[i]
      /\ \A i \in 1..n : /\ m + i \in 1..Len(drained')
                         /\ drained'[m + i] = pushed - n + i
      /\ \A i \in 1..Len(drained') : i \in 1..m \/ i - m \in 1..n
      /\ \A i, j \in 1..Len(drained') : i < j => drained'[i] < drained'[j]
      /\ m \in Nat /\ n \in Nat /\ pushed \in Nat
  BY Received
<1>2. events' \in Seq(1..MaxReports) /\ Len(events') = 0
  BY EmptySeq
<1>3. /\ \A i \in 1..m : drained[i] <= pushed - n /\ drained[i] \in Nat
      /\ n <= pushed /\ pushed' \in 0..MaxReports /\ MaxEvents \in Nat
  BY LenProperties, ServerAssumption DEF EventInv
<1>4. \A e \in 1..(pushed - n) :
        (\E i \in 1..m : drained[i] = e) \/ e + MaxEvents <= pushed
  BY DEF EventInv
<1> HIDE DEF m, n
<1>5. ASSUME NEW i \in 1..Len(drained')
      PROVE  drained'[i] <= pushed' - Len(events')
  <2>1. CASE i \in 1..m
    BY <1>1, <1>2, <1>3, <2>1
  <2>2. CASE i - m \in 1..n
    <3>1. drained'[m + (i - m)] = pushed - n + (i - m)
      BY <1>1, <2>2
    <3>2. m + (i - m) = i
      BY <1>1
    <3>3. drained'[i] = pushed - n + (i - m)
      BY <3>1, <3>2
    <3> QED
      BY <1>1, <1>2, <2>2, <3>3
  <2> QED
    BY <1>1, <2>1, <2>2
<1>6. ASSUME NEW e \in 1..(pushed' - Len(events'))
      PROVE  (\E i \in 1..Len(drained') : drained'[i] = e) \/ e + MaxEvents <= pushed'
  <2>1. CASE e \in 1..(pushed - n)
    <3>1. \A i \in 1..m : i \in 1..Len(drained')
      BY <1>1
    <3> QED
      BY <1>1, <1>4, <2>1, <3>1
  <2>2. CASE e \notin 1..(pushed - n)
    <3>1. e - (pushed - n) \in 1..n
      BY <1>1, <1>2, <1>3, <2>2
    <3>2. /\ m + (e - (pushed - n)) \in 1..Len(drained')
          /\ drained'[m + (e - (pushed - n))] = pushed - n + (e - (pushed - n))
      BY <1>1, <3>1
    <3>3. pushed - n + (e - (pushed - n)) = e
      BY <1>1, <1>2
    <3> QED
      BY <3>2, <3>3
  <2> QED
    BY <2>1, <2>2
<1>7. /\ Len(events') <= MaxEvents /\ Len(events') <= pushed'
      /\ \A i \in 1..Len(events') : events'[i] = pushed' - Len(events') + i
  BY <1>1, <1>2, <1>3
<1> QED
  BY <1>1, <1>2, <1>3, <1>5, <1>6, <1>7 DEF EventInv

LEMMA EventInvStep == EventInv /\ [Next]_vars => EventInv'
<1> SUFFICES ASSUME EventInv, [Next]_vars PROVE EventInv'
  OBVIOUS
<1>1. CASE UNCHANGED eventVars
  BY <1>1 DEF EventInv, eventVars
<1>2. ASSUME NEW p \in Peers, HandleReport(p) PROVE EventInv'
  BY <1>2, Pushes DEF HandleReport
<1>3. CASE DrainEvents
  BY <1>3, Drains DEF DrainEvents
<1>4. ASSUME NEW c \in TlsClients, Crash(c) PROVE EventInv'
  <2>1. (events = <<>> /\ pushed = 0 /\ drained = <<>> => EventInv)'
    BY EventInvEmpty, PTL
  <2> QED
    BY <1>4, <2>1 DEF Crash
<1>5. CASE UNCHANGED vars
  BY <1>1, <1>5 DEF vars
<1>6. CASE Start \/ StartHttps \/ BeginStop \/ StopStep
  BY <1>1, <1>6 DEF Start, StartHttps, Launch, BeginStop, StopStep, ClearFlag,
                    CloseListener, JoinLoop
<1>7. ASSUME NEW s \in Servers, LoopStep(s) PROVE EventInv'
  BY <1>1, <1>7 DEF LoopStep, CheckFlag, Accept, AcceptFails
<1>8. ASSUME NEW d \in Devices, ConnectHttp(d) PROVE EventInv'
  BY <1>1, <1>8 DEF ConnectHttp
<1>9. ASSUME NEW p \in Peers, HandleOther(p) \/ SendJson(p) PROVE EventInv'
  BY <1>1, <1>9 DEF HandleOther, SendJson
<1>10. ASSUME NEW c \in TlsClients, ConnectTls(c) \/ TlsStep(c) PROVE EventInv'
  BY <1>1, <1>10 DEF ConnectTls, TlsStep, LockHandshake, FinishHandshake, ReadMore,
                     GiveUp, ProxyRequest, ForwardAnswer, CloseTls
<1> QED
  BY <1>2, <1>3, <1>4, <1>5, <1>6, <1>7, <1>8, <1>9, <1>10 DEF Next, HttpStep

-----------------------------------------------------------------------------
(* The theorems *)

\* The types of the variables that no other invariant is about.
PlainType ==
  /\ tlsReady \in BOOLEAN
  /\ handshake \in TlsClients \cup {None}
  /\ http \in [Peers -> HttpState]

LEMMA PlainTypeInit == Init => PlainType
BY DEF Init, PlainType, HttpState

LEMMA PlainTypeStep == PlainType /\ [Next]_vars => PlainType'
<1> SUFFICES ASSUME PlainType, [Next]_vars PROVE PlainType'
  OBVIOUS
<1> USE DEF PlainType, HttpState, serverVars, eventVars
<1>1. CASE UNCHANGED vars
  BY <1>1 DEF vars
<1>2. CASE Start \/ StartHttps \/ DrainEvents \/ BeginStop \/ StopStep
  BY <1>2 DEF Start, StartHttps, Launch, DrainEvents, BeginStop, StopStep,
              ClearFlag, CloseListener, JoinLoop
<1>3. ASSUME NEW s \in Servers, LoopStep(s) PROVE PlainType'
  <2>1. CASE CheckFlag(s) \/ AcceptFails(s)
    BY <2>1 DEF CheckFlag, AcceptFails
  <2>2. CASE Accept(s)
    BY <2>2 DEF Accept
  <2> QED
    BY <1>3, <2>1, <2>2 DEF LoopStep
<1>4. ASSUME NEW d \in Devices, ConnectHttp(d) PROVE PlainType'
  BY <1>4 DEF ConnectHttp
<1>5. ASSUME NEW p \in Peers, HttpStep(p) PROVE PlainType'
  BY <1>5 DEF HttpStep, HandleReport, HandleOther, SendJson
<1>6. ASSUME NEW c \in TlsClients, ConnectTls(c) \/ TlsStep(c) PROVE PlainType'
  <2>1. CASE ConnectTls(c) \/ ReadMore(c) \/ GiveUp(c) \/ CloseTls(c)
    BY <2>1 DEF ConnectTls, ReadMore, GiveUp, CloseTls
  <2>2. CASE LockHandshake(c) \/ FinishHandshake(c)
    BY <2>2 DEF LockHandshake, FinishHandshake
  <2>3. CASE ProxyRequest(c)
    BY <2>3 DEF ProxyRequest
  <2>4. CASE ForwardAnswer(c)
    BY <2>4 DEF ForwardAnswer
  <2> QED
    BY <1>6, <2>1, <2>2, <2>3, <2>4 DEF TlsStep
<1>7. ASSUME NEW c \in TlsClients, Crash(c) PROVE PlainType'
  BY <1>7 DEF Crash
<1> QED
  BY <1>1, <1>2, <1>3, <1>4, <1>5, <1>6, <1>7 DEF Next

\* Every variable of the native gateway keeps its type: no bound of the ring,
\* of the requests per connection or of a thread's state is ever left.
THEOREM TypeCorrect == Spec => []TypeOK
<1>1. Init => ServerInv /\ ConnectionInv /\ EventInv /\ PlainType
  BY ServerInvInit, ConnectionInvInit, EventInvEmpty, PlainTypeInit DEF Init
<1>2. (ServerInv /\ ConnectionInv /\ EventInv /\ PlainType) /\ [Next]_vars
        => (ServerInv /\ ConnectionInv /\ EventInv /\ PlainType)'
  BY ServerInvStep, ConnectionInvStep, EventInvStep, PlainTypeStep
<1>3. ServerInv /\ ConnectionInv /\ EventInv /\ PlainType => TypeOK
  BY DEF ServerInv, ServerType, ConnectionInv, TlsRecord, EventInv, PlainType, TypeOK
<1> QED
  BY <1>1, <1>2, <1>3, PTL DEF Spec

\* However the stream of an HTTPS client is cut into reads, its requests are
\* served whole, in order and each alone, and its answers are those of its
\* requests in order: none is left out but one whose proxy connection was
\* reset, and none follows an answer that says that the connection closes.
THEOREM AnsweredInOrder == Spec => []AnswersInOrder
<1>1. ConnectionInv => AnswersInOrder
  <2> SUFFICES ASSUME ConnectionInv, NEW c \in TlsClients
               PROVE  LET a == tls[c].answers IN
                        /\ StreamIntact(c)
                        /\ Len(a) <= MaxKeepAlive
                        /\ \A i \in DOMAIN a :
                             /\ a[i].alive => i < MaxKeepAlive
                             /\ i < Len(a) => a[i].req < a[i + 1].req /\ a[i].alive
                        /\ {a[i].req : i \in DOMAIN a} \cup tls[c].gaps =
                             1..(Len(a) + Cardinality(tls[c].gaps))
                        /\ a # <<>> /\ ~a[Len(a)].alive => tls[c].st = "closing"
    BY DEF AnswersInOrder
  <2> DEFINE a == tls[c].answers
  <2>1. GoodConnection(c, tls[c])
    BY DEF ConnectionInv
  <2>2. StreamIntact(c)
    BY <2>1 DEF StreamIntact, GoodConnection
  <2>3. a # <<>> => Len(a) \in DOMAIN a
    <3>1. a \in Seq([req : Nat, alive : BOOLEAN])
      BY <2>1 DEF GoodConnection, TlsRecord
    <3> HIDE DEF a
    <3>2. Len(a) \in Nat /\ DOMAIN a = 1..Len(a) /\ (a # <<>> => Len(a) # 0)
      BY <3>1, LenProperties, EmptySeq
    <3> QED
      BY <3>2
  <2>4. a # <<>> /\ ~a[Len(a)].alive => tls[c].st = "closing"
    BY <2>1, <2>3 DEF GoodConnection
  <2> QED
    BY <2>1, <2>2, <2>4 DEF GoodConnection
<1> QED
  BY <1>1, ConnectionInvInit, ConnectionInvStep, PTL DEF Spec

\* The JS thread receives the sensor reports in the order in which they were
\* pushed, each once, and misses one only when MaxEvents newer ones came first.
THEOREM ReportsAccounted == Spec => []ReportsKept
<1>1. Init => EventInv
  BY EventInvEmpty DEF Init
<1>2. EventInv => ReportsKept
  <2> SUFFICES ASSUME EventInv PROVE ReportsKept
    OBVIOUS
  <2> DEFINE all == drained \o events
             m == Len(drained)
             n == Len(events)
  <2>1. /\ all \in Seq(1..MaxReports) /\ Len(all) \in Nat /\ DOMAIN all = 1..Len(all)
        /\ Len(all) = m + n
        /\ \A i \in 1..m : all[i] = drained[i]
        /\ \A i \in 1..n : /\ m + i \in 1..Len(all)
                           /\ all[m + i] = pushed - n + i
        /\ \A i, j \in 1..Len(all) : i < j => all[i] < all[j]
        /\ m \in Nat /\ n \in Nat /\ pushed \in Nat
    BY Received, LenProperties
  <2>2. \A e \in 1..(pushed - n) :
          (\E i \in 1..m : drained[i] = e) \/ e + MaxEvents <= pushed
    BY DEF EventInv
  <2>3. n <= pushed
    BY DEF EventInv
  <2> HIDE DEF all, m, n
  <2>4. ASSUME NEW e \in 1..pushed
        PROVE  (\E i \in DOMAIN all : all[i] = e) \/ e + MaxEvents <= pushed
    <3>1. CASE e \in 1..(pushed - n)
      <4>1. \A i \in 1..m : i \in 1..Len(all)
        BY <2>1
      <4> QED
        BY <2>1, <2>2, <3>1, <4>1
    <3>2. CASE e \notin 1..(pushed - n)
      <4>1. e - (pushed - n) \in 1..n
        BY <2>1, <2>3, <3>2
      <4>2. /\ m + (e - (pushed - n)) \in 1..Len(all)
            /\ all[m + (e - (pushed - n))] = pushed - n + (e - (pushed - n))
        BY <2>1, <4>1
      <4>3. pushed - n + (e - (pushed - n)) = e
        BY <2>1
      <4> QED
        BY <2>1, <4>2, <4>3
    <3> QED
      BY <3>1, <3>2
  <2> QED
    BY <2>1, <2>4 DEF ReportsKept, all
<1> QED
  BY <1>1, <1>2, EventInvStep, PTL DEF Spec

-----------------------------------------------------------------------------
(* What the threads wait for *)

\* The connections that a server has not accepted yet.
Waiting(s) == IF s = "http" THEN {p \in Peers : http[p] = "queued"}
                            ELSE {c \in TlsClients : tls[c].st = "queued"}

\* Two places of a backlog hold two connections.
Distinct(q) == \A i, j \in DOMAIN q : q[i] = q[j] => i = j

Members(q) == {q[i] : i \in DOMAIN q}

\* The handshake lock belongs to the thread that is in its handshake.
LockHeld == \A c \in TlsClients : handshake = c <=> tls[c].st = "handshaking"

\* A client's thread has a connection to the HTTP server while it proxies.
ProxyHeld == \A c \in TlsClients : tls[c].st = "proxying" <=> http[c] # "none"

\* A backlog holds each connection that waits to be accepted, once.
QueueRight(s) == Waiting(s) = Members(backlog[s]) /\ Distinct(backlog[s])

\* A server that runs has a loop that accepts, and Stop has a loop to join.
LoopRuns ==
  \A s \in Servers : /\ running[s] => loop[s] \in {"check", "accept"}
                     /\ Ending(s) => loop[s] # "none"

ThreadInv ==
  /\ LockHeld /\ ProxyHeld /\ LoopRuns
  /\ QueueRight("http") /\ QueueRight("https")

\* What the steps of the threads need to know besides.
Known == ServerInv /\ ConnectionInv /\ PlainType

LEMMA NoMembers == Members(<<>>) = {} /\ Distinct(<<>>)
BY DEF Members, Distinct

LEMMA MembersAppend ==
  ASSUME NEW S, NEW q \in Seq(S), NEW p \in S, p \notin Members(q), Distinct(q)
  PROVE  Members(Append(q, p)) = Members(q) \cup {p} /\ Distinct(Append(q, p))
<1> DEFINE r == Append(q, p)
<1>1. /\ Len(q) \in Nat /\ DOMAIN q = 1..Len(q) /\ DOMAIN r = 1..(Len(q) + 1)
      /\ \A i \in 1..Len(q) : r[i] = q[i]
      /\ r[Len(q) + 1] = p
  BY AppendProperties, LenProperties
<1> HIDE DEF r
<1>2. Members(r) = Members(q) \cup {p}
  BY <1>1 DEF Members
<1>3. ASSUME NEW i \in DOMAIN r, NEW j \in DOMAIN r, r[i] = r[j] PROVE i = j
  BY <1>1, <1>3 DEF Members, Distinct
<1> QED
  BY <1>2, <1>3 DEF r, Distinct

LEMMA MembersTail ==
  ASSUME NEW S, NEW q \in Seq(S), q # <<>>, Distinct(q)
  PROVE  /\ Head(q) \in Members(q)
         /\ Members(Tail(q)) = Members(q) \ {Head(q)} /\ Distinct(Tail(q))
<1> DEFINE r == Tail(q)
<1>1. /\ Len(q) \in Nat \ {0} /\ DOMAIN q = 1..Len(q) /\ Head(q) = q[1]
      /\ DOMAIN r = 1..(Len(q) - 1)
      /\ \A i \in 1..(Len(q) - 1) : r[i] = q[i + 1]
  BY HeadTailProperties, LenProperties, EmptySeq
<1> HIDE DEF r
<1>2. Head(q) \in Members(q)
  BY <1>1 DEF Members
<1>3. ASSUME NEW x \in Members(r) PROVE x \in Members(q) \ {Head(q)}
  <2>1. PICK i \in DOMAIN r : x = r[i]
    BY <1>3 DEF Members
  <2>2. i + 1 \in DOMAIN q /\ 1 \in DOMAIN q /\ x = q[i + 1] /\ i + 1 # 1
    BY <1>1, <2>1
  <2> QED
    BY <1>1, <2>2 DEF Members, Distinct
<1>4. ASSUME NEW x \in Members(q), x # Head(q) PROVE x \in Members(r)
  <2>1. PICK i \in DOMAIN q : x = q[i]
    BY <1>4 DEF Members
  <2>2. i - 1 \in DOMAIN r /\ r[i - 1] = x
    BY <1>1, <1>4, <2>1
  <2> QED
    BY <2>2 DEF Members
<1>5. ASSUME NEW i \in DOMAIN r, NEW j \in DOMAIN r, r[i] = r[j] PROVE i = j
  <2>1. i + 1 \in DOMAIN q /\ j + 1 \in DOMAIN q /\ q[i + 1] = q[j + 1]
    BY <1>1, <1>5
  <2>2. i + 1 = j + 1
    BY <2>1 DEF Distinct
  <2> QED
    BY <1>1, <2>2
<1> QED
  BY <1>2, <1>3, <1>4, <1>5 DEF r, Distinct

LEMMA ThreadInvInit == Init => ThreadInv
<1> SUFFICES ASSUME Init PROVE ThreadInv
  OBVIOUS
<1> USE DEF Init
<1>1. LockHeld /\ ProxyHeld
  BY ServerAssumption DEF LockHeld, ProxyHeld, Peers, NoTls
<1>2. LoopRuns
  BY DEF LoopRuns, Ending, Idle
<1>3. Waiting("http") = {} /\ Waiting("https") = {}
  BY DEF Waiting, NoTls
<1> QED
  BY <1>1, <1>2, <1>3, NoMembers DEF ThreadInv, QueueRight, Servers

\* The parts of ThreadInv survive a step that leaves what they read alone.
LEMMA LoopsUntouched ==
  ASSUME LoopRuns, UNCHANGED <<running, loop, js>> PROVE LoopRuns'
BY DEF LoopRuns, Ending

LEMMA QueueUntouched ==
  ASSUME NEW s \in Servers, QueueRight(s), Waiting(s)' = Waiting(s),
         backlog'[s] = backlog[s]
  PROVE  QueueRight(s)'
BY DEF QueueRight

\* A connection joins a backlog, and the first one leaves it.
LEMMA QueueGrows ==
  ASSUME Known, NEW s \in Servers, QueueRight(s), NEW p \in Peers,
         p \notin Waiting(s), Waiting(s)' = Waiting(s) \cup {p},
         backlog'[s] = Append(backlog[s], p)
  PROVE  QueueRight(s)'
<1>1. backlog[s] \in Seq(Peers)
  BY DEF Known, ConnectionInv
<1> QED
  BY <1>1, MembersAppend DEF QueueRight

LEMMA QueueShrinks ==
  ASSUME Known, NEW s \in Servers, QueueRight(s), backlog[s] # <<>>,
         Waiting(s)' = Waiting(s) \ {Head(backlog[s])},
         backlog'[s] = Tail(backlog[s])
  PROVE  QueueRight(s)'
<1>1. backlog[s] \in Seq(Peers)
  BY DEF Known, ConnectionInv
<1> QED
  BY <1>1, MembersTail DEF QueueRight

LEMMA QueueCleared ==
  ASSUME NEW s \in Servers, Waiting(s)' = {}, backlog'[s] = <<>>
  PROVE  QueueRight(s)'
BY NoMembers DEF QueueRight
LEMMA LoopRunsStep == ServerInv /\ LoopRuns /\ [Next]_vars => LoopRuns'
<1> SUFFICES ASSUME ServerInv, LoopRuns, [Next]_vars PROVE LoopRuns'
  OBVIOUS
<1> USE DEF serverVars, eventVars
<1>0. ServerType /\ \A s \in Servers : Ending(s) => ~running[s]
  BY DEF ServerInv
<1> USE DEF LoopRuns, ServerType, Ending
<1>1. CASE UNCHANGED vars
  BY <1>1, LoopsUntouched DEF vars
<1>2. ASSUME NEW s \in Servers, Launch(s) PROVE LoopRuns'
  BY <1>0, <1>2 DEF Launch, Idle
<1>3. ASSUME NEW s \in Servers, LoopStep(s) PROVE LoopRuns'
  <2>1. CASE CheckFlag(s)
    BY <1>0, <2>1 DEF CheckFlag
  <2>2. CASE AcceptFails(s)
    BY <1>0, <2>2 DEF AcceptFails
  <2>3. CASE Accept(s)
    <3>1. loop[s] = "accept" /\ UNCHANGED <<running, js>>
          /\ loop' = [loop EXCEPT ![s] = "check"]
      BY <2>3 DEF Accept
    <3> QED
      BY <1>0, <3>1
  <2> QED
    BY <1>3, <2>1, <2>2, <2>3 DEF LoopStep
<1>4. CASE DrainEvents
  BY <1>4, LoopsUntouched DEF DrainEvents
<1>5. CASE BeginStop
  BY <1>0, <1>5 DEF BeginStop, Idle, StopOf
<1>6. CASE ClearFlag
  BY <1>0, <1>6 DEF ClearFlag, AfterStopOf, Idle, StopOf, Servers
<1>7. CASE CloseListener
  <2>1. js.at = "close" /\ js' = [js EXCEPT !.at = "join"] /\ UNCHANGED <<running, loop>>
    BY <1>7 DEF CloseListener
  <2> QED
    BY <1>0, <2>1
<1>8. CASE JoinLoop
  BY <1>0, <1>8 DEF JoinLoop, AfterStopOf, Idle, StopOf, Servers
<1>9. ASSUME NEW d \in Devices, ConnectHttp(d) PROVE LoopRuns'
  BY <1>9, LoopsUntouched DEF ConnectHttp
<1>10. ASSUME NEW p \in Peers, HttpStep(p) PROVE LoopRuns'
  BY <1>10, LoopsUntouched DEF HttpStep, HandleReport, HandleOther, SendJson
<1>11. ASSUME NEW c \in TlsClients, ConnectTls(c) \/ TlsStep(c) PROVE LoopRuns'
  <2>1. UNCHANGED <<running, loop, js>>
    BY <1>11 DEF ConnectTls, TlsStep, LockHandshake, FinishHandshake, ReadMore, GiveUp,
                 ProxyRequest, ForwardAnswer, CloseTls
  <2> QED
    BY <2>1, LoopsUntouched
<1>12. ASSUME NEW c \in TlsClients, Crash(c) PROVE LoopRuns'
  BY <1>12 DEF Crash, Idle
<1> QED
  BY <1>1, <1>2, <1>3, <1>4, <1>5, <1>6, <1>7, <1>8, <1>9, <1>10, <1>11, <1>12
     DEF Next, Start, StartHttps, StopStep, Servers
\* A TLS client's thread goes from one state to another while every other
\* thread and the HTTP connections stay where they are.
LEMMA ThreadMoves ==
  ASSUME Known, NEW c \in TlsClients,
         tls' \in [TlsClients -> TlsRecord],
         \A d \in TlsClients \ {c} : tls'[d] = tls[d]
  PROVE  /\ tls'[c].st # "queued" /\ tls[c].st # "queued" => Waiting("https")' = Waiting("https")
         /\ tls'[c].st # "handshaking" /\ tls[c].st # "handshaking" /\ LockHeld
              /\ UNCHANGED handshake => LockHeld'
         /\ tls'[c].st # "proxying" /\ tls[c].st # "proxying" /\ ProxyHeld
              /\ UNCHANGED http => ProxyHeld'
<1>1. \A d \in TlsClients : d # c => tls'[d].st = tls[d].st
  OBVIOUS
<1>2. tls'[c].st # "queued" /\ tls[c].st # "queued" => Waiting("https")' = Waiting("https")
  BY <1>1 DEF Waiting
<1>3. tls'[c].st # "handshaking" /\ tls[c].st # "handshaking" /\ LockHeld
        /\ UNCHANGED handshake => LockHeld'
  BY <1>1 DEF LockHeld
<1>4. tls'[c].st # "proxying" /\ tls[c].st # "proxying" /\ ProxyHeld
        /\ UNCHANGED http => ProxyHeld'
  BY <1>1 DEF ProxyHeld
<1> QED
  BY <1>2, <1>3, <1>4

\* Nothing but the servers' flags, loops and events changes.
LEMMA ConnectionsUntouched ==
  ASSUME ThreadInv, UNCHANGED <<backlog, handshake, http, tls>>
  PROVE  LockHeld' /\ ProxyHeld' /\ QueueRight("http")' /\ QueueRight("https")'
BY DEF ThreadInv, LockHeld, ProxyHeld, QueueRight, Waiting

LEMMA ConnectTlsQueues ==
  ASSUME Known, ConnectionInv', ThreadInv, NEW c \in TlsClients, ConnectTls(c)
  PROVE  LockHeld' /\ ProxyHeld' /\ QueueRight("http")' /\ QueueRight("https")'
<1>0. tls \in [TlsClients -> TlsRecord] /\ tls' \in [TlsClients -> TlsRecord]
      /\ backlog \in [Servers -> Seq(Peers)]
  BY DEF Known, ConnectionInv
<1>1. PICK s \in Scripts[c] : tls' = [tls EXCEPT ![c].st = "queued", ![c].unread = s]
  BY DEF ConnectTls
<1>2. tls[c].st = "none" /\ tls'[c].st = "queued" /\ \A d \in TlsClients \ {c} : tls'[d] = tls[d]
  BY <1>0, <1>1 DEF ConnectTls, TlsRecord
<1>3. LockHeld' /\ ProxyHeld'
  BY <1>0, <1>2, ThreadMoves DEF ConnectTls, ThreadInv
<1>4. /\ backlog'["https"] = Append(backlog["https"], c)
      /\ backlog'["http"] = backlog["http"] /\ UNCHANGED http
  BY <1>0 DEF ConnectTls, Servers
<1>5. Waiting("https")' = Waiting("https") \cup {c} /\ c \notin Waiting("https")
  BY <1>2 DEF Waiting
<1>6. QueueRight("https")'
  BY <1>4, <1>5, QueueGrows DEF Servers, Peers, ThreadInv
<1>7. QueueRight("http")'
  BY <1>4, QueueUntouched DEF Waiting, ThreadInv, Servers
<1> QED
  BY <1>3, <1>6, <1>7

\* A step of a client's thread that needs nothing from the HTTP server.
LEMMA OwnSteps ==
  ASSUME Known, ConnectionInv', ThreadInv, NEW c \in TlsClients,
         \/ LockHandshake(c) \/ FinishHandshake(c) \/ ReadMore(c)
         \/ GiveUp(c) \/ CloseTls(c)
  PROVE  LockHeld' /\ ProxyHeld' /\ QueueRight("http")' /\ QueueRight("https")'
<1>0. tls \in [TlsClients -> TlsRecord] /\ tls' \in [TlsClients -> TlsRecord]
      /\ LockHeld /\ ProxyHeld /\ QueueRight("http") /\ QueueRight("https")
      /\ None \notin TlsClients
  BY ServerAssumption DEF Known, ConnectionInv, ThreadInv, Peers
<1>1. UNCHANGED <<http, backlog>>
  BY DEF LockHandshake, FinishHandshake, ReadMore, GiveUp, CloseTls
<1>2. \A d \in TlsClients \ {c} : tls'[d] = tls[d]
  BY <1>0 DEF LockHandshake, FinishHandshake, ReadMore, GiveUp, CloseTls
<1>3. tls[c].st \notin {"queued", "proxying"} /\ tls'[c].st \notin {"queued", "proxying"}
  <2>1. CASE LockHandshake(c)
    BY <1>0, <2>1 DEF LockHandshake, TlsRecord
  <2>2. CASE FinishHandshake(c)
    BY <1>0, <2>2 DEF FinishHandshake, TlsRecord
  <2>3. CASE ReadMore(c)
    BY <1>0, <2>3 DEF ReadMore, TlsRecord
  <2>4. CASE GiveUp(c)
    BY <1>0, <2>4 DEF GiveUp, TlsRecord
  <2>5. CASE CloseTls(c)
    BY <1>0, <2>5 DEF CloseTls, TlsRecord, NoTls
  <2> QED
    BY <2>1, <2>2, <2>3, <2>4, <2>5
<1>4. ProxyHeld' /\ Waiting("https")' = Waiting("https")
  BY <1>0, <1>1, <1>2, <1>3, ThreadMoves
<1>5. QueueRight("http")' /\ QueueRight("https")'
  BY <1>0, <1>1, <1>4, QueueUntouched DEF Waiting, Servers
<1>6. LockHeld'
  <2>1. CASE LockHandshake(c)
    <3>1. handshake = None /\ handshake' = c /\ tls'[c].st = "handshaking"
      BY <1>0, <2>1 DEF LockHandshake, TlsRecord
    <3> QED
      BY <1>0, <1>2, <3>1 DEF LockHeld
  <2>2. CASE FinishHandshake(c)
    <3>1. tls[c].st = "handshaking" /\ handshake' = None /\ tls'[c].st # "handshaking"
      BY <1>0, <2>2 DEF FinishHandshake, TlsRecord
    <3> QED
      BY <1>0, <1>2, <3>1 DEF LockHeld
  <2>3. CASE ReadMore(c) \/ GiveUp(c) \/ CloseTls(c)
    <3>1. UNCHANGED handshake
      BY <2>3 DEF ReadMore, GiveUp, CloseTls
    <3>2. tls[c].st # "handshaking"
      BY <2>3 DEF ReadMore, GiveUp, CloseTls
    <3>3. tls'[c].st # "handshaking"
      <4>1. CASE ReadMore(c)
        BY <1>0, <4>1 DEF ReadMore, TlsRecord
      <4>2. CASE GiveUp(c)
        BY <1>0, <4>2 DEF GiveUp, TlsRecord
      <4>3. CASE CloseTls(c)
        BY <1>0, <4>3 DEF CloseTls, NoTls
      <4> QED
        BY <2>3, <4>1, <4>2, <4>3
    <3> QED
      BY <1>0, <1>2, <3>1, <3>2, <3>3, ThreadMoves
  <2> QED
    BY <2>1, <2>2, <2>3
<1> QED
  BY <1>4, <1>5, <1>6

LEMMA ProxyQueues ==
  ASSUME Known, ConnectionInv', ThreadInv, NEW c \in TlsClients, ProxyRequest(c)
  PROVE  LockHeld' /\ ProxyHeld' /\ QueueRight("http")' /\ QueueRight("https")'
<1>0. tls \in [TlsClients -> TlsRecord] /\ tls' \in [TlsClients -> TlsRecord]
      /\ backlog \in [Servers -> Seq(Peers)] /\ http \in [Peers -> HttpState]
      /\ LockHeld /\ ProxyHeld /\ QueueRight("http") /\ QueueRight("https")
      /\ c \in Peers /\ TlsClients \subseteq Peers
  BY DEF Known, ConnectionInv, ThreadInv, PlainType, Peers
<1>1. tls[c].st = "reading" /\ tls'[c].st = "proxying" /\ UNCHANGED handshake
  BY <1>0 DEF ProxyRequest, TlsRecord
<1>2. \A d \in TlsClients \ {c} : tls'[d] = tls[d]
  BY <1>0 DEF ProxyRequest
<1>3. http[c] = "none" /\ http' = [http EXCEPT ![c] = http'[c]] /\ http'[c] # "none"
  BY <1>0, <1>1 DEF ProxyRequest, ProxyHeld
<1>4. LockHeld' /\ Waiting("https")' = Waiting("https")
  BY <1>0, <1>1, <1>2, ThreadMoves
<1>5. ProxyHeld'
  BY <1>0, <1>1, <1>2, <1>3 DEF ProxyHeld
<1>6. backlog'["https"] = backlog["https"]
  BY <1>0 DEF ProxyRequest, Servers
<1>7. QueueRight("http")'
  <2>1. CASE listening["http"]
    <3>1. http'[c] = "queued" /\ backlog'["http"] = Append(backlog["http"], c)
      BY <1>0, <2>1 DEF ProxyRequest, Servers
    <3>2. c \notin Waiting("http") /\ Waiting("http")' = Waiting("http") \cup {c}
      BY <1>0, <1>3, <3>1 DEF Waiting
    <3> QED
      BY <1>0, <3>1, <3>2, QueueGrows DEF Servers
  <2>2. CASE ~listening["http"]
    <3>1. http'[c] = "refused" /\ UNCHANGED backlog
      BY <1>0, <2>2 DEF ProxyRequest
    <3>2. Waiting("http")' = Waiting("http")
      BY <1>0, <1>3, <3>1 DEF Waiting
    <3> QED
      BY <1>0, <3>1, <3>2, QueueUntouched DEF Servers
  <2> QED
    BY <2>1, <2>2
<1> QED
  BY <1>0, <1>4, <1>5, <1>6, <1>7, QueueUntouched DEF Servers

LEMMA ForwardFrees ==
  ASSUME Known, ConnectionInv', ThreadInv, NEW c \in TlsClients, ForwardAnswer(c)
  PROVE  LockHeld' /\ ProxyHeld' /\ QueueRight("http")' /\ QueueRight("https")'
<1>0. tls \in [TlsClients -> TlsRecord] /\ tls' \in [TlsClients -> TlsRecord]
      /\ http \in [Peers -> HttpState]
      /\ LockHeld /\ ProxyHeld /\ QueueRight("http") /\ QueueRight("https")
      /\ c \in Peers /\ TlsClients \subseteq Peers
  BY DEF Known, ConnectionInv, ThreadInv, PlainType, Peers
<1>1. /\ tls[c].st = "proxying" /\ tls'[c].st \in {"reading", "closing"}
      /\ \A d \in TlsClients \ {c} : tls'[d] = tls[d]
  <2> DEFINE answers(w) == IF w /\ http[c] # "reset"
                           THEN Append(tls[c].answers, [req |-> tls[c].request[1].req,
                                                        alive |-> KeepsAlive(c)])
                           ELSE tls[c].answers
             gaps == IF http[c] = "reset"
                     THEN tls[c].gaps \cup {tls[c].request[1].req} ELSE tls[c].gaps
             st(w) == IF /\ KeepsAlive(c) /\ w
                         /\ tls[c].served + 1 < MaxKeepAlive
                      THEN "reading" ELSE "closing"
  <2>1. PICK w \in BOOLEAN :
          tls' = [tls EXCEPT ![c].answers = answers(w), ![c].gaps = gaps,
                             ![c].served = tls[c].served + 1, ![c].request = <<>>,
                             ![c].st = st(w)]
    BY <1>0 DEF ForwardAnswer, TlsRecord
  <2>2. st(w) \in {"reading", "closing"} /\ tls[c].st = "proxying"
    BY DEF ForwardAnswer
  <2> HIDE DEF answers, gaps, st
  <2>3. tls'[c].st = st(w) /\ \A d \in TlsClients \ {c} : tls'[d] = tls[d]
    BY <1>0, <2>1 DEF TlsRecord
  <2> QED
    BY <2>2, <2>3
<1>2. /\ http[c] # "queued" /\ http' = [http EXCEPT ![c] = "none"]
      /\ UNCHANGED <<handshake, backlog>>
  BY DEF ForwardAnswer
<1>3. LockHeld' /\ Waiting("https")' = Waiting("https")
  BY <1>0, <1>1, <1>2, ThreadMoves
<1>4. ProxyHeld'
  BY <1>0, <1>1, <1>2 DEF ProxyHeld
<1>5. Waiting("http")' = Waiting("http")
  BY <1>0, <1>2 DEF Waiting
<1> QED
  BY <1>0, <1>2, <1>3, <1>4, <1>5, QueueUntouched DEF Servers

\* A step of the HTTP server with a connection that it has accepted.
LEMMA HttpServes ==
  ASSUME Known, ThreadInv, NEW p \in Peers, HttpStep(p)
  PROVE  LockHeld' /\ ProxyHeld' /\ QueueRight("http")' /\ QueueRight("https")'
<1>0. http \in [Peers -> HttpState] /\ TlsClients \subseteq Peers
      /\ LockHeld /\ ProxyHeld /\ QueueRight("http") /\ QueueRight("https")
  BY DEF Known, ThreadInv, PlainType, Peers
<1>1. /\ UNCHANGED <<handshake, backlog, tls>>
      /\ http[p] \in {"handling", "sending"}
      /\ http' = [http EXCEPT ![p] = http'[p]]
      /\ http'[p] # "queued" /\ (p \in TlsClients => http'[p] # "none")
  BY <1>0 DEF HttpStep, HandleReport, HandleOther, SendJson
<1>2. LockHeld' /\ ProxyHeld'
  BY <1>0, <1>1 DEF LockHeld, ProxyHeld
<1>3. Waiting("http")' = Waiting("http") /\ Waiting("https")' = Waiting("https")
  BY <1>0, <1>1 DEF Waiting
<1> QED
  BY <1>0, <1>1, <1>2, <1>3, QueueUntouched DEF Servers

LEMMA ConnectHttpQueues ==
  ASSUME Known, ThreadInv, NEW d \in Devices, ConnectHttp(d)
  PROVE  LockHeld' /\ ProxyHeld' /\ QueueRight("http")' /\ QueueRight("https")'
<1>0. http \in [Peers -> HttpState] /\ backlog \in [Servers -> Seq(Peers)]
      /\ LockHeld /\ ProxyHeld /\ QueueRight("http") /\ QueueRight("https")
      /\ d \in Peers /\ d \notin TlsClients
  BY ServerAssumption DEF Known, ConnectionInv, ThreadInv, PlainType, Peers
<1>1. /\ UNCHANGED <<handshake, tls>>
      /\ http[d] = "none" /\ http' = [http EXCEPT ![d] = "queued"]
      /\ backlog'["http"] = Append(backlog["http"], d)
      /\ backlog'["https"] = backlog["https"]
  BY <1>0 DEF ConnectHttp, Servers
<1>2. LockHeld' /\ ProxyHeld'
  BY <1>0, <1>1 DEF LockHeld, ProxyHeld
<1>3. /\ d \notin Waiting("http") /\ Waiting("http")' = Waiting("http") \cup {d}
      /\ Waiting("https")' = Waiting("https")
  BY <1>0, <1>1 DEF Waiting
<1> QED
  BY <1>0, <1>1, <1>2, <1>3, QueueGrows, QueueUntouched DEF Servers

LEMMA AcceptTakes ==
  ASSUME Known, ConnectionInv', ThreadInv, NEW s \in Servers, Accept(s)
  PROVE  LockHeld' /\ ProxyHeld' /\ QueueRight("http")' /\ QueueRight("https")'
<1> DEFINE p == Head(backlog[s])
<1>0. /\ tls \in [TlsClients -> TlsRecord] /\ tls' \in [TlsClients -> TlsRecord]
      /\ http \in [Peers -> HttpState] /\ backlog \in [Servers -> Seq(Peers)]
      /\ LockHeld /\ ProxyHeld /\ QueueRight("http") /\ QueueRight("https")
      /\ TlsClients \subseteq Peers
  BY DEF Known, ConnectionInv, ThreadInv, PlainType, Peers
<1>1. /\ backlog[s] # <<>> /\ UNCHANGED handshake
      /\ backlog'[s] = Tail(backlog[s])
      /\ \A r \in Servers : r # s => backlog'[r] = backlog[r]
  BY <1>0 DEF Accept
<1>2. p \in Waiting(s)
  BY <1>0, <1>1, MembersTail DEF QueueRight, Servers
<1>3. CASE s = "http"
  <2>1. http' = [http EXCEPT ![p] = "handling"] /\ UNCHANGED tls
    BY <1>3 DEF Accept
  <2>2. p \in Peers /\ http[p] = "queued"
    BY <1>2, <1>3 DEF Waiting
  <2> HIDE DEF p
  <2>3. LockHeld' /\ ProxyHeld'
    BY <1>0, <1>1, <2>1, <2>2 DEF LockHeld, ProxyHeld
  <2>4. Waiting("http")' = Waiting("http") \ {p} /\ Waiting("https")' = Waiting("https")
    BY <1>0, <2>1, <2>2 DEF Waiting
  <2> QED
    BY <1>0, <1>1, <1>3, <2>3, <2>4, QueueShrinks, QueueUntouched DEF Servers, p
<1>4. CASE s = "https"
  <2>1. tls' = [tls EXCEPT ![p].st = "waiting"] /\ UNCHANGED http
    BY <1>4 DEF Accept
  <2>2. p \in TlsClients /\ tls[p].st = "queued"
    BY <1>2, <1>4 DEF Waiting
  <2> HIDE DEF p
  <2>3. tls'[p].st = "waiting" /\ \A d \in TlsClients \ {p} : tls'[d] = tls[d]
    BY <1>0, <2>1, <2>2 DEF TlsRecord
  <2>4. LockHeld' /\ ProxyHeld'
    BY <1>0, <1>1, <2>1, <2>2, <2>3, ThreadMoves
  <2>5. Waiting("https")' = Waiting("https") \ {p} /\ Waiting("http")' = Waiting("http")
    BY <1>0, <2>1, <2>2, <2>3 DEF Waiting
  <2> QED
    BY <1>0, <1>1, <1>4, <2>4, <2>5, QueueShrinks, QueueUntouched DEF Servers, p
<1> QED
  BY <1>3, <1>4 DEF Servers

\* The backlog of the server that is stopped is reset, the other one stays.
LEMMA CloseResets ==
  ASSUME Known, ThreadInv, CloseListener
  PROVE  LockHeld' /\ ProxyHeld' /\ QueueRight("http")' /\ QueueRight("https")'
<1>0. /\ tls \in [TlsClients -> TlsRecord] /\ js.server \in Servers
      /\ http \in [Peers -> HttpState] /\ backlog \in [Servers -> Seq(Peers)]
      /\ LockHeld /\ ProxyHeld /\ QueueRight("http") /\ QueueRight("https")
      /\ TlsClients \subseteq Peers
  BY DEF Known, ConnectionInv, ServerInv, ServerType, ThreadInv, PlainType, Peers
<1>1. /\ UNCHANGED handshake
      /\ backlog'[js.server] = <<>>
      /\ \A r \in Servers : r # js.server => backlog'[r] = backlog[r]
  BY <1>0 DEF CloseListener
<1>2. CASE js.server = "http"
  <2>1. \A c \in TlsClients : tls'[c] = tls[c]
    BY <1>2 DEF CloseListener
  <2>2. \A p \in Peers : http'[p] = IF http[p] = "queued"
                                    THEN IF p \in TlsClients THEN "reset" ELSE "none"
                                    ELSE http[p]
    BY <1>2 DEF CloseListener
  <2>3. LockHeld' /\ ProxyHeld'
    BY <1>0, <1>1, <2>1, <2>2 DEF LockHeld, ProxyHeld
  <2>4. Waiting("http")' = {} /\ Waiting("https")' = Waiting("https")
    BY <2>1, <2>2 DEF Waiting
  <2> QED
    BY <1>0, <1>1, <1>2, <2>3, <2>4, QueueCleared, QueueUntouched DEF Servers
<1>3. CASE js.server = "https"
  <2>1. \A c \in TlsClients : tls'[c] = IF tls[c].st = "queued" THEN NoTls ELSE tls[c]
    BY <1>3 DEF CloseListener
  <2>2. \A p \in Peers : http'[p] = http[p]
    BY <1>3 DEF CloseListener
  <2>3. LockHeld' /\ ProxyHeld'
    BY <1>0, <1>1, <2>1, <2>2 DEF LockHeld, ProxyHeld, NoTls
  <2>4. Waiting("https")' = {} /\ Waiting("http")' = Waiting("http")
    BY <2>1, <2>2 DEF Waiting, NoTls
  <2> QED
    BY <1>0, <1>1, <1>3, <2>3, <2>4, QueueCleared, QueueUntouched DEF Servers
<1> QED
  BY <1>0, <1>2, <1>3 DEF Servers

LEMMA CrashFrees ==
  ASSUME NEW c \in TlsClients, Crash(c)
  PROVE  LockHeld' /\ ProxyHeld' /\ QueueRight("http")' /\ QueueRight("https")'
<1>1. /\ handshake' = None /\ \A d \in TlsClients : tls'[d] = NoTls
      /\ \A p \in Peers : http'[p] = "none"
      /\ \A s \in Servers : backlog'[s] = <<>>
  BY DEF Crash
<1>2. LockHeld' /\ ProxyHeld'
  BY <1>1, ServerAssumption DEF LockHeld, ProxyHeld, NoTls, Peers
<1>3. Waiting("http")' = {} /\ Waiting("https")' = {}
  BY <1>1 DEF Waiting, NoTls
<1> QED
  BY <1>1, <1>2, <1>3, QueueCleared DEF Servers

\* Every step keeps the lock, the proxies and the backlogs.
LEMMA WaitsStep ==
  ASSUME Known, ThreadInv, [Next]_vars
  PROVE  LockHeld' /\ ProxyHeld' /\ QueueRight("http")' /\ QueueRight("https")'
<1>0. ConnectionInv'
  BY ConnectionInvStep DEF Known
<1>1. CASE UNCHANGED vars
  BY <1>1, ConnectionsUntouched DEF vars
<1>2. CASE Start \/ StartHttps \/ DrainEvents \/ BeginStop \/ ClearFlag \/ JoinLoop
  BY <1>2, ConnectionsUntouched
     DEF Start, StartHttps, Launch, DrainEvents, BeginStop, ClearFlag, JoinLoop
<1>3. CASE CloseListener
  BY <1>3, CloseResets
<1>4. ASSUME NEW s \in Servers, LoopStep(s)
      PROVE  LockHeld' /\ ProxyHeld' /\ QueueRight("http")' /\ QueueRight("https")'
  BY <1>0, <1>4, AcceptTakes, ConnectionsUntouched DEF LoopStep, CheckFlag, AcceptFails
<1>5. ASSUME NEW d \in Devices, ConnectHttp(d)
      PROVE  LockHeld' /\ ProxyHeld' /\ QueueRight("http")' /\ QueueRight("https")'
  BY <1>5, ConnectHttpQueues
<1>6. ASSUME NEW p \in Peers, HttpStep(p)
      PROVE  LockHeld' /\ ProxyHeld' /\ QueueRight("http")' /\ QueueRight("https")'
  BY <1>6, HttpServes
<1>7. ASSUME NEW c \in TlsClients, ConnectTls(c) \/ TlsStep(c) \/ Crash(c)
      PROVE  LockHeld' /\ ProxyHeld' /\ QueueRight("http")' /\ QueueRight("https")'
  BY <1>0, <1>7, ConnectTlsQueues, OwnSteps, ProxyQueues, ForwardFrees, CrashFrees
     DEF TlsStep
<1> QED
  BY <1>1, <1>2, <1>3, <1>4, <1>5, <1>6, <1>7 DEF Next, StopStep

LEMMA ThreadInvStep == Known /\ ThreadInv /\ [Next]_vars => ThreadInv'
BY WaitsStep, LoopRunsStep DEF Known, ThreadInv

\* What every waiting thread of the gateway waits for is there to happen, in
\* any state: the lock is held by a thread in its handshake, a proxying thread
\* has a connection to the HTTP server, a connection that waits to be accepted
\* is in a backlog, once, of a server that listens and whose loop accepts or
\* whose Stop is about to reset it, and a Stop that waits in join waits for a
\* loop that exists and whose socket no longer blocks it.
NoneStranded ==
  /\ LockHeld /\ ProxyHeld
  /\ \A s \in Servers :
       /\ QueueRight(s)
       /\ backlog[s] # <<>> => listening[s] /\ \/ loop[s] \in {"check", "accept"}
                                               \/ js = [at |-> "close", server |-> s]
       /\ js.at = "join" /\ js.server = s => loop[s] # "none" /\ ~listening[s]

\* No thread of the native gateway is left waiting for something that cannot
\* come: the state core of StopReturns and ConnectionEnds.
THEOREM NoOneStranded == Spec => []NoneStranded
<1>1. Init => Known /\ ThreadInv
  BY ServerInvInit, ConnectionInvInit, PlainTypeInit, ThreadInvInit DEF Known
<1>2. Known /\ ThreadInv /\ [Next]_vars => (Known /\ ThreadInv)'
  BY ServerInvStep, ConnectionInvStep, PlainTypeStep, ThreadInvStep DEF Known
<1>3. Known /\ ThreadInv => NoneStranded
  <2> SUFFICES ASSUME Known, ThreadInv PROVE NoneStranded
    OBVIOUS
  <2>1. ASSUME NEW s \in Servers, backlog[s] # <<>>
        PROVE  listening[s] /\ \/ loop[s] \in {"check", "accept"}
                               \/ js = [at |-> "close", server |-> s]
    <3>1. listening[s] /\ ~Gone(s)
      BY <2>1 DEF Known, ServerInv, Gone
    <3>2. running[s] \/ (js.at = "close" /\ js.server = s)
      BY <3>1 DEF Known, ServerInv, Ending
    <3>3. js = [at |-> js.at, server |-> js.server]
      BY DEF Known, ServerInv, ServerType
    <3> QED
      BY <3>1, <3>2, <3>3 DEF ThreadInv, LoopRuns
  <2>2. ASSUME NEW s \in Servers, js.at = "join" /\ js.server = s
        PROVE  loop[s] # "none" /\ ~listening[s]
    BY <2>2 DEF Known, ServerInv, ThreadInv, LoopRuns, Ending
  <2> QED
    BY <2>1, <2>2 DEF NoneStranded, ThreadInv, Servers
<1> QED
  BY <1>1, <1>2, <1>3, PTL DEF Spec
=============================================================================
