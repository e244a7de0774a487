---------------------------- MODULE GatewayQueue ----------------------------
(***************************************************************************)
(* The per-device HTTP command queue of the native local gateway           *)
(* (entry/src/main/cpp/local_gateway.cpp, class LocalGateway).             *)
(*                                                                         *)
(* Commands arrive on threads (the JS thread through enqueueCommand, one   *)
(* detached thread per HTTP connection through POST /api/http/command) and *)
(* leave when a device polls GET /api/http/command.  An enqueue takes its  *)
(* timestamp and sequence number before it takes mutex_, so it is two      *)
(* steps here; everything done under mutex_ is one step.  Handing a        *)
(* command out is destructive: it leaves the queue before its HTTP         *)
(* response is on the wire.                                                *)
(*                                                                         *)
(* A std::deque is a set of entries ordered by their "place": push_back    *)
(* takes a place after all others, push_front one before all others.       *)
(***************************************************************************)
EXTENDS Integers, FiniteSets

CONSTANTS
  Devices,               \* device ids that own a queue
  Threads,               \* the JS thread and the HTTP connection threads
  Kinds,                 \* the [key, envelope] classes of commands in use
  None,                  \* no thread / no command
  MaxCommandsPerDevice,  \* MAX_COMMANDS_PER_DEVICE, 20 in the code
  ProtocolTtl,           \* PROTOCOL_COMMAND_TTL_MS
  ControlTtl,            \* CONTROL_COMMAND_TTL_MS
  MaxCommands,           \* bound of the model: commands ever enqueued
  MaxClock               \* bound of the model: ticks of NowMs()

ASSUME QueueAssumption ==
  /\ Kinds \subseteq [key : STRING, envelope : BOOLEAN]
  /\ None \notin Threads
  /\ MaxCommandsPerDevice \in Nat \ {0}
  /\ ProtocolTtl \in Nat /\ ControlTtl \in Nat
  /\ MaxCommands \in Nat /\ MaxClock \in Nat

VARIABLES
  clock,      \* NowMs(), in units of the smallest TTL
  sequence,   \* commandSequence_, also the id of the last command made
  commits,    \* history: how many enqueues have gone through mutex_
  queue,      \* commands_: the entries waiting for each device
  work,       \* what each thread is doing
  waiting,    \* the connection on which each device awaits an answer
  received,   \* history: what each device has received
  gone        \* history: the ids that left without being received

vars == <<clock, sequence, commits, queue, work, waiting, received, gone>>

Ids == 1..MaxCommands

\* A command before it is queued, and the entry it becomes.
Draft == [id : Ids, kind : Kinds, at : 0..MaxClock]
Entry == [id : Ids, kind : Kinds, at : 0..MaxClock,
          nth : Nat, place : Int]

Idle == [op |-> "idle"]
Work == {Idle}
        \cup [op : {"enqueue"}, dev : Devices, cmd : Draft]
        \cup [op : {"poll"}, dev : Devices]
        \cup [op : {"empty"}, dev : Devices]
        \cup [op : {"reply"}, dev : Devices, cmd : Entry]

-----------------------------------------------------------------------------
(* Classes of commands *)

\* queueKey == "proto" || queueKey == "crypto": pushed to the front.
Urgent(k) == k.key \in {"proto", "crypto"}

\* An unkeyed 64..69 byte payload is taken for a public key by its size.
Envelope(k) == k.key = "" /\ k.envelope

ShortLived(k) == k.key \in {"ecdh", "proto", "crypto"} \/ Envelope(k)
StateControl(k) == k.key \in {"led", "door", "ac", "curtain", "alarm"}

\* PopCommandJson discards a front entry of this age.
Expired(e) ==
  \/ ShortLived(e.kind) /\ clock - e.at > ProtocolTtl
  \/ StateControl(e.kind) /\ clock - e.at > ControlTtl

\* Mutant of Replaced: only keyed commands replace, public keys pile up.
ReplacedByKeyOnly(k, e) == k.key # "" /\ e.kind.key = k.key

\* What Enqueue erases before it inserts: the entries with the same non-empty
\* key, or, for an unkeyed envelope, every entry of envelope size.
Replaced(k, e) ==
  \/ k.key # "" /\ e.kind.key = k.key
  \/ Envelope(k) /\ e.kind.envelope

-----------------------------------------------------------------------------
(* The deque *)

IsFront(e, q) == e \in q /\ \A f \in q : e.place <= f.place
IsBack(e, q) == e \in q /\ \A f \in q : f.place <= e.place

FrontOf(q) == CHOOSE e \in q : IsFront(e, q)
BackOf(q) == CHOOSE e \in q : IsBack(e, q)

FrontPlace(q) == IF q = {} THEN 0 ELSE FrontOf(q).place - 1
BackPlace(q) == IF q = {} THEN 0 ELSE BackOf(q).place + 1

\* Mutants of Trim: the limit off by one, either way, and pop_back.
TrimLate(q) ==
  IF Cardinality(q) > MaxCommandsPerDevice + 1 THEN q \ {FrontOf(q)} ELSE q
TrimEarly(q) ==
  IF Cardinality(q) >= MaxCommandsPerDevice THEN q \ {FrontOf(q)} ELSE q
TrimBack(q) ==
  IF Cardinality(q) > MaxCommandsPerDevice THEN q \ {BackOf(q)} ELSE q

\* while (queue.size() > MAX_COMMANDS_PER_DEVICE) queue.pop_front():
\* one insertion overflows by one at most.
Trim(q) == IF Cardinality(q) > MaxCommandsPerDevice THEN q \ {FrontOf(q)} ELSE q

\* Mutants of Queued: push_back always, push_front always.
QueuedLast(q, c) ==
  [id |-> c.id, kind |-> c.kind, at |-> c.at, nth |-> commits + 1,
   place |-> BackPlace(q)]
QueuedFirst(q, c) ==
  [id |-> c.id, kind |-> c.kind, at |-> c.at, nth |-> commits + 1,
   place |-> FrontPlace(q)]

Queued(q, c) ==
  [id |-> c.id, kind |-> c.kind, at |-> c.at, nth |-> commits + 1,
   place |-> IF Urgent(c.kind) THEN FrontPlace(q) ELSE BackPlace(q)]

\* The queue before the overflow check: same-class entries erased, c inserted.
Inserted(q, c) ==
  LET kept == {e \in q : ~Replaced(c.kind, e)}
  IN  kept \cup {Queued(kept, c)}

\* Mutant of Unexpired: "if" for "while", only the first entry is looked at.
UnexpiredOnce(q) ==
  IF q # {} /\ Expired(FrontOf(q)) THEN q \ {FrontOf(q)} ELSE q

\* The queue PopCommandJson is left with once expired entries are dropped from
\* the front: everything from the first unexpired entry on.
Unexpired(q) ==
  LET fresh == {e \in q : ~Expired(e)}
  IN  {e \in q : \E f \in fresh : IsFront(f, fresh) /\ f.place <= e.place}

-----------------------------------------------------------------------------
(* Producers *)

\* Enqueue up to the lock: the timestamp and the sequence number are taken.
BeginEnqueue(t, d, k) ==
  /\ work[t] = Idle
  /\ sequence < MaxCommands
  /\ sequence' = sequence + 1
  /\ work' = [work EXCEPT ![t] =
                [op |-> "enqueue", dev |-> d,
                 cmd |-> [id |-> sequence + 1, kind |-> k, at |-> clock]]]
  /\ UNCHANGED <<clock, commits, queue, waiting, received, gone>>

\* Enqueue under the lock: erase, insert, trim.
CommitEnqueue(t) ==
  /\ work[t].op = "enqueue"
  /\ LET d == work[t].dev
         c == work[t].cmd
         after == Trim(Inserted(queue[d], c))
     IN  /\ queue' = [queue EXCEPT ![d] = after]
         /\ gone' = gone \cup (({e.id : e \in queue[d]} \cup {c.id})
                            \ {e.id : e \in after})
  /\ commits' = commits + 1
  /\ work' = [work EXCEPT ![t] = Idle]
  /\ UNCHANGED <<clock, sequence, waiting, received>>

\* The app drops a device's queue: device boot, removal, transport change.
ClearCommands(d) ==
  /\ queue[d] # {}
  /\ gone' = gone \cup {e.id : e \in queue[d]}
  /\ queue' = [queue EXCEPT ![d] = {}]
  /\ UNCHANGED <<clock, sequence, commits, work, waiting, received>>

-----------------------------------------------------------------------------
(* Consumers *)

\* A device opens a connection for its next poll; it has one at a time.
OpenPoll(d, t) ==
  /\ waiting[d] = None
  /\ work[t] = Idle
  /\ waiting' = [waiting EXCEPT ![d] = t]
  /\ work' = [work EXCEPT ![t] = [op |-> "poll", dev |-> d]]
  /\ UNCHANGED <<clock, sequence, commits, queue, received, gone>>

\* The device gives a poll up (its own timeout); the thread does not notice.
AbandonPoll(d) ==
  /\ waiting[d] # None
  /\ waiting' = [waiting EXCEPT ![d] = None]
  /\ UNCHANGED <<clock, sequence, commits, queue, work, received, gone>>

\* Mutant of PopCommand: front() without pop_front().
PeekCommand(t) ==
  /\ work[t].op = "poll"
  /\ LET d == work[t].dev
         live == Unexpired(queue[d])
     IN  /\ queue' = [queue EXCEPT ![d] = live]
         /\ work' = [work EXCEPT ![t] =
                       IF live = {} THEN [op |-> "empty", dev |-> d]
                       ELSE [op |-> "reply", dev |-> d, cmd |-> FrontOf(live)]]
         /\ gone' = gone \cup {e.id : e \in queue[d] \ live}
  /\ UNCHANGED <<clock, sequence, commits, waiting, received>>

\* PopCommandJson: drop expired fronts, take the first command that is left.
PopCommand(t) ==
  /\ work[t].op = "poll"
  /\ LET d == work[t].dev
         live == Unexpired(queue[d])
     IN  IF live = {}
         THEN /\ queue' = [queue EXCEPT ![d] = {}]
              /\ work' = [work EXCEPT ![t] = [op |-> "empty", dev |-> d]]
              /\ gone' = gone \cup {e.id : e \in queue[d]}
         ELSE /\ queue' = [queue EXCEPT ![d] = live \ {FrontOf(live)}]
              /\ work' = [work EXCEPT ![t] =
                            [op |-> "reply", dev |-> d, cmd |-> FrontOf(live)]]
              /\ gone' = gone \cup {e.id : e \in queue[d] \ live}
  /\ UNCHANGED <<clock, sequence, commits, waiting, received>>

\* SendJson reaches the device that is still waiting on this connection.
Reply(t) ==
  /\ work[t].op \in {"reply", "empty"}
  /\ waiting[work[t].dev] = t
  /\ LET d == work[t].dev
     IN  /\ received' = IF work[t].op = "reply"
                        THEN [received EXCEPT ![d] = @ \cup {work[t].cmd}]
                        ELSE received
         /\ waiting' = [waiting EXCEPT ![d] = None]
  /\ work' = [work EXCEPT ![t] = Idle]
  /\ UNCHANGED <<clock, sequence, commits, queue, gone>>

\* send() fails or the device has hung up; nothing puts the command back.
ReplyLost(t) ==
  /\ work[t].op \in {"reply", "empty"}
  /\ LET d == work[t].dev
     IN  /\ gone' = IF work[t].op = "reply"
                    THEN gone \cup {work[t].cmd.id} ELSE gone
         /\ waiting' = [waiting EXCEPT ![d] = IF @ = t THEN None ELSE @]
  /\ work' = [work EXCEPT ![t] = Idle]
  /\ UNCHANGED <<clock, sequence, commits, queue, received>>

Tick ==
  /\ clock < MaxClock
  /\ clock' = clock + 1
  /\ UNCHANGED <<sequence, commits, queue, work, waiting, received, gone>>

-----------------------------------------------------------------------------

Init ==
  /\ clock = 0
  /\ sequence = 0
  /\ commits = 0
  /\ queue = [d \in Devices |-> {}]
  /\ work = [t \in Threads |-> Idle]
  /\ waiting = [d \in Devices |-> None]
  /\ received = [d \in Devices |-> {}]
  /\ gone = {}

Next ==
  \/ \E t \in Threads, d \in Devices, k \in Kinds : BeginEnqueue(t, d, k)
  \/ \E t \in Threads : CommitEnqueue(t)
  \/ \E d \in Devices : ClearCommands(d)
  \/ \E d \in Devices, t \in Threads : OpenPoll(d, t)
  \/ \E d \in Devices : AbandonPoll(d)
  \/ \E t \in Threads : PopCommand(t)
  \/ \E t \in Threads : Reply(t)
  \/ \E t \in Threads : ReplyLost(t)
  \/ Tick

Spec == Init /\ [][Next]_vars

-----------------------------------------------------------------------------
(* Properties *)

TypeOK ==
  /\ clock \in 0..MaxClock
  /\ sequence \in 0..MaxCommands
  /\ commits \in Nat
  /\ queue \in [Devices -> SUBSET Entry]
  /\ work \in [Threads -> Work]
  /\ waiting \in [Devices -> Threads \cup {None}]
  /\ received \in [Devices -> SUBSET Entry]
  /\ gone \subseteq Ids

\* The four places a command can be in after it was given its id.
DraftIds == {work[t].cmd.id : t \in {u \in Threads : work[u].op = "enqueue"}}
QueuedIds == UNION {{e.id : e \in queue[d]} : d \in Devices}
ReplyIds == {work[t].cmd.id : t \in {u \in Threads : work[u].op = "reply"}}
ReceivedIds == UNION {{e.id : e \in received[d]} : d \in Devices}

\* No queue outgrows MAX_COMMANDS_PER_DEVICE, however enqueues interleave.
QueueBounded == \A d \in Devices : Cardinality(queue[d]) <= MaxCommandsPerDevice

\* A queue holds one command per non-empty queueKey and one unkeyed envelope:
\* a device never executes a led/door/proto command that was already replaced.
OnePerKey ==
  \A d \in Devices : \A e, f \in queue[d] :
    /\ e.kind.key # "" /\ e.kind.key = f.kind.key => e = f
    /\ Envelope(e.kind) /\ Envelope(f.kind) => e = f

\* proto/crypto commands are served before everything else, and the others in
\* the order in which they entered the queue, across every mix of
\* replacements, expiries and overflows.
ServiceOrder ==
  \A d \in Devices : \A e, f \in queue[d] :
    /\ Urgent(e.kind) /\ ~Urgent(f.kind) => e.place < f.place
    /\ ~Urgent(e.kind) /\ ~Urgent(f.kind) /\ e.nth < f.nth => e.place < f.place
    /\ e.place = f.place => e = f

\* Two threads never hold one id, nor do two entries.
OneHolder ==
  /\ \A t, u \in Threads :
       /\ work[t].op \in {"enqueue", "reply"} /\ work[u].op \in {"enqueue", "reply"}
       /\ work[t].cmd.id = work[u].cmd.id
       => t = u
  /\ \A c, d \in Devices : \A e \in queue[c], f \in queue[d] :
       e.id = f.id => c = d /\ e = f

\* Every id handed out is in exactly one place: being enqueued, queued, in a
\* response, received, or gone. Nothing is duplicated and nothing vanishes
\* between the two halves of an enqueue or between pop and response.
Accounting ==
  /\ 1..sequence = DraftIds \cup QueuedIds \cup ReplyIds \cup ReceivedIds \cup gone
  /\ DraftIds \cap (QueuedIds \cup ReplyIds \cup ReceivedIds \cup gone) = {}
  /\ QueuedIds \cap (ReplyIds \cup ReceivedIds \cup gone) = {}
  /\ ReplyIds \cap (ReceivedIds \cup gone) = {}
  /\ ReceivedIds \cap gone = {}
  /\ OneHolder

\* A device that polls over connections it may abandon, from threads that pop
\* in any order, still receives its ordinary commands in the order in which
\* they entered the queue.
DeliveredInOrder ==
  [][\A d \in Devices : \A e \in received'[d] \ received[d] :
        \A f \in received[d] :
          ~Urgent(e.kind) /\ ~Urgent(f.kind) => f.nth < e.nth]_vars

\* What leaves a queue for a response is within its time to live when it
\* leaves, even behind other entries that were not.
NoStalePop ==
  [][\A t \in Threads :
        work[t].op = "poll" /\ work'[t].op = "reply" => ~Expired(work'[t].cmd)]_vars

\* A queued command is given up only for a reason: a newer command of its
\* class, its age, a full queue, or the app clearing the queue. A door command
\* never costs a light command its place.
LossHasReason ==
  [][\A d \in Devices : \A e \in queue[d] :
        e.id \in gone' =>
          \/ queue'[d] = {} /\ UNCHANGED commits
          \/ Expired(e)
          \/ Cardinality(queue[d]) = MaxCommandsPerDevice
          \/ \E f \in queue'[d] : f.nth = commits' /\ Replaced(f.kind, e)]_vars

\* An ordinary command is in its queue when Enqueue returns: overflow costs the
\* oldest command, never the one whose id the caller has just been given.
PlainCommandIsQueued ==
  [][\A t \in Threads :
        work[t].op = "enqueue" /\ work'[t] = Idle /\ ~Urgent(work[t].cmd.kind)
          => \E e \in queue'[work[t].dev] : e.id = work[t].cmd.id]_vars

\* The queue implements at-most-once delivery: a command is held while it is
\* being enqueued, queued or in a response, and ends received or gone.
Box == INSTANCE Mailbox WITH
         Limit <- MaxCommands,
         made <- sequence,
         held <- DraftIds \cup QueuedIds \cup ReplyIds,
         delivered <- ReceivedIds,
         lost <- gone

AtMostOnce == Box!Spec
=============================================================================
