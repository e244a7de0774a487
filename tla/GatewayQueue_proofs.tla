------------------------ MODULE GatewayQueue_proofs ------------------------
(***************************************************************************)
(* Theorems about GatewayQueue, for every number of devices, threads and   *)
(* commands, every queue limit and every time to live: the shape of a      *)
(* queue; that no command is duplicated or lost without account, which is  *)
(* what makes the queue implement Mailbox; why a command may leave its     *)
(* queue; and the order in which a device receives its commands.           *)
(***************************************************************************)
EXTENDS GatewayQueue, FiniteSetTheorems, WellFoundedInduction, TLAPS

-----------------------------------------------------------------------------
(* The ends of a finite queue *)

\* A non-empty finite queue has a front: were there queues without one, take
\* one with no frontless part and remove any entry.
LEMMA HasFront ==
  ASSUME NEW q, IsFiniteSet(q), q # {}, \A e \in q : e.place \in Int
  PROVE  \E e \in q : IsFront(e, q)
<1> DEFINE Frontless == {r \in FiniteSubsetsOf(q) : r # {} /\ ~ \E e \in r : IsFront(e, r)}
<1>1. SUFFICES ASSUME ~ \E e \in q : IsFront(e, q)
               PROVE FALSE
  OBVIOUS
<1>2. q \in Frontless
  BY <1>1 DEF FiniteSubsetsOf
<1>3. PICK r \in Frontless :
        \A s \in Frontless : ~(<<s, r>> \in StrictSubsetOrdering(q))
  <2>1. Frontless \subseteq FiniteSubsetsOf(q)
    OBVIOUS
  <2>2. Frontless # {}
    BY <1>2
  <2>3. QED
    BY <2>1, <2>2, FS_StrictSubsetOrderingWellFounded, WFMin, Zenon
<1>4. PICK x \in r : TRUE
  OBVIOUS
<1>5. IsFiniteSet(r \ {x}) /\ r \ {x} \in FiniteSubsetsOf(q)
  BY FS_RemoveElement DEF FiniteSubsetsOf
<1>6. r \ {x} \notin Frontless
  <2>1. <<r \ {x}, r>> \in StrictSubsetOrdering(q)
    BY <1>4, <1>5 DEF StrictSubsetOrdering, FiniteSubsetsOf
  <2>2. QED
    BY <1>3, <2>1
<1>7. CASE r \ {x} = {}
  <2>1. IsFront(x, r)
    BY <1>4, <1>7 DEF IsFront, FiniteSubsetsOf
  <2>2. QED
    BY <2>1, <1>4
<1>8. CASE r \ {x} # {}
  <2>1. PICK e \in r \ {x} : IsFront(e, r \ {x})
    BY <1>5, <1>6, <1>8
  <2>2. e.place \in Int /\ x.place \in Int
    BY <1>4 DEF FiniteSubsetsOf
  <2>3. IsFront(e, r) \/ IsFront(x, r)
    BY <1>4, <2>1, <2>2 DEF IsFront, FiniteSubsetsOf
  <2>4. QED
    BY <2>3, <1>4
<1>9. QED
  BY <1>7, <1>8

\* The same for the back, by turning the queue around.
LEMMA HasBack ==
  ASSUME NEW q, IsFiniteSet(q), q # {}, \A e \in q : e.place \in Int
  PROVE  \E e \in q : IsBack(e, q)
<1> DEFINE Backless == {r \in FiniteSubsetsOf(q) : r # {} /\ ~ \E e \in r : IsBack(e, r)}
<1>1. SUFFICES ASSUME ~ \E e \in q : IsBack(e, q)
               PROVE FALSE
  OBVIOUS
<1>2. q \in Backless
  BY <1>1 DEF FiniteSubsetsOf
<1>3. PICK r \in Backless :
        \A s \in Backless : ~(<<s, r>> \in StrictSubsetOrdering(q))
  <2>1. Backless \subseteq FiniteSubsetsOf(q)
    OBVIOUS
  <2>2. Backless # {}
    BY <1>2
  <2>3. QED
    BY <2>1, <2>2, FS_StrictSubsetOrderingWellFounded, WFMin, Zenon
<1>4. PICK x \in r : TRUE
  OBVIOUS
<1>5. IsFiniteSet(r \ {x}) /\ r \ {x} \in FiniteSubsetsOf(q)
  BY FS_RemoveElement DEF FiniteSubsetsOf
<1>6. r \ {x} \notin Backless
  <2>1. <<r \ {x}, r>> \in StrictSubsetOrdering(q)
    BY <1>4, <1>5 DEF StrictSubsetOrdering, FiniteSubsetsOf
  <2>2. QED
    BY <1>3, <2>1
<1>7. CASE r \ {x} = {}
  <2>1. IsBack(x, r)
    BY <1>4, <1>7 DEF IsBack, FiniteSubsetsOf
  <2>2. QED
    BY <2>1, <1>4
<1>8. CASE r \ {x} # {}
  <2>1. PICK e \in r \ {x} : IsBack(e, r \ {x})
    BY <1>5, <1>6, <1>8
  <2>2. e.place \in Int /\ x.place \in Int
    BY <1>4 DEF FiniteSubsetsOf
  <2>3. IsBack(e, r) \/ IsBack(x, r)
    BY <1>4, <2>1, <2>2 DEF IsBack, FiniteSubsetsOf
  <2>4. QED
    BY <2>3, <1>4
<1>9. QED
  BY <1>7, <1>8

LEMMA Ends ==
  ASSUME NEW q, IsFiniteSet(q), q # {}, \A e \in q : e.place \in Int
  PROVE  IsFront(FrontOf(q), q) /\ IsBack(BackOf(q), q)
<1>1. (\E e \in q : IsFront(e, q)) /\ (\E e \in q : IsBack(e, q))
  BY HasFront, HasBack
<1>2. QED
  BY <1>1 DEF FrontOf, BackOf

-----------------------------------------------------------------------------
(* What one Enqueue and one PopCommandJson do to a queue *)

\* The queues the program can have: finite, made of entries, each in a place
\* of its own, one command per key, urgent ones first, the others by age.
GoodQueue(q) ==
  /\ q \subseteq Entry
  /\ IsFiniteSet(q)
  /\ Cardinality(q) <= MaxCommandsPerDevice
  /\ \A e, f \in q :
       /\ e.kind.key # "" /\ e.kind.key = f.kind.key => e = f
       /\ Envelope(e.kind) /\ Envelope(f.kind) => e = f
       /\ Urgent(e.kind) /\ ~Urgent(f.kind) => e.place < f.place
       /\ ~Urgent(e.kind) /\ ~Urgent(f.kind) /\ e.nth < f.nth => e.place < f.place
       /\ e.place = f.place => e = f

\* Erasing entries of a good queue leaves a good queue.
LEMMA SubQueue ==
  ASSUME NEW q, GoodQueue(q), NEW r, r \subseteq q
  PROVE  GoodQueue(r)
<1>1. IsFiniteSet(r) /\ Cardinality(r) <= Cardinality(q)
  BY FS_Subset DEF GoodQueue
<1>2. Cardinality(r) \in Nat /\ Cardinality(q) \in Nat
  BY <1>1, FS_CardinalityType DEF GoodQueue
<1>3. Cardinality(r) <= MaxCommandsPerDevice
  <2>1. Cardinality(q) <= MaxCommandsPerDevice
    BY DEF GoodQueue
  <2>2. QED
    BY <1>1, <1>2, <2>1, QueueAssumption
<1>4. QED
  BY <1>1, <1>3 DEF GoodQueue

\* The place given to a new entry is before all others when it is urgent and
\* behind all others when it is not.
LEMMA QueuedPlace ==
  ASSUME NEW q, IsFiniteSet(q), \A e \in q : e.place \in Int, NEW c \in Draft
  PROVE  /\ Queued(q, c).place \in Int
         /\ Urgent(c.kind) => \A e \in q : Queued(q, c).place < e.place
         /\ ~Urgent(c.kind) => \A e \in q : e.place < Queued(q, c).place
<1>1. CASE q = {}
  BY <1>1 DEF Queued, FrontPlace, BackPlace
<1>2. CASE q # {}
  <2>1. IsFront(FrontOf(q), q) /\ IsBack(BackOf(q), q)
    BY <1>2, Ends
  <2>2. FrontPlace(q) \in Int /\ \A e \in q : FrontPlace(q) < e.place
    BY <1>2, <2>1 DEF IsFront, FrontPlace
  <2>3. BackPlace(q) \in Int /\ \A e \in q : e.place < BackPlace(q)
    BY <1>2, <2>1 DEF IsBack, BackPlace
  <2>4. QED
    BY <2>2, <2>3 DEF Queued
<1>3. QED
  BY <1>1, <1>2

\* Enqueue keeps a good queue good, whatever it replaces and evicts, provided
\* that its commit is later than those of all entries.
LEMMA EnqueueGood ==
  ASSUME NEW q, GoodQueue(q), NEW c \in Draft, commits \in Nat,
         \A e \in q : e.nth <= commits
  PROVE  GoodQueue(Trim(Inserted(q, c)))
<1> DEFINE kept == {e \in q : ~Replaced(c.kind, e)}
           new == Queued(kept, c)
           all == kept \cup {new}
<1>1. GoodQueue(kept)
  BY SubQueue
<1>2. IsFiniteSet(kept) /\ \A e \in kept : e.place \in Int
  BY <1>1 DEF GoodQueue, Entry
<1>3. /\ new.place \in Int
      /\ Urgent(c.kind) => \A e \in kept : new.place < e.place
      /\ ~Urgent(c.kind) => \A e \in kept : e.place < new.place
  BY <1>2, QueuedPlace
<1>4. /\ new.kind = c.kind /\ new.nth = commits + 1
      /\ new \in Entry
  BY <1>3 DEF Queued, Entry, Draft
<1> HIDE DEF new
<1>5. all \subseteq Entry /\ IsFiniteSet(all)
  BY <1>1, <1>4, FS_AddElement DEF GoodQueue
<1>6. Cardinality(all) <= MaxCommandsPerDevice + 1 /\ Cardinality(all) \in Nat
  <2>1. Cardinality(all) \in {Cardinality(kept), Cardinality(kept) + 1}
    BY <1>2, FS_AddElement
  <2>2. Cardinality(kept) \in Nat /\ Cardinality(kept) <= MaxCommandsPerDevice
    BY <1>1, FS_CardinalityType DEF GoodQueue
  <2>3. QED
    BY <2>1, <2>2, QueueAssumption
<1>7. \A e \in kept : ~Replaced(c.kind, e) /\ e.nth < new.nth /\ e.nth \in Nat
  <2>1. ASSUME NEW e \in kept
        PROVE  ~Replaced(c.kind, e) /\ e.nth <= commits
    BY <2>1
  <2>2. ASSUME NEW e \in kept
        PROVE  e.nth \in Nat
    BY <1>1, <2>2 DEF GoodQueue, Entry
  <2>3. QED
    BY <1>4, <2>1, <2>2
<1>8. \A e, f \in all :
        /\ e.kind.key # "" /\ e.kind.key = f.kind.key => e = f
        /\ Envelope(e.kind) /\ Envelope(f.kind) => e = f
  <2>1. \A e \in kept : /\ new.kind.key # "" => e.kind.key # new.kind.key
                        /\ Envelope(new.kind) => ~Envelope(e.kind)
    BY <1>4, <1>7 DEF Replaced, Envelope
  <2>2. \A e, f \in kept :
          /\ e.kind.key # "" /\ e.kind.key = f.kind.key => e = f
          /\ Envelope(e.kind) /\ Envelope(f.kind) => e = f
    BY <1>1 DEF GoodQueue
  <2>3. QED
    BY <2>1, <2>2
<1>9. \A e, f \in all :
        /\ Urgent(e.kind) /\ ~Urgent(f.kind) => e.place < f.place
        /\ ~Urgent(e.kind) /\ ~Urgent(f.kind) /\ e.nth < f.nth => e.place < f.place
        /\ e.place = f.place => e = f
  <2>1. \A e, f \in kept :
          /\ Urgent(e.kind) /\ ~Urgent(f.kind) => e.place < f.place
          /\ ~Urgent(e.kind) /\ ~Urgent(f.kind) /\ e.nth < f.nth => e.place < f.place
          /\ e.place = f.place => e = f
    BY <1>1 DEF GoodQueue
  <2>2. \A e \in kept : /\ Urgent(new.kind) => new.place < e.place
                        /\ ~Urgent(new.kind) => e.place < new.place
                        /\ e.place \in Int /\ e.nth < new.nth /\ e.nth \in Nat
    BY <1>2, <1>3, <1>4, <1>7
  <2>3. new.nth \in Nat
    BY <1>4
  <2>4. QED
    BY <1>3, <2>1, <2>2, <2>3
<1>10. Inserted(q, c) = all
  BY DEF Inserted, new
<1>11. CASE Cardinality(all) > MaxCommandsPerDevice
  <2>1. all # {} /\ \A e \in all : e.place \in Int
    BY <1>5 DEF Entry
  <2>2. FrontOf(all) \in all
    BY <1>5, <2>1, Ends DEF IsFront
  <2>3. IsFiniteSet(all \ {FrontOf(all)})
        /\ Cardinality(all \ {FrontOf(all)}) = Cardinality(all) - 1
    <3> HIDE DEF all
    <3>1. QED
      BY <1>5, <2>2, FS_RemoveElement
  <2>4. Trim(all) = all \ {FrontOf(all)}
    BY <1>11 DEF Trim
  <2>5. Cardinality(all \ {FrontOf(all)}) <= MaxCommandsPerDevice
    BY <1>6, <2>3, QueueAssumption
  <2>6. QED
    BY <1>5, <1>8, <1>9, <1>10, <2>3, <2>4, <2>5 DEF GoodQueue
<1>12. CASE ~(Cardinality(all) > MaxCommandsPerDevice)
  <2>1. Trim(all) = all
    BY <1>12 DEF Trim
  <2>2. Cardinality(all) <= MaxCommandsPerDevice
    BY <1>6, <1>12, QueueAssumption
  <2>3. QED
    BY <1>5, <1>8, <1>9, <1>10, <2>1, <2>2 DEF GoodQueue
<1>13. QED
  BY <1>11, <1>12

\* The last entry of a queue's unexpired suffix and what PopCommandJson takes.
LEMMA PopGood ==
  ASSUME NEW q, GoodQueue(q)
  PROVE  /\ Unexpired(q) \subseteq q
         /\ Unexpired(q) # {} =>
              /\ FrontOf(Unexpired(q)) \in Unexpired(q)
              /\ ~Expired(FrontOf(Unexpired(q)))
<1> DEFINE fresh == {e \in q : ~Expired(e)}
           live == Unexpired(q)
<1>1. live \subseteq q
  BY DEF Unexpired
<1>2. SUFFICES ASSUME live # {}
               PROVE  FrontOf(live) \in live /\ ~Expired(FrontOf(live))
  BY <1>1
<1>3. IsFiniteSet(live) /\ \A e \in q : e.place \in Int
  BY <1>1, FS_Subset DEF GoodQueue, Entry
<1>4. IsFront(FrontOf(live), live)
  BY <1>1, <1>2, <1>3, Ends
<1>5. PICK f \in fresh : IsFront(f, fresh)
  BY <1>2 DEF Unexpired
<1>6. f \in live
  <2>1. f \in q /\ f.place <= f.place
    BY <1>3
  <2>2. QED
    BY <1>5, <2>1 DEF Unexpired
<1>7. \A e \in live : f.place <= e.place
  <2>1. ASSUME NEW e \in live, NEW g \in fresh, IsFront(g, fresh), g.place <= e.place
        PROVE  f.place <= e.place
    BY <1>1, <1>3, <1>5, <2>1 DEF IsFront
  <2>2. QED
    BY <2>1 DEF Unexpired
<1>8. FrontOf(live).place = f.place
  BY <1>1, <1>3, <1>4, <1>6, <1>7 DEF IsFront
<1>9. FrontOf(live) = f
  BY <1>1, <1>4, <1>6, <1>8 DEF IsFront, GoodQueue
<1>10. QED
  BY <1>4, <1>5, <1>9 DEF IsFront

-----------------------------------------------------------------------------
(* Types and queues *)

QueueInv ==
  /\ TypeOK
  /\ \A d \in Devices : GoodQueue(queue[d])
  /\ \A d \in Devices : \A e \in queue[d] : e.nth <= commits

LEMMA QueueInvInit == Init => QueueInv
<1>1. GoodQueue({})
  BY FS_EmptySet, QueueAssumption DEF GoodQueue
<1>2. QED
  BY <1>1, QueueAssumption DEF Init, QueueInv, TypeOK, Work, Idle

\* Work items by the step that makes them.
LEMMA WorkType ==
  ASSUME NEW t \in Threads, work \in [Threads -> Work]
  PROVE  /\ work[t].op = "enqueue" => work[t].dev \in Devices /\ work[t].cmd \in Draft
         /\ work[t].op \in {"poll", "empty"} => work[t].dev \in Devices
         /\ work[t].op = "reply" => work[t].dev \in Devices /\ work[t].cmd \in Entry
<1>1. work[t] \in Work
  OBVIOUS
<1>2. QED
  BY <1>1 DEF Work, Idle

LEMMA QueueInvStep == QueueInv /\ [Next]_vars => QueueInv'
<1> SUFFICES ASSUME QueueInv, [Next]_vars
             PROVE  QueueInv'
  OBVIOUS
<1> USE QueueAssumption
<1>1. ASSUME NEW t \in Threads, NEW d \in Devices, NEW k \in Kinds,
             BeginEnqueue(t, d, k)
      PROVE  QueueInv'
  <2>1. [id |-> sequence + 1, kind |-> k, at |-> clock] \in Draft
    BY <1>1 DEF BeginEnqueue, QueueInv, TypeOK, Draft, Ids
  <2>2. work' \in [Threads -> Work]
    BY <1>1, <2>1 DEF BeginEnqueue, QueueInv, TypeOK, Work
  <2>3. TypeOK'
    BY <1>1, <2>2 DEF BeginEnqueue, QueueInv, TypeOK
  <2>4. QED
    BY <1>1, <2>3 DEF BeginEnqueue, QueueInv, GoodQueue
<1>2. ASSUME NEW t \in Threads, CommitEnqueue(t)
      PROVE  QueueInv'
  <2> DEFINE d == work[t].dev
             c == work[t].cmd
             after == Trim(Inserted(queue[d], c))
  <2>1. d \in Devices /\ c \in Draft
    BY <1>2, WorkType DEF CommitEnqueue, QueueInv, TypeOK
  <2>2. commits \in Nat /\ commits' = commits + 1
    BY <1>2 DEF CommitEnqueue, QueueInv, TypeOK
  <2>3. GoodQueue(queue[d]) /\ \A e \in queue[d] : e.nth <= commits
    BY <2>1 DEF QueueInv
  <2>4. GoodQueue(after)
    BY <2>1, <2>2, <2>3, EnqueueGood
  <2>5. after \subseteq queue[d] \cup {Queued({e \in queue[d] : ~Replaced(c.kind, e)}, c)}
    BY DEF Trim, Inserted
  <2>6. \A e \in after : e.nth <= commits + 1
    <3>1. \A e \in queue[d] : e.nth \in Nat
      BY <2>3 DEF GoodQueue, Entry
    <3>2. Queued({e \in queue[d] : ~Replaced(c.kind, e)}, c).nth = commits + 1
      BY DEF Queued
    <3>3. QED
      BY <2>2, <2>3, <2>5, <3>1, <3>2
  <2> HIDE DEF after
  <2>7. queue' = [queue EXCEPT ![d] = after]
    BY <1>2 DEF CommitEnqueue, after
  <2>8. TypeOK'
    <3>1. after \subseteq Entry
      BY <2>4 DEF GoodQueue
    <3>2. queue' \in [Devices -> SUBSET Entry]
      BY <2>1, <2>7, <3>1 DEF QueueInv, TypeOK
    <3>3. gone' \subseteq Ids
      <4>1. gone' \subseteq gone \cup ({e.id : e \in queue[d]} \cup {c.id})
        BY <1>2 DEF CommitEnqueue
      <4>2. c.id \in Ids /\ \A e \in queue[d] : e.id \in Ids
        BY <2>1, <2>3 DEF GoodQueue, Entry, Draft
      <4>3. QED
        BY <4>1, <4>2 DEF QueueInv, TypeOK
    <3>4. work' \in [Threads -> Work]
      BY <1>2 DEF CommitEnqueue, QueueInv, TypeOK, Work
    <3>5. QED
      BY <1>2, <2>2, <3>2, <3>3, <3>4 DEF CommitEnqueue, QueueInv, TypeOK
  <2>9. ASSUME NEW b \in Devices
        PROVE  GoodQueue(queue'[b]) /\ \A e \in queue'[b] : e.nth <= commits'
    <3>1. CASE b = d
      BY <2>1, <2>2, <2>4, <2>6, <2>7, <3>1 DEF QueueInv, TypeOK
    <3>2. CASE b # d
      <4>1. queue'[b] = queue[b]
        BY <2>1, <2>7, <3>2 DEF QueueInv, TypeOK
      <4>2. GoodQueue(queue[b]) /\ \A e \in queue[b] : e.nth <= commits /\ e.nth \in Nat
        BY DEF QueueInv, GoodQueue, Entry
      <4>3. QED
        BY <2>2, <4>1, <4>2
    <3>3. QED
      BY <3>1, <3>2
  <2>10. QED
    BY <2>8, <2>9 DEF QueueInv, GoodQueue
<1>3. ASSUME NEW d \in Devices, ClearCommands(d)
      PROVE  QueueInv'
  <2>1. GoodQueue({})
    BY FS_EmptySet DEF GoodQueue
  <2>2. gone' \subseteq Ids
    BY <1>3 DEF ClearCommands, QueueInv, TypeOK, Entry
  <2>3. queue' = [queue EXCEPT ![d] = {}] /\ commits' = commits
    BY <1>3 DEF ClearCommands
  <2>4. TypeOK'
    BY <1>3, <2>2, <2>3 DEF ClearCommands, QueueInv, TypeOK
  <2>5. \A b \in Devices : GoodQueue(queue'[b]) /\ \A e \in queue'[b] : e.nth <= commits'
    BY <2>1, <2>3 DEF QueueInv, TypeOK
  <2>6. QED
    BY <2>4, <2>5 DEF QueueInv, GoodQueue
<1>4. ASSUME NEW d \in Devices, NEW t \in Threads, OpenPoll(d, t)
      PROVE  QueueInv'
  <2>1. TypeOK'
    BY <1>4 DEF OpenPoll, QueueInv, TypeOK, Work
  <2>2. QED
    BY <1>4, <2>1 DEF OpenPoll, QueueInv, GoodQueue
<1>5. ASSUME NEW d \in Devices, AbandonPoll(d)
      PROVE  QueueInv'
  BY <1>5 DEF AbandonPoll, QueueInv, TypeOK, GoodQueue
<1>6. ASSUME NEW t \in Threads, PopCommand(t)
      PROVE  QueueInv'
  <2> DEFINE d == work[t].dev
             live == Unexpired(queue[d])
  <2>1. d \in Devices
    BY <1>6, WorkType DEF PopCommand, QueueInv, TypeOK
  <2>2. GoodQueue(queue[d]) /\ queue[d] \subseteq Entry
    BY <2>1 DEF QueueInv, GoodQueue
  <2>3. /\ live \subseteq queue[d]
        /\ live # {} => FrontOf(live) \in live
    BY <2>2, PopGood
  <2> HIDE DEF live
  <2>4. gone' \subseteq Ids
    <3>1. gone' \subseteq gone \cup {e.id : e \in queue[d]}
      BY <1>6 DEF PopCommand, live
    <3>2. QED
      BY <2>2, <3>1 DEF QueueInv, TypeOK, Entry
  <2>5. work' \in [Threads -> Work]
    <3>1. CASE live = {}
      BY <1>6, <2>1, <3>1 DEF PopCommand, QueueInv, TypeOK, Work, live
    <3>2. CASE live # {}
      <4>1. FrontOf(live) \in Entry
        BY <2>2, <2>3, <3>2
      <4>2. work' = [work EXCEPT ![t] =
                       [op |-> "reply", dev |-> d, cmd |-> FrontOf(live)]]
        BY <1>6, <3>2 DEF PopCommand, live
      <4>3. QED
        BY <2>1, <4>1, <4>2 DEF QueueInv, TypeOK, Work
    <3>3. QED
      BY <3>1, <3>2
  <2>6. \E r : r \subseteq queue[d] /\ queue' = [queue EXCEPT ![d] = r]
    <3>1. CASE live = {}
      BY <1>6, <3>1 DEF PopCommand, live
    <3>2. CASE live # {}
      <4>1. queue' = [queue EXCEPT ![d] = live \ {FrontOf(live)}]
        BY <1>6, <3>2 DEF PopCommand, live
      <4>2. QED
        BY <2>3, <4>1
    <3>3. QED
      BY <3>1, <3>2
  <2>7. PICK r : r \subseteq queue[d] /\ queue' = [queue EXCEPT ![d] = r]
    BY <2>6
  <2>8. GoodQueue(r)
    BY <2>2, <2>7, SubQueue
  <2>9. TypeOK'
    BY <1>6, <2>1, <2>2, <2>4, <2>5, <2>7 DEF PopCommand, QueueInv, TypeOK
  <2>10. commits' = commits
    BY <1>6 DEF PopCommand
  <2>11. \A b \in Devices : GoodQueue(queue'[b]) /\ \A e \in queue'[b] : e.nth <= commits'
    BY <2>1, <2>7, <2>8, <2>10 DEF QueueInv, TypeOK
  <2>12. QED
    BY <2>9, <2>11 DEF QueueInv, GoodQueue
<1>7. ASSUME NEW t \in Threads, Reply(t)
      PROVE  QueueInv'
  <2>1. work[t].op = "reply" => work[t].cmd \in Entry
    BY WorkType DEF QueueInv, TypeOK
  <2>2. received' \in [Devices -> SUBSET Entry]
    BY <1>7, <2>1 DEF Reply, QueueInv, TypeOK
  <2>3. TypeOK'
    BY <1>7, <2>2 DEF Reply, QueueInv, TypeOK, Work
  <2>4. QED
    BY <1>7, <2>3 DEF Reply, QueueInv, GoodQueue
<1>8. ASSUME NEW t \in Threads, ReplyLost(t)
      PROVE  QueueInv'
  <2>1. work[t].op = "reply" => work[t].cmd.id \in Ids
    BY WorkType DEF QueueInv, TypeOK, Entry
  <2>2. gone' \subseteq Ids
    BY <1>8, <2>1 DEF ReplyLost, QueueInv, TypeOK
  <2>3. TypeOK'
    BY <1>8, <2>2 DEF ReplyLost, QueueInv, TypeOK, Work
  <2>4. QED
    BY <1>8, <2>3 DEF ReplyLost, QueueInv, GoodQueue
<1>9. ASSUME Tick
      PROVE  QueueInv'
  <2>1. clock' \in 0..MaxClock
    BY <1>9 DEF Tick, QueueInv, TypeOK
  <2>2. TypeOK'
    BY <1>9, <2>1 DEF Tick, QueueInv, TypeOK
  <2>3. UNCHANGED <<queue, commits>>
    BY <1>9 DEF Tick
  <2>4. QED
    BY <2>2, <2>3 DEF QueueInv, GoodQueue
<1>10. CASE UNCHANGED vars
  BY <1>10 DEF vars, QueueInv, TypeOK, GoodQueue
<1>11. QED
  BY <1>1, <1>2, <1>3, <1>4, <1>5, <1>6, <1>7, <1>8, <1>9, <1>10 DEF Next

LEMMA QueueInvariant == Spec => []QueueInv
<1>1. QED
  BY QueueInvInit, QueueInvStep, PTL DEF Spec

\* Every variable keeps its type: in particular every queue holds well-formed
\* entries and every thread works on behalf of a known device.
THEOREM TypeCorrect == Spec => []TypeOK
<1>1. QueueInv => TypeOK
  BY DEF QueueInv
<1>2. QED
  BY <1>1, QueueInvariant, PTL

\* MAX_COMMANDS_PER_DEVICE bounds every queue, for any number of threads
\* between the two halves of Enqueue.
THEOREM Bounded == Spec => []QueueBounded
<1>1. QueueInv => QueueBounded
  BY DEF QueueInv, GoodQueue, QueueBounded
<1>2. QED
  BY <1>1, QueueInvariant, PTL

\* A queue never holds two commands with the same queueKey, or two unkeyed
\* public keys.
THEOREM KeyUnique == Spec => []OnePerKey
<1>1. QueueInv => OnePerKey
  BY DEF QueueInv, GoodQueue, OnePerKey
<1>2. QED
  BY <1>1, QueueInvariant, PTL

\* proto/crypto commands are in front of the others, and the others are served
\* in the order in which they entered the queue.
THEOREM OrderKept == Spec => []ServiceOrder
<1>1. QueueInv => ServiceOrder
  BY DEF QueueInv, GoodQueue, ServiceOrder
<1>2. QED
  BY <1>1, QueueInvariant, PTL


-----------------------------------------------------------------------------
(* Where ids are, before and after one thread or one queue changes *)

DraftOf(w) == IF w.op = "enqueue" THEN {w.cmd.id} ELSE {}
ReplyOf(w) == IF w.op = "reply" THEN {w.cmd.id} ELSE {}
IdsOf(q) == {e.id : e \in q}

OtherDrafts(t) == UNION {DraftOf(work[u]) : u \in Threads \ {t}}
OtherReplies(t) == UNION {ReplyOf(work[u]) : u \in Threads \ {t}}
OtherQueued(d) == UNION {IdsOf(queue[b]) : b \in Devices \ {d}}

\* The ids of a thread beside those of the other threads.
LEMMA ThreadIds ==
  ASSUME NEW t \in Threads
  PROVE  /\ DraftIds = OtherDrafts(t) \cup DraftOf(work[t])
         /\ ReplyIds = OtherReplies(t) \cup ReplyOf(work[t])
<1>1. DraftIds = UNION {DraftOf(work[u]) : u \in Threads}
  BY DEF DraftIds, DraftOf
<1>2. ReplyIds = UNION {ReplyOf(work[u]) : u \in Threads}
  BY DEF ReplyIds, ReplyOf
<1>3. QED
  BY <1>1, <1>2 DEF OtherDrafts, OtherReplies

LEMMA WorkChange ==
  ASSUME NEW t \in Threads, NEW w, work \in [Threads -> Work],
         work' = [work EXCEPT ![t] = w]
  PROVE  /\ DraftIds' = OtherDrafts(t) \cup DraftOf(w)
         /\ ReplyIds' = OtherReplies(t) \cup ReplyOf(w)
<1>1. work'[t] = w /\ \A u \in Threads \ {t} : work'[u] = work[u]
  OBVIOUS
<1>2. DraftIds' = UNION {DraftOf(work'[u]) : u \in Threads}
  BY DEF DraftIds, DraftOf
<1>3. ReplyIds' = UNION {ReplyOf(work'[u]) : u \in Threads}
  BY DEF ReplyIds, ReplyOf
<1>4. QED
  BY <1>1, <1>2, <1>3 DEF OtherDrafts, OtherReplies

LEMMA QueueIds ==
  ASSUME NEW d \in Devices
  PROVE  QueuedIds = OtherQueued(d) \cup IdsOf(queue[d])
<1>1. QED
  BY DEF QueuedIds, OtherQueued, IdsOf

LEMMA QueueChange ==
  ASSUME NEW d \in Devices, NEW q, queue \in [Devices -> SUBSET Entry],
         queue' = [queue EXCEPT ![d] = q]
  PROVE  QueuedIds' = OtherQueued(d) \cup IdsOf(q)
<1>1. queue'[d] = q /\ \A b \in Devices \ {d} : queue'[b] = queue[b]
  OBVIOUS
<1>2. QED
  BY <1>1 DEF QueuedIds, OtherQueued, IdsOf

-----------------------------------------------------------------------------
(* One holder per id *)

LEMMA Apart ==
  ASSUME OneHolder
  PROVE  /\ \A t \in Threads :
              (DraftOf(work[t]) \cup ReplyOf(work[t]))
                \cap (OtherDrafts(t) \cup OtherReplies(t)) = {}
         /\ \A d \in Devices : IdsOf(queue[d]) \cap OtherQueued(d) = {}
<1>1. ASSUME NEW t \in Threads, NEW u \in Threads \ {t}
      PROVE  (DraftOf(work[t]) \cup ReplyOf(work[t]))
                \cap (DraftOf(work[u]) \cup ReplyOf(work[u])) = {}
  BY DEF OneHolder, DraftOf, ReplyOf
<1>2. ASSUME NEW d \in Devices, NEW b \in Devices \ {d}
      PROVE  IdsOf(queue[d]) \cap IdsOf(queue[b]) = {}
  BY DEF OneHolder, IdsOf
<1>3. QED
  BY <1>1, <1>2 DEF OtherDrafts, OtherReplies, OtherQueued

-----------------------------------------------------------------------------
(* What each action does to the sets of ids *)

LEMMA BeginMoves ==
  ASSUME QueueInv, NEW t \in Threads, NEW d \in Devices, NEW k \in Kinds,
         BeginEnqueue(t, d, k)
  PROVE  /\ sequence' = sequence + 1 /\ sequence < MaxCommands
         /\ DraftIds' = DraftIds \cup {sequence + 1}
         /\ UNCHANGED <<QueuedIds, ReplyIds, ReceivedIds, gone>>
<1> DEFINE w == [op |-> "enqueue", dev |-> d,
                 cmd |-> [id |-> sequence + 1, kind |-> k, at |-> clock]]
<1>1. /\ work[t] = Idle /\ work' = [work EXCEPT ![t] = w]
      /\ work \in [Threads -> Work]
  BY DEF BeginEnqueue, QueueInv, TypeOK
<1>2. /\ DraftIds' = OtherDrafts(t) \cup DraftOf(w)
      /\ ReplyIds' = OtherReplies(t) \cup ReplyOf(w)
  BY <1>1, WorkChange
<1>3. /\ DraftIds = OtherDrafts(t) \cup DraftOf(Idle)
      /\ ReplyIds = OtherReplies(t) \cup ReplyOf(Idle)
  BY <1>1, ThreadIds
<1>4. /\ DraftOf(w) = {sequence + 1} /\ ReplyOf(w) = {}
      /\ DraftOf(Idle) = {} /\ ReplyOf(Idle) = {}
  BY DEF DraftOf, ReplyOf, Idle
<1>5. QueuedIds' = QueuedIds /\ ReceivedIds' = ReceivedIds
  BY DEF BeginEnqueue, QueuedIds, ReceivedIds
<1>6. QED
  BY <1>2, <1>3, <1>4, <1>5 DEF BeginEnqueue

\* A queue after Enqueue holds old entries and the new one.
LEMMA AfterIds ==
  ASSUME NEW q, NEW c
  PROVE  IdsOf(Trim(Inserted(q, c))) \subseteq IdsOf(q) \cup {c.id}
<1> DEFINE kept == {e \in q : ~Replaced(c.kind, e)}
           new == Queued(kept, c)
<1>1. IdsOf(Inserted(q, c)) \subseteq IdsOf(q) \cup {c.id}
  <2>1. new.id = c.id
    BY DEF Queued
  <2>2. kept \subseteq q /\ Inserted(q, c) = kept \cup {new}
    BY DEF Inserted
  <2> HIDE DEF new, kept
  <2>3. QED
    BY <2>1, <2>2 DEF IdsOf
<1>2. Trim(Inserted(q, c)) \subseteq Inserted(q, c)
  BY DEF Trim
<1>3. QED
  BY <1>1, <1>2 DEF IdsOf

LEMMA CommitMoves ==
  ASSUME QueueInv, OneHolder, NEW t \in Threads, CommitEnqueue(t)
  PROVE  \E c \in Ids, old, new \in SUBSET Ids :
           /\ c \in DraftIds /\ old \subseteq QueuedIds
           /\ new \subseteq old \cup {c}
           /\ DraftIds' = DraftIds \ {c}
           /\ QueuedIds' = (QueuedIds \ old) \cup new
           /\ gone' = gone \cup ((old \cup {c}) \ new)
           /\ UNCHANGED <<sequence, ReplyIds, ReceivedIds>>
<1> DEFINE d == work[t].dev
           c == work[t].cmd
           after == Trim(Inserted(queue[d], c))
<1>1. /\ work[t].op = "enqueue" /\ d \in Devices /\ c \in Draft
      /\ work \in [Threads -> Work] /\ queue \in [Devices -> SUBSET Entry]
  BY WorkType DEF CommitEnqueue, QueueInv, TypeOK
<1>2. IdsOf(after) \subseteq IdsOf(queue[d]) \cup {c.id}
  BY AfterIds
<1>3. c.id \in Ids /\ IdsOf(queue[d]) \subseteq Ids
  BY <1>1 DEF Draft, Entry, IdsOf
<1> HIDE DEF after
<1>4. /\ work' = [work EXCEPT ![t] = Idle]
      /\ queue' = [queue EXCEPT ![d] = after]
      /\ gone' = gone \cup ((IdsOf(queue[d]) \cup {c.id}) \ IdsOf(after))
      /\ UNCHANGED <<sequence, received>>
  BY DEF CommitEnqueue, after, IdsOf
<1>5. /\ DraftIds' = OtherDrafts(t) \cup DraftOf(Idle)
      /\ ReplyIds' = OtherReplies(t) \cup ReplyOf(Idle)
      /\ QueuedIds' = OtherQueued(d) \cup IdsOf(after)
  BY <1>1, <1>4, WorkChange, QueueChange
<1>6. /\ DraftIds = OtherDrafts(t) \cup DraftOf(work[t])
      /\ ReplyIds = OtherReplies(t) \cup ReplyOf(work[t])
      /\ QueuedIds = OtherQueued(d) \cup IdsOf(queue[d])
  BY <1>1, ThreadIds, QueueIds
<1>7. /\ DraftOf(work[t]) = {c.id} /\ ReplyOf(work[t]) = {}
      /\ DraftOf(Idle) = {} /\ ReplyOf(Idle) = {}
  BY <1>1 DEF DraftOf, ReplyOf, Idle
<1>8. c.id \notin OtherDrafts(t) /\ IdsOf(queue[d]) \cap OtherQueued(d) = {}
  BY <1>1, <1>7, Apart
<1>9. ReceivedIds' = ReceivedIds
  BY <1>4 DEF ReceivedIds
<1>10. /\ c.id \in DraftIds /\ IdsOf(queue[d]) \subseteq QueuedIds
       /\ DraftIds' = DraftIds \ {c.id}
       /\ QueuedIds' = (QueuedIds \ IdsOf(queue[d])) \cup IdsOf(after)
       /\ ReplyIds' = ReplyIds
  BY <1>5, <1>6, <1>7, <1>8
<1>11. IdsOf(after) \in SUBSET Ids
  BY <1>2, <1>3
<1>12. QED
  BY <1>2, <1>3, <1>4, <1>9, <1>10, <1>11

LEMMA ClearMoves ==
  ASSUME QueueInv, OneHolder, NEW d \in Devices, ClearCommands(d)
  PROVE  \E old \in SUBSET Ids :
           /\ old \subseteq QueuedIds
           /\ QueuedIds' = QueuedIds \ old
           /\ gone' = gone \cup old
           /\ UNCHANGED <<sequence, DraftIds, ReplyIds, ReceivedIds>>
<1>1. /\ queue \in [Devices -> SUBSET Entry]
      /\ queue' = [queue EXCEPT ![d] = {}]
      /\ gone' = gone \cup IdsOf(queue[d])
      /\ UNCHANGED <<sequence, work, received>>
  BY DEF ClearCommands, QueueInv, TypeOK, IdsOf
<1>2. /\ QueuedIds' = OtherQueued(d) \cup IdsOf({})
      /\ QueuedIds = OtherQueued(d) \cup IdsOf(queue[d])
  BY <1>1, QueueChange, QueueIds
<1>3. IdsOf({}) = {} /\ IdsOf(queue[d]) \subseteq Ids
  BY <1>1 DEF IdsOf, Entry
<1>4. IdsOf(queue[d]) \cap OtherQueued(d) = {}
  BY Apart
<1>5. UNCHANGED <<DraftIds, ReplyIds, ReceivedIds>>
  BY <1>1 DEF DraftIds, ReplyIds, ReceivedIds
<1>6. QED
  BY <1>1, <1>2, <1>3, <1>4, <1>5

LEMMA PopMoves ==
  ASSUME QueueInv, OneHolder, NEW t \in Threads, PopCommand(t)
  PROVE  \E dead, out \in SUBSET Ids :
           /\ dead \subseteq QueuedIds /\ out \subseteq QueuedIds
           /\ dead \cap out = {}
           /\ QueuedIds' = QueuedIds \ (dead \cup out)
           /\ ReplyIds' = ReplyIds \cup out
           /\ gone' = gone \cup dead
           /\ UNCHANGED <<sequence, DraftIds, ReceivedIds>>
<1> DEFINE d == work[t].dev
           q == queue[d]
           live == Unexpired(q)
           x == FrontOf(live)
<1>1. /\ work[t].op = "poll" /\ d \in Devices
      /\ work \in [Threads -> Work] /\ queue \in [Devices -> SUBSET Entry]
      /\ GoodQueue(q)
  BY WorkType DEF PopCommand, QueueInv, TypeOK
<1>2. live \subseteq q /\ (live # {} => x \in live)
  BY <1>1, PopGood
<1>3. UNCHANGED <<sequence, ReceivedIds>>
  BY DEF PopCommand, ReceivedIds
<1>4. /\ DraftIds = OtherDrafts(t) \cup DraftOf(work[t])
      /\ ReplyIds = OtherReplies(t) \cup ReplyOf(work[t])
      /\ QueuedIds = OtherQueued(d) \cup IdsOf(q)
  BY <1>1, ThreadIds, QueueIds
<1>5. DraftOf(work[t]) = {} /\ ReplyOf(work[t]) = {}
  BY <1>1 DEF DraftOf, ReplyOf
<1>6. IdsOf(q) \cap OtherQueued(d) = {} /\ IdsOf(q) \subseteq Ids
  BY <1>1, Apart DEF IdsOf, Entry
<1>7. \A e, f \in q : e.id = f.id => e = f
  BY <1>1 DEF OneHolder
<1> HIDE DEF live, x
<1>8. CASE live = {}
  <2> DEFINE w == [op |-> "empty", dev |-> d]
  <2>1. /\ queue' = [queue EXCEPT ![d] = {}]
        /\ work' = [work EXCEPT ![t] = w]
        /\ gone' = gone \cup IdsOf(q)
    BY <1>8 DEF PopCommand, live, IdsOf
  <2>2. /\ DraftIds' = OtherDrafts(t) \cup DraftOf(w)
        /\ ReplyIds' = OtherReplies(t) \cup ReplyOf(w)
        /\ QueuedIds' = OtherQueued(d) \cup IdsOf({})
    BY <1>1, <2>1, WorkChange, QueueChange
  <2>3. DraftOf(w) = {} /\ ReplyOf(w) = {} /\ IdsOf({}) = {}
    BY DEF DraftOf, ReplyOf, IdsOf
  <2>4. /\ IdsOf(q) \subseteq QueuedIds
        /\ QueuedIds' = QueuedIds \ (IdsOf(q) \cup {})
        /\ ReplyIds' = ReplyIds \cup {} /\ DraftIds' = DraftIds
    BY <1>4, <1>5, <1>6, <2>2, <2>3
  <2>5. QED
    BY <1>3, <1>6, <2>1, <2>4
<1>9. CASE live # {}
  <2> DEFINE w == [op |-> "reply", dev |-> d, cmd |-> x]
             dead == IdsOf(q \ live)
  <2>1. /\ queue' = [queue EXCEPT ![d] = live \ {x}]
        /\ work' = [work EXCEPT ![t] = w]
        /\ gone' = gone \cup dead
    BY <1>9 DEF PopCommand, live, x, IdsOf
  <2>2. /\ DraftIds' = OtherDrafts(t) \cup DraftOf(w)
        /\ ReplyIds' = OtherReplies(t) \cup ReplyOf(w)
        /\ QueuedIds' = OtherQueued(d) \cup IdsOf(live \ {x})
    BY <1>1, <2>1, WorkChange, QueueChange
  <2>3. DraftOf(w) = {} /\ ReplyOf(w) = {x.id}
    BY DEF DraftOf, ReplyOf
  <2>4. /\ IdsOf(live \ {x}) = IdsOf(q) \ (dead \cup {x.id})
        /\ dead \subseteq IdsOf(q) /\ x.id \in IdsOf(q) /\ x.id \notin dead
    BY <1>2, <1>7, <1>9 DEF IdsOf
  <2>5. dead \in SUBSET Ids /\ {x.id} \in SUBSET Ids
    BY <1>6, <2>4
  <2> HIDE DEF w, dead
  <2>6. /\ dead \subseteq QueuedIds /\ {x.id} \subseteq QueuedIds
        /\ dead \cap {x.id} = {}
        /\ QueuedIds' = QueuedIds \ (dead \cup {x.id})
        /\ ReplyIds' = ReplyIds \cup {x.id} /\ DraftIds' = DraftIds
    BY <1>4, <1>5, <1>6, <2>2, <2>3, <2>4
  <2>7. QED
    BY <1>3, <2>1, <2>5, <2>6
<1>10. QED
  BY <1>8, <1>9

\* Both outcomes of a response.
LEMMA ResponseMoves ==
  ASSUME QueueInv, OneHolder, NEW t \in Threads,
         work[t].op \in {"reply", "empty"}, work' = [work EXCEPT ![t] = Idle]
  PROVE  /\ DraftIds' = DraftIds
         /\ ReplyIds' = ReplyIds \ ReplyOf(work[t])
         /\ ReplyOf(work[t]) \subseteq ReplyIds
         /\ ReplyOf(work[t]) \in SUBSET Ids
<1>1. work \in [Threads -> Work]
  BY DEF QueueInv, TypeOK
<1>2. /\ DraftIds' = OtherDrafts(t) \cup DraftOf(Idle)
      /\ ReplyIds' = OtherReplies(t) \cup ReplyOf(Idle)
      /\ DraftIds = OtherDrafts(t) \cup DraftOf(work[t])
      /\ ReplyIds = OtherReplies(t) \cup ReplyOf(work[t])
  BY <1>1, WorkChange, ThreadIds
<1>3. DraftOf(Idle) = {} /\ ReplyOf(Idle) = {} /\ DraftOf(work[t]) = {}
  BY DEF DraftOf, ReplyOf, Idle
<1>4. ReplyOf(work[t]) \cap OtherReplies(t) = {}
  BY Apart
<1>5. ReplyOf(work[t]) \subseteq Ids
  BY <1>1, WorkType DEF ReplyOf, Entry
<1>6. QED
  BY <1>2, <1>3, <1>4, <1>5

LEMMA ReplyMoves ==
  ASSUME QueueInv, OneHolder, NEW t \in Threads, Reply(t)
  PROVE  /\ ReplyIds' = ReplyIds \ ReplyOf(work[t])
         /\ ReplyOf(work[t]) \subseteq ReplyIds
         /\ ReceivedIds' = ReceivedIds \cup ReplyOf(work[t])
         /\ UNCHANGED <<sequence, DraftIds, QueuedIds, gone>>
<1> DEFINE d == work[t].dev
<1>1. work[t].op \in {"reply", "empty"} /\ work' = [work EXCEPT ![t] = Idle]
  BY DEF Reply
<1>2. d \in Devices /\ received \in [Devices -> SUBSET Entry]
  BY <1>1, WorkType DEF QueueInv, TypeOK
<1>3. UNCHANGED <<sequence, QueuedIds, gone>>
  BY DEF Reply, QueuedIds
<1>4. CASE work[t].op = "reply"
  <2>1. received' = [received EXCEPT ![d] = @ \cup {work[t].cmd}]
    BY <1>4 DEF Reply
  <2>2. received'[d] = received[d] \cup {work[t].cmd}
        /\ \A b \in Devices \ {d} : received'[b] = received[b]
    BY <1>2, <2>1
  <2>3. ReceivedIds' = ReceivedIds \cup {work[t].cmd.id}
    BY <1>2, <2>2 DEF ReceivedIds
  <2>4. QED
    BY <1>1, <1>3, <1>4, <2>3, ResponseMoves DEF ReplyOf
<1>5. CASE work[t].op = "empty"
  <2>1. ReceivedIds' = ReceivedIds /\ ReplyOf(work[t]) = {}
    BY <1>5 DEF Reply, ReceivedIds, ReplyOf
  <2>2. QED
    BY <1>1, <1>3, <2>1, ResponseMoves
<1>6. QED
  BY <1>1, <1>4, <1>5

LEMMA LostMoves ==
  ASSUME QueueInv, OneHolder, NEW t \in Threads, ReplyLost(t)
  PROVE  /\ ReplyIds' = ReplyIds \ ReplyOf(work[t])
         /\ ReplyOf(work[t]) \subseteq ReplyIds
         /\ gone' = gone \cup ReplyOf(work[t])
         /\ UNCHANGED <<sequence, DraftIds, QueuedIds, ReceivedIds>>
<1>1. work[t].op \in {"reply", "empty"} /\ work' = [work EXCEPT ![t] = Idle]
  BY DEF ReplyLost
<1>2. UNCHANGED <<sequence, QueuedIds, ReceivedIds>>
  BY DEF ReplyLost, QueuedIds, ReceivedIds
<1>3. gone' = gone \cup ReplyOf(work[t])
  BY DEF ReplyLost, ReplyOf
<1>4. QED
  BY <1>1, <1>2, <1>3, ResponseMoves

-----------------------------------------------------------------------------
(* Accounting *)

\* OneHolder survives: ids are made fresh, and they move between a thread and
\* a queue without a copy being left behind.
LEMMA OneHolderStep ==
  ASSUME QueueInv, Accounting, [Next]_vars
  PROVE  OneHolder'
<1> DEFINE Holders == {"enqueue", "reply"}
<1>0. OneHolder /\ work \in [Threads -> Work] /\ queue \in [Devices -> SUBSET Entry]
  BY DEF Accounting, QueueInv, TypeOK
<1>1. ASSUME NEW t \in Threads, NEW w, work' = [work EXCEPT ![t] = w],
             w.op \in Holders =>
               \A u \in Threads \ {t} : work[u].op \in Holders => work[u].cmd.id # w.cmd.id
      PROVE  \A v, u \in Threads :
               /\ work'[v].op \in Holders /\ work'[u].op \in Holders
               /\ work'[v].cmd.id = work'[u].cmd.id
               => v = u
  <2>1. work'[t] = w /\ \A u \in Threads \ {t} : work'[u] = work[u]
    BY <1>0, <1>1
  <2>2. QED
    BY <1>0, <1>1, <2>1 DEF OneHolder
<1>2. ASSUME NEW d \in Devices, NEW q, queue' = [queue EXCEPT ![d] = q],
             \A e, f \in q : e.id = f.id => e = f,
             IdsOf(q) \cap OtherQueued(d) = {}
      PROVE  \A b, c \in Devices : \A e \in queue'[b], f \in queue'[c] :
               e.id = f.id => b = c /\ e = f
  <2>1. queue'[d] = q /\ \A b \in Devices \ {d} : queue'[b] = queue[b]
    BY <1>0, <1>2
  <2>2. \A b \in Devices \ {d} : \A e \in q, f \in queue[b] : e.id # f.id
    BY <1>2 DEF IdsOf, OtherQueued
  <2>3. QED
    BY <1>0, <1>2, <2>1, <2>2 DEF OneHolder
<1>3. \A u \in Threads : work[u].op \in Holders => work[u].cmd.id \in DraftIds \cup ReplyIds
  BY DEF DraftIds, ReplyIds
<1>4. sequence \in Nat /\ DraftIds \cup QueuedIds \cup ReplyIds \subseteq 1..sequence
  BY QueueAssumption DEF Accounting, QueueInv, TypeOK
<1>5. ASSUME NEW t \in Threads, work' = [work EXCEPT ![t] = Idle]
      PROVE  \A v, u \in Threads :
               /\ work'[v].op \in Holders /\ work'[u].op \in Holders
               /\ work'[v].cmd.id = work'[u].cmd.id
               => v = u
  BY <1>1, <1>5 DEF Idle
<1>6. ASSUME NEW t \in Threads, NEW d \in Devices, NEW k \in Kinds,
             BeginEnqueue(t, d, k)
      PROVE  OneHolder'
  <2> DEFINE w == [op |-> "enqueue", dev |-> d,
                   cmd |-> [id |-> sequence + 1, kind |-> k, at |-> clock]]
  <2>1. work' = [work EXCEPT ![t] = w] /\ UNCHANGED queue
    BY <1>6 DEF BeginEnqueue
  <2>2. \A u \in Threads \ {t} : work[u].op \in Holders => work[u].cmd.id # w.cmd.id
    BY <1>3, <1>4
  <2> HIDE DEF w
  <2>3. \A v, u \in Threads :
               /\ work'[v].op \in Holders /\ work'[u].op \in Holders
               /\ work'[v].cmd.id = work'[u].cmd.id
               => v = u
    BY <1>1, <2>1, <2>2
  <2>4. QED
    BY <1>0, <2>1, <2>3 DEF OneHolder
<1>7. ASSUME NEW t \in Threads, CommitEnqueue(t)
      PROVE  OneHolder'
  <2> DEFINE d == work[t].dev
             c == work[t].cmd
             kept == {e \in queue[d] : ~Replaced(c.kind, e)}
             new == Queued(kept, c)
             after == Trim(Inserted(queue[d], c))
  <2>1. /\ work[t].op = "enqueue" /\ d \in Devices
        /\ work' = [work EXCEPT ![t] = Idle]
        /\ queue' = [queue EXCEPT ![d] = after]
    BY <1>7, WorkType DEF CommitEnqueue, QueueInv, TypeOK
  <2>2. after \subseteq queue[d] \cup {new} /\ new.id = c.id
    BY DEF Trim, Inserted, Queued
  <2>3. c.id \in DraftIds /\ c.id \notin QueuedIds
    BY <2>1 DEF Accounting, DraftIds
  <2>4. QueuedIds = OtherQueued(d) \cup IdsOf(queue[d])
        /\ IdsOf(queue[d]) \cap OtherQueued(d) = {}
    BY <1>0, <2>1, QueueIds, Apart
  <2> HIDE DEF new, after, kept
  <2>5. \A e \in queue[d] : e.id # c.id
    BY <2>3, <2>4 DEF IdsOf
  <2>6. \A e, f \in after : e.id = f.id => e = f
    BY <1>0, <2>1, <2>2, <2>5 DEF OneHolder
  <2>7. IdsOf(after) \cap OtherQueued(d) = {}
    BY <2>2, <2>3, <2>4 DEF IdsOf
  <2>8. QED
    BY <1>2, <1>5, <2>1, <2>6, <2>7 DEF OneHolder
<1>8. ASSUME NEW d \in Devices, ClearCommands(d)
      PROVE  OneHolder'
  <2>1. queue' = [queue EXCEPT ![d] = {}] /\ UNCHANGED work
    BY <1>8 DEF ClearCommands
  <2>2. IdsOf({}) = {}
    BY DEF IdsOf
  <2>3. QED
    BY <1>0, <1>2, <2>1, <2>2 DEF OneHolder
<1>9. ASSUME NEW t \in Threads, PopCommand(t)
      PROVE  OneHolder'
  <2> DEFINE d == work[t].dev
             live == Unexpired(queue[d])
             x == FrontOf(live)
             w == work'[t]
  <2>1. /\ work[t].op = "poll" /\ d \in Devices /\ GoodQueue(queue[d])
    BY <1>9, WorkType DEF PopCommand, QueueInv, TypeOK
  <2>2. live \subseteq queue[d] /\ (live # {} => x \in live)
    BY <2>1, PopGood
  <2>3. \E r : r \subseteq queue[d] /\ queue' = [queue EXCEPT ![d] = r]
    BY <1>9, <2>2 DEF PopCommand
  <2>4. /\ work' = [work EXCEPT ![t] = w]
        /\ w.op \in Holders => live # {} /\ w.cmd = x
    <3>1. CASE live = {}
      <4>1. work' = [work EXCEPT ![t] = [op |-> "empty", dev |-> d]]
        BY <1>9, <3>1 DEF PopCommand
      <4>2. QED
        BY <1>0, <4>1
    <3>2. CASE live # {}
      <4>1. work' = [work EXCEPT ![t] = [op |-> "reply", dev |-> d, cmd |-> x]]
        BY <1>9, <3>2 DEF PopCommand
      <4>2. QED
        BY <1>0, <3>2, <4>1
    <3>3. QED
      BY <3>1, <3>2
  <2> HIDE DEF w, x, live
  <2>5. PICK r : r \subseteq queue[d] /\ queue' = [queue EXCEPT ![d] = r]
    BY <2>3
  <2>6. /\ IdsOf(r) \subseteq IdsOf(queue[d])
        /\ IdsOf(queue[d]) \cap OtherQueued(d) = {}
        /\ QueuedIds = OtherQueued(d) \cup IdsOf(queue[d])
    BY <1>0, <2>1, <2>5, Apart, QueueIds DEF IdsOf
  <2>7. w.op \in Holders => w.cmd.id \in QueuedIds
    BY <2>2, <2>4, <2>6 DEF IdsOf
  <2>8. w.op \in Holders =>
          \A u \in Threads \ {t} : work[u].op \in Holders => work[u].cmd.id # w.cmd.id
    BY <1>3, <2>7 DEF Accounting
  <2>9. \A v, u \in Threads :
               /\ work'[v].op \in Holders /\ work'[u].op \in Holders
               /\ work'[v].cmd.id = work'[u].cmd.id
               => v = u
    BY <1>1, <2>4, <2>8
  <2>10. \A e, f \in r : e.id = f.id => e = f
    BY <1>0, <2>1, <2>5 DEF OneHolder
  <2>11. \A b, c \in Devices : \A e \in queue'[b], f \in queue'[c] :
               e.id = f.id => b = c /\ e = f
    <3>1. IdsOf(r) \cap OtherQueued(d) = {}
      BY <2>6
    <3>2. queue' = [queue EXCEPT ![d] = r]
      BY <2>5
    <3>3. QED
      BY <1>2, <2>1, <2>10, <3>1, <3>2
  <2>12. QED
    BY <2>9, <2>11 DEF OneHolder
<1>10. ASSUME NEW t \in Threads, Reply(t) \/ ReplyLost(t)
       PROVE  OneHolder'
  <2>1. work' = [work EXCEPT ![t] = Idle] /\ UNCHANGED queue
    BY <1>10 DEF Reply, ReplyLost
  <2>2. QED
    BY <1>0, <1>5, <2>1 DEF OneHolder
<1>11. ASSUME NEW d \in Devices, NEW t \in Threads, OpenPoll(d, t)
       PROVE  OneHolder'
  <2>1. work' = [work EXCEPT ![t] = [op |-> "poll", dev |-> d]] /\ UNCHANGED queue
    BY <1>11 DEF OpenPoll
  <2>2. \A v, u \in Threads :
               /\ work'[v].op \in Holders /\ work'[u].op \in Holders
               /\ work'[v].cmd.id = work'[u].cmd.id
               => v = u
    BY <1>1, <2>1
  <2>3. QED
    BY <1>0, <2>1, <2>2 DEF OneHolder
<1>12. ASSUME UNCHANGED <<queue, work>>
       PROVE  OneHolder'
  BY <1>0, <1>12 DEF OneHolder
<1>13. QED
  BY <1>6, <1>7, <1>8, <1>9, <1>10, <1>11, <1>12 DEF Next, vars, AbandonPoll, Tick

LEMMA AccountingInit == Init => Accounting
<1> SUFFICES ASSUME Init
             PROVE  Accounting
  OBVIOUS
<1>1. \A t \in Threads : work[t].op = "idle"
  BY DEF Init, Idle
<1>2. DraftIds = {} /\ ReplyIds = {}
  BY <1>1 DEF DraftIds, ReplyIds
<1>3. QueuedIds = {} /\ ReceivedIds = {}
  BY DEF Init, QueuedIds, ReceivedIds
<1>4. gone = {} /\ 1..sequence = {}
  BY DEF Init
<1>5. OneHolder
  BY <1>1 DEF OneHolder, Init
<1>6. QED
  BY <1>2, <1>3, <1>4, <1>5 DEF Accounting

\* The part of Accounting that speaks of the sets of ids.
Accounted ==
  /\ 1..sequence = DraftIds \cup QueuedIds \cup ReplyIds \cup ReceivedIds \cup gone
  /\ DraftIds \cap (QueuedIds \cup ReplyIds \cup ReceivedIds \cup gone) = {}
  /\ QueuedIds \cap (ReplyIds \cup ReceivedIds \cup gone) = {}
  /\ ReplyIds \cap (ReceivedIds \cup gone) = {}
  /\ ReceivedIds \cap gone = {}

LEMMA AccountedStep ==
  ASSUME QueueInv, OneHolder, Accounted, [Next]_vars
  PROVE  Accounted'
<1>0. sequence \in Nat
  BY QueueAssumption DEF QueueInv, TypeOK
<1>1. ASSUME NEW t \in Threads, NEW d \in Devices, NEW k \in Kinds,
             BeginEnqueue(t, d, k)
      PROVE  Accounted'
  <2>1. /\ sequence' = sequence + 1
        /\ DraftIds' = DraftIds \cup {sequence + 1}
        /\ UNCHANGED <<QueuedIds, ReplyIds, ReceivedIds, gone>>
    BY <1>1, BeginMoves
  <2>2. 1..sequence' = 1..sequence \cup {sequence + 1} /\ sequence + 1 \notin 1..sequence
    BY <1>0, <2>1
  <2>3. QED
    BY <2>1, <2>2 DEF Accounted
<1>2. ASSUME NEW t \in Threads, CommitEnqueue(t)
      PROVE  Accounted'
  <2>1. PICK c \in Ids, old, new \in SUBSET Ids :
           /\ c \in DraftIds /\ old \subseteq QueuedIds
           /\ new \subseteq old \cup {c}
           /\ DraftIds' = DraftIds \ {c}
           /\ QueuedIds' = (QueuedIds \ old) \cup new
           /\ gone' = gone \cup ((old \cup {c}) \ new)
           /\ UNCHANGED <<sequence, ReplyIds, ReceivedIds>>
    BY <1>2, CommitMoves
  <2>2. QED
    BY <2>1 DEF Accounted
<1>3. ASSUME NEW d \in Devices, ClearCommands(d)
      PROVE  Accounted'
  <2>1. PICK old \in SUBSET Ids :
           /\ old \subseteq QueuedIds
           /\ QueuedIds' = QueuedIds \ old
           /\ gone' = gone \cup old
           /\ UNCHANGED <<sequence, DraftIds, ReplyIds, ReceivedIds>>
    BY <1>3, ClearMoves
  <2>2. QED
    BY <2>1 DEF Accounted
<1>4. ASSUME NEW t \in Threads, PopCommand(t)
      PROVE  Accounted'
  <2>1. PICK dead, out \in SUBSET Ids :
           /\ dead \subseteq QueuedIds /\ out \subseteq QueuedIds
           /\ dead \cap out = {}
           /\ QueuedIds' = QueuedIds \ (dead \cup out)
           /\ ReplyIds' = ReplyIds \cup out
           /\ gone' = gone \cup dead
           /\ UNCHANGED <<sequence, DraftIds, ReceivedIds>>
    BY <1>4, PopMoves
  <2>2. QED
    BY <2>1 DEF Accounted
<1>5. ASSUME NEW t \in Threads, Reply(t)
      PROVE  Accounted'
  BY <1>5, ReplyMoves DEF Accounted
<1>6. ASSUME NEW t \in Threads, ReplyLost(t)
      PROVE  Accounted'
  BY <1>6, LostMoves DEF Accounted
<1>7. ASSUME NEW t \in Threads, NEW d \in Devices, OpenPoll(d, t)
      PROVE  Accounted'
  <2> DEFINE w == [op |-> "poll", dev |-> d]
  <2>1. /\ work[t] = Idle /\ work' = [work EXCEPT ![t] = w]
        /\ work \in [Threads -> Work]
        /\ UNCHANGED <<sequence, QueuedIds, ReceivedIds, gone>>
    BY <1>7 DEF OpenPoll, QueueInv, TypeOK, QueuedIds, ReceivedIds
  <2>2. /\ DraftIds' = OtherDrafts(t) \cup DraftOf(w)
        /\ ReplyIds' = OtherReplies(t) \cup ReplyOf(w)
        /\ DraftIds = OtherDrafts(t) \cup DraftOf(Idle)
        /\ ReplyIds = OtherReplies(t) \cup ReplyOf(Idle)
    BY <2>1, WorkChange, ThreadIds
  <2>3. DraftOf(w) = DraftOf(Idle) /\ ReplyOf(w) = ReplyOf(Idle)
    BY DEF DraftOf, ReplyOf, Idle
  <2>4. UNCHANGED <<DraftIds, ReplyIds>>
    BY <2>2, <2>3
  <2>5. QED
    BY <2>1, <2>4 DEF Accounted
<1>8. ASSUME UNCHANGED <<sequence, queue, work, received, gone>>
      PROVE  Accounted'
  <2>1. UNCHANGED <<DraftIds, QueuedIds, ReplyIds, ReceivedIds>>
    BY <1>8 DEF DraftIds, QueuedIds, ReplyIds, ReceivedIds
  <2>2. QED
    BY <1>8, <2>1 DEF Accounted
<1>9. ASSUME (\E d \in Devices : AbandonPoll(d)) \/ Tick \/ UNCHANGED vars
      PROVE  Accounted'
  <2>1. UNCHANGED <<sequence, queue, work, received, gone>>
    BY <1>9 DEF AbandonPoll, Tick, vars
  <2>2. QED
    BY <1>8, <2>1
<1>10. CASE Next
  BY <1>1, <1>2, <1>3, <1>4, <1>5, <1>6, <1>7, <1>9, <1>10, Zenon DEF Next
<1>11. QED
  BY <1>9, <1>10

\* Every id that was handed out is in exactly one place, whatever threads do
\* between the halves of an enqueue or between pop and response.
THEOREM AllAccounted == Spec => []Accounting
<1>1. Init => QueueInv /\ Accounting
  BY QueueInvInit, AccountingInit
<1>2. (QueueInv /\ Accounting) /\ [Next]_vars => (QueueInv /\ Accounting)'
  <2>1. ASSUME QueueInv, Accounting, [Next]_vars
        PROVE  Accounting'
    <3>1. OneHolder /\ Accounted
      BY <2>1 DEF Accounting, Accounted
    <3>2. OneHolder' /\ Accounted'
      BY <2>1, <3>1, OneHolderStep, AccountedStep
    <3>3. QED
      BY <3>2 DEF Accounting, Accounted
  <2>2. QED
    BY <2>1, QueueInvStep
<1>3. QED
  BY <1>1, <1>2, PTL DEF Spec

-----------------------------------------------------------------------------
(* Why a command leaves its queue *)

\* What one Enqueue makes of a queue: the entries of another class and the new
\* one, or, when that is one too many, all of the old ones, since none was
\* replaced, but for the one in front.  The front is the new entry only when
\* that is urgent.
LEMMA EnqueueShape ==
  ASSUME NEW q, GoodQueue(q), NEW c \in Draft, commits \in Nat
  PROVE  \E new \in Entry :
           /\ new.id = c.id /\ new.kind = c.kind /\ new.nth = commits + 1
           /\ \/ Trim(Inserted(q, c)) = {e \in q : ~Replaced(c.kind, e)} \cup {new}
              \/ /\ Cardinality(q) = MaxCommandsPerDevice
                 /\ Trim(Inserted(q, c)) \subseteq q \cup {new}
                 /\ ~Urgent(c.kind) => new \in Trim(Inserted(q, c))
<1> USE QueueAssumption
<1> DEFINE kept == {e \in q : ~Replaced(c.kind, e)}
           new == Queued(kept, c)
           all == kept \cup {new}
<1>1. GoodQueue(kept) /\ kept \subseteq q
  BY SubQueue
<1>2. IsFiniteSet(kept) /\ \A e \in kept : e.place \in Int
  BY <1>1 DEF GoodQueue, Entry
<1>3. new.place \in Int /\ (~Urgent(c.kind) => \A e \in kept : e.place < new.place)
  BY <1>2, QueuedPlace
<1>4. new \in Entry /\ new.id = c.id /\ new.kind = c.kind /\ new.nth = commits + 1
  BY <1>3 DEF Queued, Entry, Draft
<1>5. Inserted(q, c) = all
  BY DEF Inserted
<1> HIDE DEF new, kept
<1>6. /\ Cardinality(all) \in {Cardinality(kept), Cardinality(kept) + 1}
      /\ IsFiniteSet(all)
  BY <1>2, FS_AddElement
<1>7. /\ Cardinality(kept) <= Cardinality(q) /\ Cardinality(q) <= MaxCommandsPerDevice
      /\ Cardinality(kept) \in Nat /\ Cardinality(q) \in Nat
  BY <1>1, FS_Subset, FS_CardinalityType DEF GoodQueue
<1>8. CASE ~(Cardinality(all) > MaxCommandsPerDevice)
  <2>1. Trim(all) = all
    BY <1>8 DEF Trim
  <2> QED
    BY <1>4, <1>5, <2>1 DEF kept
<1>9. CASE Cardinality(all) > MaxCommandsPerDevice
  <2>1. /\ Cardinality(q) = MaxCommandsPerDevice
        /\ Cardinality(kept) = MaxCommandsPerDevice
    BY <1>6, <1>7, <1>9
  <2>2. Trim(all) = all \ {FrontOf(all)}
    BY <1>9 DEF Trim
  <2>3. IsFront(FrontOf(all), all)
    BY <1>2, <1>3, <1>6, Ends
  <2>4. kept # {}
    BY <2>1, FS_EmptySet
  <2>5. ~Urgent(c.kind) => new # FrontOf(all)
    <3>1. PICK e \in kept : e.place \in Int
      BY <1>2, <2>4
    <3>2. FrontOf(all).place <= e.place
      BY <2>3 DEF IsFront
    <3> QED
      BY <1>3, <3>1, <3>2
  <2> QED
    BY <1>1, <1>4, <1>5, <2>1, <2>2, <2>5
<1> QED
  BY <1>8, <1>9

\* The same, for the step that commits.
LEMMA CommitShape ==
  ASSUME QueueInv, NEW t \in Threads, CommitEnqueue(t)
  PROVE  LET d == work[t].dev
             c == work[t].cmd
         IN  /\ work[t].op = "enqueue" /\ d \in Devices /\ c \in Draft
             /\ \A b \in Devices : b # d => queue'[b] = queue[b]
             /\ \A e \in queue[d] : e.nth \in Nat /\ e.nth <= commits
             /\ commits \in Nat /\ commits' = commits + 1
             /\ \E new \in Entry :
                  /\ new.id = c.id /\ new.kind = c.kind /\ new.nth = commits + 1
                  /\ queue'[d] \subseteq queue[d] \cup {new}
                  /\ \/ queue'[d] = {e \in queue[d] : ~Replaced(c.kind, e)} \cup {new}
                     \/ /\ Cardinality(queue[d]) = MaxCommandsPerDevice
                        /\ ~Urgent(c.kind) => new \in queue'[d]
<1> DEFINE d == work[t].dev
           c == work[t].cmd
<1>1. work[t].op = "enqueue" /\ d \in Devices /\ c \in Draft
  BY WorkType DEF CommitEnqueue, QueueInv, TypeOK
<1>2. /\ queue'[d] = Trim(Inserted(queue[d], c))
      /\ \A b \in Devices : b # d => queue'[b] = queue[b]
      /\ commits \in Nat /\ commits' = commits + 1
  BY <1>1 DEF CommitEnqueue, QueueInv, TypeOK
<1>3. GoodQueue(queue[d]) /\ \A e \in queue[d] : e.nth \in Nat /\ e.nth <= commits
  BY <1>1 DEF QueueInv, GoodQueue, Entry
<1>4. PICK new \in Entry :
        /\ new.id = c.id /\ new.kind = c.kind /\ new.nth = commits + 1
        /\ \/ queue'[d] = {e \in queue[d] : ~Replaced(c.kind, e)} \cup {new}
           \/ /\ Cardinality(queue[d]) = MaxCommandsPerDevice
              /\ queue'[d] \subseteq queue[d] \cup {new}
              /\ ~Urgent(c.kind) => new \in queue'[d]
  BY <1>1, <1>2, <1>3, EnqueueShape
<1> HIDE DEF d, c
<1>5. queue'[d] \subseteq queue[d] \cup {new}
  BY <1>4
<1> QED
  BY <1>1, <1>2, <1>3, <1>4, <1>5 DEF d, c

\* The queue one PopCommandJson leaves and the answer it is to send.
LEMMA PopShape ==
  ASSUME QueueInv, NEW t \in Threads, PopCommand(t)
  PROVE  LET d == work[t].dev
             live == Unexpired(queue[d])
         IN  /\ work[t].op = "poll" /\ d \in Devices
             /\ GoodQueue(queue[d]) /\ live \subseteq queue[d]
             /\ queue'[d] \subseteq live
             /\ \A b \in Devices : b # d => queue'[b] = queue[b]
             /\ \A u \in Threads : u # t => work'[u] = work[u]
             /\ IF live = {}
                THEN work'[t] = [op |-> "empty", dev |-> d]
                ELSE /\ work'[t] = [op |-> "reply", dev |-> d, cmd |-> FrontOf(live)]
                     /\ queue'[d] = live \ {FrontOf(live)}
                     /\ IsFront(FrontOf(live), live) /\ ~Expired(FrontOf(live))
             /\ gone' = gone \cup IdsOf(queue[d] \ live)
<1> DEFINE d == work[t].dev
           live == Unexpired(queue[d])
           x == FrontOf(live)
<1>1. work[t].op = "poll" /\ d \in Devices /\ GoodQueue(queue[d])
  BY WorkType DEF PopCommand, QueueInv, TypeOK
<1>2. live \subseteq queue[d] /\ (live # {} => ~Expired(x))
  BY <1>1, PopGood
<1>3. IsFiniteSet(live) /\ \A e \in live : e.place \in Int
  BY <1>1, <1>2, FS_Subset DEF GoodQueue, Entry
<1>4. live # {} => IsFront(x, live)
  BY <1>3, Ends
<1>5. work \in [Threads -> Work] /\ queue \in [Devices -> SUBSET Entry]
  BY DEF QueueInv, TypeOK
<1>6. CASE live = {}
  <2>1. /\ queue' = [queue EXCEPT ![d] = {}]
        /\ work' = [work EXCEPT ![t] = [op |-> "empty", dev |-> d]]
        /\ gone' = gone \cup {e.id : e \in queue[d]}
    BY <1>6 DEF PopCommand
  <2>2. queue[d] \ live = queue[d]
    BY <1>6
  <2> HIDE DEF live
  <2>3. QED
    BY <1>1, <1>2, <1>5, <1>6, <2>1, <2>2 DEF IdsOf, live
<1>7. CASE live # {}
  <2>1. /\ queue' = [queue EXCEPT ![d] = live \ {x}]
        /\ work' = [work EXCEPT ![t] = [op |-> "reply", dev |-> d, cmd |-> x]]
        /\ gone' = gone \cup {e.id : e \in queue[d] \ live}
    BY <1>7 DEF PopCommand
  <2> HIDE DEF live
  <2>2. QED
    BY <1>1, <1>2, <1>4, <1>5, <1>7, <2>1 DEF IdsOf, live
<1> QED
  BY <1>6, <1>7

\* Threads whose work a step other than a pop or a commit changes end idle or
\* start an enqueue or a poll.
LEMMA OtherWork ==
  ASSUME QueueInv, [Next]_vars, NEW t \in Threads, work'[t] # work[t]
  PROVE  \/ CommitEnqueue(t) \/ PopCommand(t)
         \/ work[t] = Idle /\ work'[t].op \in {"enqueue", "poll"}
         \/ work[t].op \in {"reply", "empty"} /\ work'[t] = Idle
<1>1. work \in [Threads -> Work]
  BY DEF QueueInv, TypeOK
<1>2. ASSUME NEW u \in Threads, NEW d \in Devices, NEW k \in Kinds,
             BeginEnqueue(u, d, k)
      PROVE  work[t] = Idle /\ work'[t].op \in {"enqueue", "poll"}
  BY <1>1, <1>2 DEF BeginEnqueue
<1>3. ASSUME NEW u \in Threads, CommitEnqueue(u)
      PROVE  CommitEnqueue(t)
  BY <1>1, <1>3 DEF CommitEnqueue
<1>4. ASSUME NEW u \in Threads, PopCommand(u)
      PROVE  PopCommand(t)
  BY <1>1, <1>4, PopShape, Zenon
<1>5. ASSUME NEW u \in Threads, NEW d \in Devices, OpenPoll(d, u)
      PROVE  work[t] = Idle /\ work'[t].op \in {"enqueue", "poll"}
  BY <1>1, <1>5 DEF OpenPoll
<1>6. ASSUME NEW u \in Threads, Reply(u) \/ ReplyLost(u)
      PROVE  work[t].op \in {"reply", "empty"} /\ work'[t] = Idle
  BY <1>1, <1>6 DEF Reply, ReplyLost
<1>7. ~UNCHANGED work
  OBVIOUS
<1>8. QED
  BY <1>2, <1>3, <1>4, <1>5, <1>6, <1>7
     DEF Next, vars, ClearCommands, AbandonPoll, Tick

\* A command that leaves its queue for a response is within its time to live
\* at that moment, for every time to live and whatever is queued before it.
THEOREM FreshOnly == Spec => NoStalePop
<1> DEFINE Fresh == \A t \in Threads :
        work[t].op = "poll" /\ work'[t].op = "reply" => ~Expired(work'[t].cmd)
<1>1. ASSUME QueueInv, [Next]_vars, NEW t \in Threads,
             work[t].op = "poll", work'[t].op = "reply"
      PROVE  ~Expired(work'[t].cmd)
  <2>1. PopCommand(t)
    BY <1>1, OtherWork DEF CommitEnqueue, Idle
  <2> DEFINE d == work[t].dev
             live == Unexpired(queue[d])
  <2>2. IF live = {}
        THEN work'[t] = [op |-> "empty", dev |-> d]
        ELSE /\ work'[t] = [op |-> "reply", dev |-> d, cmd |-> FrontOf(live)]
             /\ ~Expired(FrontOf(live))
    BY <1>1, <2>1, PopShape
  <2> HIDE DEF live
  <2>3. QED
    BY <1>1, <2>2
<1>2. QueueInv /\ [Next]_vars => [Fresh]_vars
  BY <1>1
<1>3. QED
  BY <1>2, QueueInvariant, PTL DEF Spec, NoStalePop

\* When Enqueue returns the id of an ordinary command, the command is queued:
\* overflow costs the oldest one, for every limit from one up.
THEOREM NewestIsQueued == Spec => PlainCommandIsQueued
<1> DEFINE Kept == \A t \in Threads :
        work[t].op = "enqueue" /\ work'[t] = Idle /\ ~Urgent(work[t].cmd.kind)
          => \E e \in queue'[work[t].dev] : e.id = work[t].cmd.id
<1>1. ASSUME QueueInv, [Next]_vars, NEW t \in Threads,
             work[t].op = "enqueue", work'[t] = Idle, ~Urgent(work[t].cmd.kind)
      PROVE  \E e \in queue'[work[t].dev] : e.id = work[t].cmd.id
  <2>1. CommitEnqueue(t)
    BY <1>1, OtherWork DEF PopCommand, Idle
  <2>2. \E new \in queue'[work[t].dev] : new.id = work[t].cmd.id
    BY <1>1, <2>1, CommitShape
  <2>3. QED
    BY <2>2
<1>2. QueueInv /\ [Next]_vars => [Kept]_vars
  BY <1>1
<1>3. QED
  BY <1>2, QueueInvariant, PTL DEF Spec, PlainCommandIsQueued

\* A queued command is given up only when it is replaced or too old, when its
\* queue is full or when the app clears it: never for a command of another
\* device or class, whatever the interleaving.
THEOREM LossExplained == Spec => LossHasReason
<1> DEFINE Reason(d, e) ==
             \/ queue'[d] = {} /\ UNCHANGED commits
             \/ Expired(e)
             \/ Cardinality(queue[d]) = MaxCommandsPerDevice
             \/ \E f \in queue'[d] : f.nth = commits' /\ Replaced(f.kind, e)
           Explained == \A d \in Devices : \A e \in queue[d] :
                          e.id \in gone' => Reason(d, e)
<1>1. ASSUME QueueInv, Accounting, [Next]_vars, NEW d \in Devices,
             NEW e \in queue[d], e.id \in gone'
      PROVE  Reason(d, e)
  <2>1. e.id \in QueuedIds /\ e.id \notin gone /\ e.id \notin DraftIds
        /\ e.id \notin ReplyIds
    <3>1. e.id \in QueuedIds
      BY DEF QueuedIds
    <3> QED
      BY <1>1, <3>1 DEF Accounting
  <2>2. OneHolder /\ GoodQueue(queue[d])
    BY <1>1 DEF Accounting, QueueInv
  <2>3. ASSUME NEW t \in Threads, CommitEnqueue(t)
        PROVE  Reason(d, e)
    <3> DEFINE b == work[t].dev
               c == work[t].cmd
    <3>1. /\ b \in Devices /\ work[t].op = "enqueue"
          /\ commits' = commits + 1
      BY <1>1, <2>3, CommitShape
    <3>2. PICK new \in Entry :
            /\ new.kind = c.kind /\ new.nth = commits + 1
            /\ \/ queue'[b] = {f \in queue[b] : ~Replaced(c.kind, f)} \cup {new}
               \/ Cardinality(queue[b]) = MaxCommandsPerDevice
      BY <1>1, <2>3, CommitShape
    <3>3. /\ e.id \in {f.id : f \in queue[b]} \cup {c.id}
          /\ e.id \notin {f.id : f \in queue'[b]}
      <4>1. queue'[b] = Trim(Inserted(queue[b], c))
        BY <1>1, <2>3, <3>1 DEF CommitEnqueue, QueueInv, TypeOK
      <4>2. e.id \in ({f.id : f \in queue[b]} \cup {c.id}) \ {f.id : f \in queue'[b]}
        BY <1>1, <2>1, <2>3, <4>1 DEF CommitEnqueue
      <4> QED
        BY <4>2
    <3>4. c.id \in DraftIds
      BY <3>1 DEF DraftIds
    <3>5. b = d
      <4>1. PICK f \in queue[b] : e.id = f.id
        BY <2>1, <3>3, <3>4
      <4> QED
        BY <2>2, <3>1, <4>1 DEF OneHolder
    <3>6. e \notin queue'[d]
      BY <3>3, <3>5
    <3>7. CASE queue'[b] = {f \in queue[b] : ~Replaced(c.kind, f)} \cup {new}
      <4>1. Replaced(new.kind, e) /\ new \in queue'[d]
        BY <3>2, <3>5, <3>6, <3>7
      <4> QED
        BY <3>1, <3>2, <4>1
    <3>8. CASE Cardinality(queue[b]) = MaxCommandsPerDevice
      BY <3>5, <3>8
    <3> QED
      BY <3>2, <3>7, <3>8
  <2>4. ASSUME NEW b \in Devices, ClearCommands(b)
        PROVE  Reason(d, e)
    <3>1. PICK f \in queue[b] : e.id = f.id
      BY <1>1, <2>1, <2>4 DEF ClearCommands
    <3>2. b = d
      BY <2>2, <3>1 DEF OneHolder
    <3>3. queue'[d] = {} /\ UNCHANGED commits
      BY <1>1, <2>4, <3>2 DEF ClearCommands, QueueInv, TypeOK
    <3> QED
      BY <3>3
  <2>5. ASSUME NEW t \in Threads, PopCommand(t)
        PROVE  Reason(d, e)
    <3> DEFINE b == work[t].dev
               live == Unexpired(queue[b])
    <3>1. b \in Devices /\ gone' = gone \cup IdsOf(queue[b] \ live)
      BY <1>1, <2>5, PopShape
    <3>2. PICK f \in queue[b] \ live : e.id = f.id
      BY <1>1, <2>1, <3>1 DEF IdsOf
    <3>3. b = d /\ e = f
      BY <2>2, <3>1, <3>2 DEF OneHolder
    <3>4. Expired(e)
      <4> DEFINE fresh == {g \in queue[d] : ~Expired(g)}
      <4>1. SUFFICES ASSUME e \in fresh
                     PROVE  FALSE
        OBVIOUS
      <4>2. IsFiniteSet(fresh) /\ \A g \in fresh : g.place \in Int
        BY <2>2, FS_Subset DEF GoodQueue, Entry
      <4>3. PICK g \in fresh : IsFront(g, fresh)
        BY <4>1, <4>2, HasFront
      <4>4. g.place <= e.place
        BY <4>1, <4>3 DEF IsFront
      <4>5. e \in Unexpired(queue[d])
        BY <4>3, <4>4 DEF Unexpired
      <4> QED
        BY <3>2, <3>3, <4>5
    <3> QED
      BY <3>4
  <2>6. ASSUME NEW t \in Threads, ReplyLost(t)
        PROVE  FALSE
    <3>1. work[t].op = "reply" /\ e.id = work[t].cmd.id
      BY <1>1, <2>1, <2>6 DEF ReplyLost
    <3> QED
      BY <2>1, <3>1 DEF ReplyIds
  <2>7. ASSUME gone' = gone
        PROVE  FALSE
    BY <1>1, <2>1, <2>7
  <2> HIDE DEF Reason
  <2>8. QED
    BY <1>1, <2>3, <2>4, <2>5, <2>6, <2>7
       DEF Next, vars, BeginEnqueue, OpenPoll, AbandonPoll, Reply, Tick
<1>2. QueueInv /\ Accounting /\ [Next]_vars => [Explained]_vars
  BY <1>1
<1>3. QED
  BY <1>2, QueueInvariant, AllAccounted, PTL DEF Spec, LossHasReason

-----------------------------------------------------------------------------
(* The order of delivery *)

\* Both are ordinary commands.
Plain(e, f) == ~Urgent(e.kind) /\ ~Urgent(f.kind)

\* The inductive form of DeliveredInOrder.  Of the ordinary commands of a
\* device, what it has received is older than what is queued, and so is what a
\* thread has popped for it; and the answer on the one connection on which the
\* device waits is newer than all that it has received.  An answer on a
\* connection the device gave up may be older, and is never received.
Ordered ==
  /\ \A d \in Devices :
       /\ \A e \in queue[d], f \in received[d] : Plain(e, f) => f.nth < e.nth
       /\ \A f \in received[d] : f.nth <= commits
       /\ \A e, f \in queue[d] : e.nth = f.nth => e = f
  /\ \A t \in Threads : work[t].op = "reply" =>
       /\ work[t].cmd.nth <= commits
       /\ \A e \in queue[work[t].dev] :
            Plain(work[t].cmd, e) => work[t].cmd.nth < e.nth
       /\ waiting[work[t].dev] = t =>
            \A f \in received[work[t].dev] :
              Plain(work[t].cmd, f) => f.nth < work[t].cmd.nth

LEMMA OrderedInit == Init => Ordered
BY DEF Init, Ordered, Idle

\* Steps that change no answer and only shrink queues keep the order.
LEMMA OrderedShrinks ==
  ASSUME Ordered, UNCHANGED <<commits, received>>,
         \A d \in Devices : queue'[d] \subseteq queue[d],
         \A t \in Threads : work'[t].op = "reply" =>
            /\ work[t] = work'[t] /\ work[t].dev \in Devices
            /\ waiting'[work[t].dev] = t => waiting[work[t].dev] = t
  PROVE  Ordered'
<1>1. ASSUME NEW d \in Devices
      PROVE  (/\ \A e \in queue[d], f \in received[d] : Plain(e, f) => f.nth < e.nth
              /\ \A f \in received[d] : f.nth <= commits
              /\ \A e, f \in queue[d] : e.nth = f.nth => e = f)'
  BY DEF Ordered, Plain
<1>2. ASSUME NEW t \in Threads, work'[t].op = "reply"
      PROVE  (/\ work[t].cmd.nth <= commits
              /\ \A e \in queue[work[t].dev] :
                   Plain(work[t].cmd, e) => work[t].cmd.nth < e.nth
              /\ waiting[work[t].dev] = t =>
                   \A f \in received[work[t].dev] :
                     Plain(work[t].cmd, f) => f.nth < work[t].cmd.nth)'
  BY <1>2 DEF Ordered, Plain
<1> QED
  BY <1>1, <1>2 DEF Ordered

LEMMA OrderedStep ==
  ASSUME QueueInv, Ordered, [Next]_vars
  PROVE  Ordered'
<1> USE DEF Plain
<1>0. /\ work \in [Threads -> Work] /\ queue \in [Devices -> SUBSET Entry]
      /\ received \in [Devices -> SUBSET Entry] /\ commits \in Nat
      /\ waiting \in [Devices -> Threads \cup {None}] /\ None \notin Threads
  BY QueueAssumption DEF QueueInv, TypeOK
<1>1. \A t \in Threads : work[t].op = "reply" =>
         work[t].dev \in Devices /\ work[t].cmd \in Entry
  BY <1>0, WorkType
<1>2. ASSUME NEW t \in Threads, NEW d \in Devices, NEW k \in Kinds,
             BeginEnqueue(t, d, k)
      PROVE  Ordered'
  BY <1>0, <1>1, <1>2, OrderedShrinks DEF BeginEnqueue
<1>3. ASSUME NEW t \in Threads, CommitEnqueue(t)
      PROVE  Ordered'
  <2> DEFINE d == work[t].dev
  <2>1. /\ d \in Devices /\ commits' = commits + 1
        /\ \A b \in Devices : b # d => queue'[b] = queue[b]
        /\ \A e \in queue[d] : e.nth \in Nat /\ e.nth <= commits
    BY <1>3, CommitShape
  <2>2. PICK new \in Entry : new.nth = commits + 1 /\ queue'[d] \subseteq queue[d] \cup {new}
    BY <1>3, CommitShape
  <2>3. UNCHANGED <<received, waiting>> /\ work' = [work EXCEPT ![t] = Idle]
    BY <1>3 DEF CommitEnqueue
  <2> HIDE DEF d
  <2>4. ASSUME NEW b \in Devices
        PROVE  (/\ \A e \in queue[b], f \in received[b] : Plain(e, f) => f.nth < e.nth
                /\ \A f \in received[b] : f.nth <= commits
                /\ \A e, f \in queue[b] : e.nth = f.nth => e = f)'
    <3>1. \A f \in received[b] : f.nth \in Nat
      BY <1>0 DEF Entry
    <3>2. CASE b # d
      BY <1>0, <2>1, <2>3, <3>1, <3>2 DEF Ordered
    <3>3. CASE b = d
      BY <1>0, <2>1, <2>2, <2>3, <3>1, <3>3 DEF Ordered
    <3> QED
      BY <3>2, <3>3
  <2>5. ASSUME NEW u \in Threads, work'[u].op = "reply"
        PROVE  (/\ work[u].cmd.nth <= commits
                /\ \A e \in queue[work[u].dev] :
                     Plain(work[u].cmd, e) => work[u].cmd.nth < e.nth
                /\ waiting[work[u].dev] = u =>
                     \A f \in received[work[u].dev] :
                       Plain(work[u].cmd, f) => f.nth < work[u].cmd.nth)'
    <3>1. work'[u] = work[u] /\ u # t
      BY <1>0, <2>3, <2>5 DEF Idle
    <3>2. work[u].cmd.nth \in Nat /\ work[u].cmd.nth <= commits /\ work[u].dev \in Devices
      BY <1>1, <2>5, <3>1 DEF Ordered, Entry
    <3>3. \A e \in queue'[work[u].dev] :
             e \in queue[work[u].dev] \/ e.nth = commits + 1
      BY <2>1, <2>2, <3>2
    <3> QED
      BY <1>0, <2>1, <2>3, <2>5, <3>1, <3>2, <3>3 DEF Ordered
  <2> QED
    BY <2>4, <2>5 DEF Ordered
<1>4. ASSUME NEW d \in Devices, ClearCommands(d)
      PROVE  Ordered'
  BY <1>0, <1>1, <1>4, OrderedShrinks DEF ClearCommands
<1>5. ASSUME NEW t \in Threads, NEW d \in Devices, OpenPoll(d, t)
      PROVE  Ordered'
  <2>1. \A u \in Threads : work'[u].op = "reply" =>
           work'[u] = work[u] /\ u # t
    BY <1>0, <1>5 DEF OpenPoll
  <2>2. \A b \in Devices : \A u \in Threads :
           u # t /\ waiting'[b] = u => waiting[b] = u
    BY <1>0, <1>5 DEF OpenPoll
  <2>3. UNCHANGED <<commits, received, queue>>
    BY <1>5 DEF OpenPoll
  <2> QED
    BY <1>1, <2>1, <2>2, <2>3, OrderedShrinks
<1>6. ASSUME NEW d \in Devices, AbandonPoll(d)
      PROVE  Ordered'
  <2>1. \A b \in Devices : \A u \in Threads : waiting'[b] = u => waiting[b] = u
    BY <1>0, <1>6 DEF AbandonPoll
  <2>2. UNCHANGED <<commits, received, queue, work>>
    BY <1>6 DEF AbandonPoll
  <2> QED
    BY <1>1, <2>1, <2>2, OrderedShrinks
<1>7. ASSUME NEW t \in Threads, PopCommand(t)
      PROVE  Ordered'
  <2> DEFINE d == work[t].dev
             live == Unexpired(queue[d])
             x == FrontOf(live)
  <2>1. /\ work[t].op = "poll" /\ d \in Devices /\ GoodQueue(queue[d])
        /\ live \subseteq queue[d] /\ queue'[d] \subseteq live
        /\ \A b \in Devices : b # d => queue'[b] = queue[b]
        /\ \A u \in Threads : u # t => work'[u] = work[u]
    BY <1>7, PopShape
  <2>2. IF live = {}
        THEN work'[t] = [op |-> "empty", dev |-> d]
        ELSE /\ work'[t] = [op |-> "reply", dev |-> d, cmd |-> x]
             /\ queue'[d] = live \ {x} /\ IsFront(x, live)
    BY <1>7, PopShape
  <2>3. UNCHANGED <<commits, received, waiting>>
    BY <1>7 DEF PopCommand
  <2>4. \A b \in Devices : queue'[b] \subseteq queue[b]
    BY <2>1
  <2> HIDE DEF live, x, d
  <2>5. CASE live = {}
    <3>1. work'[t].op # "reply"
      BY <2>2, <2>5
    <3> QED
      BY <1>1, <2>1, <2>3, <2>4, <3>1, OrderedShrinks
  <2>6. CASE live # {}
    <3>1. /\ work'[t] = [op |-> "reply", dev |-> d, cmd |-> x]
          /\ queue'[d] = live \ {x} /\ IsFront(x, live) /\ x \in queue[d]
      BY <2>1, <2>2, <2>6 DEF IsFront
    <3>2. x.nth \in Nat /\ x.nth <= commits /\ x.place \in Int
      BY <1>0, <2>1, <3>1 DEF QueueInv, Entry
    <3>3. \A e \in queue'[d] : Plain(x, e) => x.nth < e.nth
      <4>1. ASSUME NEW e \in live, e # x, Plain(x, e)
            PROVE  x.nth < e.nth
        <5>1. e \in queue[d] /\ e.nth \in Nat /\ e.place \in Int /\ x.place <= e.place
          BY <1>0, <2>1, <3>1 DEF IsFront, Entry
        <5>2. e.nth # x.nth
          BY <2>1, <3>1, <4>1, <5>1 DEF Ordered
        <5>3. e.nth < x.nth => e.place < x.place
          BY <2>1, <3>1, <4>1, <5>1 DEF GoodQueue
        <5> QED
          BY <3>2, <5>1, <5>2, <5>3
      <4> QED
        BY <3>1, <4>1
    <3>4. \A f \in received[d] : Plain(x, f) => f.nth < x.nth
      BY <2>1, <3>1 DEF Ordered
    <3>5. ASSUME NEW b \in Devices
          PROVE  (/\ \A e \in queue[b], f \in received[b] : Plain(e, f) => f.nth < e.nth
                  /\ \A f \in received[b] : f.nth <= commits
                  /\ \A e, f \in queue[b] : e.nth = f.nth => e = f)'
      BY <2>3, <2>4 DEF Ordered
    <3>6. ASSUME NEW u \in Threads, work'[u].op = "reply"
          PROVE  (/\ work[u].cmd.nth <= commits
                  /\ \A e \in queue[work[u].dev] :
                       Plain(work[u].cmd, e) => work[u].cmd.nth < e.nth
                  /\ waiting[work[u].dev] = u =>
                       \A f \in received[work[u].dev] :
                         Plain(work[u].cmd, f) => f.nth < work[u].cmd.nth)'
      <4>1. CASE u = t
        <5>1. work'[u].dev = d /\ work'[u].cmd = x
          BY <3>1, <4>1
        <5> QED
          BY <2>3, <3>2, <3>3, <3>4, <5>1
      <4>2. CASE u # t
        <5>1. work'[u] = work[u] /\ work[u].dev \in Devices
          BY <1>1, <2>1, <3>6, <4>2
        <5> QED
          BY <2>3, <2>4, <3>6, <5>1 DEF Ordered
      <4> QED
        BY <4>1, <4>2
    <3> QED
      BY <3>5, <3>6 DEF Ordered
  <2> QED
    BY <2>5, <2>6
<1>8. ASSUME NEW t \in Threads, Reply(t)
      PROVE  Ordered'
  <2> DEFINE d == work[t].dev
  <2>1. /\ d \in Devices /\ waiting[d] = t
        /\ work' = [work EXCEPT ![t] = Idle]
        /\ waiting' = [waiting EXCEPT ![d] = None]
        /\ UNCHANGED <<commits, queue>>
    BY <1>0, <1>8, WorkType DEF Reply
  <2>2. \/ work[t].op = "empty" /\ received' = received
        \/ /\ work[t].op = "reply"
           /\ received' = [received EXCEPT ![d] = @ \cup {work[t].cmd}]
    BY <1>8 DEF Reply
  <2>3. \A b \in Devices : \A f \in received'[b] :
          \/ f \in received[b]
          \/ b = d /\ work[t].op = "reply" /\ f = work[t].cmd
    BY <1>0, <2>1, <2>2
  <2> HIDE DEF d
  <2>4. ASSUME NEW b \in Devices
        PROVE  (/\ \A e \in queue[b], f \in received[b] : Plain(e, f) => f.nth < e.nth
                /\ \A f \in received[b] : f.nth <= commits
                /\ \A e, f \in queue[b] : e.nth = f.nth => e = f)'
    BY <2>1, <2>3 DEF Ordered, d
  <2>5. ASSUME NEW u \in Threads, work'[u].op = "reply"
        PROVE  (/\ work[u].cmd.nth <= commits
                /\ \A e \in queue[work[u].dev] :
                     Plain(work[u].cmd, e) => work[u].cmd.nth < e.nth
                /\ waiting[work[u].dev] = u =>
                     \A f \in received[work[u].dev] :
                       Plain(work[u].cmd, f) => f.nth < work[u].cmd.nth)'
    <3>1. work'[u] = work[u] /\ u # t /\ work[u].dev \in Devices
      BY <1>0, <1>1, <2>1, <2>5 DEF Idle
    <3>2. waiting'[work[u].dev] = u => work[u].dev # d /\ waiting[work[u].dev] = u
      BY <1>0, <2>1, <3>1
    <3>3. work[u].dev # d => received'[work[u].dev] = received[work[u].dev]
      BY <1>0, <2>2, <3>1
    <3> QED
      BY <2>1, <2>5, <3>1, <3>2, <3>3 DEF Ordered
  <2> QED
    BY <2>4, <2>5 DEF Ordered
<1>9. ASSUME NEW t \in Threads, ReplyLost(t)
      PROVE  Ordered'
  <2>1. \A u \in Threads : work'[u].op = "reply" => work'[u] = work[u]
    BY <1>0, <1>9 DEF ReplyLost, Idle
  <2>2. \A b \in Devices : \A u \in Threads : waiting'[b] = u => waiting[b] = u
    BY <1>0, <1>9 DEF ReplyLost
  <2>3. UNCHANGED <<commits, received, queue>>
    BY <1>9 DEF ReplyLost
  <2> QED
    BY <1>1, <2>1, <2>2, <2>3, OrderedShrinks
<1>10. CASE Tick \/ UNCHANGED vars
  BY <1>1, <1>10, OrderedShrinks DEF Tick, vars
<1> QED
  BY <1>2, <1>3, <1>4, <1>5, <1>6, <1>7, <1>8, <1>9, <1>10 DEF Next

\* A device receives its ordinary commands in the order in which they entered
\* its queue, for any number of polls it gives up and threads that still hold
\* an answer to one of them.
THEOREM OrderDelivered == Spec => DeliveredInOrder
<1> DEFINE InOrder == \A d \in Devices : \A e \in received'[d] \ received[d] :
               \A f \in received[d] :
                 ~Urgent(e.kind) /\ ~Urgent(f.kind) => f.nth < e.nth
<1>1. ASSUME QueueInv, Ordered, [Next]_vars, NEW d \in Devices,
             NEW e \in received'[d] \ received[d], NEW f \in received[d],
             ~Urgent(e.kind), ~Urgent(f.kind)
      PROVE  f.nth < e.nth
  <2>1. PICK t \in Threads : Reply(t)
    BY <1>1 DEF Next, vars, BeginEnqueue, CommitEnqueue, ClearCommands, OpenPoll,
                AbandonPoll, PopCommand, ReplyLost, Tick
  <2>2. work[t].op = "reply" /\ work[t].dev = d /\ work[t].cmd = e /\ waiting[d] = t
    BY <1>1, <2>1 DEF Reply, QueueInv, TypeOK
  <2> QED
    BY <1>1, <2>2 DEF Ordered, Plain
<1>2. Spec => []Ordered
  BY OrderedInit, OrderedStep, QueueInvariant, PTL DEF Spec
<1>3. QueueInv /\ Ordered /\ [Next]_vars => [InOrder]_vars
  BY <1>1
<1>4. QED
  BY <1>2, <1>3, QueueInvariant, PTL DEF Spec, DeliveredInOrder

-----------------------------------------------------------------------------
(* Refinement *)

Held == DraftIds \cup QueuedIds \cup ReplyIds

LEMMA MailboxInit == Init => Box!Init
<1> SUFFICES ASSUME Init
             PROVE  Box!Init
  OBVIOUS
<1>1. \A t \in Threads : work[t].op = "idle"
  BY DEF Init, Idle
<1>2. DraftIds = {} /\ ReplyIds = {}
  BY <1>1 DEF DraftIds, ReplyIds
<1>3. QueuedIds = {} /\ ReceivedIds = {} /\ gone = {} /\ sequence = 0
  BY DEF Init, QueuedIds, ReceivedIds
<1>4. QED
  BY <1>2, <1>3 DEF Box!Init

\* Losing some of the held ids, or none, is a step of the mailbox.
LEMMA LoseStep ==
  ASSUME NEW ids, ids \subseteq Held, Held' = Held \ ids, gone' = gone \cup ids,
         UNCHANGED <<sequence, ReceivedIds>>
  PROVE  Box!Next
<1>1. Box!Lose(ids)
  BY DEF Box!Lose, Held
<1>2. QED
  BY <1>1 DEF Box!Next, Held

LEMMA MailboxStep ==
  ASSUME QueueInv, Accounting, [Next]_vars
  PROVE  [Box!Next]_(Box!box)
<1>0. OneHolder /\ Accounted
  BY DEF Accounting, Accounted
<1>1. ASSUME NEW t \in Threads, NEW d \in Devices, NEW k \in Kinds,
             BeginEnqueue(t, d, k)
      PROVE  Box!Next
  <2>1. /\ sequence' = sequence + 1 /\ sequence < MaxCommands
        /\ DraftIds' = DraftIds \cup {sequence + 1}
        /\ UNCHANGED <<QueuedIds, ReplyIds, ReceivedIds, gone>>
    BY <1>1, BeginMoves
  <2>2. Box!Make
    BY <2>1 DEF Box!Make
  <2>3. QED
    BY <2>2 DEF Box!Next
<1>2. ASSUME NEW t \in Threads, CommitEnqueue(t)
      PROVE  Box!Next
  <2>1. PICK c \in Ids, old, new \in SUBSET Ids :
           /\ c \in DraftIds /\ old \subseteq QueuedIds
           /\ new \subseteq old \cup {c}
           /\ DraftIds' = DraftIds \ {c}
           /\ QueuedIds' = (QueuedIds \ old) \cup new
           /\ gone' = gone \cup ((old \cup {c}) \ new)
           /\ UNCHANGED <<sequence, ReplyIds, ReceivedIds>>
    BY <1>0, <1>2, CommitMoves
  <2> DEFINE ids == (old \cup {c}) \ new
  <2>2. ids \subseteq Held /\ Held' = Held \ ids
    BY <1>0, <2>1 DEF Held, Accounted
  <2>3. gone' = gone \cup ids /\ UNCHANGED <<sequence, ReceivedIds>>
    BY <2>1
  <2> HIDE DEF ids
  <2>4. QED
    BY <2>2, <2>3, LoseStep
<1>3. ASSUME NEW d \in Devices, ClearCommands(d)
      PROVE  Box!Next
  <2>1. PICK old \in SUBSET Ids :
           /\ old \subseteq QueuedIds
           /\ QueuedIds' = QueuedIds \ old
           /\ gone' = gone \cup old
           /\ UNCHANGED <<sequence, DraftIds, ReplyIds, ReceivedIds>>
    BY <1>0, <1>3, ClearMoves
  <2>2. old \subseteq Held /\ Held' = Held \ old
    BY <1>0, <2>1 DEF Held, Accounted
  <2>3. QED
    BY <2>1, <2>2, LoseStep
<1>4. ASSUME NEW t \in Threads, PopCommand(t)
      PROVE  Box!Next
  <2>1. PICK dead, out \in SUBSET Ids :
           /\ dead \subseteq QueuedIds /\ out \subseteq QueuedIds
           /\ dead \cap out = {}
           /\ QueuedIds' = QueuedIds \ (dead \cup out)
           /\ ReplyIds' = ReplyIds \cup out
           /\ gone' = gone \cup dead
           /\ UNCHANGED <<sequence, DraftIds, ReceivedIds>>
    BY <1>0, <1>4, PopMoves
  <2>2. dead \subseteq Held /\ Held' = Held \ dead
    BY <1>0, <2>1 DEF Held, Accounted
  <2>3. QED
    BY <2>1, <2>2, LoseStep
<1>5. ASSUME NEW t \in Threads, ReplyLost(t)
      PROVE  Box!Next
  <2>1. /\ ReplyIds' = ReplyIds \ ReplyOf(work[t])
        /\ ReplyOf(work[t]) \subseteq ReplyIds
        /\ gone' = gone \cup ReplyOf(work[t])
        /\ UNCHANGED <<sequence, DraftIds, QueuedIds, ReceivedIds>>
    BY <1>0, <1>5, LostMoves
  <2>2. ReplyOf(work[t]) \subseteq Held /\ Held' = Held \ ReplyOf(work[t])
    BY <1>0, <2>1 DEF Held, Accounted
  <2>3. QED
    BY <2>1, <2>2, LoseStep
<1>6. ASSUME NEW t \in Threads, Reply(t)
      PROVE  [Box!Next]_(Box!box)
  <2>1. /\ ReplyIds' = ReplyIds \ ReplyOf(work[t])
        /\ ReplyOf(work[t]) \subseteq ReplyIds
        /\ ReceivedIds' = ReceivedIds \cup ReplyOf(work[t])
        /\ UNCHANGED <<sequence, DraftIds, QueuedIds, gone>>
    BY <1>0, <1>6, ReplyMoves
  <2>2. CASE ReplyOf(work[t]) = {}
    BY <2>1, <2>2 DEF Box!box
  <2>3. CASE ReplyOf(work[t]) # {}
    <3>1. PICK id : ReplyOf(work[t]) = {id}
      BY <2>3 DEF ReplyOf
    <3>2. id \in Held /\ Held' = Held \ {id}
      BY <1>0, <2>1, <3>1 DEF Held, Accounted
    <3>3. Box!Deliver(id)
      BY <2>1, <3>1, <3>2 DEF Box!Deliver, Held
    <3>4. QED
      BY <3>2, <3>3 DEF Box!Next, Held
  <2>4. QED
    BY <2>2, <2>3
<1>7. ASSUME NEW t \in Threads, NEW d \in Devices, OpenPoll(d, t)
      PROVE  UNCHANGED (Box!box)
  <2> DEFINE w == [op |-> "poll", dev |-> d]
  <2>1. /\ work[t] = Idle /\ work' = [work EXCEPT ![t] = w]
        /\ work \in [Threads -> Work]
        /\ UNCHANGED <<sequence, QueuedIds, ReceivedIds, gone>>
    BY <1>7 DEF OpenPoll, QueueInv, TypeOK, QueuedIds, ReceivedIds
  <2>2. /\ DraftIds' = OtherDrafts(t) \cup DraftOf(w)
        /\ ReplyIds' = OtherReplies(t) \cup ReplyOf(w)
        /\ DraftIds = OtherDrafts(t) \cup DraftOf(Idle)
        /\ ReplyIds = OtherReplies(t) \cup ReplyOf(Idle)
    BY <2>1, WorkChange, ThreadIds
  <2>3. DraftOf(w) = DraftOf(Idle) /\ ReplyOf(w) = ReplyOf(Idle)
    BY DEF DraftOf, ReplyOf, Idle
  <2>4. UNCHANGED <<DraftIds, ReplyIds>>
    BY <2>2, <2>3
  <2>5. QED
    BY <2>1, <2>4 DEF Box!box
<1>8. ASSUME (\E d \in Devices : AbandonPoll(d)) \/ Tick \/ UNCHANGED vars
      PROVE  UNCHANGED (Box!box)
  <2>1. UNCHANGED <<sequence, queue, work, received, gone>>
    BY <1>8 DEF AbandonPoll, Tick, vars
  <2>2. UNCHANGED <<DraftIds, QueuedIds, ReplyIds, ReceivedIds>>
    BY <2>1 DEF DraftIds, QueuedIds, ReplyIds, ReceivedIds
  <2>3. QED
    BY <2>1, <2>2 DEF Box!box
<1>9. QED
  BY <1>1, <1>2, <1>3, <1>4, <1>5, <1>6, <1>7, <1>8 DEF Next

\* The gateway's queue implements at-most-once delivery: a command is held
\* from the moment it has an id until it is delivered or lost, once.
THEOREM Delivery == Spec => AtMostOnce
<1>1. Init => Box!Init
  BY MailboxInit
<1>2. QueueInv /\ Accounting /\ [Next]_vars => [Box!Next]_(Box!box)
  BY MailboxStep
<1>3. QED
  BY <1>1, <1>2, QueueInvariant, AllAccounted, PTL DEF Spec, AtMostOnce, Box!Spec
=============================================================================
