------------------------ MODULE VoiceInference_proofs -----------------------
(* What holds of the native voice module for any number of works, native   *)
(* objects, variants and generations.                                      *)
EXTENDS VoiceInference, TLAPS

(***************************************************************************)
(* The type invariant in its two halves                                    *)
(***************************************************************************)

Types ==
  /\ live \subseteq Globals \X Numbers
  /\ ptr \in Models
  /\ loading \in [LoadKinds -> BOOLEAN]
  /\ generation \in 0..MaxGeneration
  /\ runtime \in Variants \cup {None}
  /\ loadedFor \in [LoadKinds -> 0..MaxGeneration]
  /\ work \in [Works -> Work]
  /\ inference \in Works \cup {"js", None}
  /\ nlu \in Works \cup {None}
  /\ js \in {"idle", "initialize", "release"}

Decodes(r) == r.st = "running" /\ r.kind = "wake"
UsesNlu(r) == r.st = "running" /\ r.kind \in {"nlu", "classify"}

Locks ==
  /\ \A w \in Works : /\ inference = w <=> Decodes(work[w])
                      /\ nlu = w <=> UsesNlu(work[w])
  /\ inference = "js" <=> js = "release"

LEMMA TypeHalves == TypeOK <=> Types /\ Locks
BY DEF TypeOK, Types, Locks, Decodes, UsesNlu

(***************************************************************************)
(* Works                                                                   *)
(***************************************************************************)

LEMMA NullTyped == Null \in Models
BY VoiceAssumption DEF Null, Models

LEMMA NoWorkTyped == NoWork \in Work
<1>1. NoWork.made \in Models
  BY NullTyped DEF NoWork
<1> QED
  BY <1>1, VoiceAssumption DEF NoWork, Work, States, Kinds, LoadKinds

LEMMA NoWorkIdle ==
  /\ NoWork.st = "none" /\ NoWork.kind = "wake"
  /\ NoWork.made = Null /\ NoWork.uses = {}
BY DEF NoWork

LEMMA BegunTyped ==
  ASSUME generation \in 0..MaxGeneration, NEW st \in States,
         NEW kind \in Kinds, NEW v \in Variants \cup {None}
  PROVE  /\ Begun(st, kind, v) \in Work
         /\ Begun(st, kind, v).st = st /\ Begun(st, kind, v).kind = kind
         /\ Begun(st, kind, v).gen = generation
         /\ Begun(st, kind, v).made = Null /\ Begun(st, kind, v).uses = {}
BY NoWorkTyped, NoWorkIdle DEF Begun, Work

LEMMA PutWork ==
  ASSUME work \in [Works -> Work], NEW w \in Works, NEW r \in Work, Put(w, r)
  PROVE  /\ work' \in [Works -> Work]
         /\ work'[w] = r
         /\ \A x \in Works : x # w => work'[x] = work[x]
BY DEF Put

LEMMA GotoWork ==
  ASSUME work \in [Works -> Work], NEW w \in Works, NEW st \in States,
         Goto(w, st)
  PROVE  /\ work' \in [Works -> Work]
         /\ work'[w] = [work[w] EXCEPT !.st = st]
         /\ work'[w] \in Work /\ work'[w].st = st
         /\ work'[w].kind = work[w].kind /\ work'[w].gen = work[w].gen
         /\ work'[w].made = work[w].made /\ work'[w].uses = work[w].uses
         /\ \A x \in Works : x # w => work'[x] = work[x]
<1>1. [work[w] EXCEPT !.st = st] \in Work
  BY DEF Work
<1>2. work[w] \in Work
  OBVIOUS
<1> QED
  BY <1>1, <1>2, PutWork DEF Goto, Work

\* A load that is queued, or lost, is a new work of the current generation.
LEMMA QueueLoadWork ==
  ASSUME Types, NEW kind \in LoadKinds, NEW v \in Variants \cup {None},
         QueueLoad(kind, v)
  PROVE  \E w \in Works :
           /\ work[w].st = "none" /\ work'[w].st \in {"queued", "lost"}
           /\ work' \in [Works -> Work]
           /\ work'[w].kind = kind /\ work'[w].gen = generation
           /\ work'[w].made = Null /\ work'[w].uses = {}
           /\ \A x \in Works : x # w => work'[x] = work[x]
           /\ loading' \in [LoadKinds -> BOOLEAN]
<1>1. PICK w \in Works : /\ work[w].st = "none"
                         /\ \E st \in {"queued", "lost"} : Put(w, Begun(st, kind, v))
                         /\ loading' = [loading EXCEPT ![kind] = TRUE]
  BY DEF QueueLoad
<1>2. PICK st \in {"queued", "lost"} : Put(w, Begun(st, kind, v))
  BY <1>1
<1>3. st \in States /\ kind \in Kinds /\ generation \in 0..MaxGeneration
  BY <1>2 DEF States, Kinds, Types
<1>4. work \in [Works -> Work] /\ loading \in [LoadKinds -> BOOLEAN]
  BY DEF Types
<1> QED
  BY <1>1, <1>2, <1>3, <1>4, BegunTyped, PutWork

\* So is a decode or a classification.
LEMMA QueueWork ==
  ASSUME Types, NEW kind \in {"wake", "classify"}, Queue(kind)
  PROVE  \E w \in Works :
           /\ work[w].st = "none" /\ work'[w].st = "queued"
           /\ work' \in [Works -> Work]
           /\ work'[w].kind = kind /\ work'[w].gen = generation
           /\ work'[w].made = Null /\ work'[w].uses = {}
           /\ \A x \in Works : x # w => work'[x] = work[x]
<1>1. PICK w \in Works : work[w].st = "none" /\ Put(w, Begun("queued", kind, None))
  BY DEF Queue
<1>2. "queued" \in States /\ kind \in Kinds /\ generation \in 0..MaxGeneration
      /\ work \in [Works -> Work]
  BY DEF States, Kinds, Types
<1> QED
  BY <1>1, <1>2, BegunTyped, PutWork

(***************************************************************************)
(* Native objects                                                          *)
(***************************************************************************)

LEMMA PointedIs ==
  ASSUME NEW p \in Models, NEW names \in SUBSET Globals
  PROVE  /\ Pointed(p, names) \subseteq Globals \X Numbers
         /\ \A g \in Globals, n \in Numbers :
              <<g, n>> \in Pointed(p, names) <=> g \in names /\ p[g] = n
<1>1. \A g \in Globals : p[g] \in 0..MaxObjects
  BY DEF Models
<1>2. \A g \in Globals : p[g] # 0 => p[g] \in Numbers
  BY <1>1, VoiceAssumption DEF Numbers
<1>3. \A n \in Numbers : n # 0
  BY VoiceAssumption DEF Numbers
<1> QED
  BY <1>2, <1>3 DEF Pointed, Object

LEMMA PointedAll ==
  ASSUME NEW p \in Models
  PROVE  /\ Pointed(p, Globals) \subseteq Globals \X Numbers
         /\ \A g \in Globals, n \in Numbers :
              <<g, n>> \in Pointed(p, Globals) <=> p[g] = n
<1>1. Globals \in SUBSET Globals
  OBVIOUS
<1> QED
  BY <1>1, PointedIs

LEMMA NewIsUnused ==
  ASSUME NEW g, NEW d, Unused(g, d) # {}
  PROVE  /\ New(g, d) \in Numbers /\ New(g, d) \in 0..MaxObjects
         /\ New(g, d) # 0 /\ <<g, New(g, d)>> \notin live \ d
<1>1. New(g, d) \in Unused(g, d)
  BY DEF New
<1> QED
  BY <1>1, VoiceAssumption DEF Unused, Numbers

LEMMA ClearedTyped ==
  ASSUME ptr \in Models, NEW names
  PROVE  Cleared(names) \in Models
BY VoiceAssumption DEF Cleared, Models

\* A load ends: it has made new objects and holds them.
LEMMA MakesObjects ==
  ASSUME Types, NEW w \in Works, NEW names \in SUBSET Globals, Makes(w, names)
  PROVE  \E made \in Models :
           /\ \A g \in Globals : made[g] # 0 =>
                /\ g \in names /\ made[g] \in Numbers
                /\ <<g, made[g]>> \notin live
           /\ live' = live \cup Pointed(made, Globals)
           /\ work' \in [Works -> Work]
           /\ work'[w].st = "done" /\ work'[w].kind = work[w].kind
           /\ work'[w].gen = work[w].gen /\ work'[w].made = made
           /\ work'[w].uses = work[w].uses
           /\ \A x \in Works : x # w => work'[x] = work[x]
<1> DEFINE made == [g \in Globals |-> IF g \in names THEN New(g, {}) ELSE 0]
           r == [work[w] EXCEPT !.st = "done", !.made = made]
<1>1. /\ \A g \in names : Unused(g, {}) # {}
      /\ live' = live \cup Pointed(made, Globals)
      /\ Put(w, r)
  BY DEF Makes
<1>2. \A g \in names : /\ New(g, {}) \in Numbers /\ New(g, {}) \in 0..MaxObjects
                       /\ <<g, New(g, {})>> \notin live
  BY <1>1, NewIsUnused
<1>3. made \in Models
  <2>1. 0 \in 0..MaxObjects
    BY VoiceAssumption
  <2>2. \A g \in Globals : (IF g \in names THEN New(g, {}) ELSE 0) \in 0..MaxObjects
    BY <1>2, <2>1
  <2> QED
    BY <2>2 DEF Models
<1>4. work[w] \in Work /\ work \in [Works -> Work]
  BY DEF Types
<1>5. r \in Work
  BY <1>3, <1>4 DEF Work, States
<1>6. /\ r.st = "done" /\ r.kind = work[w].kind /\ r.gen = work[w].gen
      /\ r.made = made /\ r.uses = work[w].uses
  BY <1>4 DEF Work
<1>7. /\ work' \in [Works -> Work] /\ work'[w] = r
      /\ \A x \in Works : x # w => work'[x] = work[x]
  BY <1>1, <1>4, <1>5, PutWork
<1>8. \A g \in Globals : made[g] # 0 =>
        g \in names /\ made[g] \in Numbers /\ <<g, made[g]>> \notin live
  BY <1>2
<1> HIDE DEF made, r
<1> QED
  BY <1>1, <1>3, <1>6, <1>7, <1>8

\* A stream is replaced by a new one, or by none.
LEMMA RestartStream ==
  ASSUME Types, NEW stream \in Globals, Restart(stream)
  PROVE  \E n \in 0..MaxObjects :
           /\ n # 0 => <<stream, n>> \notin live \ Pointed(ptr, {stream})
           /\ ptr' = [ptr EXCEPT ![stream] = n]
           /\ ptr' \in Models
           /\ live' = (live \ Pointed(ptr, {stream})) \cup Pointed(ptr', {stream})
<1> DEFINE old == Pointed(ptr, {stream})
<1>1. PICK n \in {New(stream, old), 0} :
        /\ Unused(stream, old) # {}
        /\ ptr' = [ptr EXCEPT ![stream] = n]
        /\ live' = (live \ old) \cup Pointed(ptr', {stream})
  BY DEF Restart
<1>2. New(stream, old) \in 0..MaxObjects
      /\ <<stream, New(stream, old)>> \notin live \ old
  BY <1>1, NewIsUnused
<1>3. n \in 0..MaxObjects /\ (n # 0 => <<stream, n>> \notin live \ old)
  <2>1. CASE n = 0
    BY <2>1, VoiceAssumption
  <2>2. CASE n = New(stream, old)
    BY <2>2, <1>2
  <2> QED
    BY <2>1, <2>2
<1>4. ptr' \in Models
  BY <1>1, <1>3 DEF Types, Models
<1> QED
  BY <1>1, <1>3, <1>4

\* A decode begins, or is through at once.
LEMMA DecodeBegins ==
  ASSUME Types, NEW w \in Works, BeginDecode(w)
  PROVE  /\ work' \in [Works -> Work] /\ work'[w].kind = "wake"
         /\ work'[w].gen = work[w].gen /\ work'[w].made = work[w].made
         /\ \/ /\ work'[w].st = "done" /\ work'[w].uses = work[w].uses
               /\ UNCHANGED inference
            \/ /\ work'[w].st = "running" /\ inference' = w
               /\ work'[w].uses = Pointed(ptr, {"spotter", "keywordStream"})
               /\ ptr["spotter"] # 0 /\ ptr["keywordStream"] # 0
         /\ \A x \in Works : x # w => work'[x] = work[x]
<1> DEFINE used == Pointed(ptr, {"spotter", "keywordStream"})
           r == [work[w] EXCEPT !.st = "running", !.uses = used]
<1>0. /\ work \in [Works -> Work] /\ work[w] \in Work
      /\ "done" \in States /\ work[w].kind = "wake"
  BY DEF Types, States, BeginDecode
<1>1. CASE Goto(w, "done") /\ UNCHANGED inference
  BY <1>0, <1>1, GotoWork
<1>2. CASE /\ ptr["spotter"] # 0 /\ ptr["keywordStream"] # 0
           /\ inference' = w /\ Put(w, r)
  <2>1. used \in SUBSET (Globals \X Numbers)
    BY PointedIs DEF Types, Globals, KeywordModel
  <2> HIDE DEF used
  <2>2. /\ r \in Work /\ r.st = "running" /\ r.kind = "wake" /\ r.uses = used
        /\ r.gen = work[w].gen /\ r.made = work[w].made
    BY <1>0, <2>1 DEF Work, States
  <2> HIDE DEF r
  <2>3. /\ work' \in [Works -> Work] /\ work'[w] = r
        /\ \A x \in Works : x # w => work'[x] = work[x]
    BY <1>0, <1>2, <2>2, PutWork
  <2> QED
    BY <1>2, <2>2, <2>3 DEF used
<1> QED
  BY <1>1, <1>2 DEF BeginDecode

LEMMA DecodeEnds ==
  ASSUME Types, NEW w \in Works, EndDecode(w)
  PROVE  /\ work' \in [Works -> Work] /\ work'[w].kind = "wake"
         /\ work'[w].gen = work[w].gen /\ work'[w].made = work[w].made
         /\ work'[w].st = "done" /\ work'[w].uses = {}
         /\ \A x \in Works : x # w => work'[x] = work[x]
<1> DEFINE r == [work[w] EXCEPT !.st = "done", !.uses = {}]
<1>1. /\ work \in [Works -> Work] /\ work[w] \in Work
      /\ Put(w, r) /\ work[w].kind = "wake"
  BY DEF Types, EndDecode
<1>2. /\ r \in Work /\ r.st = "done" /\ r.kind = "wake" /\ r.uses = {}
      /\ r.gen = work[w].gen /\ r.made = work[w].made
  BY <1>1 DEF Work, States
<1> HIDE DEF r
<1> QED
  BY <1>1, <1>2, PutWork

(***************************************************************************)
(* Every variable keeps its type                                           *)
(***************************************************************************)

\* No work enters or leaves a critical section.
Calm ==
  \A x \in Works : \/ work'[x] = work[x]
                   \/ work[x].st # "running" /\ work'[x].st # "running"

LEMMA LocksKept ==
  ASSUME Locks, Calm, UNCHANGED <<inference, nlu>>,
         js' = "release" <=> js = "release"
  PROVE  Locks'
BY DEF Locks, Calm, Decodes, UsesNlu

LEMMA TypeInit == Init => Types /\ Locks
<1> SUFFICES ASSUME Init PROVE Types /\ Locks
  OBVIOUS
<1>1. Types
  BY NullTyped, NoWorkTyped, VoiceAssumption DEF Init, Types
<1>2. Locks
  BY NoWorkIdle, VoiceAssumption DEF Init, Locks, Decodes, UsesNlu
<1> QED
  BY <1>1, <1>2

\* A work that is not inside a critical section moves, the others stay.
LEMMA CalmStep ==
  ASSUME NEW w \in Works, work[w].st # "running", work'[w].st # "running",
         \A x \in Works : x # w => work'[x] = work[x]
  PROVE  Calm
BY DEF Calm

LEMMA DestroyTyped ==
  ASSUME Types, DestroyGlobals
  PROVE  /\ live' \subseteq Globals \X Numbers
         /\ ptr' \in Models /\ generation' \in 0..MaxGeneration
BY NullTyped, VoiceAssumption DEF Types, DestroyGlobals

\* The calls of the JS thread.
LEMMA CallTyped ==
  ASSUME Types, Locks, Call
  PROVE  Types' /\ Locks'
<1>1. CASE Initialize
  <2>1. Types'
    BY <1>1, DestroyTyped DEF Initialize, Types, nluVars
  <2>2. Locks'
    BY <1>1, LocksKept DEF Initialize, Calm, nluVars
  <2> QED
    BY <2>1, <2>2
<1>2. CASE Release
  <2>1. Types'
    BY <1>2, DestroyTyped DEF Release, Types, nluVars
  <2>2. Locks'
    BY <1>2, VoiceAssumption DEF Release, Locks, nluVars
  <2> QED
    BY <2>1, <2>2
<1>3. CASE InitializeSpeaker \/ \E v \in Variants : InitializeNlu(v)
  <2>1. PICK kind \in LoadKinds, v \in Variants \cup {None} : QueueLoad(kind, v)
    BY <1>3 DEF InitializeSpeaker, InitializeNlu, LoadKinds
  <2>2. UNCHANGED <<live, ptr, generation, loadedFor, nluVars, inference, js>>
    BY <1>3 DEF InitializeSpeaker, InitializeNlu
  <2>3. PICK w \in Works :
           /\ work[w].st = "none" /\ work'[w].st \in {"queued", "lost"}
           /\ work' \in [Works -> Work]
           /\ \A x \in Works : x # w => work'[x] = work[x]
           /\ loading' \in [LoadKinds -> BOOLEAN]
    BY <2>1, QueueLoadWork
  <2>4. Types'
    BY <2>2, <2>3 DEF Types, nluVars
  <2>5. Locks'
    BY <2>2, <2>3, CalmStep, LocksKept DEF nluVars
  <2> QED
    BY <2>4, <2>5
<1>4. CASE ClassifyNlu \/ AcceptWake
  <2>1. PICK kind \in {"wake", "classify"} : Queue(kind)
    BY <1>4 DEF ClassifyNlu, AcceptWake
  <2>2. UNCHANGED <<live, ptr, loading, generation, loadedFor, nluVars,
                    inference, js>>
    BY <2>1 DEF Queue
  <2>3. PICK w \in Works :
           /\ work[w].st = "none" /\ work'[w].st = "queued"
           /\ work' \in [Works -> Work]
           /\ \A x \in Works : x # w => work'[x] = work[x]
    BY <2>1, QueueWork
  <2>4. Types'
    BY <2>2, <2>3 DEF Types, nluVars
  <2>5. Locks'
    BY <2>2, <2>3, CalmStep, LocksKept DEF nluVars
  <2> QED
    BY <2>4, <2>5
<1>5. CASE ResetWake \/ StartCommand \/ StartSpeaker \/ EndSpeaker
  <2>1. UNCHANGED <<loading, generation, loadedFor, nluVars, work, inference, js>>
    BY <1>5 DEF ResetWake, StartCommand, StartSpeaker, EndSpeaker, StreamCall
  <2>2. live' \subseteq Globals \X Numbers /\ ptr' \in Models
    <3>1. CASE EndSpeaker
      BY <3>1, ClearedTyped DEF EndSpeaker, Types
    <3>2. CASE ResetWake \/ StartCommand \/ StartSpeaker
      <4>1. PICK stream \in Globals : Restart(stream)
        BY <3>2 DEF ResetWake, StartCommand, StartSpeaker, Globals, KeywordModel
      <4>2. /\ ptr' \in Models
            /\ live' = (live \ Pointed(ptr, {stream})) \cup Pointed(ptr', {stream})
        BY <4>1, RestartStream
      <4> QED
        BY <4>2, PointedIs DEF Types
    <3> QED
      BY <1>5, <3>1, <3>2
  <2>3. Types'
    BY <2>1, <2>2 DEF Types, nluVars
  <2>4. Locks'
    BY <2>1, LocksKept DEF Calm, nluVars
  <2> QED
    BY <2>3, <2>4
<1> QED
  BY <1>1, <1>2, <1>3, <1>4, <1>5 DEF Call

LEMMA FinishTyped ==
  ASSUME Types, Locks, FinishDestroyAll
  PROVE  Types' /\ Locks'
<1>1. /\ UNCHANGED <<live, ptr, generation, loadedFor, nlu>>
      /\ runtime' = None /\ js' = "idle" /\ js # "idle"
      /\ inference' = IF js = "release" THEN None ELSE inference
  BY DEF FinishDestroyAll
<1>2. /\ work' \in [Works -> Work] /\ loading' \in [LoadKinds -> BOOLEAN]
      /\ Calm
  <2>1. CASE js = "initialize" /\ QueueLoad("voice", None)
    BY <2>1, QueueLoadWork, CalmStep DEF LoadKinds
  <2>2. CASE UNCHANGED <<work, loading>>
    BY <2>2 DEF Types, Calm
  <2> QED
    BY <2>1, <2>2 DEF FinishDestroyAll
<1>3. Types'
  BY <1>1, <1>2 DEF Types
<1>4. Locks'
  <2>1. CASE js = "release"
    BY <2>1, <1>1, <1>2, VoiceAssumption DEF Locks, Calm, Decodes, UsesNlu
  <2>2. CASE js # "release"
    BY <2>2, <1>1, <1>2, LocksKept
  <2> QED
    BY <2>1, <2>2
<1> QED
  BY <1>3, <1>4

\* The steps of a work: its shared part, and its completion on the JS thread.
LEMMA WorkTyped ==
  ASSUME Types, Locks, NEW w \in Works, WorkStep(w)
  PROVE  Types' /\ Locks'
<1> USE DEF nluVars
<1>0. /\ work \in [Works -> Work] /\ work[w] \in Work
      /\ {"none", "queued", "running", "done"} \subseteq States
      /\ \A names \in SUBSET Globals : Cleared(names) \in Models
  BY ClearedTyped DEF Types, States
<1>1. CASE ExecuteVoiceModelLoad(w) \/ ExecuteSpeakerLoad(w)
  <2>1. /\ work[w].st = "queued"
        /\ UNCHANGED <<ptr, loading, generation, loadedFor, nluVars, inference, js>>
    BY <1>1 DEF ExecuteVoiceModelLoad, ExecuteSpeakerLoad
  <2>2. PICK names \in SUBSET Globals : Makes(w, names)
    BY <1>1 DEF ExecuteVoiceModelLoad, ExecuteSpeakerLoad, Globals, KeywordModel
  <2>3. PICK made \in Models :
          /\ live' = live \cup Pointed(made, Globals)
          /\ work' \in [Works -> Work] /\ work'[w].st = "done"
          /\ \A x \in Works : x # w => work'[x] = work[x]
    BY <2>2, MakesObjects
  <2>4. Types'
    BY <2>1, <2>3, PointedIs DEF Types
  <2>5. Locks'
    BY <2>1, <2>3, CalmStep, LocksKept
  <2> QED
    BY <2>4, <2>5
<1>2. CASE CompleteVoiceModelLoad(w) \/ CompleteSpeakerLoad(w)
  <2>1. /\ work[w].st = "done" /\ Put(w, NoWork)
        /\ UNCHANGED <<generation, nluVars, inference, js>>
    BY <1>2 DEF CompleteVoiceModelLoad, CompleteSpeakerLoad
  <2>2. /\ work' \in [Works -> Work] /\ work'[w].st = "none"
        /\ \A x \in Works : x # w => work'[x] = work[x]
    BY <2>1, <1>0, PutWork, NoWorkTyped, NoWorkIdle
  <2>3. loading' \in [LoadKinds -> BOOLEAN]
    BY <1>2 DEF CompleteVoiceModelLoad, CompleteSpeakerLoad, Types
  <2>4. \A g \in Globals : work[w].made[g] \in 0..MaxObjects
    BY <1>0 DEF Work, Models
  <2>5. live' \subseteq Globals \X Numbers /\ ptr' \in Models
        /\ loadedFor' \in [LoadKinds -> 0..MaxGeneration]
    <3>1. work[w].gen \in 0..MaxGeneration
      BY <1>0 DEF Work
    <3>2. CASE CompleteVoiceModelLoad(w)
      BY <3>1, <3>2, <2>4 DEF CompleteVoiceModelLoad, Types, Models
    <3>3. CASE CompleteSpeakerLoad(w)
      <4>1. Cleared({"speakerStream"}) \in Models /\ "extractor" \in Globals
        BY <1>0 DEF Globals
      <4>2. [Cleared({"speakerStream"}) EXCEPT
               !["extractor"] = work[w].made["extractor"]] \in Models
        BY <4>1, <2>4 DEF Models
      <4> QED
        BY <3>1, <3>3, <4>2 DEF CompleteSpeakerLoad, Types
    <3> QED
      BY <1>2, <3>2, <3>3
  <2>6. Types'
    BY <2>1, <2>2, <2>3, <2>5 DEF Types
  <2>7. Locks'
    BY <2>1, <2>2, CalmStep, LocksKept
  <2> QED
    BY <2>6, <2>7
<1>3. CASE BeginDecode(w)
  <2>1. /\ work[w].st = "queued" /\ work[w].kind = "wake" /\ inference = None
        /\ inference' \in {w, inference}
        /\ UNCHANGED <<live, ptr, loading, generation, loadedFor, nluVars, js>>
    BY <1>3 DEF BeginDecode
  <2>2. /\ work' \in [Works -> Work] /\ work'[w].kind = "wake"
        /\ \A x \in Works : x # w => work'[x] = work[x]
    BY <1>3, DecodeBegins
  <2>3. Types'
    BY <2>1, <2>2 DEF Types
  <2>4. Locks'
    <3>1. CASE work'[w].st = "done" /\ UNCHANGED inference
      BY <2>1, <2>2, <3>1, CalmStep, LocksKept
    <3>2. CASE work'[w].st = "running" /\ inference' = w
      <4>1. Decodes(work'[w]) /\ ~UsesNlu(work'[w]) /\ ~UsesNlu(work[w])
        BY <2>1, <2>2, <3>2 DEF Decodes, UsesNlu
      <4> QED
        BY <2>1, <2>2, <3>2, <4>1, VoiceAssumption DEF Locks
    <3> QED
      BY <1>3, <3>1, <3>2, DecodeBegins
  <2> QED
    BY <2>3, <2>4
<1>4. CASE EndDecode(w)
  <2>1. /\ work[w].st = "running" /\ work[w].kind = "wake" /\ inference' = None
        /\ UNCHANGED <<live, ptr, loading, generation, loadedFor, nluVars, js>>
    BY <1>4 DEF EndDecode
  <2>2. /\ work' \in [Works -> Work] /\ work'[w].st = "done"
        /\ \A x \in Works : x # w => work'[x] = work[x]
    BY <1>4, DecodeEnds
  <2>3. Types'
    BY <2>1, <2>2 DEF Types
  <2>4. /\ ~Decodes(work'[w]) /\ ~UsesNlu(work'[w])
        /\ Decodes(work[w]) /\ ~UsesNlu(work[w])
    BY <2>1, <2>2 DEF Decodes, UsesNlu
  <2>5. Locks'
    BY <2>1, <2>2, <2>4, VoiceAssumption DEF Locks
  <2> QED
    BY <2>3, <2>5
<1>5. CASE BeginNlu(w)
  <2>1. /\ work[w].st = "queued" /\ work[w].kind \in {"nlu", "classify"} /\ nlu = None
        /\ UNCHANGED <<live, ptr, loading, generation, loadedFor, runtime,
                       inference, js>>
    BY <1>5 DEF BeginNlu
  <2>2. CASE nlu' = w /\ Goto(w, "running")
    <3>1. /\ work' \in [Works -> Work] /\ work'[w].st = "running"
          /\ work'[w].kind = work[w].kind
          /\ \A x \in Works : x # w => work'[x] = work[x]
      BY <2>2, <1>0, GotoWork
    <3>2. Types'
      BY <2>1, <2>2, <3>1 DEF Types
    <3>3. UsesNlu(work'[w]) /\ ~Decodes(work'[w]) /\ ~Decodes(work[w])
      BY <2>1, <3>1 DEF Decodes, UsesNlu
    <3>4. Locks'
      BY <2>1, <2>2, <3>1, <3>3, VoiceAssumption DEF Locks
    <3> QED
      BY <3>2, <3>4
  <2>3. CASE Goto(w, "done") /\ UNCHANGED nlu
    <3>1. /\ work' \in [Works -> Work] /\ work'[w].st = "done"
          /\ \A x \in Works : x # w => work'[x] = work[x]
      BY <2>3, <1>0, GotoWork
    <3>2. Types'
      BY <2>1, <2>3, <3>1 DEF Types
    <3>3. Locks'
      BY <2>1, <2>3, <3>1, CalmStep, LocksKept
    <3> QED
      BY <3>2, <3>3
  <2> QED
    BY <1>5, <2>2, <2>3 DEF BeginNlu
<1>6. CASE EndNluLoad(w) \/ EndClassify(w)
  <2>1. /\ work[w].st = "running" /\ work[w].kind \in {"nlu", "classify"}
        /\ nlu' = None
        /\ UNCHANGED <<live, ptr, loading, generation, inference, js>>
    BY <1>6 DEF EndNluLoad, EndClassify
  <2>2. PICK success \in BOOLEAN :
          Put(w, [work[w] EXCEPT !.st = "done", !.success = success])
    BY <1>6 DEF EndNluLoad, EndClassify
  <2> DEFINE r == [work[w] EXCEPT !.st = "done", !.success = success]
  <2>3. r \in Work /\ r.st = "done"
    BY <1>0 DEF Work
  <2> HIDE DEF r
  <2>4. /\ work' \in [Works -> Work] /\ work'[w] = r
        /\ \A x \in Works : x # w => work'[x] = work[x]
    BY <2>2, <2>3, <1>0, PutWork DEF r
  <2>5. /\ runtime' \in Variants \cup {None}
        /\ loadedFor' \in [LoadKinds -> 0..MaxGeneration]
    BY <1>6, <1>0 DEF EndNluLoad, EndClassify, Types, Work
  <2>6. Types'
    BY <2>1, <2>4, <2>5 DEF Types
  <2>7. /\ ~Decodes(work'[w]) /\ ~UsesNlu(work'[w])
        /\ ~Decodes(work[w]) /\ UsesNlu(work[w])
    BY <2>1, <2>3, <2>4 DEF Decodes, UsesNlu
  <2>8. Locks'
    BY <2>1, <2>4, <2>7, VoiceAssumption DEF Locks
  <2> QED
    BY <2>6, <2>8
<1>7. CASE ReadNluFails(w)
  <2>1. /\ work[w].st = "queued" /\ Goto(w, "done")
        /\ UNCHANGED <<live, ptr, loading, generation, loadedFor, nluVars,
                       inference, js>>
    BY <1>7 DEF ReadNluFails
  <2>2. /\ work' \in [Works -> Work] /\ work'[w].st = "done"
        /\ \A x \in Works : x # w => work'[x] = work[x]
    BY <2>1, <1>0, GotoWork
  <2>3. Types'
    BY <2>1, <2>2 DEF Types
  <2>4. Locks'
    BY <2>1, <2>2, CalmStep, LocksKept
  <2> QED
    BY <2>3, <2>4
<1>8. CASE CompleteNluLoad(w) \/ CompleteAnswer(w)
  <2>1. /\ work[w].st = "done" /\ Put(w, NoWork)
        /\ UNCHANGED <<live, ptr, generation, loadedFor, nlu, inference, js>>
    BY <1>8 DEF CompleteNluLoad, CompleteAnswer
  <2>2. /\ work' \in [Works -> Work] /\ work'[w].st = "none"
        /\ \A x \in Works : x # w => work'[x] = work[x]
    BY <2>1, <1>0, PutWork, NoWorkTyped, NoWorkIdle
  <2>3. /\ runtime' \in Variants \cup {None}
        /\ loading' \in [LoadKinds -> BOOLEAN]
    BY <1>8 DEF CompleteNluLoad, CompleteAnswer, Types
  <2>4. Types'
    BY <2>1, <2>2, <2>3 DEF Types
  <2>5. Locks'
    BY <2>1, <2>2, CalmStep, LocksKept
  <2> QED
    BY <2>4, <2>5
<1> QED
  BY <1>1, <1>2, <1>3, <1>4, <1>5, <1>6, <1>7, <1>8 DEF WorkStep

\* TypeOK: every variable keeps its type, and each of the two mutexes has an
\* owner exactly while somebody is in its critical section.
THEOREM TypeCorrect == Spec => []TypeOK
<1>1. Types /\ Locks /\ [Next]_vars => Types' /\ Locks'
  <2> SUFFICES ASSUME Types, Locks, [Next]_vars PROVE Types' /\ Locks'
    OBVIOUS
  <2>1. CASE UNCHANGED vars
    BY <2>1 DEF vars, nluVars, Types, Locks
  <2> QED
    BY <2>1, CallTyped, FinishTyped, WorkTyped DEF Next
<1> QED
  BY <1>1, TypeInit, TypeHalves, PTL DEF Spec

(***************************************************************************)
(* What is loaded was loaded for the current generation                    *)
(*                                                                         *)
(* For the speech models that follows from the generation a completion     *)
(* compares on the JS thread.  The runtime is written by a worker thread,  *)
(* so that the invariant also has to speak of the load that is about to    *)
(* write it: it is cancelled under its feet only while the JS thread is    *)
(* inside DestroyAll, which waits for it and then releases the runtime.    *)
(***************************************************************************)

Loads(r) == r.st = "running" /\ r.kind = "nlu"

ReadyInv ==
  /\ ptr["spotter"] # 0 => loadedFor["voice"] = generation
  /\ ptr["extractor"] # 0 => loadedFor["speaker"] = generation
  /\ js = "idle" =>
       /\ runtime # None => loadedFor["nlu"] = generation
       /\ \A w \in Works : Loads(work[w]) => work[w].gen = generation

NoNewLoad ==
  \A x \in Works : Loads(work'[x]) => Loads(work[x]) /\ work'[x].gen = work[x].gen

\* No load enters the critical section and no model appears.
LEMMA ReadyKept ==
  ASSUME ReadyInv, NoNewLoad, UNCHANGED <<generation, loadedFor, js>>,
         runtime' \in {runtime, None},
         ptr'["spotter"] = ptr["spotter"], ptr'["extractor"] = ptr["extractor"]
  PROVE  ReadyInv'
BY DEF ReadyInv, NoNewLoad

LEMMA OneWorkLoads ==
  ASSUME NEW w \in Works, ~Loads(work'[w]),
         \A x \in Works : x # w => work'[x] = work[x]
  PROVE  NoNewLoad
BY DEF NoNewLoad

LEMMA CallReady ==
  ASSUME Types, ReadyInv, Call
  PROVE  ReadyInv'
<1>1. CASE Initialize \/ Release
  <2>1. ptr' = Null /\ js' # "idle"
    BY <1>1 DEF Initialize, Release, DestroyGlobals
  <2> QED
    BY <2>1 DEF ReadyInv, Null, Globals, KeywordModel
<1>2. CASE InitializeSpeaker \/ \E v \in Variants : InitializeNlu(v)
  <2>1. PICK kind \in LoadKinds, v \in Variants \cup {None} : QueueLoad(kind, v)
    BY <1>2 DEF InitializeSpeaker, InitializeNlu, LoadKinds
  <2>2. UNCHANGED <<ptr, generation, loadedFor, runtime, js>>
    BY <1>2 DEF InitializeSpeaker, InitializeNlu, nluVars
  <2>3. NoNewLoad
    BY <2>1, QueueLoadWork, OneWorkLoads DEF Loads
  <2> QED
    BY <2>2, <2>3, ReadyKept
<1>3. CASE ClassifyNlu \/ AcceptWake
  <2>1. PICK kind \in {"wake", "classify"} : Queue(kind)
    BY <1>3 DEF ClassifyNlu, AcceptWake
  <2>2. UNCHANGED <<ptr, generation, loadedFor, runtime, js>>
    BY <2>1 DEF Queue, nluVars
  <2>3. NoNewLoad
    BY <2>1, QueueWork, OneWorkLoads DEF Loads
  <2> QED
    BY <2>2, <2>3, ReadyKept
<1>4. CASE ResetWake \/ StartCommand \/ StartSpeaker \/ EndSpeaker
  <2>1. UNCHANGED <<generation, loadedFor, runtime, work, js>>
    BY <1>4 DEF ResetWake, StartCommand, StartSpeaker, EndSpeaker, StreamCall,
                nluVars
  <2>2. ptr'["spotter"] = ptr["spotter"] /\ ptr'["extractor"] = ptr["extractor"]
    <3>1. CASE EndSpeaker
      BY <3>1 DEF EndSpeaker, Cleared, Globals, KeywordModel
    <3>2. CASE ResetWake \/ StartCommand \/ StartSpeaker
      <4>1. PICK stream \in {"keywordStream", "commandStream", "speakerStream"} :
              Restart(stream)
        BY <3>2 DEF ResetWake, StartCommand, StartSpeaker
      <4>2. PICK n : ptr' = [ptr EXCEPT ![stream] = n]
        BY <4>1, RestartStream DEF Globals, KeywordModel
      <4> QED
        BY <4>2 DEF Types, Models, Globals, KeywordModel
    <3> QED
      BY <1>4, <3>1, <3>2
  <2> QED
    BY <2>1, <2>2, ReadyKept DEF NoNewLoad
<1> QED
  BY <1>1, <1>2, <1>3, <1>4 DEF Call

LEMMA FinishReady ==
  ASSUME Types, Locks, ReadyInv, FinishDestroyAll
  PROVE  ReadyInv'
<1>1. /\ UNCHANGED <<ptr, generation, loadedFor>> /\ runtime' = None
      /\ nlu = None
  BY DEF FinishDestroyAll
<1>2. \A x \in Works : ~Loads(work[x])
  BY <1>1, VoiceAssumption DEF Locks, UsesNlu, Loads
<1>3. NoNewLoad
  <2>1. CASE js = "initialize" /\ QueueLoad("voice", None)
    BY <2>1, QueueLoadWork, OneWorkLoads DEF LoadKinds, Loads
  <2>2. CASE UNCHANGED work
    BY <2>2 DEF NoNewLoad
  <2> QED
    BY <2>1, <2>2 DEF FinishDestroyAll
<1> QED
  BY <1>1, <1>2, <1>3 DEF ReadyInv, NoNewLoad

LEMMA WorkReady ==
  ASSUME Types, Locks, ReadyInv, NEW w \in Works, WorkStep(w)
  PROVE  ReadyInv'
<1>0. work \in [Works -> Work] /\ work[w] \in Work
      /\ {"none", "queued", "running", "done"} \subseteq States
  BY DEF Types, States
<1>1. CASE ExecuteVoiceModelLoad(w) \/ ExecuteSpeakerLoad(w)
  <2>1. UNCHANGED <<ptr, generation, loadedFor, runtime, js>>
    BY <1>1 DEF ExecuteVoiceModelLoad, ExecuteSpeakerLoad, nluVars
  <2>2. PICK names \in SUBSET Globals : Makes(w, names)
    BY <1>1 DEF ExecuteVoiceModelLoad, ExecuteSpeakerLoad, Globals, KeywordModel
  <2>3. NoNewLoad
    BY <2>2, MakesObjects, OneWorkLoads DEF Loads
  <2> QED
    BY <2>1, <2>3, ReadyKept
<1>2. CASE CompleteVoiceModelLoad(w) \/ CompleteSpeakerLoad(w)
  <2>1. NoNewLoad
    BY <1>2, <1>0, PutWork, NoWorkTyped, NoWorkIdle, OneWorkLoads
    DEF CompleteVoiceModelLoad, CompleteSpeakerLoad, Loads
  <2>2. UNCHANGED <<generation, runtime, js>>
    BY <1>2 DEF CompleteVoiceModelLoad, CompleteSpeakerLoad, nluVars
  <2>3. CASE UNCHANGED <<ptr, loadedFor>>
    BY <2>1, <2>2, <2>3, ReadyKept
  <2>4. CASE CompleteVoiceModelLoad(w) /\ Installs(w, KeywordModel)
    <3>1. /\ loadedFor' = [loadedFor EXCEPT !["voice"] = work[w].gen]
          /\ ptr'["extractor"] = ptr["extractor"] /\ work[w].gen = generation
      BY <2>4 DEF CompleteVoiceModelLoad, Installs, Globals, KeywordModel
    <3> QED
      BY <3>1, <2>1, <2>2 DEF ReadyInv, NoNewLoad, Types, LoadKinds
  <2>5. CASE CompleteSpeakerLoad(w) /\ Installs(w, {"extractor"})
    <3>1. /\ loadedFor' = [loadedFor EXCEPT !["speaker"] = work[w].gen]
          /\ ptr'["spotter"] = ptr["spotter"] /\ work[w].gen = generation
      BY <2>5 DEF CompleteSpeakerLoad, Installs, Cleared, Globals, KeywordModel
    <3> QED
      BY <3>1, <2>1, <2>2 DEF ReadyInv, NoNewLoad, Types, LoadKinds
  <2> QED
    BY <1>2, <2>3, <2>4, <2>5 DEF CompleteVoiceModelLoad, CompleteSpeakerLoad
<1>3. CASE BeginDecode(w) \/ EndDecode(w)
  <2>1. UNCHANGED <<ptr, generation, loadedFor, runtime, js>>
        /\ work[w].kind = "wake"
    BY <1>3 DEF BeginDecode, EndDecode, nluVars
  <2>3. /\ work'[w].kind = "wake"
        /\ \A x \in Works : x # w => work'[x] = work[x]
    BY <1>3, DecodeBegins, DecodeEnds
  <2> QED
    BY <2>1, <2>3, OneWorkLoads, ReadyKept DEF Loads
<1>4. CASE BeginNlu(w)
  <2>1. UNCHANGED <<ptr, generation, loadedFor, runtime, js>>
    BY <1>4 DEF BeginNlu
  <2>2. PICK st \in {"running", "done"} :
          Goto(w, st) /\ (st = "running" => work[w].gen = generation)
    BY <1>4 DEF BeginNlu
  <2>3. /\ Loads(work'[w]) => work'[w].gen = generation
        /\ \A x \in Works : x # w => work'[x] = work[x]
    BY <2>2, <1>0, GotoWork DEF Loads
  <2> QED
    BY <2>1, <2>3 DEF ReadyInv
<1>5. CASE EndNluLoad(w) \/ EndClassify(w)
  <2>1. /\ UNCHANGED <<ptr, generation, js>>
        /\ work[w].st = "running"
    BY <1>5 DEF EndNluLoad, EndClassify
  <2>2. PICK success \in BOOLEAN :
          Put(w, [work[w] EXCEPT !.st = "done", !.success = success])
    BY <1>5 DEF EndNluLoad, EndClassify
  <2> DEFINE r == [work[w] EXCEPT !.st = "done", !.success = success]
  <2>3. Put(w, r) /\ r.st = "done"
    BY <2>2, <1>0 DEF Work
  <2> HIDE DEF r
  <2>4. NoNewLoad
    BY <2>3, <1>0, OneWorkLoads DEF Put, Loads
  <2>5. CASE EndNluLoad(w)
    <3>1. /\ loadedFor' = [loadedFor EXCEPT !["nlu"] = work[w].gen]
          /\ Loads(work[w])
      BY <2>5 DEF EndNluLoad, Loads
    <3> QED
      BY <3>1, <2>1, <2>4 DEF ReadyInv, NoNewLoad, Types, LoadKinds
  <2>6. CASE EndClassify(w)
    BY <2>6, <2>1, <2>4, ReadyKept DEF EndClassify
  <2> QED
    BY <1>5, <2>5, <2>6
<1>6. CASE ReadNluFails(w) \/ CompleteNluLoad(w) \/ CompleteAnswer(w)
  <2>1. /\ UNCHANGED <<ptr, generation, loadedFor, js>>
        /\ runtime' \in {runtime, None}
    BY <1>6 DEF ReadNluFails, CompleteNluLoad, CompleteAnswer, nluVars
  <2>2. CASE ReadNluFails(w)
    BY <2>1, <2>2, <1>0, GotoWork, OneWorkLoads, ReadyKept DEF ReadNluFails, Loads
  <2>3. CASE CompleteNluLoad(w) \/ CompleteAnswer(w)
    <3>1. NoNewLoad
      BY <2>3, <1>0, PutWork, NoWorkTyped, NoWorkIdle, OneWorkLoads
      DEF CompleteNluLoad, CompleteAnswer, Loads
    <3> QED
      BY <3>1, <2>1, ReadyKept
  <2> QED
    BY <1>6, <2>2, <2>3
<1> QED
  BY <1>1, <1>2, <1>3, <1>4, <1>5, <1>6 DEF WorkStep

\* ReadyIsCurrent: whenever the JS thread is outside DestroyAll, the models
\* and the runtime that are installed were loaded for the current generation.
THEOREM CurrentOnly == Spec => []ReadyIsCurrent
<1>1. Init => ReadyInv
  BY NoWorkIdle DEF Init, ReadyInv, Null, Loads, Globals, KeywordModel
<1>2. TypeOK /\ ReadyInv /\ [Next]_vars => ReadyInv'
  <2> SUFFICES ASSUME Types, Locks, ReadyInv, [Next]_vars PROVE ReadyInv'
    BY TypeHalves
  <2>1. CASE UNCHANGED vars
    BY <2>1 DEF vars, nluVars, ReadyInv
  <2> QED
    BY <2>1, CallReady, FinishReady, WorkReady DEF Next
<1>3. ReadyInv => ReadyIsCurrent
  BY DEF ReadyInv, ReadyIsCurrent
<1> QED
  BY <1>1, <1>2, <1>3, TypeCorrect, PTL DEF Spec

(***************************************************************************)
(* The heap                                                                *)
(*                                                                         *)
(* Only Release takes g_inferenceMutex before it destroys the wake-word    *)
(* model.  Initialize does not, and is harmless all the same: it destroys  *)
(* only an incomplete model, a decode runs only on a complete one, and     *)
(* nothing becomes incomplete while a decode holds the mutex.  A load is   *)
(* installed without destroying what the globals pointed to, because there *)
(* is nothing: the model is loaded only after DestroyAll, and at most one  *)
(* load of a generation exists.                                            *)
(***************************************************************************)

\* What lives is held once; only a finished load holds objects of its own.
HeapInv ==
  /\ \A g \in Globals, n \in Numbers :
       <<g, n>> \in live <=> ptr[g] = n \/ \E w \in Works : work[w].made[g] = n
  /\ \A g \in Globals : \A v, w \in Works : work[w].made[g] # 0 =>
       /\ work[w].made[g] # ptr[g]
       /\ v # w => work[v].made[g] # work[w].made[g]
  /\ \A w \in Works : \A g \in Globals : work[w].made[g] # 0 =>
       /\ work[w].st = "done"
       /\ \/ work[w].kind = "voice" /\ g \in KeywordModel
          \/ work[w].kind = "speaker" /\ g = "extractor"

\* A decode uses the model that is installed, which is complete.
UseInv ==
  \A w \in Works :
    /\ work[w].uses # {} => Decodes(work[w])
    /\ Decodes(work[w]) =>
         /\ \A g \in Globals, n \in Numbers : <<g, n>> \in work[w].uses =>
              g \in KeywordModel /\ ptr[g] = n
         /\ \A g \in KeywordModel : ptr[g] # 0

\* The load of the wake-word model of the current generation.
Current(r) == r.kind = "voice" /\ r.gen = generation

LoadInv ==
  /\ \A w \in Works : work[w].gen <= generation
  /\ ptr["spotter"] # 0 => ptr["recognizer"] # 0
  /\ js = "initialize" => \A g \in KeywordModel : ptr[g] = 0
  /\ js # "idle" => \A w \in Works : ~Current(work[w])
  /\ \A w \in Works : Current(work[w]) => \A g \in KeywordModel : ptr[g] = 0
  /\ \A v, w \in Works : Current(work[v]) /\ Current(work[w]) => v = w

ObjectInv == HeapInv /\ UseInv /\ LoadInv

\* A work without objects of its own.
Bare(r) == \A g \in Globals : r.made[g] = 0

LEMMA NullBare == \A g \in Globals : Null[g] = 0
BY DEF Null

LEMMA NoWorkBare == Bare(NoWork)
BY NoWorkIdle, NullBare DEF Bare

LEMMA BareUnlessLoaded ==
  ASSUME HeapInv, NEW w \in Works,
         work[w].st # "done" \/ work[w].kind \notin {"voice", "speaker"}
  PROVE  Bare(work[w])
BY DEF HeapInv, Bare

\* A work that has no objects of its own moves.
LEMMA HeapKept ==
  ASSUME HeapInv, UNCHANGED <<live, ptr>>, NEW w \in Works,
         Bare(work[w]), Bare(work'[w]),
         \A x \in Works : x # w => work'[x] = work[x]
  PROVE  HeapInv'
<1>1. \A x \in Works, g \in Globals : work'[x].made[g] = work[x].made[g]
  BY DEF Bare
<1>2. \A x \in Works, g \in Globals : work'[x].made[g] # 0 => work'[x] = work[x]
  BY DEF Bare
<1> QED
  BY <1>1, <1>2 DEF HeapInv

\* A work that is not decoding moves; the installed model stays.
LEMMA UseKept ==
  ASSUME UseInv, NEW w \in Works, work'[w].uses = {}, ~Decodes(work'[w]),
         \A g \in KeywordModel : ptr'[g] = ptr[g],
         \A x \in Works : x # w => work'[x] = work[x]
  PROVE  UseInv'
BY DEF UseInv, Decodes

\* A work keeps its kind and its generation, or is no load of the model.
LEMMA LoadKept ==
  ASSUME LoadInv, UNCHANGED <<generation, js>>, NEW w \in Works,
         work'[w].gen <= generation,
         Current(work'[w]) => Current(work[w]),
         \A g \in KeywordModel : ptr'[g] = ptr[g],
         \A x \in Works : x # w => work'[x] = work[x]
  PROVE  LoadInv'
<1>1. \A x \in Works : Current(work[x])' => Current(work[x])
  BY DEF Current
<1>2. "spotter" \in KeywordModel /\ "recognizer" \in KeywordModel
  BY DEF KeywordModel
<1> QED
  BY <1>1, <1>2 DEF LoadInv

LEMMA NobodyDecodes ==
  ASSUME Locks, inference = None
  PROVE  \A w \in Works : ~Decodes(work[w])
BY VoiceAssumption DEF Locks

\* DestroyAll, when nobody decodes.
LEMMA DestroyObjects ==
  ASSUME Types, ObjectInv, DestroyGlobals, UNCHANGED work, js' # "idle",
         \A w \in Works : ~Decodes(work[w])
  PROVE  ObjectInv'
<1>1. /\ generation' = generation + 1 /\ generation \in Nat
      /\ live' = live \ Pointed(ptr, Globals) /\ ptr' = Null
  BY VoiceAssumption DEF DestroyGlobals, Types
<1>2. \A g \in Globals : ptr'[g] = 0
  BY <1>1, NullBare
<1>3. \A g \in Globals, n \in Numbers : <<g, n>> \in live' <=> <<g, n>> \in live /\ ptr[g] # n
  BY <1>1, PointedAll DEF Types
<1>4. \A n \in Numbers : n # 0
  BY VoiceAssumption DEF Numbers
<1>5. HeapInv'
  BY <1>2, <1>3, <1>4 DEF ObjectInv, HeapInv
<1>6. UseInv'
  BY DEF ObjectInv, UseInv
<1>7. \A w \in Works : work'[w].gen < generation' /\ work'[w].gen <= generation'
  <2>1. \A w \in Works : work[w].gen \in 0..MaxGeneration /\ work[w].gen <= generation
    BY DEF Types, Work, ObjectInv, LoadInv
  <2>2. \A w \in Works : work[w].gen \in Int
    BY <2>1
  <2> QED
    BY <1>1, <2>1, <2>2
<1>8. \A w \in Works : ~Current(work[w])'
  BY <1>1, <1>7 DEF Current, Types
<1>9. LoadInv'
  BY <1>2, <1>7, <1>8 DEF LoadInv, Globals, KeywordModel
<1> QED
  BY <1>5, <1>6, <1>9 DEF ObjectInv

\* A new stream takes the place of the old one.
LEMMA RestartObjects ==
  ASSUME Types, Locks, ObjectInv,
         NEW stream \in {"keywordStream", "commandStream", "speakerStream"},
         Restart(stream), UNCHANGED <<generation, work, js>>, js = "idle",
         stream = "keywordStream" => inference = None /\ ptr["spotter"] # 0
  PROVE  ObjectInv'
<1>0. stream \in Globals
  BY DEF Globals, KeywordModel
<1>1. PICK n \in 0..MaxObjects :
        /\ n # 0 => <<stream, n>> \notin live \ Pointed(ptr, {stream})
        /\ ptr' = [ptr EXCEPT ![stream] = n]
        /\ ptr' \in Models
        /\ live' = (live \ Pointed(ptr, {stream})) \cup Pointed(ptr', {stream})
  BY <1>0, RestartStream
<1>2. ptr'[stream] = n /\ \A g \in Globals : g # stream => ptr'[g] = ptr[g]
  BY <1>0, <1>1 DEF Types, Models
<1>3. \A g \in Globals, m \in Numbers :
        /\ <<g, m>> \in Pointed(ptr, {stream}) <=> g = stream /\ ptr[g] = m
        /\ <<g, m>> \in Pointed(ptr', {stream}) <=> g = stream /\ n = m
  <2>1. {stream} \in SUBSET Globals /\ ptr \in Models
    BY <1>0 DEF Types
  <2>2. \A g \in Globals, m \in Numbers :
          <<g, m>> \in Pointed(ptr, {stream}) <=> g \in {stream} /\ ptr[g] = m
    BY <2>1, PointedIs
  <2>3. \A g \in Globals, m \in Numbers :
          <<g, m>> \in Pointed(ptr', {stream}) <=> g \in {stream} /\ ptr'[g] = m
    BY <2>1, <1>1, PointedIs
  <2> QED
    BY <2>2, <2>3, <1>2
<1>4. \A m \in Numbers : m # 0
  BY VoiceAssumption DEF Numbers
<1>5. n # 0 => n \in Numbers /\ ~(<<stream, n>> \in live /\ ptr[stream] # n)
  <2>1. n # 0 => n \in Numbers
    BY VoiceAssumption DEF Numbers
  <2> QED
    BY <2>1, <1>0, <1>1, <1>3
<1>6. HeapInv'
  <2>1. \A g \in Globals, m \in Numbers :
          <<g, m>> \in live' <=> IF g = stream
            THEN (<<g, m>> \in live /\ ptr[g] # m) \/ n = m
            ELSE <<g, m>> \in live
    BY <1>1, <1>3
  <2>2. \A w \in Works : work[w].made[stream] # 0 => work[w].made[stream] # n
    <3>1. \A w \in Works : work[w].made[stream] \in 0..MaxObjects
      BY <1>0 DEF Types, Work, Models
    <3>2. \A w \in Works : work[w].made[stream] # 0 => work[w].made[stream] \in Numbers
      BY <3>1, VoiceAssumption DEF Numbers
    <3> QED
      BY <3>2, <1>0, <1>5 DEF ObjectInv, HeapInv
  <2>3. ASSUME NEW g \in Globals, NEW m \in Numbers
        PROVE  <<g, m>> \in live' <=>
                 ptr'[g] = m \/ \E w \in Works : work'[w].made[g] = m
    <3>1. m # 0 /\ (<<g, m>> \in live <=>
            ptr[g] = m \/ \E w \in Works : work[w].made[g] = m)
      BY <1>4 DEF ObjectInv, HeapInv
    <3>2. CASE g # stream
      BY <1>2, <2>1, <3>1, <3>2
    <3>3. CASE g = stream
      <4>1. \A w \in Works : work[w].made[g] = m => ptr[g] # m
        BY <3>1 DEF ObjectInv, HeapInv
      <4> QED
        BY <1>2, <2>1, <3>1, <3>3, <4>1
    <3> QED
      BY <3>2, <3>3
  <2>4. \A g \in Globals : \A v, w \in Works : work'[w].made[g] # 0 =>
          /\ work'[w].made[g] # ptr'[g]
          /\ v # w => work'[v].made[g] # work'[w].made[g]
    BY <1>2, <2>2 DEF ObjectInv, HeapInv
  <2> QED
    BY <2>3, <2>4 DEF ObjectInv, HeapInv
<1>7. UseInv'
  <2>1. CASE stream = "keywordStream"
    BY <2>1, NobodyDecodes DEF ObjectInv, UseInv
  <2>2. CASE stream # "keywordStream"
    <3>1. \A g \in KeywordModel : ptr'[g] = ptr[g]
      BY <2>2, <1>2 DEF Globals, KeywordModel
    <3> QED
      BY <3>1 DEF ObjectInv, UseInv, Decodes
  <2> QED
    BY <2>1, <2>2
<1>8. LoadInv'
  <2>1. \A w \in Works : Current(work[w])' <=> Current(work[w])
    BY DEF Current
  <2>2. "spotter" \in Globals /\ "recognizer" \in Globals /\ "spotter" \in KeywordModel
        /\ stream # "spotter" /\ stream # "recognizer"
    BY DEF Globals, KeywordModel
  <2>3. stream # "keywordStream" => \A g \in KeywordModel : ptr'[g] = ptr[g]
    BY <1>2 DEF Globals, KeywordModel
  <2>4. stream = "keywordStream" => \A w \in Works : ~Current(work[w])
    BY <2>2 DEF ObjectInv, LoadInv
  <2> QED
    BY <1>2, <2>1, <2>2, <2>3, <2>4 DEF ObjectInv, LoadInv
<1> QED
  BY <1>6, <1>7, <1>8 DEF ObjectInv

\* The speaker stream is destroyed.
LEMMA EndSpeakerObjects ==
  ASSUME Types, ObjectInv, EndSpeaker
  PROVE  ObjectInv'
<1>1. /\ UNCHANGED <<generation, work, js>> /\ js = "idle"
      /\ live' = live \ Pointed(ptr, {"speakerStream"})
      /\ ptr' = Cleared({"speakerStream"})
  BY DEF EndSpeaker, StreamCall
<1>2. ptr'["speakerStream"] = 0
      /\ \A g \in Globals : g # "speakerStream" => ptr'[g] = ptr[g]
  BY <1>1 DEF Cleared, Globals
<1>3. {"speakerStream"} \in SUBSET Globals /\ ptr \in Models
  BY DEF Types, Globals
<1>4. \A g \in Globals, n \in Numbers :
        <<g, n>> \in live' <=> <<g, n>> \in live /\ ~(g = "speakerStream" /\ ptr[g] = n)
  BY <1>1, <1>3, PointedIs
<1>5. \A n \in Numbers : n # 0
  BY VoiceAssumption DEF Numbers
<1>6. HeapInv'
  <2>1. \A w \in Works : work[w].made["speakerStream"] = 0
    BY DEF ObjectInv, HeapInv, Globals, KeywordModel
  <2> QED
    BY <1>1, <1>2, <1>4, <1>5, <2>1 DEF ObjectInv, HeapInv
<1>7. \A g \in KeywordModel : ptr'[g] = ptr[g]
  BY <1>2 DEF Globals, KeywordModel
<1>8. UseInv'
  BY <1>1, <1>7 DEF ObjectInv, UseInv, Decodes
<1>9. LoadInv'
  <2>1. \A w \in Works : Current(work[w])' <=> Current(work[w])
    BY <1>1 DEF Current
  <2>2. "spotter" \in KeywordModel /\ "recognizer" \in KeywordModel
    BY DEF KeywordModel
  <2> QED
    BY <1>1, <1>7, <2>1, <2>2 DEF ObjectInv, LoadInv
<1> QED
  BY <1>6, <1>8, <1>9 DEF ObjectInv

\* A work without objects moves, decodes neither before nor after, and is no
\* new load of the wake-word model.
LEMMA ObjectsKept ==
  ASSUME ObjectInv, UNCHANGED <<live, ptr, generation, js>>, NEW w \in Works,
         Bare(work[w]), Bare(work'[w]),
         work'[w].uses = {}, ~Decodes(work'[w]), work'[w].gen <= generation,
         Current(work'[w]) => Current(work[w]),
         \A x \in Works : x # w => work'[x] = work[x]
  PROVE  ObjectInv'
<1>1. HeapInv'
  BY HeapKept DEF ObjectInv
<1>2. UseInv'
  BY UseKept DEF ObjectInv
<1>3. LoadInv'
  BY LoadKept DEF ObjectInv
<1> QED
  BY <1>1, <1>2, <1>3 DEF ObjectInv

LEMMA CallObjects ==
  ASSUME Types, Locks, ObjectInv, Call
  PROVE  ObjectInv'
<1>0. generation \in Nat /\ generation <= generation
  BY VoiceAssumption DEF Types
<1>1. CASE Initialize
  <2>1. \A w \in Works : ~Decodes(work[w])
    BY <1>1 DEF Initialize, ObjectInv, UseInv
  <2> QED
    BY <1>1, <2>1, DestroyObjects DEF Initialize
<1>2. CASE Release
  BY <1>2, NobodyDecodes, DestroyObjects DEF Release
<1>3. CASE InitializeSpeaker \/ \E v \in Variants : InitializeNlu(v)
  <2>1. PICK kind \in {"speaker", "nlu"}, v \in Variants \cup {None} :
          QueueLoad(kind, v)
    BY <1>3 DEF InitializeSpeaker, InitializeNlu
  <2>2. UNCHANGED <<live, ptr, generation, js>>
    BY <1>3 DEF InitializeSpeaker, InitializeNlu
  <2>3. PICK w \in Works :
           /\ work[w].st = "none" /\ work'[w].st \in {"queued", "lost"}
           /\ work'[w].kind = kind /\ work'[w].gen = generation
           /\ work'[w].made = Null /\ work'[w].uses = {}
           /\ \A x \in Works : x # w => work'[x] = work[x]
    BY <2>1, QueueLoadWork DEF LoadKinds
  <2>4. Bare(work[w]) /\ Bare(work'[w])
    BY <2>3, BareUnlessLoaded, NullBare DEF ObjectInv, Bare
  <2>5. ~Decodes(work'[w]) /\ ~Current(work'[w])
    BY <2>3 DEF Decodes, Current
  <2> QED
    BY <1>0, <2>2, <2>3, <2>4, <2>5, ObjectsKept
<1>4. CASE ClassifyNlu \/ AcceptWake
  <2>1. PICK kind \in {"wake", "classify"} : Queue(kind)
    BY <1>4 DEF ClassifyNlu, AcceptWake
  <2>2. UNCHANGED <<live, ptr, generation, js>>
    BY <2>1 DEF Queue
  <2>3. PICK w \in Works :
           /\ work[w].st = "none" /\ work'[w].st = "queued"
           /\ work'[w].kind = kind /\ work'[w].gen = generation
           /\ work'[w].made = Null /\ work'[w].uses = {}
           /\ \A x \in Works : x # w => work'[x] = work[x]
    BY <2>1, QueueWork
  <2>4. Bare(work[w]) /\ Bare(work'[w])
    BY <2>3, BareUnlessLoaded, NullBare DEF ObjectInv, Bare
  <2>5. ~Decodes(work'[w]) /\ ~Current(work'[w])
    BY <2>3 DEF Decodes, Current
  <2> QED
    BY <1>0, <2>2, <2>3, <2>4, <2>5, ObjectsKept
<1>5. CASE ResetWake \/ StartCommand \/ StartSpeaker
  <2>1. UNCHANGED <<generation, work, js>> /\ js = "idle"
    BY <1>5 DEF ResetWake, StartCommand, StartSpeaker, StreamCall
  <2>2. PICK stream \in {"keywordStream", "commandStream", "speakerStream"} :
          /\ Restart(stream)
          /\ stream = "keywordStream" => inference = None /\ ptr["spotter"] # 0
    BY <1>5 DEF ResetWake, StartCommand, StartSpeaker, StreamCall
  <2> QED
    BY <2>1, <2>2, RestartObjects
<1> QED
  BY <1>1, <1>2, <1>3, <1>4, <1>5, EndSpeakerObjects DEF Call

\* The load of the wake-word model is queued when it is the only one of its
\* generation and no model is there.
LEMMA FinishObjects ==
  ASSUME Types, Locks, ObjectInv, FinishDestroyAll
  PROVE  ObjectInv'
<1>1. UNCHANGED <<live, ptr, generation>> /\ js' = "idle" /\ js # "idle"
  BY DEF FinishDestroyAll
<1>2. \A x \in Works : ~Current(work[x])
  BY <1>1 DEF ObjectInv, LoadInv
<1>3. generation \in Nat /\ generation <= generation
  BY VoiceAssumption DEF Types
<1>4. CASE UNCHANGED work
  <2>1. HeapInv' /\ UseInv'
    BY <1>1, <1>4 DEF ObjectInv, HeapInv, UseInv
  <2>2. \A x \in Works : ~Current(work[x])'
    BY <1>1, <1>2, <1>4 DEF Current
  <2> QED
    BY <1>1, <1>4, <2>1, <2>2 DEF ObjectInv, LoadInv
<1>5. CASE js = "initialize" /\ QueueLoad("voice", None)
  <2>1. PICK w \in Works :
           /\ work[w].st = "none" /\ work'[w].st \in {"queued", "lost"}
           /\ work'[w].kind = "voice" /\ work'[w].gen = generation
           /\ work'[w].made = Null /\ work'[w].uses = {}
           /\ \A x \in Works : x # w => work'[x] = work[x]
    BY <1>5, QueueLoadWork DEF LoadKinds
  <2>2. Bare(work[w]) /\ Bare(work'[w]) /\ ~Decodes(work'[w])
    BY <2>1, BareUnlessLoaded, NullBare DEF ObjectInv, Bare, Decodes
  <2>3. HeapInv'
    BY <1>1, <2>1, <2>2, HeapKept DEF ObjectInv
  <2>4. UseInv'
    BY <1>1, <2>1, <2>2, UseKept DEF ObjectInv
  <2>5. \A x \in Works : Current(work[x])' => x = w
    BY <1>1, <1>2, <2>1 DEF Current
  <2>6. \A g \in KeywordModel : ptr'[g] = 0
    BY <1>1, <1>5 DEF ObjectInv, LoadInv
  <2>7. LoadInv'
    BY <1>1, <1>3, <2>1, <2>5, <2>6 DEF ObjectInv, LoadInv, KeywordModel
  <2> QED
    BY <2>3, <2>4, <2>7 DEF ObjectInv
<1> QED
  BY <1>4, <1>5 DEF FinishDestroyAll

\* What a load makes is new, and its own.
LEMMA ExecuteObjects ==
  ASSUME Types, ObjectInv, NEW w \in Works,
         ExecuteVoiceModelLoad(w) \/ ExecuteSpeakerLoad(w)
  PROVE  ObjectInv'
<1>1. /\ UNCHANGED <<ptr, generation, js>>
      /\ work[w].st = "queued" /\ work[w].kind \in {"voice", "speaker"}
  BY DEF ExecuteVoiceModelLoad, ExecuteSpeakerLoad
<1>2. PICK names \in SUBSET Globals :
        /\ Makes(w, names)
        /\ names \subseteq IF work[w].kind = "voice" THEN KeywordModel
                                                   ELSE {"extractor"}
  BY DEF ExecuteVoiceModelLoad, ExecuteSpeakerLoad, Globals, KeywordModel
<1>3. PICK made \in Models :
         /\ \A g \in Globals : made[g] # 0 =>
              /\ g \in names /\ made[g] \in Numbers
              /\ <<g, made[g]>> \notin live
         /\ live' = live \cup Pointed(made, Globals)
         /\ work'[w].st = "done" /\ work'[w].kind = work[w].kind
         /\ work'[w].gen = work[w].gen /\ work'[w].made = made
         /\ work'[w].uses = work[w].uses
         /\ \A x \in Works : x # w => work'[x] = work[x]
  BY <1>2, MakesObjects
<1>4. Bare(work[w])
  BY <1>1, BareUnlessLoaded DEF ObjectInv
<1>5. /\ work'[w].uses = {} /\ ~Decodes(work'[w])
  BY <1>1, <1>3 DEF ObjectInv, UseInv, Decodes
<1>6. HeapInv'
  <2>1. \A n \in Numbers : n # 0
    BY VoiceAssumption DEF Numbers
  <2>2. \A g \in Globals, n \in Numbers :
          <<g, n>> \in live' <=> <<g, n>> \in live \/ made[g] = n
    <3>1. live' = live \cup Pointed(made, Globals) /\ made \in Models
      BY <1>3
    <3> QED
      BY <3>1, PointedAll
  <2>3. /\ work'[w].made = made /\ work'[w].st = "done"
        /\ work'[w].kind = work[w].kind
        /\ \A x \in Works : x # w => work'[x] = work[x]
    BY <1>3
  <2>4. ASSUME NEW g \in Globals, NEW n \in Numbers
        PROVE  <<g, n>> \in live' <=>
                 ptr'[g] = n \/ \E x \in Works : work'[x].made[g] = n
    <3>1. <<g, n>> \in live <=> ptr[g] = n \/ \E x \in Works : work[x].made[g] = n
      BY DEF ObjectInv, HeapInv
    <3>2. work[w].made[g] # n
      BY <1>4, <2>1 DEF Bare
    <3>3. (\E x \in Works : work'[x].made[g] = n)
            <=> made[g] = n \/ \E x \in Works : work[x].made[g] = n
      BY <2>3, <3>2
    <3> QED
      BY <1>1, <2>2, <3>1, <3>3
  <2>5. ASSUME NEW g \in Globals, made[g] # 0
        PROVE  /\ made[g] # ptr[g]
               /\ \A x \in Works : work[x].made[g] # made[g]
    <3>1. made[g] \in Numbers /\ <<g, made[g]>> \notin live
      BY <1>3, <2>5
    <3>2. \A n \in Numbers : <<g, n>> \notin live =>
            ptr[g] # n /\ \A x \in Works : work[x].made[g] # n
      BY DEF ObjectInv, HeapInv
    <3> QED
      BY <3>1, <3>2
  <2>6. \A g \in Globals : \A v, x \in Works : work'[x].made[g] # 0 =>
          /\ work'[x].made[g] # ptr'[g]
          /\ v # x => work'[v].made[g] # work'[x].made[g]
    BY <1>1, <2>3, <2>5 DEF ObjectInv, HeapInv
  <2>7. \A x \in Works : \A g \in Globals : work'[x].made[g] # 0 =>
          /\ work'[x].st = "done"
          /\ \/ work'[x].kind = "voice" /\ g \in KeywordModel
             \/ work'[x].kind = "speaker" /\ g = "extractor"
    <3>1. ASSUME NEW g \in Globals, made[g] # 0
          PROVE  \/ work[w].kind = "voice" /\ g \in KeywordModel
                 \/ work[w].kind = "speaker" /\ g = "extractor"
      <4>1. g \in names
        BY <1>3, <3>1
      <4> QED
        BY <1>1, <1>2, <4>1
    <3> QED
      BY <2>3, <3>1 DEF ObjectInv, HeapInv
  <2> QED
    BY <2>4, <2>6, <2>7 DEF HeapInv
<1>7. UseInv'
  BY <1>1, <1>3, <1>5, UseKept DEF ObjectInv
<1>8. LoadInv'
  <2>1. work'[w].gen <= generation /\ (Current(work'[w]) => Current(work[w]))
    BY <1>3 DEF ObjectInv, LoadInv, Current
  <2> QED
    BY <1>1, <1>3, <2>1, LoadKept DEF ObjectInv
<1> QED
  BY <1>6, <1>7, <1>8 DEF ObjectInv

\* A load that is not installed destroys what it has made.
LEMMA DiscardObjects ==
  ASSUME Types, ObjectInv, NEW w \in Works, work[w].st = "done",
         live' = live \ Pointed(work[w].made, Globals),
         UNCHANGED <<ptr, generation, js>>, Put(w, NoWork)
  PROVE  ObjectInv'
<1>0. work \in [Works -> Work] /\ work[w].made \in Models
      /\ generation \in Nat
  BY VoiceAssumption DEF Types, Work
<1>1. work'[w] = NoWork /\ \A x \in Works : x # w => work'[x] = work[x]
  BY <1>0, PutWork, NoWorkTyped
<1>2. \A g \in Globals : work'[w].made[g] = 0
  BY <1>1, NoWorkBare DEF Bare
<1>3. \A n \in Numbers : n # 0
  BY VoiceAssumption DEF Numbers
<1>4. HeapInv'
  <2>1. \A g \in Globals, n \in Numbers :
          <<g, n>> \in live' <=> <<g, n>> \in live /\ work[w].made[g] # n
    BY <1>0, PointedAll
  <2>2. ASSUME NEW g \in Globals, NEW n \in Numbers
        PROVE  <<g, n>> \in live' <=>
                 ptr'[g] = n \/ \E x \in Works : work'[x].made[g] = n
    <3>1. <<g, n>> \in live <=> ptr[g] = n \/ \E x \in Works : work[x].made[g] = n
      BY DEF ObjectInv, HeapInv
    <3>2. (\E x \in Works : work[x].made[g] = n)
            <=> work[w].made[g] = n \/ \E x \in Works : work'[x].made[g] = n
      BY <1>1, <1>2, <1>3
    <3>3. work[w].made[g] = n =>
            ptr[g] # n /\ \A x \in Works : x # w => work[x].made[g] # n
      BY <1>3 DEF ObjectInv, HeapInv
    <3>4. work[w].made[g] = n => ~\E x \in Works : work'[x].made[g] = n
      BY <1>1, <1>2, <1>3, <3>3
    <3> QED
      BY <2>1, <3>1, <3>2, <3>3, <3>4
  <2> QED
    BY <1>1, <1>2, <2>2 DEF ObjectInv, HeapInv
<1>5. work'[w].uses = {} /\ ~Decodes(work'[w]) /\ ~Current(work'[w])
      /\ work'[w].gen <= generation
  BY <1>0, <1>1, NoWorkIdle DEF Decodes, Current, NoWork
<1> QED
  BY <1>1, <1>4, <1>5, UseKept, LoadKept DEF ObjectInv

LEMMA CompleteVoiceObjects ==
  ASSUME Types, ObjectInv, NEW w \in Works, CompleteVoiceModelLoad(w)
  PROVE  ObjectInv'
<1>0. /\ work \in [Works -> Work] /\ work[w].made \in Models
      /\ generation \in Nat /\ Put(w, NoWork)
      /\ work[w].st = "done" /\ work[w].kind = "voice" /\ js = "idle"
      /\ UNCHANGED <<generation, js>>
  BY VoiceAssumption DEF Types, Work, CompleteVoiceModelLoad
<1>1. work'[w] = NoWork /\ \A x \in Works : x # w => work'[x] = work[x]
  BY <1>0, PutWork, NoWorkTyped
<1>2. CASE ~Installs(w, KeywordModel)
  BY <1>0, <1>2, DiscardObjects DEF CompleteVoiceModelLoad
<1>3. CASE Installs(w, KeywordModel)
  <2>1. /\ UNCHANGED live
        /\ ptr' = [g \in Globals |-> IF g \in KeywordModel THEN work[w].made[g]
                                                       ELSE ptr[g]]
        /\ \A g \in KeywordModel : work[w].made[g] # 0
        /\ Current(work[w])
    BY <1>0, <1>3 DEF CompleteVoiceModelLoad, Installs, Current
  <2>2. \A g \in KeywordModel : g \in Globals /\ ptr[g] = 0
    BY <2>1 DEF ObjectInv, LoadInv, Globals
  <2>3. /\ \A g \in KeywordModel : ptr'[g] = work[w].made[g] /\ ptr'[g] # 0
        /\ \A g \in Globals : g \notin KeywordModel => ptr'[g] = ptr[g]
    BY <2>1, <2>2
  <2>4. \A g \in Globals : g \notin KeywordModel => work[w].made[g] = 0
    BY <1>0 DEF ObjectInv, HeapInv
  <2>5. \A g \in Globals : work'[w].made[g] = 0
    BY <1>1, NoWorkBare DEF Bare
  <2>6. \A n \in Numbers : n # 0
    BY VoiceAssumption DEF Numbers
  <2>7. HeapInv'
    <3>1. ASSUME NEW g \in Globals, NEW n \in Numbers
          PROVE  <<g, n>> \in live' <=>
                   ptr'[g] = n \/ \E x \in Works : work'[x].made[g] = n
      <4>1. <<g, n>> \in live' <=> ptr[g] = n \/ \E x \in Works : work[x].made[g] = n
        BY <2>1 DEF ObjectInv, HeapInv
      <4>2. (\E x \in Works : work[x].made[g] = n)
              <=> work[w].made[g] = n \/ \E x \in Works : work'[x].made[g] = n
        BY <1>1, <2>5, <2>6
      <4>3. CASE g \in KeywordModel
        BY <4>1, <4>2, <4>3, <2>2, <2>3, <2>6
      <4>4. CASE g \notin KeywordModel
        BY <4>1, <4>2, <4>4, <2>3, <2>4, <2>6
      <4> QED
        BY <4>3, <4>4
    <3>2. \A g \in Globals : \A v, x \in Works : work'[x].made[g] # 0 =>
            /\ work'[x].made[g] # ptr'[g]
            /\ v # x => work'[v].made[g] # work'[x].made[g]
      BY <1>1, <2>3, <2>5 DEF ObjectInv, HeapInv
    <3>3. \A x \in Works : \A g \in Globals : work'[x].made[g] # 0 =>
            /\ work'[x].st = "done"
            /\ \/ work'[x].kind = "voice" /\ g \in KeywordModel
               \/ work'[x].kind = "speaker" /\ g = "extractor"
      BY <1>1, <2>5 DEF ObjectInv, HeapInv
    <3> QED
      BY <3>1, <3>2, <3>3 DEF HeapInv
  <2>8. UseInv'
    <3>1. "spotter" \in KeywordModel
      BY DEF KeywordModel
    <3>2. \A x \in Works : ~Decodes(work[x]) /\ work[x].uses = {}
      BY <2>2, <3>1 DEF ObjectInv, UseInv
    <3>3. work'[w].uses = {} /\ ~Decodes(work'[w])
      BY <1>1, NoWorkIdle DEF Decodes
    <3> QED
      BY <1>1, <3>2, <3>3 DEF UseInv, Decodes
  <2>9. LoadInv'
    <3>1. \A x \in Works : ~Current(work[x])'
      BY <1>0, <1>1, <2>1, NoWorkIdle DEF ObjectInv, LoadInv, Current
    <3>2. work'[w].gen <= generation
      BY <1>0, <1>1 DEF NoWork
    <3> QED
      BY <1>0, <1>1, <2>3, <3>1, <3>2 DEF ObjectInv, LoadInv, KeywordModel
  <2> QED
    BY <2>7, <2>8, <2>9 DEF ObjectInv
<1> QED
  BY <1>2, <1>3

LEMMA CompleteSpeakerObjects ==
  ASSUME Types, ObjectInv, NEW w \in Works, CompleteSpeakerLoad(w)
  PROVE  ObjectInv'
<1>0. /\ work \in [Works -> Work] /\ work[w].made \in Models /\ ptr \in Models
      /\ generation \in Nat /\ Put(w, NoWork)
      /\ work[w].st = "done" /\ work[w].kind = "speaker" /\ js = "idle"
      /\ UNCHANGED <<generation, js>>
  BY VoiceAssumption DEF Types, Work, CompleteSpeakerLoad
<1>1. work'[w] = NoWork /\ \A x \in Works : x # w => work'[x] = work[x]
  BY <1>0, PutWork, NoWorkTyped
<1>2. CASE ~Installs(w, {"extractor"})
  BY <1>0, <1>2, DiscardObjects DEF CompleteSpeakerLoad
<1>3. CASE Installs(w, {"extractor"})
  <2> DEFINE old == {"extractor", "speakerStream"}
  <2>1. /\ live' = live \ Pointed(ptr, old)
        /\ ptr' = [Cleared({"speakerStream"})
                     EXCEPT !["extractor"] = work[w].made["extractor"]]
        /\ work[w].made["extractor"] # 0
    BY <1>0, <1>3 DEF CompleteSpeakerLoad, Installs
  <2>2. /\ ptr'["extractor"] = work[w].made["extractor"]
        /\ ptr'["speakerStream"] = 0
        /\ \A g \in Globals : g \notin old => ptr'[g] = ptr[g]
    BY <2>1 DEF Cleared, Globals
  <2>3. \A g \in Globals : g # "extractor" => work[w].made[g] = 0
    BY <1>0 DEF ObjectInv, HeapInv
  <2>4. \A x \in Works : work[x].made["speakerStream"] = 0
    BY DEF ObjectInv, HeapInv, Globals, KeywordModel
  <2>5. \A g \in Globals : work'[w].made[g] = 0
    BY <1>1, NoWorkBare DEF Bare
  <2>6. \A n \in Numbers : n # 0
    BY VoiceAssumption DEF Numbers
  <2>7. \A g \in Globals, n \in Numbers :
          <<g, n>> \in live' <=> <<g, n>> \in live /\ ~(g \in old /\ ptr[g] = n)
    <3>1. old \in SUBSET Globals
      BY DEF Globals
    <3> HIDE DEF old
    <3>2. \A g \in Globals, n \in Numbers :
            <<g, n>> \in Pointed(ptr, old) <=> g \in old /\ ptr[g] = n
      BY <1>0, <3>1, PointedIs
    <3> QED
      BY <2>1, <3>2
  <2>8. HeapInv'
    <3>1. ASSUME NEW g \in Globals, NEW n \in Numbers
          PROVE  <<g, n>> \in live' <=>
                   ptr'[g] = n \/ \E x \in Works : work'[x].made[g] = n
      <4>1. <<g, n>> \in live <=> ptr[g] = n \/ \E x \in Works : work[x].made[g] = n
        BY DEF ObjectInv, HeapInv
      <4>2. (\E x \in Works : work[x].made[g] = n)
              <=> work[w].made[g] = n \/ \E x \in Works : work'[x].made[g] = n
        BY <1>1, <2>5, <2>6
      <4>3. \A x \in Works : work[x].made[g] = n => ptr[g] # n
        BY <2>6 DEF ObjectInv, HeapInv
      <4>4. CASE g = "extractor"
        BY <4>1, <4>2, <4>3, <4>4, <2>2, <2>7
      <4>5. CASE g = "speakerStream"
        BY <4>1, <4>2, <4>3, <4>5, <2>2, <2>3, <2>6, <2>7
      <4>6. CASE g \notin old
        BY <4>1, <4>2, <4>6, <2>2, <2>3, <2>6, <2>7
      <4> QED
        BY <4>4, <4>5, <4>6
    <3>2. \A g \in Globals : \A v, x \in Works : work'[x].made[g] # 0 =>
            /\ work'[x].made[g] # ptr'[g]
            /\ v # x => work'[v].made[g] # work'[x].made[g]
      <4>1. \A g \in Globals : \A x \in Works :
              work'[x].made[g] # 0 => x # w /\ g # "speakerStream"
        BY <1>1, <2>4, <2>5
      <4> QED
        BY <1>1, <2>2, <2>5, <4>1 DEF ObjectInv, HeapInv
    <3>3. \A x \in Works : \A g \in Globals : work'[x].made[g] # 0 =>
            /\ work'[x].st = "done"
            /\ \/ work'[x].kind = "voice" /\ g \in KeywordModel
               \/ work'[x].kind = "speaker" /\ g = "extractor"
      BY <1>1, <2>5 DEF ObjectInv, HeapInv
    <3> QED
      BY <3>1, <3>2, <3>3 DEF HeapInv
  <2>9. \A g \in KeywordModel : ptr'[g] = ptr[g]
    BY <2>2 DEF Globals, KeywordModel
  <2>10. work'[w].uses = {} /\ ~Decodes(work'[w]) /\ ~Current(work'[w])
         /\ work'[w].gen <= generation
    BY <1>0, <1>1, NoWorkIdle DEF Decodes, Current, NoWork
  <2> QED
    BY <1>0, <1>1, <2>8, <2>9, <2>10, UseKept, LoadKept DEF ObjectInv
<1> QED
  BY <1>2, <1>3

LEMMA WorkObjects ==
  ASSUME Types, Locks, ObjectInv, NEW w \in Works, WorkStep(w)
  PROVE  ObjectInv'
<1>0. /\ work \in [Works -> Work] /\ generation \in Nat
      /\ {"none", "queued", "running", "done"} \subseteq States
      /\ work[w].gen <= generation
  BY VoiceAssumption DEF Types, States, ObjectInv, LoadInv
<1>1. CASE BeginDecode(w) \/ EndDecode(w)
  <2>1. /\ UNCHANGED <<live, ptr, generation, js>>
        /\ work[w].kind = "wake"
    BY <1>1 DEF BeginDecode, EndDecode
  <2>2. /\ work'[w].kind = "wake" /\ work'[w].gen = work[w].gen
        /\ work'[w].made = work[w].made
        /\ \A x \in Works : x # w => work'[x] = work[x]
    BY <1>1, DecodeBegins, DecodeEnds
  <2>3. Bare(work[w]) /\ Bare(work'[w])
    BY <2>1, <2>2, BareUnlessLoaded DEF ObjectInv, Bare
  <2>4. HeapInv'
    BY <2>1, <2>2, <2>3, HeapKept DEF ObjectInv
  <2>5. LoadInv'
    BY <1>0, <2>1, <2>2, LoadKept DEF ObjectInv, Current
  <2>6. CASE work'[w].st = "done" /\ work'[w].uses \in {work[w].uses, {}}
    <3>1. ~Decodes(work'[w]) /\ work'[w].uses = {}
      <4>1. CASE BeginDecode(w)
        BY <2>6, <4>1 DEF BeginDecode, ObjectInv, UseInv, Decodes
      <4>2. CASE EndDecode(w)
        BY <4>2, DecodeEnds DEF Decodes
      <4> QED
        BY <1>1, <4>1, <4>2
    <3>2. UseInv'
      BY <2>1, <2>2, <3>1, UseKept DEF ObjectInv
    <3> QED
      BY <2>4, <2>5, <3>2 DEF ObjectInv
  <2>7. CASE /\ work'[w].st = "running"
             /\ work'[w].uses = Pointed(ptr, {"spotter", "keywordStream"})
             /\ ptr["spotter"] # 0 /\ ptr["keywordStream"] # 0
    <3>1. \A g \in KeywordModel : ptr[g] # 0
      BY <2>7 DEF ObjectInv, LoadInv, KeywordModel
    <3>2. \A g \in Globals, n \in Numbers :
            <<g, n>> \in work'[w].uses => g \in KeywordModel /\ ptr[g] = n
      <4>1. {"spotter", "keywordStream"} \in SUBSET Globals /\ ptr \in Models
        BY DEF Types, Globals, KeywordModel
      <4>2. \A g \in Globals, n \in Numbers :
              <<g, n>> \in Pointed(ptr, {"spotter", "keywordStream"})
                <=> g \in {"spotter", "keywordStream"} /\ ptr[g] = n
        BY <4>1, PointedIs
      <4> QED
        BY <2>7, <4>2 DEF KeywordModel
    <3>3. Decodes(work'[w])
      BY <2>2, <2>7 DEF Decodes
    <3>4. UseInv'
      BY <2>1, <2>2, <3>1, <3>2, <3>3 DEF ObjectInv, UseInv, Decodes
    <3> QED
      BY <2>4, <2>5, <3>4 DEF ObjectInv
  <2> QED
    BY <1>1, <2>6, <2>7, DecodeBegins, DecodeEnds
<1>2. CASE ReadNluFails(w) \/ BeginNlu(w)
  <2>1. /\ UNCHANGED <<live, ptr, generation, js>>
        /\ work[w].st = "queued" /\ work[w].kind \in {"nlu", "classify"}
    BY <1>2 DEF ReadNluFails, BeginNlu
  <2>2. PICK st \in {"running", "done"} : Goto(w, st)
    BY <1>2 DEF ReadNluFails, BeginNlu
  <2>3. /\ work'[w].kind = work[w].kind /\ work'[w].gen = work[w].gen
        /\ work'[w].made = work[w].made /\ work'[w].uses = work[w].uses
        /\ \A x \in Works : x # w => work'[x] = work[x]
    BY <1>0, <2>2, GotoWork
  <2>4. Bare(work[w]) /\ Bare(work'[w])
    BY <2>1, <2>3, BareUnlessLoaded DEF ObjectInv, Bare
  <2>5. /\ work'[w].uses = {} /\ ~Decodes(work'[w]) /\ ~Current(work'[w])
    BY <2>1, <2>3 DEF ObjectInv, UseInv, Decodes, Current
  <2> QED
    BY <1>0, <2>1, <2>3, <2>4, <2>5, ObjectsKept
<1>3. CASE EndNluLoad(w) \/ EndClassify(w)
  <2>1. /\ UNCHANGED <<live, ptr, generation, js>>
        /\ work[w].st = "running" /\ work[w].kind \in {"nlu", "classify"}
    BY <1>3 DEF EndNluLoad, EndClassify
  <2>2. PICK success \in BOOLEAN :
          Put(w, [work[w] EXCEPT !.st = "done", !.success = success])
    BY <1>3 DEF EndNluLoad, EndClassify
  <2> DEFINE r == [work[w] EXCEPT !.st = "done", !.success = success]
  <2>3. /\ r \in Work /\ r.kind = work[w].kind /\ r.gen = work[w].gen
        /\ r.made = work[w].made /\ r.uses = work[w].uses
    BY <1>0 DEF Work
  <2> HIDE DEF r
  <2>4. /\ work'[w] = r /\ \A x \in Works : x # w => work'[x] = work[x]
    BY <1>0, <2>2, <2>3, PutWork DEF r
  <2>5. Bare(work[w]) /\ Bare(work'[w])
    BY <2>1, <2>3, <2>4, BareUnlessLoaded DEF ObjectInv, Bare
  <2>6. /\ work'[w].uses = {} /\ ~Decodes(work'[w]) /\ ~Current(work'[w])
        /\ work'[w].gen <= generation
    BY <1>0, <2>1, <2>3, <2>4 DEF ObjectInv, UseInv, Decodes, Current
  <2> QED
    BY <2>1, <2>4, <2>5, <2>6, ObjectsKept
<1>4. CASE CompleteNluLoad(w) \/ CompleteAnswer(w)
  <2>1. /\ UNCHANGED <<live, ptr, generation, js>> /\ Put(w, NoWork)
        /\ work[w].kind \in {"nlu", "wake", "classify"}
    BY <1>4 DEF CompleteNluLoad, CompleteAnswer
  <2>2. work'[w] = NoWork /\ \A x \in Works : x # w => work'[x] = work[x]
    BY <1>0, <2>1, PutWork, NoWorkTyped
  <2>3. Bare(work[w]) /\ Bare(work'[w])
    BY <2>1, <2>2, BareUnlessLoaded, NoWorkBare DEF ObjectInv
  <2>4. /\ work'[w].uses = {} /\ ~Decodes(work'[w]) /\ ~Current(work'[w])
        /\ work'[w].gen <= generation
    BY <1>0, <2>2, NoWorkIdle DEF Decodes, Current, NoWork
  <2> QED
    BY <2>1, <2>2, <2>3, <2>4, ObjectsKept
<1> QED
  BY <1>1, <1>2, <1>3, <1>4, ExecuteObjects, CompleteVoiceObjects,
     CompleteSpeakerObjects DEF WorkStep

LEMMA InitObjects == Init => ObjectInv
<1> SUFFICES ASSUME Init PROVE ObjectInv
  OBVIOUS
<1>1. \A w \in Works : work[w] = NoWork
  BY DEF Init
<1>2. HeapInv
  BY <1>1, NoWorkBare, NullBare, VoiceAssumption DEF Init, HeapInv, Bare, Numbers
<1>3. UseInv
  BY <1>1, NoWorkIdle DEF UseInv, Decodes
<1>4. \A w \in Works : ~Current(work[w]) /\ work[w].gen <= generation
  BY <1>1, NoWorkIdle DEF Init, Current, NoWork
<1>5. LoadInv
  BY <1>4, NullBare DEF Init, LoadInv, Globals, KeywordModel
<1> QED
  BY <1>2, <1>3, <1>5 DEF ObjectInv

LEMMA Objects == Spec => []ObjectInv
<1>1. TypeOK /\ ObjectInv /\ [Next]_vars => ObjectInv'
  <2> SUFFICES ASSUME Types, Locks, ObjectInv, [Next]_vars PROVE ObjectInv'
    BY TypeHalves
  <2>1. CASE UNCHANGED vars
    BY <2>1 DEF vars, nluVars, ObjectInv, HeapInv, UseInv, LoadInv, Decodes, Current
  <2> QED
    BY <2>1, CallObjects, FinishObjects, WorkObjects DEF Next
<1> QED
  BY <1>1, InitObjects, TypeCorrect, PTL DEF Spec

\* OneOwner: no native object leaks and none is destroyed twice; every one that
\* lives is held by exactly one global or finished load.
THEOREM NothingLeaks == Spec => []OneOwner
<1>1. TypeOK /\ ObjectInv => OneOwner
  <2> SUFFICES ASSUME Types, HeapInv PROVE OneOwner
    BY TypeHalves DEF ObjectInv
  <2> DEFINE holdings == {ptr} \cup {work[w].made : w \in Works}
             held == UNION {Pointed(p, Globals) : p \in holdings}
  <2>1. \A p \in holdings : p \in Models
    BY DEF Types, Work
  <2>2. live \subseteq Globals \X Numbers /\ held \subseteq Globals \X Numbers
    BY <2>1, PointedAll DEF Types
  <2>3. ASSUME NEW g \in Globals, NEW n \in Numbers
        PROVE  <<g, n>> \in live <=> <<g, n>> \in held
    <3>1. <<g, n>> \in held <=> \E p \in holdings : p[g] = n
      BY <2>1, PointedAll
    <3> QED
      BY <3>1 DEF HeapInv
  <2>4. held = live
    BY <2>2, <2>3
  <2> QED
    BY <2>4 DEF OneOwner, HeapInv
<1> QED
  BY <1>1, Objects, TypeCorrect, PTL

\* DecodeUsesLive: a decode never works on an object that was destroyed,
\* although Initialize destroys without the mutex the decode holds.
THEOREM DecodeIsSafe == Spec => []DecodeUsesLive
<1>1. TypeOK /\ ObjectInv => DecodeUsesLive
  <2> SUFFICES ASSUME Types, ObjectInv, NEW w \in Works,
                      NEW o \in work[w].uses
               PROVE  o \in live
    BY TypeHalves DEF DecodeUsesLive
  <2>1. PICK g \in Globals, n \in Numbers : o = <<g, n>>
    BY DEF Types, Work
  <2> QED
    BY <2>1 DEF ObjectInv, HeapInv, UseInv
<1> QED
  BY <1>1, Objects, TypeCorrect, PTL

(***************************************************************************)
(* The loads                                                               *)
(*                                                                         *)
(* A load function that finds its flag unset sets it and queues the load;  *)
(* Initialize looks at the flag before DestroyAll and sets it after it,    *)
(* and nothing else can have set it in between.  Neither DestroyAll nor a  *)
(* work clears a flag but the completion of the load it stands for.        *)
(***************************************************************************)

LoadOf(k, r) == r.kind = k /\ r.st # "none"

\* The flag of a kind of load is set exactly while a load of that kind is under
\* way, or was lost because it could not be queued, and there is never more than
\* one: no two loads of one kind ever overlap.
LoadsAlone ==
  \A k \in LoadKinds :
    /\ loading[k] <=> \E w \in Works : LoadOf(k, work[w])
    /\ \A v, w \in Works : LoadOf(k, work[v]) /\ LoadOf(k, work[w]) => v = w

FlagInv == LoadsAlone /\ (js = "initialize" => ~loading["voice"])

\* A work goes on, or another kind of work comes or goes.
LEMMA FlagsKept ==
  ASSUME FlagInv, UNCHANGED loading, js' # "initialize" \/ js = js',
         \A k \in LoadKinds : \A x \in Works : LoadOf(k, work'[x]) <=> LoadOf(k, work[x])
  PROVE  FlagInv'
BY DEF FlagInv, LoadsAlone, LoadKinds

\* A load is queued whose flag was not set.
LEMMA LoadBegins ==
  ASSUME Types, FlagInv, NEW kind \in LoadKinds, NEW v \in Variants \cup {None},
         QueueLoad(kind, v), ~loading[kind], js' # "initialize"
  PROVE  FlagInv'
<1>1. PICK w \in Works :
        /\ work[w].st = "none" /\ work'[w].st # "none" /\ work'[w].kind = kind
        /\ \A x \in Works : x # w => work'[x] = work[x]
  BY QueueLoadWork
<1>2. loading' = [loading EXCEPT ![kind] = TRUE]
  BY DEF QueueLoad
<1>3. ASSUME NEW k \in LoadKinds
      PROVE  /\ loading'[k] <=> \E x \in Works : LoadOf(k, work'[x])
             /\ \A x, y \in Works : LoadOf(k, work'[x]) /\ LoadOf(k, work'[y]) => x = y
  <2>1. CASE k = kind
    <3>1. loading'[k] /\ LoadOf(k, work'[w])
      BY <1>1, <1>2, <2>1 DEF Types, LoadOf
    <3>2. \A x \in Works : x # w => ~LoadOf(k, work'[x])
      BY <1>1, <2>1 DEF FlagInv, LoadsAlone
    <3> QED
      BY <3>1, <3>2
  <2>2. CASE k # kind
    <3>1. loading'[k] = loading[k]
      BY <1>2, <2>2 DEF Types
    <3>2. \A x \in Works : LoadOf(k, work'[x]) <=> LoadOf(k, work[x])
      BY <1>1, <2>2 DEF LoadOf
    <3> QED
      BY <3>1, <3>2 DEF FlagInv, LoadsAlone
  <2> QED
    BY <2>1, <2>2
<1> QED
  BY <1>3 DEF FlagInv, LoadsAlone

\* A load is complete: its flag is cleared, and it was the only one.
LEMMA LoadCompletes ==
  ASSUME Types, FlagInv, NEW kind \in LoadKinds, NEW w \in Works,
         LoadOf(kind, work[w]), Put(w, NoWork), UNCHANGED js, js = "idle",
         loading' = [loading EXCEPT ![kind] = FALSE]
  PROVE  FlagInv'
<1>1. ~LoadOf(kind, work'[w]) /\ (\A k \in LoadKinds : ~LoadOf(k, work'[w]))
      /\ \A x \in Works : x # w => work'[x] = work[x]
  BY PutWork, NoWorkTyped, NoWorkIdle DEF Types, LoadOf
<1>2. ASSUME NEW k \in LoadKinds
      PROVE  /\ loading'[k] <=> \E x \in Works : LoadOf(k, work'[x])
             /\ \A x, y \in Works : LoadOf(k, work'[x]) /\ LoadOf(k, work'[y]) => x = y
  <2>1. CASE k = kind
    <3>1. \A x \in Works : ~LoadOf(k, work'[x])
      BY <1>1, <2>1 DEF FlagInv, LoadsAlone
    <3> QED
      BY <2>1, <3>1 DEF Types
  <2>2. CASE k # kind
    <3>1. loading'[k] = loading[k]
      BY <2>2 DEF Types
    <3>2. \A x \in Works : LoadOf(k, work'[x]) <=> LoadOf(k, work[x])
      BY <1>1, <2>2 DEF LoadOf
    <3> QED
      BY <3>1, <3>2 DEF FlagInv, LoadsAlone
  <2> QED
    BY <2>1, <2>2
<1> QED
  BY <1>2 DEF FlagInv, LoadsAlone

LEMMA CallFlags ==
  ASSUME Types, FlagInv, Call
  PROVE  FlagInv'
<1>1. CASE Initialize \/ Release
  <2>1. UNCHANGED <<loading, work>> /\ (js' = "initialize" => ~loading["voice"])
    BY <1>1 DEF Initialize, Release
  <2> QED
    BY <2>1 DEF FlagInv, LoadsAlone
<1>2. CASE InitializeSpeaker
  BY <1>2, LoadBegins DEF InitializeSpeaker, LoadKinds
<1>3. ASSUME NEW v \in Variants, InitializeNlu(v) PROVE FlagInv'
  BY <1>3, LoadBegins DEF InitializeNlu, LoadKinds
<1>4. CASE ClassifyNlu \/ AcceptWake
  <2>1. PICK kind \in {"wake", "classify"} : Queue(kind)
    BY <1>4 DEF ClassifyNlu, AcceptWake
  <2>2. PICK w \in Works : /\ work[w].st = "none" /\ work'[w].kind = kind
                           /\ \A x \in Works : x # w => work'[x] = work[x]
    BY <2>1, QueueWork
  <2>3. UNCHANGED <<loading, js>>
    BY <2>1 DEF Queue
  <2> QED
    BY <2>2, <2>3, FlagsKept DEF LoadOf, LoadKinds
<1>5. CASE ResetWake \/ StartCommand \/ StartSpeaker \/ EndSpeaker
  <2>1. UNCHANGED <<loading, work, js>>
    BY <1>5 DEF ResetWake, StartCommand, StartSpeaker, EndSpeaker, StreamCall
  <2> QED
    BY <2>1, FlagsKept
<1> QED
  BY <1>1, <1>2, <1>3, <1>4, <1>5 DEF Call

LEMMA FinishFlags ==
  ASSUME Types, FlagInv, FinishDestroyAll
  PROVE  FlagInv'
<1>1. js' = "idle"
  BY DEF FinishDestroyAll
<1>2. CASE js = "initialize" /\ QueueLoad("voice", None)
  BY <1>1, <1>2, LoadBegins DEF FlagInv, LoadKinds
<1>3. CASE UNCHANGED <<work, loading>>
  BY <1>1, <1>3, FlagsKept
<1> QED
  BY <1>2, <1>3 DEF FinishDestroyAll

\* A work that goes on keeps its kind and its place.
LEMMA WorkGoesOn ==
  ASSUME Types, FlagInv, NEW w \in Works, NEW r \in Work, Put(w, r),
         r.kind = work[w].kind, r.st # "none", work[w].st # "none",
         UNCHANGED <<loading, js>>
  PROVE  FlagInv'
<1>1. work'[w] = r /\ \A x \in Works : x # w => work'[x] = work[x]
  BY PutWork DEF Types
<1>2. \A k \in LoadKinds : \A x \in Works : LoadOf(k, work'[x]) <=> LoadOf(k, work[x])
  BY <1>1 DEF LoadOf
<1> QED
  BY <1>2, FlagsKept

LEMMA WorkFlags ==
  ASSUME Types, FlagInv, NEW w \in Works, WorkStep(w)
  PROVE  FlagInv'
<1>0. work \in [Works -> Work] /\ work[w] \in Work
      /\ {"none", "queued", "running", "done"} \subseteq States
  BY DEF Types, States
<1>1. CASE ExecuteVoiceModelLoad(w) \/ ExecuteSpeakerLoad(w)
  <2>1. UNCHANGED <<loading, js>> /\ work[w].st = "queued"
    BY <1>1 DEF ExecuteVoiceModelLoad, ExecuteSpeakerLoad
  <2>2. PICK names \in SUBSET Globals : Makes(w, names)
    BY <1>1 DEF ExecuteVoiceModelLoad, ExecuteSpeakerLoad, Globals, KeywordModel
  <2>3. /\ work'[w].kind = work[w].kind /\ work'[w].st = "done"
        /\ \A x \in Works : x # w => work'[x] = work[x]
    BY <2>2, <1>0, MakesObjects
  <2>4. \A k \in LoadKinds : \A x \in Works : LoadOf(k, work'[x]) <=> LoadOf(k, work[x])
    BY <2>1, <2>3 DEF LoadOf
  <2> QED
    BY <2>1, <2>4, FlagsKept
<1>2. CASE CompleteVoiceModelLoad(w)
  BY <1>2, LoadCompletes DEF CompleteVoiceModelLoad, LoadOf, LoadKinds
<1>3. CASE CompleteSpeakerLoad(w)
  BY <1>3, LoadCompletes DEF CompleteSpeakerLoad, LoadOf, LoadKinds
<1>4. CASE CompleteNluLoad(w)
  BY <1>4, LoadCompletes DEF CompleteNluLoad, LoadOf, LoadKinds
<1>5. CASE BeginDecode(w) \/ EndDecode(w)
  <2>1. UNCHANGED <<loading, js>> /\ work[w].kind = "wake"
    BY <1>5 DEF BeginDecode, EndDecode
  <2>2. work'[w].kind = "wake" /\ \A x \in Works : x # w => work'[x] = work[x]
    BY <1>5, DecodeBegins, DecodeEnds
  <2> QED
    BY <2>1, <2>2, FlagsKept DEF LoadOf, LoadKinds
<1>6. CASE ReadNluFails(w) \/ BeginNlu(w)
  <2>1. UNCHANGED <<loading, js>> /\ work[w].st = "queued"
    BY <1>6 DEF ReadNluFails, BeginNlu
  <2>2. PICK st \in {"running", "done"} : Goto(w, st)
    BY <1>6 DEF ReadNluFails, BeginNlu
  <2>3. /\ work'[w].kind = work[w].kind /\ work'[w].st = st
        /\ \A x \in Works : x # w => work'[x] = work[x]
    BY <1>0, <2>2, GotoWork
  <2>4. \A k \in LoadKinds : \A x \in Works : LoadOf(k, work'[x]) <=> LoadOf(k, work[x])
    BY <2>1, <2>2, <2>3 DEF LoadOf
  <2> QED
    BY <2>1, <2>4, FlagsKept
<1>7. CASE EndNluLoad(w) \/ EndClassify(w)
  <2>1. UNCHANGED <<loading, js>> /\ work[w].st = "running"
    BY <1>7 DEF EndNluLoad, EndClassify
  <2>2. PICK success \in BOOLEAN :
          Put(w, [work[w] EXCEPT !.st = "done", !.success = success])
    BY <1>7 DEF EndNluLoad, EndClassify
  <2> DEFINE r == [work[w] EXCEPT !.st = "done", !.success = success]
  <2>3. Put(w, r) /\ r \in Work /\ r.kind = work[w].kind /\ r.st = "done"
    BY <1>0, <2>2 DEF Work
  <2> HIDE DEF r
  <2> QED
    BY <2>1, <2>3, WorkGoesOn
<1>8. CASE CompleteAnswer(w)
  <2>1. UNCHANGED <<loading, js>> /\ work[w].kind \in {"wake", "classify"} /\ Put(w, NoWork)
    BY <1>8 DEF CompleteAnswer
  <2>2. work'[w] = NoWork /\ \A x \in Works : x # w => work'[x] = work[x]
    BY <1>0, <2>1, PutWork, NoWorkTyped
  <2> QED
    BY <2>1, <2>2, NoWorkIdle, FlagsKept DEF LoadOf, LoadKinds
<1> QED
  BY <1>1, <1>2, <1>3, <1>4, <1>5, <1>6, <1>7, <1>8 DEF WorkStep

\* LoadsAlone: whatever Initialize, Release and the load functions overlap with,
\* two loads of one kind are never under way, and a flag that is set stands for
\* a load.
THEOREM OneLoadEach == Spec => []LoadsAlone
<1>1. Init => FlagInv
  BY NoWorkIdle DEF Init, FlagInv, LoadsAlone, LoadOf
<1>2. TypeOK /\ FlagInv /\ [Next]_vars => FlagInv'
  <2> SUFFICES ASSUME Types, FlagInv, [Next]_vars PROVE FlagInv'
    BY TypeHalves
  <2>1. CASE UNCHANGED vars
    BY <2>1, FlagsKept DEF vars
  <2> QED
    BY <2>1, CallFlags, FinishFlags, WorkFlags DEF Next
<1>3. FlagInv => LoadsAlone
  BY DEF FlagInv
<1> QED
  BY <1>1, <1>2, <1>3, TypeCorrect, PTL DEF Spec
=============================================================================
