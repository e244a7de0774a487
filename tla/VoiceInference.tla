--------------------------- MODULE VoiceInference ---------------------------
(***************************************************************************)
(* The native voice module (entry/src/main/cpp/voice_inference.cpp): the   *)
(* speech models and streams it keeps behind global pointers, the NLU      *)
(* runtime, and the asynchronous works that load models, listen for the    *)
(* wake word and classify a text.                                          *)
(*                                                                         *)
(* Every exported function and every completion runs on the JS thread;     *)
(* the bodies of the works run on worker threads, any number at a time.    *)
(* g_inferenceMutex guards the wake-word pointers and g_nluMutex the       *)
(* runtime; g_modelGeneration tells a work that it has been cancelled.     *)
(* A native object is a pair of the name it is kept under and a number;    *)
(* "live" is the heap.                                                     *)
(*                                                                         *)
(* AcceptCommand, FinishCommand and AcceptSpeaker, which only feed a       *)
(* stream on the JS thread, change nothing that is kept here.              *)
(***************************************************************************)
EXTENDS Integers, FiniteSets

CONSTANTS
  Works,         \* the asynchronous works that may be under way at once
  Variants,      \* NLU model variants
  None,          \* no owner of a lock, no runtime
  MaxObjects,    \* bound of the model: native objects of one kind at once
  MaxGeneration  \* bound of the model: g_modelGeneration

ASSUME VoiceAssumption ==
  /\ None \notin Works \cup Variants \cup {"js"} /\ "js" \notin Works
  /\ MaxObjects \in Nat /\ MaxGeneration \in Nat

VARIABLES
  live,        \* the native objects that have not been destroyed
  ptr,         \* g_keywordSpotter, ...: the object of each global, 0 is null
  loading,     \* g_voiceModelsLoading, g_speakerLoading, g_nluLoading
  generation,  \* g_modelGeneration
  runtime,     \* g_nluRuntime: its variant, or None when it is not ready
  loadedFor,   \* history: the generation each kind of model was loaded for
  work,        \* the state of each asynchronous work
  inference,   \* g_inferenceMutex: its owner
  nlu,         \* g_nluMutex: its owner
  js           \* the JS thread: idle, or inside DestroyAll for some caller

vars == <<live, ptr, loading, generation, runtime, loadedFor, work, inference,
          nlu, js>>
nluVars == <<runtime, nlu>>

Numbers == 1..MaxObjects
KeywordModel == {"spotter", "keywordStream", "recognizer"}
Globals == KeywordModel \cup {"commandStream", "extractor", "speakerStream"}
LoadKinds == {"voice", "speaker", "nlu"}
Kinds == LoadKinds \cup {"wake", "classify"}

Null == [g \in Globals |-> 0]

\* "made" holds what a load has made and nobody else knows, "uses" the objects
\* of a running decode; "lost" is a load that could not be queued.
NoWork == [st |-> "none", kind |-> "wake", gen |-> 0, variant |-> None,
           made |-> Null, uses |-> {}, success |-> FALSE]

States == {"none", "queued", "running", "done", "lost"}
Models == [Globals -> 0..MaxObjects]
Work == [st : States, kind : Kinds, gen : 0..MaxGeneration,
         variant : Variants \cup {None}, made : Models,
         uses : SUBSET (Globals \X Numbers), success : BOOLEAN]

\* Every variable keeps its type, and a mutex has an owner exactly while a work
\* is in its critical section, or the JS thread in Release.
TypeOK ==
  /\ live \subseteq Globals \X Numbers
  /\ ptr \in Models
  /\ loading \in [LoadKinds -> BOOLEAN]
  /\ generation \in 0..MaxGeneration
  /\ runtime \in Variants \cup {None}
  /\ loadedFor \in [LoadKinds -> 0..MaxGeneration]
  /\ work \in [Works -> Work]
  /\ inference \in Works \cup {"js", None}
  /\ nlu \in Works \cup {None}
  /\ js \in {"idle", "initialize", "release"}
  /\ \A w \in Works :
       /\ inference = w <=> work[w].st = "running" /\ work[w].kind = "wake"
       /\ nlu = w <=> /\ work[w].st = "running"
                     /\ work[w].kind \in {"nlu", "classify"}
  /\ inference = "js" <=> js = "release"

Init ==
  /\ live = {} /\ ptr = Null
  /\ loading = [k \in LoadKinds |-> FALSE]
  /\ generation = 0 /\ runtime = None
  /\ loadedFor = [k \in LoadKinds |-> 0]
  /\ work = [w \in Works |-> NoWork]
  /\ inference = None /\ nlu = None /\ js = "idle"

-----------------------------------------------------------------------------
(* The heap *)

Object(p, g) == <<g, p[g]>>
Pointed(p, names) == {Object(p, g) : g \in {h \in names : p[h] # 0}}

\* Numbers that an object to hold under a name may take once some objects are
\* destroyed.  What a decode still uses is not taken, so that it can be seen to
\* be gone.
Unused(g, destroyed) ==
  {n \in Numbers : /\ <<g, n>> \notin live \ destroyed
                   /\ \A w \in Works : <<g, n>> \notin work[w].uses}

New(g, destroyed) == CHOOSE n \in Unused(g, destroyed) : TRUE

\* The globals once the named ones are destroyed and set to null.
Cleared(names) == [g \in Globals |-> IF g \in names THEN 0 ELSE ptr[g]]

-----------------------------------------------------------------------------
(* Starting a work.  A slot is free while its work is none. *)

Begun(st, kind, variant) ==
  [NoWork EXCEPT !.st = st, !.kind = kind, !.gen = generation,
                 !.variant = variant]

Put(w, r) == work' = [work EXCEPT ![w] = r]
Goto(w, st) == Put(w, [work[w] EXCEPT !.st = st])

\* The load functions do not look at what napi_queue_async_work answers.
QueueLoad(kind, variant) ==
  \E w \in Works :
    /\ work[w].st = "none"
    /\ \E st \in {"queued", "lost"} : Put(w, Begun(st, kind, variant))
    /\ loading' = [loading EXCEPT ![kind] = TRUE]

\* ClassifyNlu and the two AcceptWake functions do look: a work that cannot be
\* queued is answered at once and changes nothing.
Queue(kind) ==
  /\ js = "idle"
  /\ \E w \in Works :
       /\ work[w].st = "none"
       /\ Put(w, Begun("queued", kind, None))
  /\ UNCHANGED <<live, ptr, loading, generation, loadedFor, nluVars, inference,
                 js>>

ClassifyNlu == Queue("classify")
AcceptWake == Queue("wake")

-----------------------------------------------------------------------------
(* DestroyAll, in two steps: the JS thread waits for g_nluMutex in it *)

DestroyGlobals ==
  /\ generation < MaxGeneration
  /\ generation' = generation + 1
  /\ live' = live \ Pointed(ptr, Globals)
  /\ ptr' = Null

\* The wake-word model is not complete and not being loaded: start over.
Initialize ==
  /\ js = "idle"
  /\ \E g \in KeywordModel : ptr[g] = 0
  /\ ~loading["voice"]
  /\ DestroyGlobals
  /\ js' = "initialize"
  /\ UNCHANGED <<loading, loadedFor, work, nluVars, inference>>

\* Mutant of Release: g_inferenceMutex is not taken.
ReleaseUnlocked ==
  /\ js = "idle"
  /\ DestroyGlobals
  /\ js' = "release"
  /\ UNCHANGED <<loading, loadedFor, work, nluVars, inference>>

Release ==
  /\ js = "idle" /\ inference = None
  /\ inference' = "js"
  /\ DestroyGlobals
  /\ js' = "release"
  /\ UNCHANGED <<loading, loadedFor, work, nluVars>>

\* The runtime is released; Initialize goes on to queue the load of the models,
\* unless it cannot, and answers.
FinishDestroyAll ==
  /\ js # "idle" /\ nlu = None
  /\ runtime' = None
  /\ \/ js = "initialize" /\ QueueLoad("voice", None)
     \/ UNCHANGED <<work, loading>>
  /\ inference' = IF js = "release" THEN None ELSE inference
  /\ js' = "idle"
  /\ UNCHANGED <<live, ptr, generation, loadedFor, nlu>>

-----------------------------------------------------------------------------
(* Loading the speech models *)

\* The load makes the named models and fails to make the others.
Makes(w, names) ==
  /\ \A g \in names : Unused(g, {}) # {}
  /\ LET made == [g \in Globals |-> IF g \in names THEN New(g, {}) ELSE 0] IN
     /\ live' = live \cup Pointed(made, Globals)
     /\ Put(w, [work[w] EXCEPT !.st = "done", !.made = made])

ExecuteVoiceModelLoad(w) ==
  /\ work[w].st = "queued" /\ work[w].kind = "voice"
  /\ \E names \in SUBSET KeywordModel :
       /\ "keywordStream" \in names => "spotter" \in names
       /\ Makes(w, names)
  /\ UNCHANGED <<ptr, loading, generation, loadedFor, nluVars, inference, js>>

\* Mutant of Installs: a cancelled load is installed.
InstallsCancelled(w, names) == \A g \in names : work[w].made[g] # 0

\* A load is installed when it has made all its models and was not cancelled;
\* otherwise what it has made is destroyed.
Installs(w, names) ==
  /\ \A g \in names : work[w].made[g] # 0
  /\ work[w].gen = generation

CompleteVoiceModelLoad(w) ==
  /\ js = "idle" /\ work[w].st = "done" /\ work[w].kind = "voice"
  /\ loading' = [loading EXCEPT !["voice"] = FALSE]
  /\ IF Installs(w, KeywordModel)
     THEN /\ ptr' = [g \in Globals |-> IF g \in KeywordModel THEN work[w].made[g]
                                                       ELSE ptr[g]]
          /\ loadedFor' = [loadedFor EXCEPT !["voice"] = work[w].gen]
          /\ UNCHANGED live
     ELSE /\ live' = live \ Pointed(work[w].made, Globals)
          /\ UNCHANGED <<ptr, loadedFor>>
  /\ Put(w, NoWork)
  /\ UNCHANGED <<generation, nluVars, inference, js>>

InitializeSpeaker ==
  /\ js = "idle" /\ ptr["extractor"] = 0 /\ ~loading["speaker"]
  /\ QueueLoad("speaker", None)
  /\ UNCHANGED <<live, ptr, generation, loadedFor, nluVars, inference, js>>

ExecuteSpeakerLoad(w) ==
  /\ work[w].st = "queued" /\ work[w].kind = "speaker"
  /\ \E names \in SUBSET {"extractor"} : Makes(w, names)
  /\ UNCHANGED <<ptr, loading, generation, loadedFor, nluVars, inference, js>>

\* The body of the load makes the extractor unless the work was cancelled before
\* it ran, which nothing does: "not accepted and yet made", which the code would
\* not destroy (508), does not occur.
CompleteSpeakerLoad(w) ==
  /\ js = "idle" /\ work[w].st = "done" /\ work[w].kind = "speaker"
  /\ loading' = [loading EXCEPT !["speaker"] = FALSE]
  /\ IF Installs(w, {"extractor"})
     THEN /\ live' = live \ Pointed(ptr, {"extractor", "speakerStream"})
          /\ ptr' = [Cleared({"speakerStream"})
                       EXCEPT !["extractor"] = work[w].made["extractor"]]
          /\ loadedFor' = [loadedFor EXCEPT !["speaker"] = work[w].gen]
     ELSE /\ live' = live \ Pointed(work[w].made, Globals)
          /\ UNCHANGED <<ptr, loadedFor>>
  /\ Put(w, NoWork)
  /\ UNCHANGED <<generation, nluVars, inference, js>>

-----------------------------------------------------------------------------
(* Streams: made of a model that is there, one at a time *)

\* The stream is replaced by a new one, which may fail to come into being.
Restart(stream) ==
  LET old == Pointed(ptr, {stream}) IN
  \E n \in {New(stream, old), 0} :
    /\ Unused(stream, old) # {}
    /\ ptr' = [ptr EXCEPT ![stream] = n]
    /\ live' = (live \ old) \cup Pointed(ptr', {stream})

StreamCall(model) ==
  /\ js = "idle" /\ ptr[model] # 0
  /\ UNCHANGED <<loading, generation, loadedFor, nluVars, work, inference, js>>

\* Mutant of StartCommand: the stream there was is forgotten.
StartCommandAgain ==
  /\ StreamCall("recognizer")
  /\ ptr' = [ptr EXCEPT !["commandStream"] = New("commandStream", {})]
  /\ live' = live \cup Pointed(ptr', {"commandStream"})

StartCommand == StreamCall("recognizer") /\ Restart("commandStream")
StartSpeaker == StreamCall("extractor") /\ Restart("speakerStream")

\* FinishSpeaker, whatever it answers, and CancelSpeaker.
EndSpeaker ==
  /\ StreamCall("extractor") /\ ptr["speakerStream"] # 0
  /\ live' = live \ Pointed(ptr, {"speakerStream"})
  /\ ptr' = Cleared({"speakerStream"})

ResetWake ==
  /\ inference = None
  /\ StreamCall("spotter") /\ Restart("keywordStream")

-----------------------------------------------------------------------------
(* The wake word *)

\* A decode that was cancelled, or has nothing to decode with, does nothing.
BeginDecode(w) ==
  /\ work[w].st = "queued" /\ work[w].kind = "wake" /\ inference = None
  /\ IF /\ work[w].gen = generation
        /\ ptr["spotter"] # 0 /\ ptr["keywordStream"] # 0
     THEN /\ inference' = w
          /\ Put(w, [work[w] EXCEPT !.st = "running",
                     !.uses = Pointed(ptr, {"spotter", "keywordStream"})])
     ELSE /\ Goto(w, "done")
          /\ UNCHANGED inference
  /\ UNCHANGED <<live, ptr, loading, generation, loadedFor, nluVars, js>>

EndDecode(w) ==
  /\ work[w].st = "running" /\ work[w].kind = "wake"
  /\ inference' = None
  /\ Put(w, [work[w] EXCEPT !.st = "done", !.uses = {}])
  /\ UNCHANGED <<live, ptr, loading, generation, loadedFor, nluVars, js>>

-----------------------------------------------------------------------------
(* The NLU runtime *)

\* Answered at once when the variant is loaded, which g_nluMutex tells.
InitializeNlu(v) ==
  /\ js = "idle" /\ nlu = None /\ runtime # v /\ ~loading["nlu"]
  /\ QueueLoad("nlu", v)
  /\ UNCHANGED <<live, ptr, generation, loadedFor, nluVars, inference, js>>

\* The model files cannot be read.
ReadNluFails(w) ==
  /\ work[w].st = "queued" /\ work[w].kind = "nlu"
  /\ Goto(w, "done")
  /\ UNCHANGED <<live, ptr, loading, generation, loadedFor, nluVars, inference,
                 js>>

\* With the lock, a load or a classification looks whether it was cancelled.
BeginNlu(w) ==
  /\ work[w].st = "queued" /\ work[w].kind \in {"nlu", "classify"}
  /\ nlu = None
  /\ IF work[w].gen = generation
     THEN /\ nlu' = w
          /\ Goto(w, "running")
     ELSE /\ Goto(w, "done")
          /\ UNCHANGED nlu
  /\ UNCHANGED <<live, ptr, loading, generation, loadedFor, runtime, inference,
                 js>>

\* Runtime::Initialize releases what there was, and may fail.
EndNluLoad(w) ==
  /\ work[w].st = "running" /\ work[w].kind = "nlu"
  /\ \E success \in BOOLEAN :
       /\ runtime' = IF success THEN work[w].variant ELSE None
       /\ Put(w, [work[w] EXCEPT !.st = "done", !.success = success])
  /\ loadedFor' = [loadedFor EXCEPT !["nlu"] = work[w].gen]
  /\ nlu' = None
  /\ UNCHANGED <<live, ptr, loading, generation, inference, js>>

\* A load that failed takes the runtime along, unless a newer generation owns
\* it; the lock is taken only when the generation is still the load's.
CompleteNluLoad(w) ==
  /\ js = "idle" /\ work[w].st = "done" /\ work[w].kind = "nlu"
  /\ work[w].gen = generation => nlu = None
  /\ runtime' = IF ~work[w].success /\ work[w].gen = generation
                THEN None ELSE runtime
  /\ loading' = [loading EXCEPT !["nlu"] = FALSE]
  /\ Put(w, NoWork)
  /\ UNCHANGED <<live, ptr, generation, loadedFor, nlu, inference, js>>

EndClassify(w) ==
  /\ work[w].st = "running" /\ work[w].kind = "classify"
  /\ \E success \in BOOLEAN :
       /\ success => runtime # None
       /\ Put(w, [work[w] EXCEPT !.st = "done", !.success = success])
  /\ nlu' = None
  /\ UNCHANGED <<live, ptr, loading, generation, loadedFor, runtime, inference,
                 js>>

\* Mutant of CompleteAnswer: the promise of a cancelled work stays open.
CompleteCurrent(w) ==
  /\ js = "idle" /\ work[w].st = "done" /\ work[w].kind \in {"wake", "classify"}
  /\ work[w].gen = generation
  /\ Put(w, NoWork)
  /\ UNCHANGED <<live, ptr, loading, generation, loadedFor, nluVars, inference,
                 js>>

\* The promise of a decode or a classification is resolved.
CompleteAnswer(w) ==
  /\ js = "idle" /\ work[w].st = "done" /\ work[w].kind \in {"wake", "classify"}
  /\ Put(w, NoWork)
  /\ UNCHANGED <<live, ptr, loading, generation, loadedFor, nluVars, inference,
                 js>>

-----------------------------------------------------------------------------
WorkStep(w) ==
  \/ ExecuteVoiceModelLoad(w) \/ CompleteVoiceModelLoad(w)
  \/ ExecuteSpeakerLoad(w) \/ CompleteSpeakerLoad(w)
  \/ BeginDecode(w) \/ EndDecode(w) \/ ReadNluFails(w) \/ BeginNlu(w)
  \/ EndNluLoad(w) \/ CompleteNluLoad(w) \/ EndClassify(w) \/ CompleteAnswer(w)

Call ==
  \/ Initialize \/ InitializeSpeaker \/ \E v \in Variants : InitializeNlu(v)
  \/ ClassifyNlu \/ AcceptWake \/ ResetWake \/ StartCommand
  \/ StartSpeaker \/ EndSpeaker \/ Release

Next == Call \/ FinishDestroyAll \/ \E w \in Works : WorkStep(w)

Spec == Init /\ [][Next]_vars

\* Workers run and completions are called; whoever waits for a lock that is
\* released again and again gets it in the end.
FairSpec == /\ Spec /\ SF_vars(FinishDestroyAll)
            /\ \A w \in Works : SF_vars(WorkStep(w))

-----------------------------------------------------------------------------
\* Every native object that lives has exactly one holder, a global or the load
\* that made it, and no holder points to an object that was destroyed: nothing
\* leaks and nothing is destroyed twice, whatever loads, cancellations and
\* releases overlap.
OneOwner ==
  LET holdings == {ptr} \cup {work[w].made : w \in Works} IN
    /\ UNION {Pointed(p, Globals) : p \in holdings} = live
    /\ \A g \in Globals : \A v, w \in Works :
         /\ work[w].made[g] # 0 => work[w].made[g] # ptr[g]
         /\ v # w /\ work[w].made[g] # 0 => work[v].made[g] # work[w].made[g]

\* A decode works on objects that stay alive until it is through, although
\* the JS thread may reset the wake word or release everything meanwhile.
DecodeUsesLive == \A w \in Works : work[w].uses \subseteq live

\* Whatever is loaded was loaded for the current generation: Release cancels
\* every load under way, also one that has already begun or is complete.
ReadyIsCurrent ==
  js = "idle" =>
    /\ ptr["spotter"] # 0 => loadedFor["voice"] = generation
    /\ ptr["extractor"] # 0 => loadedFor["speaker"] = generation
    /\ runtime # None => loadedFor["nlu"] = generation

\* Every asynchronous call that was queued is answered.
EveryWorkSettles ==
  \A w \in Works : work[w].st = "queued" ~> work[w].st = "none"
=============================================================================
