----------------------------- MODULE NluRuntime -----------------------------
(***************************************************************************)
(* The on-device language understanding as its caller sees it              *)
(* (entry/src/main/cpp/nlu_runtime.cpp): a runtime that is loaded, answers *)
(* texts with a label and is released.                                     *)
(*                                                                         *)
(* The calls follow one another: voice_inference.cpp makes each of them    *)
(* under one lock (module VoiceInference).  The network is external: its   *)
(* two heads give any probabilities, in percent, or a call to the library  *)
(* fails.                                                                  *)
(***************************************************************************)
EXTENDS NluTokenizer, SequencesExt

CONSTANTS
  MaxLength,     \* tokens of the model's input
  Vocabularies,  \* the vocabulary files that may be loaded
  Calls          \* a text to classify and what the network answers to it:
                 \* [text, route, label, intent]

ASSUME InputAssumption ==
  /\ MaxLength \in Nat /\ MaxLength >= 2
  /\ MaxWord \in Nat
  /\ \A call \in Calls : call.text \in Seq(Bytes)
  /\ \A lines \in Vocabularies : DOMAIN lines \subseteq Nat \ {0}

\* The route head's probabilities, in percent, are those of "in_domain",
\* "requires_confirmation" and "unknown", in this order.

ConfirmationThreshold == 15
InDomainThreshold == 70
IntentThreshold == 15

VARIABLES
  impl,    \* what the runtime holds: the library's interface, the session
           \* with its memory, and the vocabulary (<<>> when there is none)
  answer   \* the answer the caller reads: a function of the last call, with
           \* the text and the input that was made of it; <<>> before a call

runtimeVars == <<impl, answer>>

Released == [api |-> FALSE, session |-> FALSE, vocabulary |-> <<>>]

IsReady == impl.api /\ impl.session /\ impl.vocabulary # <<>>

\* Members of a ClassificationResult that a failed call leaves as they were.
Failed(t) == [success |-> FALSE, text |-> t, encoded |-> <<>>,
              finalLabel |-> "unknown"]

RuntimeInit ==
  /\ impl = Released
  /\ answer = <<>>

-----------------------------------------------------------------------------
(* Initialize: releases what there was, then loads all or nothing *)

\* The model is empty, the vocabulary lacks a special token, or the library
\* fails: what was loaded by then is released again, the vocabulary too.
InitializeFails ==
  /\ impl' = Released
  /\ answer' = <<>>

Initialize(lines) ==
  /\ HasSpecialTokens(lines)
  /\ impl' = [api |-> TRUE, session |-> TRUE, vocabulary |-> Vocabulary(lines)]
  /\ answer' = <<>>

Release ==
  /\ impl # Released
  /\ impl' = Released
  /\ answer' = <<>>

-----------------------------------------------------------------------------
(* Classify *)

ClassifyUnready(t) ==
  /\ ~IsReady
  /\ answer' = Failed(t)
  /\ UNCHANGED impl

\* Making the tensors, running the network or reading its output fails.
ClassifyFails(t) ==
  /\ IsReady
  /\ answer' = Failed(t)
  /\ UNCHANGED impl

\* The label that the code decides on: a request that may need a confirmation
\* is never taken for an intent.
FinalLabel(call) ==
  IF call.route[2] >= ConfirmationThreshold THEN "requires_confirmation"
  ELSE IF call.route[1] >= InDomainThreshold /\ call.intent >= IntentThreshold
  THEN call.label
  ELSE "unknown"

Classify(call) ==
  /\ IsReady
  /\ answer' = [success |-> TRUE, text |-> call.text,
                encoded |-> Encode(impl.vocabulary, call.text, MaxLength),
                finalLabel |-> FinalLabel(call), call |-> call]
  /\ UNCHANGED impl

\* The caller has read the answer.
Forget ==
  /\ answer # <<>>
  /\ answer' = <<>>
  /\ UNCHANGED impl

-----------------------------------------------------------------------------

RuntimeNext ==
  \/ Forget
  \/ /\ answer = <<>>
     /\ \/ InitializeFails
        \/ Release
        \/ \E lines \in Vocabularies : Initialize(lines)
        \/ \E call \in Calls :
             \/ ClassifyUnready(call.text)
             \/ ClassifyFails(call.text)
             \/ Classify(call)

RuntimeSpec == RuntimeInit /\ [][RuntimeNext]_runtimeVars

-----------------------------------------------------------------------------
(* What the input must be, stated without the loops of the code *)

\* The characters of a text that a word may hold, and where they stand.
Visible(cps) == {i \in DOMAIN cps : ~IsControl(cps[i]) /\ ~IsWhitespace(cps[i])}

Alone(c) == IsChinese(c) \/ IsPunctuation(c)

\* A character goes on with the word of an earlier one when neither is a word
\* of its own and nothing but control characters, which are dropped, stands
\* between them.
GoesOn(cps, j, i) ==
  /\ j < i
  /\ ~Alone(cps[j]) /\ ~Alone(cps[i])
  /\ \A k \in (j + 1)..(i - 1) : IsControl(cps[k])

Starts(cps) == {i \in Visible(cps) : ~\E j \in Visible(cps) : GoesOn(cps, j, i)}

\* The characters of the n-th word: n words have begun when it is read.
Places(cps, n) ==
  {i \in Visible(cps) : Cardinality({j \in Starts(cps) : j <= i}) = n}

\* The k-th smallest member of a set of numbers.
Nth(S, k) == CHOOSE x \in S : Cardinality({y \in S : y <= x}) = k

WordsOf(cps) ==
  [n \in 1..Cardinality(Starts(cps)) |->
     [k \in 1..Cardinality(Places(cps, n)) |-> Lower(cps[Nth(Places(cps, n), k)])]]

\* The cuts of a word of which every piece is in the vocabulary and no longer
\* piece is; there is one set of them or none.
LongestCuts(vocabulary, chars) ==
  LET n == Len(chars) IN
  {cuts \in SUBSET (0..n) :
     /\ {0, n} \subseteq cuts
     /\ \A a \in cuts \ {n} :
          LET b == Min({c \in cuts : c > a}) IN
          /\ Candidate(chars, a + 1, b) \in DOMAIN vocabulary
          /\ \A c \in (b + 1)..n : Candidate(chars, a + 1, c) \notin DOMAIN vocabulary}

PiecesOf(vocabulary, chars) ==
  IF Len(chars) > MaxWord \/ LongestCuts(vocabulary, chars) = {} THEN <<Unk>>
  ELSE LET cuts == CHOOSE c \in LongestCuts(vocabulary, chars) : TRUE
       IN  [k \in 1..(Cardinality(cuts) - 1) |->
              Candidate(chars, Nth(cuts, k) + 1, Nth(cuts, k + 1))]

-----------------------------------------------------------------------------
(* Properties *)

\* The runtime holds everything or nothing, and a vocabulary it holds has the
\* tokens that every input needs; an answer has the shape its caller reads.
TypeOK ==
  /\ \/ impl = Released
     \/ /\ impl.api /\ impl.session
        /\ {Pad, Unk, Cls, Sep} \subseteq DOMAIN impl.vocabulary
        /\ \A token \in DOMAIN impl.vocabulary : impl.vocabulary[token] \in Nat
  /\ \/ answer = <<>>
     \/ /\ answer.success \in BOOLEAN
        /\ answer.success => IsReady
        /\ answer.finalLabel \in {"unknown", "requires_confirmation"}
                                 \cup {call.label : call \in Calls}

\* The words that BasicTokenize makes of the bytes of a text are the ones its
\* visible characters form: none is lost, none joined with its neighbour
\* across a space, a Chinese character or a punctuation mark, however the
\* bytes are malformed or cut off.
WordsAreRight ==
  answer # <<>> =>
    LET words == BasicTokenize(answer.text)
    IN  [n \in DOMAIN words |-> DecodeUtf8(words[n])] = WordsOf(DecodeUtf8(answer.text))

\* The input that Classify gives the network is [CLS], the longest known pieces
\* of the words as far as they fit, [SEP] and padding outside the mask.
EncodedRight ==
  (answer # <<>> /\ answer.success) =>
    LET v == impl.vocabulary
        words == WordsOf(DecodeUtf8(answer.text))
        pieces == FlattenSeq([n \in DOMAIN words |-> PiecesOf(v, words[n])])
        ids == answer.encoded.inputIds
        used == Min({Len(pieces) + 2, MaxLength})
    IN  /\ DOMAIN ids = 1..MaxLength
        /\ ids[1] = v[Cls] /\ ids[used] = v[Sep]
        /\ \A i \in 2..(used - 1) : ids[i] = v[pieces[i - 1]]
        /\ \A i \in (used + 1)..MaxLength : ids[i] = v[Pad]
        /\ \A i \in 1..MaxLength : answer.encoded.attentionMask[i] = IF i <= used THEN 1 ELSE 0

=============================================================================
