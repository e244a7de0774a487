-------------------------- MODULE OnDevice_proofs --------------------------
(***************************************************************************)
(* What holds of the parts that work on the terminal alone: the language   *)
(* understanding for every text and vocabulary (NluRuntime), the pixels    *)
(* that the face embedding reads (FaceInference), and the list of faces    *)
(* with its two files (FaceUserStore).  The three have nothing in common   *)
(* but this module.                                                        *)
(***************************************************************************)
EXTENDS NluRuntime, FaceInference, FaceUserStore, FiniteSetTheorems,
        SequenceTheorems, WellFoundedInduction, TLAPS

-----------------------------------------------------------------------------
(* NluRuntime *)

\* Characters of up to 21 bits are the ones that four bytes can hold.
CodePoints == {n \in Nat : n <= 2097151}

(***************************************************************************)
(* Wherever the bytes that EncodeUtf8 makes of a character stand in a      *)
(* text, DecodeUtf8 reads that character and steps over exactly those      *)
(* bytes: WordPieceTokenize sees the characters BasicTokenize put into the *)
(* word.                                                                   *)
(***************************************************************************)
THEOREM RoundTrip ==
  ASSUME NEW cp \in CodePoints, NEW t \in Seq(Bytes), NEW i \in Nat \ {0},
         i + Len(EncodeUtf8(cp)) - 1 <= Len(t),
         \A k \in 1..Len(EncodeUtf8(cp)) : t[i + k - 1] = EncodeUtf8(cp)[k]
  PROVE  CharAt(t, i) = [cp |-> cp, length |-> Len(EncodeUtf8(cp))]
<1> DEFINE e == EncodeUtf8(cp)
<1>0. cp \in Nat /\ cp <= 2097151
  BY SMT DEF CodePoints
<1>1. CASE cp <= 127
  <2>1. e = <<cp>>
    BY <1>1, SMT DEF EncodeUtf8
  <2>2. Len(e) = 1 /\ t[i] = cp
    BY <2>1, SMT
  <2>3. Announced(t[i]) = 1
    BY <1>0, <1>1, <2>2, SMT DEF Announced
  <2> QED
    BY <2>2, <2>3, SMT DEF CharAt
<1>2. CASE cp > 127 /\ cp <= 2047
  <2> DEFINE a == 192 + (cp \div 64)
             b == Following(cp, 1)
  <2>1. e = <<a, b>>
    BY <1>0, <1>2, SMT DEF EncodeUtf8
  <2>2. Len(e) = 2 /\ e[1] = a /\ e[2] = b
    BY <2>1, SMT
  <2>3. t[i] = a /\ t[i + 1] = b /\ i + 1 <= Len(t)
    BY <2>2, SMT
  <2>4. a \in 192..223 /\ a % 32 = cp \div 64 /\ b % 64 = cp % 64
    BY <1>0, <1>2, SMT DEF Following
  <2> HIDE DEF a, b, e
  <2>5. Announced(a) = 2
    BY <2>4, SMT DEF Announced
  <2>6. cp = (cp \div 64) * 64 + (cp % 64)
    BY <1>0, SMT
  <2>7. CharAt(t, i) = [cp |-> ((a % 32) * 64) + (b % 64), length |-> 2]
    BY <2>3, <2>5, SMT DEF CharAt
  <2> QED
    BY <2>2, <2>4, <2>6, <2>7, SMT DEF e
<1>3. CASE cp > 2047 /\ cp <= 65535
  <2> DEFINE a == 224 + (cp \div 4096)
             b == Following(cp, 64)
             c == Following(cp, 1)
  <2>1. e = <<a, b, c>>
    BY <1>0, <1>3, SMT DEF EncodeUtf8
  <2>2. Len(e) = 3 /\ e[1] = a /\ e[2] = b /\ e[3] = c
    BY <2>1, SMT
  <2>3. t[i] = a /\ t[i + 1] = b /\ t[i + 2] = c /\ i + 2 <= Len(t)
    BY <2>2, SMT
  <2>4. /\ a \in 224..239 /\ a % 16 = cp \div 4096
        /\ b % 64 = (cp \div 64) % 64 /\ c % 64 = cp % 64
    BY <1>0, <1>3, SMT DEF Following
  <2> HIDE DEF a, b, c, e
  <2>5. Announced(a) = 3
    BY <2>4, SMT DEF Announced
  <2>6. cp = ((cp \div 4096) * 4096) + (((cp \div 64) % 64) * 64) + (cp % 64)
    BY <1>0, SMT
  <2>7. CharAt(t, i) = [cp |-> ((a % 16) * 4096) + ((b % 64) * 64) + (c % 64),
                        length |-> 3]
    BY <2>3, <2>5, SMT DEF CharAt
  <2> QED
    BY <2>2, <2>4, <2>6, <2>7, SMT DEF e
<1>4. CASE cp > 65535
  <2> DEFINE a == 240 + (cp \div 262144)
             b == Following(cp, 4096)
             c == Following(cp, 64)
             d == Following(cp, 1)
  <2>1. e = <<a, b, c, d>>
    BY <1>0, <1>4, SMT DEF EncodeUtf8
  <2>2. Len(e) = 4 /\ e[1] = a /\ e[2] = b /\ e[3] = c /\ e[4] = d
    BY <2>1, SMT
  <2>3. t[i] = a /\ t[i + 1] = b /\ t[i + 2] = c /\ t[i + 3] = d /\ i + 3 <= Len(t)
    BY <2>2, SMT
  <2>4. /\ a \in 240..247 /\ a % 8 = cp \div 262144
        /\ b % 64 = (cp \div 4096) % 64
        /\ c % 64 = (cp \div 64) % 64 /\ d % 64 = cp % 64
    BY <1>0, <1>4, SMT DEF Following
  <2> HIDE DEF a, b, c, d, e
  <2>5. Announced(a) = 4
    <3>1. a \in 240..247
      BY <2>4
    <3> QED
      BY <3>1, SMT DEF Announced
  <2>6. cp = ((cp \div 262144) * 262144) + (((cp \div 4096) % 64) * 4096)
               + (((cp \div 64) % 64) * 64) + (cp % 64)
    BY <1>0, SMT
  <2>7. CharAt(t, i) = [cp |-> ((a % 8) * 262144) + ((b % 64) * 4096)
                                 + ((c % 64) * 64) + (d % 64),
                        length |-> 4]
    BY <2>3, <2>5, SMT DEF CharAt
  <2> QED
    BY <2>2, <2>4, <2>6, <2>7, SMT DEF e
<1> QED
  BY <1>0, <1>1, <1>2, <1>3, <1>4, SMT

-----------------------------------------------------------------------------

\* A set of natural numbers that is not empty has the minimum that Min names.
LEMMA MinInSet ==
  ASSUME NEW S, S \subseteq Nat, S # {}
  PROVE  Min(S) \in S
<1>1. PICK x \in S : \A y \in S : ~(<<y, x>> \in OpToRel(<, Nat))
  BY NatLessThanWellFounded, WFMin
<1>2. \A y \in S : ~(y < x)
  BY <1>1, Zenon DEF OpToRel
<1>3. \A y \in S : x <= y
  BY <1>2
<1> QED
  BY <1>3 DEF Min

\* A vocabulary numbers exactly the tokens of its lines.
LEMMA VocabularyType ==
  ASSUME NEW lines, DOMAIN lines \subseteq Nat \ {0}
  PROVE  /\ DOMAIN Vocabulary(lines) = Range(lines)
         /\ \A token \in Range(lines) : Vocabulary(lines)[token] \in Nat
<1>1. ASSUME NEW token \in Range(lines)
      PROVE  Min({i \in DOMAIN lines : lines[i] = token}) - 1 \in Nat
  <2> DEFINE S == {i \in DOMAIN lines : lines[i] = token}
  <2>1. S \subseteq Nat /\ S # {} /\ S \subseteq Nat \ {0}
    BY DEF Range
  <2>2. Min(S) \in S
    BY <2>1, MinInSet
  <2> QED
    BY <2>1, <2>2
<1> QED
  BY <1>1 DEF Vocabulary

(***************************************************************************)
(* The runtime holds all of a model or none of it, the special tokens are  *)
(* in the vocabulary of a runtime that is ready, and only a ready runtime  *)
(* answers with success.                                                   *)
(***************************************************************************)
THEOREM TypeCorrect == RuntimeSpec => []TypeOK
<1>1. RuntimeInit => TypeOK
  BY DEF RuntimeInit, TypeOK
<1>2. TypeOK /\ [RuntimeNext]_runtimeVars => TypeOK'
  <2> SUFFICES ASSUME TypeOK, [RuntimeNext]_runtimeVars PROVE TypeOK'
    OBVIOUS
  <2> USE DEF TypeOK
  <2>1. CASE UNCHANGED runtimeVars
    BY <2>1 DEF runtimeVars, IsReady
  <2>2. CASE Forget
    BY <2>2 DEF Forget
  <2>3. CASE InitializeFails
    BY <2>3 DEF InitializeFails
  <2>4. CASE Release
    BY <2>4 DEF Release
  <2>5. ASSUME NEW lines \in Vocabularies, Initialize(lines) PROVE TypeOK'
    <3>1. /\ impl'.api /\ impl'.session /\ impl'.vocabulary = Vocabulary(lines)
          /\ answer' = <<>>
      BY <2>5 DEF Initialize
    <3>2. {Pad, Unk, Cls, Sep} \subseteq DOMAIN impl'.vocabulary
      BY <2>5, <3>1, VocabularyType, InputAssumption DEF Initialize, HasSpecialTokens
    <3>3. \A token \in DOMAIN impl'.vocabulary : impl'.vocabulary[token] \in Nat
      BY <3>1, VocabularyType, InputAssumption
    <3> QED
      BY <3>1, <3>2, <3>3
  <2>6. ASSUME NEW call \in Calls, ClassifyUnready(call.text) PROVE TypeOK'
    BY <2>6 DEF ClassifyUnready, Failed
  <2>7. ASSUME NEW call \in Calls, ClassifyFails(call.text) PROVE TypeOK'
    BY <2>7 DEF ClassifyFails, Failed
  <2>8. ASSUME NEW call \in Calls, Classify(call) PROVE TypeOK'
    <3>1. FinalLabel(call) \in {"unknown", "requires_confirmation"}
                                 \cup {c.label : c \in Calls}
      BY DEF FinalLabel
    <3>2. /\ UNCHANGED impl /\ IsReady'
          /\ answer'.success = TRUE /\ answer'.finalLabel = FinalLabel(call)
      BY <2>8 DEF Classify, IsReady
    <3> QED
      BY <3>1, <3>2
  <2> QED
    BY <2>1, <2>2, <2>3, <2>4, <2>5, <2>6, <2>7, <2>8 DEF RuntimeNext
<1> QED
  BY <1>1, <1>2, PTL DEF RuntimeSpec

-----------------------------------------------------------------------------
(* Functions that are defined by recursion, and numbers listed in order *)

\* A set that holds 0 and, with a number, the next one holds them all.
LEMMA SetInduction ==
  ASSUME NEW S, 0 \in S, \A n \in Nat : n \in S => n + 1 \in S
  PROVE  Nat \subseteq S
<1> SUFFICES ASSUME ~(Nat \subseteq S) PROVE FALSE
  OBVIOUS
<1> DEFINE T == Nat \ S
<1>1. PICK x \in T : \A y \in T : ~(<<y, x>> \in OpToRel(<, Nat))
  BY NatLessThanWellFounded, WFMin
<1>2. x # 0 /\ x - 1 \in Nat
  OBVIOUS
<1>3. x - 1 < x /\ x \in Nat
  BY <1>2
<1>4. <<x - 1, x>> \in OpToRel(<, Nat)
  BY <1>2, <1>3, Zenon DEF OpToRel
<1>5. x - 1 \in S
  BY <1>1, <1>2, <1>4, Zenon
<1> QED
  BY <1>2, <1>5

\* f is v0 at 0, and step makes its other values of the ones before them.
Steps(f, V, v0, N, prev, step) ==
  /\ f \in [0..N -> V]
  /\ f[0] = v0
  /\ \A i \in 1..N : f[i] = step[<<f[prev[i]], i>>]

\* There is such a function: what a recursive definition over numbers names.
LEMMA StepsExist ==
  ASSUME NEW V, NEW v0 \in V, NEW N \in Nat,
         NEW prev \in [1..N -> Nat], \A i \in 1..N : prev[i] < i,
         NEW step \in [V \X (1..N) -> V]
  PROVE  \E f : Steps(f, V, v0, N, prev, step)
<1> DEFINE Good(n, f) == f \in [0..n -> V] /\ f[0] = v0 /\ \A i \in 1..n : f[i] = step[<<f[prev[i]], i>>]
           S == {n \in Nat : n <= N => \E f : Good(n, f)}
<1>1. 0 \in S
  <2>1. Good(0, [i \in 0..0 |-> v0])
    OBVIOUS
  <2> QED BY <2>1
<1>2. ASSUME NEW n \in Nat, n \in S PROVE n + 1 \in S
  <2>1. SUFFICES ASSUME n + 1 <= N PROVE \E f : Good(n + 1, f)
    OBVIOUS
  <2>2. PICK f : Good(n, f)
    BY <1>2, <2>1
  <2> DEFINE g == [i \in 0..(n + 1) |-> IF i <= n THEN f[i] ELSE step[<<f[prev[n + 1]], n + 1>>]]
  <2>3. n + 1 \in 1..N /\ prev[n + 1] \in 0..n
    BY <2>1
  <2>4. step[<<f[prev[n + 1]], n + 1>>] \in V
    BY <2>2, <2>3
  <2>5. g \in [0..(n+1) -> V]
    BY <2>2, <2>4
  <2>6. g[0] = v0
    BY <2>2
  <2>7. ASSUME NEW i \in 1..(n+1) PROVE g[i] = step[<<g[prev[i]], i>>]
    <3>1. prev[i] \in 0..n /\ g[prev[i]] = f[prev[i]]
      BY <2>1
    <3>2. CASE i <= n
      BY <2>2, <3>1, <3>2
    <3>3. CASE i = n + 1
      <4>1. g[n + 1] = step[<<f[prev[n + 1]], n + 1>>]
        OBVIOUS
      <4> QED
        BY <3>1, <3>3, <4>1
    <3> QED BY <3>2, <3>3
  <2> QED
    BY <2>5, <2>6, <2>7
<1> HIDE DEF S
<1>3. N \in S
  BY <1>1, <1>2, SetInduction
<1> QED
  BY <1>3 DEF S, Steps

\* Induction up to a number, from all the numbers before.
LEMMA StrongInduction ==
  ASSUME NEW S, NEW N \in Nat,
         \A n \in 0..N : (\A m \in 0..(n - 1) : m \in S) => n \in S
  PROVE  0..N \subseteq S
<1> DEFINE T == {n \in Nat : \A m \in 0..n : m <= N => m \in S}
<1>1. 0 \in T
  OBVIOUS
<1>2. ASSUME NEW n \in Nat, n \in T PROVE n + 1 \in T
  <2>1. ASSUME NEW m \in 0..(n + 1), m <= N PROVE m \in S
    <3>1. CASE m <= n
      BY <1>2, <2>1, <3>1
    <3>2. CASE m = n + 1
      BY <1>2, <2>1, <3>2
    <3> QED
      BY <3>1, <3>2
  <2> QED
    BY <2>1
<1> HIDE DEF T
<1>3. N \in T
  BY <1>1, <1>2, SetInduction
<1> QED
  BY <1>3 DEF T

\* A sequence that lists a set of natural numbers in increasing order.
Enumerates(e, S) ==
  /\ e \in Seq(Nat)
  /\ \A i, j \in 1..Len(e) : i < j => e[i] < e[j]
  /\ S = {e[i] : i \in 1..Len(e)}

\* The first k members of a list are k.
LEMMA PrefixCount ==
  ASSUME NEW S, NEW e, Enumerates(e, S), NEW k \in 0..Len(e),
         NEW T, T = {e[i] : i \in 1..k}
  PROVE  IsFiniteSet(T) /\ Cardinality(T) = k
<1> DEFINE f == [i \in 1..k |-> e[i]]
<1>1. e \in Seq(Nat) /\ Len(e) \in Nat /\ k \in Nat /\ 1..k \subseteq 1..Len(e)
  BY DEF Enumerates
<1>2. f \in Bijection(1..k, T)
  <2>1. f \in [1..k -> T]
    OBVIOUS
  <2>2. \A a, b \in 1..k : f[a] = f[b] => a = b
    <3> SUFFICES ASSUME NEW a \in 1..k, NEW b \in 1..k, f[a] = f[b], a # b
                 PROVE  FALSE
      OBVIOUS
    <3>1. a \in 1..Len(e) /\ b \in 1..Len(e) /\ e[a] = e[b] /\ e[a] \in Nat
      BY <1>1
    <3>2. a < b => e[a] < e[b]
      BY <3>1 DEF Enumerates
    <3>3. b < a => e[b] < e[a]
      BY <3>1 DEF Enumerates
    <3> QED
      BY <3>1, <3>2, <3>3
  <2>3. \A t \in T : \E i \in 1..k : f[i] = t
    OBVIOUS
  <2> QED
    BY <2>1, <2>2, <2>3 DEF Bijection, Injection, Surjection, IsInjective
<1>3. ExistsBijection(1..k, T)
  BY <1>2 DEF ExistsBijection
<1>4. IsFiniteSet(1..k) /\ Cardinality(1..k) = k
  BY <1>1, FS_Interval
<1> QED
  BY <1>3, <1>4, FS_Bijection

\* What the members of a set are, counted from the smallest.
LEMMA EnumeratesCount ==
  ASSUME NEW S, NEW e, Enumerates(e, S)
  PROVE  /\ IsFiniteSet(S) /\ Cardinality(S) = Len(e)
         /\ \A k \in 1..Len(e) : Nth(S, k) = e[k]
<1>1. e \in Seq(Nat) /\ Len(e) \in Nat
  BY DEF Enumerates
<1>2. IsFiniteSet(S) /\ Cardinality(S) = Len(e)
  <2>1. S = {e[i] : i \in 1..Len(e)}
    BY DEF Enumerates
  <2>2. Len(e) \in 0..Len(e)
    BY <1>1
  <2> QED
    BY <2>1, <2>2, PrefixCount
<1>3. ASSUME NEW k \in 1..Len(e)
      PROVE  Cardinality({y \in S : y <= e[k]}) = k
  <2>1. {y \in S : y <= e[k]} = {e[i] : i \in 1..k}
    <3>1. ASSUME NEW i \in 1..Len(e) PROVE e[i] <= e[k] <=> i <= k
      <4>1. e[i] \in Nat /\ e[k] \in Nat
        BY <1>1
      <4>2. i < k => e[i] < e[k]
        BY DEF Enumerates
      <4>3. k < i => e[k] < e[i]
        BY DEF Enumerates
      <4> QED
        BY <4>1, <4>2, <4>3
    <3>2. S = {e[i] : i \in 1..Len(e)}
      BY DEF Enumerates
    <3> QED
      BY <3>1, <3>2
  <2>2. k \in 0..Len(e)
    BY <1>1
  <2> QED
    BY <2>1, <2>2, PrefixCount
<1>4. ASSUME NEW k \in 1..Len(e)
      PROVE  Nth(S, k) = e[k]
  <2>1. e[k] \in S
    BY DEF Enumerates
  <2>2. ASSUME NEW x \in S, Cardinality({y \in S : y <= x}) = k
        PROVE  x = e[k]
    <3>1. PICK i \in 1..Len(e) : x = e[i]
      BY DEF Enumerates
    <3>2. i = k
      BY <1>3, <2>2, <3>1
    <3> QED
      BY <3>1, <3>2
  <2>3. \E x \in S : Cardinality({y \in S : y <= x}) = k
    BY <1>3, <2>1
  <2>4. Nth(S, k) \in S /\ Cardinality({y \in S : y <= Nth(S, k)}) = k
    BY <2>3, Zenon DEF Nth
  <2> QED
    BY <2>2, <2>4, Zenon
<1> QED
  BY <1>2, <1>4

\* A list goes on with a larger number, or begins with a smaller one.
LEMMA EnumeratesAppend ==
  ASSUME NEW S, NEW e, Enumerates(e, S), NEW m \in Nat, \A x \in S : x < m
  PROVE  Enumerates(Append(e, m), S \cup {m})
<1> DEFINE g == Append(e, m)
<1>1. e \in Seq(Nat) /\ Len(e) \in Nat /\ S = {e[i] : i \in 1..Len(e)}
  BY DEF Enumerates
<1>2. /\ g \in Seq(Nat) /\ Len(g) = Len(e) + 1
      /\ \A i \in 1..Len(e) : g[i] = e[i]
      /\ g[Len(e) + 1] = m
  BY <1>1
<1> HIDE DEF g
<1>3. ASSUME NEW i \in 1..Len(g), NEW j \in 1..Len(g), i < j PROVE g[i] < g[j]
  <2>1. i \in 1..Len(e) /\ e[i] \in S /\ g[i] = e[i]
    BY <1>1, <1>2, <1>3
  <2>2. CASE j \in 1..Len(e)
    BY <1>2, <1>3, <2>1, <2>2 DEF Enumerates
  <2>3. CASE j = Len(e) + 1
    BY <1>2, <2>1, <2>3
  <2> QED
    BY <1>2, <2>2, <2>3
<1>4. {g[i] : i \in 1..Len(g)} = S \cup {m}
  <2>1. 1..Len(g) = 1..Len(e) \cup {Len(e) + 1}
    BY <1>1, <1>2
  <2> QED
    BY <1>1, <1>2, <2>1
<1> QED
  BY <1>2, <1>3, <1>4 DEF Enumerates, g

LEMMA EnumeratesPrepend ==
  ASSUME NEW S, NEW e, Enumerates(e, S), NEW m \in Nat, \A x \in S : m < x
  PROVE  Enumerates(<<m>> \o e, S \cup {m})
<1> DEFINE g == <<m>> \o e
<1>1. e \in Seq(Nat) /\ Len(e) \in Nat /\ S = {e[i] : i \in 1..Len(e)}
  BY DEF Enumerates
<1>2. /\ g \in Seq(Nat) /\ Len(g) = Len(e) + 1
      /\ \A i \in 2..(Len(e) + 1) : g[i] = e[i - 1]
      /\ g[1] = m
  BY <1>1
<1> HIDE DEF g
<1>3. ASSUME NEW i \in 1..Len(g), NEW j \in 1..Len(g), i < j PROVE g[i] < g[j]
  <2>1. j - 1 \in 1..Len(e) /\ e[j - 1] \in S /\ g[j] = e[j - 1]
    <3>1. j \in 2..(Len(e) + 1) /\ j - 1 \in 1..Len(e)
      BY <1>1, <1>2, <1>3
    <3> QED
      BY <1>1, <1>2, <3>1
  <2>2. CASE i = 1
    BY <1>2, <2>1, <2>2
  <2>3. CASE i - 1 \in 1..Len(e)
    <3>1. i \in 2..(Len(e) + 1) /\ i - 1 < j - 1
      BY <1>1, <1>3, <2>3
    <3>2. g[i] = e[i - 1]
      BY <1>2, <3>1
    <3> QED
      BY <2>1, <2>3, <3>1, <3>2 DEF Enumerates
  <2> QED
    BY <1>2, <2>2, <2>3
<1>4. {g[i] : i \in 1..Len(g)} = S \cup {m}
  <2>1. ASSUME NEW i \in 1..Len(g) PROVE g[i] \in S \cup {m}
    <3>1. CASE i = 1
      BY <1>2, <3>1
    <3>2. CASE i - 1 \in 1..Len(e)
      <4>1. i \in 2..(Len(e) + 1)
        BY <1>1, <3>2
      <4> QED
        BY <1>1, <1>2, <3>2, <4>1
    <3> QED
      BY <1>1, <1>2, <3>1, <3>2
  <2>2. ASSUME NEW i \in 1..Len(e) PROVE i + 1 \in 1..Len(g) /\ g[i + 1] = e[i]
    <3>1. i + 1 \in 2..(Len(e) + 1) /\ (i + 1) - 1 = i
      BY <1>1
    <3> QED
      BY <1>2, <3>1
  <2>3. 1 \in 1..Len(g)
    BY <1>1, <1>2
  <2>4. S \subseteq {g[i] : i \in 1..Len(g)}
    BY <1>1, <2>2
  <2>5. m \in {g[i] : i \in 1..Len(g)}
    BY <1>2, <2>3
  <2> QED
    BY <2>1, <2>4, <2>5, Zenon
<1> QED
  BY <1>2, <1>3, <1>4 DEF Enumerates, g

-----------------------------------------------------------------------------
(* BasicTokenize: the words of a text *)

\* The bits that a first byte and the bytes that follow it hold.
LEMMA LowBits ==
  ASSUME NEW b \in 0..255
  PROVE  /\ b % 64 \in 0..63 /\ b % 32 \in 0..31
         /\ b % 16 \in 0..15 /\ b % 8 \in 0..7
OBVIOUS

\* A character that is read fits in 21 bits and in the text.
LEMMA CharAtType ==
  ASSUME NEW t \in Seq(Bytes), NEW i \in 1..Len(t)
  PROVE  /\ CharAt(t, i).cp \in CodePoints
         /\ CharAt(t, i).length \in 1..4
         /\ i + CharAt(t, i).length <= Len(t) + 1
<1> DEFINE n == Announced(t[i])
<1>1. ASSUME NEW k \in 0..3, i + k <= Len(t) PROVE t[i + k] \in 0..255
  <2>1. i + k \in 1..Len(t)
    BY <1>1, SMT
  <2> QED
    BY <2>1, ElementOfSeq DEF Bytes
<1>2. t[i] \in 0..255
  BY ElementOfSeq DEF Bytes
<1>3. n \in 0..4
  BY SMT DEF Announced
<1>4. CASE n = 0 \/ i + n - 1 > Len(t)
  BY <1>4, SMT DEF CharAt, Replacement, CodePoints
<1>5. CASE n = 1 /\ i + n - 1 <= Len(t)
  <2>1. CharAt(t, i) = [cp |-> t[i], length |-> 1]
    BY <1>5, SMT DEF CharAt
  <2>2. CharAt(t, i).cp = t[i] /\ CharAt(t, i).length = 1
    BY <2>1
  <2>3. \A b \in 0..255 : b \in CodePoints
    BY SMT DEF CodePoints
  <2> QED
    <3>1. CharAt(t, i).cp \in CodePoints
      BY <1>2, <2>2, <2>3, Zenon
    <3> QED
      BY <2>2, <3>1, SMT
<1>6. CASE n = 2 /\ i + n - 1 <= Len(t)
  <2> DEFINE a == t[i] % 32
             b == t[i + 1] % 64
  <2>1. CharAt(t, i) = [cp |-> (a * 64) + b, length |-> 2]
    BY <1>6, SMT DEF CharAt
  <2>2. i + 1 <= Len(t)
    BY <1>6, SMT
  <2>3. t[i + 1] \in 0..255
    BY <1>1, <2>2, 1 \in 0..3, Zenon
  <2>4. a \in 0..31 /\ b \in 0..63
    BY <1>2, <2>3, LowBits, Zenon
  <2> HIDE DEF a, b
  <2>5. (a * 64) + b \in CodePoints
    BY <2>4, SMT DEF CodePoints
  <2> QED
    BY <2>1, <2>2, <2>5, SMT
<1>7. CASE n = 3 /\ i + n - 1 <= Len(t)
  <2> DEFINE a == t[i] % 16
             b == t[i + 1] % 64
             c == t[i + 2] % 64
  <2>1. CharAt(t, i) = [cp |-> (a * 4096) + (b * 64) + c, length |-> 3]
    BY <1>7, SMT DEF CharAt
  <2>2. i + 1 <= Len(t) /\ i + 2 <= Len(t)
    BY <1>7, SMT
  <2>3. t[i + 1] \in 0..255 /\ t[i + 2] \in 0..255
    BY <1>1, <2>2, 1 \in 0..3, 2 \in 0..3, Zenon
  <2>4. a \in 0..15 /\ b \in 0..63 /\ c \in 0..63
    BY <1>2, <2>3, LowBits, Zenon
  <2> HIDE DEF a, b, c
  <2>5. (a * 4096) + (b * 64) + c \in CodePoints
    BY <2>4, SMT DEF CodePoints
  <2> QED
    BY <2>1, <2>2, <2>5, SMT
<1>8. CASE n = 4 /\ i + n - 1 <= Len(t)
  <2> DEFINE a == t[i] % 8
             b == t[i + 1] % 64
             c == t[i + 2] % 64
             d == t[i + 3] % 64
  <2>1. CharAt(t, i) = [cp |-> (a * 262144) + (b * 4096) + (c * 64) + d, length |-> 4]
    BY <1>8, SMT DEF CharAt
  <2>2. i + 1 <= Len(t) /\ i + 2 <= Len(t) /\ i + 3 <= Len(t)
    BY <1>8, SMT
  <2>3. t[i + 1] \in 0..255 /\ t[i + 2] \in 0..255 /\ t[i + 3] \in 0..255
    BY <1>1, <2>2, 1 \in 0..3, 2 \in 0..3, 3 \in 0..3, Zenon
  <2>4. a \in 0..7 /\ b \in 0..63 /\ c \in 0..63 /\ d \in 0..63
    BY <1>2, <2>3, LowBits, Zenon
  <2> HIDE DEF a, b, c, d
  <2>5. (a * 262144) + (b * 4096) + (c * 64) + d \in CodePoints
    BY <2>4, SMT DEF CodePoints
  <2> QED
    BY <2>1, <2>2, <2>5, SMT
<1> QED
  BY <1>3, <1>4, <1>5, <1>6, <1>7, <1>8, SMT

\* The loop of DecodeUtf8: what it makes of the bytes from some place on.
LEMMA DecodeLoop ==
  ASSUME NEW t \in Seq(Bytes)
  PROVE  \E f \in [1..(Len(t) + 1) -> Seq(CodePoints)] :
           /\ f[Len(t) + 1] = <<>>
           /\ \A i \in 1..Len(t) : f[i] = <<CharAt(t, i).cp>> \o f[i + CharAt(t, i).length]
           /\ DecodeUtf8(t) = f[1]
<1> DEFINE N == Len(t)
           V == Seq(CodePoints)
           At(j) == CharAt(t, (N + 1) - j)
           prev == [j \in 1..N |-> j - At(j).length]
           step == [x \in V \X (1..N) |-> <<At(x[2]).cp>> \o x[1]]
<1>1. N \in Nat
  OBVIOUS
<1>2. \A j \in 1..N : /\ At(j).cp \in CodePoints /\ At(j).length \in 1..4
                      /\ j - At(j).length \in 0..(j - 1)
  <2> SUFFICES ASSUME NEW j \in 1..N
               PROVE  /\ At(j).cp \in CodePoints /\ At(j).length \in 1..4
                      /\ j - At(j).length \in 0..(j - 1)
    OBVIOUS
  <2>1. (N + 1) - j \in 1..N
    OBVIOUS
  <2>2. /\ At(j).cp \in CodePoints /\ At(j).length \in 1..4
        /\ ((N + 1) - j) + At(j).length <= N + 1
    BY <2>1, CharAtType
  <2> QED
    BY <2>2
<1>3. prev \in [1..N -> Nat] /\ \A j \in 1..N : prev[j] < j
  BY <1>2
<1>4. step \in [V \X (1..N) -> V]
  <2>1. ASSUME NEW s \in V, NEW j \in 1..N PROVE <<At(j).cp>> \o s \in V
    <3>1. At(j).cp \in CodePoints
      BY <1>2
    <3> HIDE DEF At
    <3> QED
      BY <3>1
  <2> QED
    BY <2>1
<1>5. <<>> \in V
  OBVIOUS
<1> HIDE DEF V
<1> HIDE DEF At
<1>6. PICK g : Steps(g, V, <<>>, N, prev, step)
  <2> HIDE DEF step, prev, N
  <2>1. \A j \in 1..N : prev[j] < j
    BY <1>3
  <2>2. prev \in [1..N -> Nat]
    BY <1>3
  <2> QED
    BY <1>1, <2>1, <2>2, <1>4, <1>5, StepsExist, Zenon
<1>g. /\ g \in [0..N -> V] /\ g[0] = <<>>
      /\ \A j \in 1..N : g[j] = step[<<g[prev[j]], j>>]
  <2> HIDE DEF step, prev, N
  <2> QED
    BY <1>6, Zenon DEF Steps
<1> DEFINE f == [i \in 1..(N + 1) |-> g[(N + 1) - i]]
<1>7. f \in [1..(N + 1) -> V] /\ f[N + 1] = <<>>
  <2>1. ASSUME NEW i \in 1..(N + 1) PROVE (N + 1) - i \in 0..N
    BY <1>1
  <2>2. N + 1 \in 1..(N + 1) /\ (N + 1) - (N + 1) = 0
    BY <1>1
  <2> HIDE DEF N
  <2> QED
    BY <1>g, <2>1, <2>2
<1>8. ASSUME NEW i \in 1..N
      PROVE  i + CharAt(t, i).length \in 1..(N + 1)
             /\ f[i] = <<CharAt(t, i).cp>> \o f[i + CharAt(t, i).length]
  <2> DEFINE j == (N + 1) - i
  <2>1. j \in 1..N /\ (N + 1) - j = i
    OBVIOUS
  <2>2. At(j) = CharAt(t, i)
    BY <2>1 DEF At
  <2>3. g[j] = <<At(j).cp>> \o g[j - At(j).length]
    <3>1. prev[j] = j - At(j).length /\ g[prev[j]] \in V
      BY <1>2, <1>g, <2>1
    <3>2. step[<<g[prev[j]], j>>] = <<At(j).cp>> \o g[prev[j]]
      BY <2>1, <3>1
    <3> HIDE DEF step, prev
    <3> QED
      BY <1>g, <2>1, <3>1, <3>2
  <2>4. i + CharAt(t, i).length \in 1..(N + 1)
    BY CharAtType
  <2>5. f[i + CharAt(t, i).length] = g[j - CharAt(t, i).length]
    <3>1. CharAt(t, i).length \in Nat
      BY CharAtType
    <3>2. (N + 1) - (i + CharAt(t, i).length) = j - CharAt(t, i).length
      BY <1>1, <3>1
    <3>3. f[i + CharAt(t, i).length] = g[(N + 1) - (i + CharAt(t, i).length)]
      BY <2>4, Zenon
    <3> QED
      BY <3>2, <3>3
  <2>6. f[i] = g[j]
    BY <2>4
  <2> QED
    BY <2>2, <2>3, <2>4, <2>5, <2>6, Zenon
<1> DEFINE from[i \in 1..(Len(t) + 1)] ==
             IF i > Len(t) THEN <<>> ELSE <<CharAt(t, i).cp>> \o from[i + CharAt(t, i).length]
<1>9. f = [i \in 1..(Len(t) + 1) |->
             IF i > Len(t) THEN <<>> ELSE <<CharAt(t, i).cp>> \o f[i + CharAt(t, i).length]]
  <2> HIDE DEF f
  <2>1. f = [i \in 1..(N + 1) |-> f[i]]
    BY <1>7
  <2>2. ASSUME NEW i \in 1..(N + 1)
        PROVE  f[i] = IF i > N THEN <<>> ELSE <<CharAt(t, i).cp>> \o f[i + CharAt(t, i).length]
    <3>1. CASE i = N + 1
      <4>1. i > N
        BY <1>1, <3>1
      <4> QED
        BY <1>7, <3>1, <4>1, Zenon
    <3>2. CASE i \in 1..N
      <4>1. ~(i > N)
        BY <1>1, <3>2
      <4> QED
        BY <1>8, <3>2, <4>1, Zenon
    <3> QED
      BY <1>1, <3>1, <3>2
  <2> QED
    BY <2>1, <2>2
<1> HIDE DEF f
<1>10. from = [i \in 1..(Len(t) + 1) |->
             IF i > Len(t) THEN <<>> ELSE <<CharAt(t, i).cp>> \o from[i + CharAt(t, i).length]]
  BY <1>9
<1>11. DecodeUtf8(t) = from[1]
  BY DEF DecodeUtf8
<1> HIDE DEF from
<1>12. ASSUME NEW i \in 1..N
       PROVE  from[i] = <<CharAt(t, i).cp>> \o from[i + CharAt(t, i).length]
  <2>1. i \in 1..(Len(t) + 1) /\ ~(i > Len(t))
    BY <1>1
  <2> QED
    BY <1>10, <2>1, Zenon
<1>13. from[N + 1] = <<>>
  <2>1. N + 1 \in 1..(Len(t) + 1) /\ N + 1 > Len(t)
    BY <1>1
  <2> QED
    BY <1>10, <2>1, Zenon
<1>14. 0..N \subseteq {j \in 0..N : from[(N + 1) - j] \in V}
  <2> DEFINE S == {j \in 0..N : from[(N + 1) - j] \in V}
  <2>1. ASSUME NEW j \in 0..N, \A m \in 0..(j - 1) : m \in S PROVE j \in S
    <3>1. CASE j = 0
      BY <1>1, <1>5, <1>13, <3>1
    <3>2. CASE j \in 1..N
      <4> DEFINE i == (N + 1) - j
                 m == j - CharAt(t, i).length
      <4>1. i \in 1..N
        BY <1>1, <3>2
      <4>2. /\ CharAt(t, i).cp \in CodePoints /\ CharAt(t, i).length \in 1..4
            /\ i + CharAt(t, i).length <= N + 1
        BY <4>1, CharAtType
      <4>3. m \in 0..(j - 1) /\ (N + 1) - m = i + CharAt(t, i).length
        BY <1>1, <3>2, <4>2
      <4>4. from[i + CharAt(t, i).length] \in V
        BY <2>1, <4>3
      <4>5. from[i] = <<CharAt(t, i).cp>> \o from[i + CharAt(t, i).length]
        BY <1>12, <4>1
      <4>6. from[i] \in V
        <5> HIDE DEF i
        <5> QED
          BY <4>2, <4>4, <4>5 DEF V
      <4> QED
        BY <4>6
    <3> QED
      BY <1>1, <3>1, <3>2
  <2> HIDE DEF S
  <2>2. 0..N \subseteq S
    BY <1>1, <2>1, StrongInduction
  <2> QED
    BY <2>2 DEF S
<1>15. from \in [1..(N + 1) -> V]
  <2>1. ASSUME NEW i \in 1..(N + 1) PROVE from[i] \in V
    <3>1. (N + 1) - i \in 0..N /\ (N + 1) - ((N + 1) - i) = i
      BY <1>1
    <3> QED
      BY <1>14, <3>1
  <2>2. from = [i \in 1..(N + 1) |-> from[i]]
    BY <1>10
  <2> QED
    BY <2>1, <2>2
<1> QED
  BY <1>11, <1>12, <1>13, <1>15 DEF V

\* A character is spelled by one to four bytes.
LEMMA EncodeType ==
  ASSUME NEW cp \in CodePoints
  PROVE  EncodeUtf8(cp) \in Seq(Bytes) /\ Len(EncodeUtf8(cp)) \in 1..4
<1> DEFINE e == EncodeUtf8(cp)
<1>0. cp \in Nat /\ cp <= 2097151
  BY SMT DEF CodePoints
<1>1. CASE cp <= 127
  <2>1. e = <<cp>> /\ cp \in Bytes
    BY <1>0, <1>1, SMT DEF EncodeUtf8, Bytes
  <2> QED
    BY <2>1
<1>2. CASE cp > 127 /\ cp <= 2047
  <2> DEFINE a == 192 + (cp \div 64)
             b == Following(cp, 1)
  <2>1. e = <<a, b>>
    BY <1>0, <1>2, SMT DEF EncodeUtf8
  <2>2. a \in Bytes /\ b \in Bytes
    BY <1>0, <1>2, SMT DEF Following, Bytes
  <2> HIDE DEF a, b, e
  <2> QED
    BY <2>1, <2>2 DEF e
<1>3. CASE cp > 2047 /\ cp <= 65535
  <2> DEFINE a == 224 + (cp \div 4096)
             b == Following(cp, 64)
             c == Following(cp, 1)
  <2>1. e = <<a, b, c>>
    BY <1>0, <1>3, SMT DEF EncodeUtf8
  <2>2. a \in Bytes /\ b \in Bytes /\ c \in Bytes
    BY <1>0, <1>3, SMT DEF Following, Bytes
  <2> HIDE DEF a, b, c, e
  <2> QED
    BY <2>1, <2>2 DEF e
<1>4. CASE cp > 65535
  <2> DEFINE a == 240 + (cp \div 262144)
             b == Following(cp, 4096)
             c == Following(cp, 64)
             d == Following(cp, 1)
  <2>1. e = <<a, b, c, d>>
    BY <1>0, <1>4, SMT DEF EncodeUtf8
  <2>2. a \in Bytes /\ b \in Bytes /\ c \in Bytes /\ d \in Bytes
    BY <1>0, <1>4, SMT DEF Following, Bytes
  <2> HIDE DEF a, b, c, d, e
  <2> QED
    BY <2>1, <2>2 DEF e
<1> QED
  BY <1>0, <1>1, <1>2, <1>3, <1>4, SMT

\* The bytes b are those of the characters cs, which begin at the places at.
SpelledAt(b, cs, at) ==
  /\ b \in Seq(Bytes) /\ cs \in Seq(CodePoints)
  /\ at \in [1..(Len(cs) + 1) -> Nat \ {0}]
  /\ at[1] = 1 /\ at[Len(cs) + 1] = Len(b) + 1
  /\ \A k \in 1..Len(cs) :
       /\ at[k + 1] = at[k] + Len(EncodeUtf8(cs[k]))
       /\ at[k + 1] <= Len(b) + 1
       /\ \A j \in 1..Len(EncodeUtf8(cs[k])) : b[at[k] + j - 1] = EncodeUtf8(cs[k])[j]

Spells(b, cs) == \E at : SpelledAt(b, cs, at)

\* How a spelling begins, and how it goes on.
LEMMA SpellsNothing == Spells(<<>>, <<>>)
<1>1. SpelledAt(<<>>, <<>>, [k \in 1..(0 + 1) |-> 1])
  BY DEF SpelledAt
<1> QED
  BY <1>1 DEF Spells

LEMMA SpellsOneMore ==
  ASSUME NEW b, NEW cs, Spells(b, cs), NEW c \in CodePoints
  PROVE  Spells(b \o EncodeUtf8(c), Append(cs, c))
<1>1. PICK at : SpelledAt(b, cs, at)
  BY DEF Spells
<1> DEFINE e == EncodeUtf8(c)
           M == Len(cs)
           B == Len(b)
           bb == b \o e
           dd == Append(cs, c)
           to == [k \in 1..(M + 2) |-> IF k <= M + 1 THEN at[k] ELSE (B + 1) + Len(e)]
<1>2. /\ b \in Seq(Bytes) /\ cs \in Seq(CodePoints) /\ M \in Nat /\ B \in Nat
      /\ at \in [1..(M + 1) -> Nat \ {0}]
      /\ at[1] = 1 /\ at[M + 1] = B + 1
  BY <1>1 DEF SpelledAt
<1>3. e \in Seq(Bytes) /\ Len(e) \in 1..4
  BY EncodeType
<1>4. /\ bb \in Seq(Bytes) /\ Len(bb) = B + Len(e)
      /\ \A i \in 1..B : bb[i] = b[i]
      /\ \A j \in 1..Len(e) : bb[B + j] = e[j]
  BY <1>2, <1>3
<1>5. /\ dd \in Seq(CodePoints) /\ Len(dd) = M + 1
      /\ \A k \in 1..M : dd[k] = cs[k]
      /\ dd[M + 1] = c
  BY <1>2
<1> HIDE DEF e, bb, dd
<1>6. to \in [1..((M + 1) + 1) -> Nat \ {0}] /\ to[1] = 1 /\ to[(M + 1) + 1] = Len(bb) + 1
  BY <1>2, <1>3, <1>4
<1>7. ASSUME NEW k \in 1..(M + 1)
      PROVE  /\ to[k + 1] = to[k] + Len(EncodeUtf8(dd[k]))
             /\ to[k + 1] <= Len(bb) + 1
             /\ \A j \in 1..Len(EncodeUtf8(dd[k])) : bb[to[k] + j - 1] = EncodeUtf8(dd[k])[j]
  <2>1. CASE k \in 1..M
    <3> DEFINE x == EncodeUtf8(cs[k])
    <3>1. /\ at[k + 1] = at[k] + Len(x) /\ at[k + 1] <= B + 1
          /\ \A j \in 1..Len(x) : b[at[k] + j - 1] = x[j]
      BY <1>1, <2>1 DEF SpelledAt
    <3>2. to[k] = at[k] /\ to[k + 1] = at[k + 1] /\ dd[k] = cs[k]
      BY <1>2, <1>5, <2>1
    <3>3. Len(x) \in Nat /\ at[k] \in Nat \ {0} /\ at[k + 1] \in Nat
      <4>1. k \in 1..(M + 1) /\ k + 1 \in 1..(M + 1) /\ cs[k] \in CodePoints
        BY <1>2, <2>1
      <4>2. Len(x) \in 1..4
        BY <4>1, EncodeType
      <4>3. Len(x) \in Nat
        BY <4>2
      <4>4. at[k] \in Nat \ {0} /\ at[k + 1] \in Nat \ {0}
        BY <1>2, <4>1
      <4> QED
        BY <4>3, <4>4
    <3>5. EncodeUtf8(dd[k]) = x
      BY <3>2
    <3> HIDE DEF x
    <3>4. ASSUME NEW j \in 1..Len(x) PROVE bb[at[k] + j - 1] = x[j]
      <4>1. at[k] + j - 1 \in 1..B
        BY <1>2, <3>1, <3>3
      <4> QED
        BY <1>4, <3>1, <4>1
    <3>6. at[k + 1] <= (B + Len(e)) + 1
      BY <1>2, <1>3, <3>1, <3>3
    <3> QED
      BY <1>4, <3>1, <3>2, <3>4, <3>5, <3>6
  <2>2. CASE k = M + 1
    <3>1. to[k] = B + 1 /\ to[k + 1] = (B + 1) + Len(e) /\ dd[k] = c
      BY <1>2, <1>3, <1>5, <2>2
    <3>2. ASSUME NEW j \in 1..Len(e) PROVE bb[(B + 1) + j - 1] = e[j]
      <4>1. (B + 1) + j - 1 = B + j
        BY <1>2
      <4> QED
        BY <1>4, <4>1
    <3> QED
      BY <1>2, <1>3, <1>4, <3>1, <3>2 DEF e
  <2> QED
    BY <1>2, <2>1, <2>2
<1> HIDE DEF to
<1>8. SpelledAt(bb, dd, to)
  BY <1>4, <1>5, <1>6, <1>7 DEF SpelledAt
<1> QED
  BY <1>8 DEF Spells, bb, dd, e

LEMMA SpellsOne ==
  ASSUME NEW c \in CodePoints
  PROVE  Spells(EncodeUtf8(c), <<c>>)
<1>1. Spells(<<>> \o EncodeUtf8(c), Append(<<>>, c))
  BY SpellsNothing, SpellsOneMore
<1>2. <<>> \o EncodeUtf8(c) = EncodeUtf8(c) /\ Append(<<>>, c) = <<c>>
  BY EncodeType
<1> QED
  BY <1>1, <1>2

\* A spelled character lies inside the text.
LEMMA PlaceInside ==
  ASSUME NEW p \in Nat, NEW q \in Nat, NEW l \in 1..4, NEW n \in Nat,
         p >= 1, q = p + l, q <= n + 1
  PROVE  p \in 1..n /\ p + l - 1 <= n
OBVIOUS

\* DecodeUtf8 reads the characters that bytes spell.
LEMMA SpellsDecode ==
  ASSUME NEW b, NEW cs, Spells(b, cs)
  PROVE  DecodeUtf8(b) = cs
<1>1. PICK at : SpelledAt(b, cs, at)
  BY DEF Spells
<1> DEFINE M == Len(cs)
           N == Len(b)
<1>2. /\ b \in Seq(Bytes) /\ cs \in Seq(CodePoints) /\ M \in Nat /\ N \in Nat
      /\ at \in [1..(M + 1) -> Nat \ {0}]
      /\ at[1] = 1 /\ at[M + 1] = N + 1
  BY <1>1 DEF SpelledAt
<1>3. PICK f \in [1..(N + 1) -> Seq(CodePoints)] :
        /\ f[N + 1] = <<>>
        /\ \A i \in 1..N : f[i] = <<CharAt(b, i).cp>> \o f[i + CharAt(b, i).length]
        /\ DecodeUtf8(b) = f[1]
  BY <1>2, DecodeLoop
<1>4. ASSUME NEW k \in 1..M
      PROVE  f[at[k]] = <<cs[k]>> \o f[at[k + 1]]
  <2> DEFINE x == EncodeUtf8(cs[k])
  <2>1. cs[k] \in CodePoints
    BY <1>2
  <2>2. x \in Seq(Bytes) /\ Len(x) \in 1..4
    BY <2>1, EncodeType
  <2>3. /\ at[k + 1] = at[k] + Len(x) /\ at[k + 1] <= N + 1
        /\ \A j \in 1..Len(x) : b[at[k] + j - 1] = x[j]
    BY <1>1 DEF SpelledAt
  <2>4. at[k] \in Nat /\ at[k] >= 1 /\ at[k + 1] \in Nat
    <3>1. k \in 1..(M + 1) /\ k + 1 \in 1..(M + 1)
      BY <1>2
    <3>2. at[k] \in Nat \ {0} /\ at[k + 1] \in Nat \ {0}
      BY <1>2, <3>1
    <3> QED
      BY <3>2
  <2>5. at[k] \in 1..N /\ at[k] + Len(x) - 1 <= N
    <3> HIDE DEF x, N
    <3> QED
      BY <2>2, <2>3, <2>4, <1>2, PlaceInside, Zenon
  <2>6. CharAt(b, at[k]) = [cp |-> cs[k], length |-> Len(x)]
    <3>1. at[k] \in Nat \ {0}
      BY <2>4
    <3> QED
      BY <1>2, <2>1, <2>3, <2>5, <3>1, RoundTrip, Zenon
  <2> HIDE DEF x
  <2>7. CharAt(b, at[k]).cp = cs[k] /\ at[k] + CharAt(b, at[k]).length = at[k + 1]
    BY <2>3, <2>6
  <2> QED
    BY <1>3, <2>5, <2>7
<1>5. 0..M \subseteq {j \in 0..M : f[at[(M + 1) - j]] = SubSeq(cs, (M + 1) - j, M)}
  <2> DEFINE S == {j \in 0..M : f[at[(M + 1) - j]] = SubSeq(cs, (M + 1) - j, M)}
  <2>1. ASSUME NEW j \in 0..M, \A m \in 0..(j - 1) : m \in S PROVE j \in S
    <3>1. CASE j = 0
      <4>1. SubSeq(cs, M + 1, M) = <<>>
        BY <1>2
      <4>2. f[at[M + 1]] = <<>>
        BY <1>2, <1>3
      <4>3. (M + 1) - 0 = M + 1
        BY <1>2
      <4> QED
        BY <1>2, <3>1, <4>1, <4>2, <4>3
    <3>2. CASE j \in 1..M
      <4> DEFINE k == (M + 1) - j
      <4>1. k \in 1..M /\ j - 1 \in 0..(j - 1) /\ (M + 1) - (j - 1) = k + 1
        BY <1>2, <3>2
      <4>2. f[at[k + 1]] = SubSeq(cs, k + 1, M)
        BY <2>1, <4>1
      <4>3. SubSeq(cs, k, M) = <<cs[k]>> \o SubSeq(cs, k + 1, M)
        BY <1>2, <4>1, SubSeqRecursiveFirst, M \in k..M
      <4> QED
        BY <1>4, <4>1, <4>2, <4>3
    <3> QED
      BY <1>2, <3>1, <3>2
  <2> HIDE DEF S
  <2>2. 0..M \subseteq S
    BY <1>2, <2>1, StrongInduction
  <2> QED
    BY <2>2 DEF S
<1>6. f[at[1]] = SubSeq(cs, 1, M)
  <2>1. M \in 0..M /\ (M + 1) - M = 1
    BY <1>2
  <2> QED
    BY <1>5, <2>1
<1>7. SubSeq(cs, 1, M) = cs
  BY <1>2
<1> QED
  BY <1>2, <1>3, <1>6, <1>7

\* The types of what the tokenizer computes on its way.
LEMMA DecodeType ==
  ASSUME NEW t \in Seq(Bytes)
  PROVE  DecodeUtf8(t) \in Seq(CodePoints)
<1>1. PICK f \in [1..(Len(t) + 1) -> Seq(CodePoints)] : DecodeUtf8(t) = f[1]
  BY DecodeLoop
<1>2. 1 \in 1..(Len(t) + 1)
  OBVIOUS
<1> QED
  BY <1>1, <1>2

LEMMA LowerType ==
  ASSUME NEW c \in CodePoints
  PROVE  Lower(c) \in CodePoints
BY SMT DEF CodePoints, Lower

\* The code asks the lower-case letter whether it is a word of its own.
LEMMA AloneLower ==
  ASSUME NEW c \in CodePoints
  PROVE  Alone(c) <=> IsChinese(Lower(c)) \/ IsPunctuation(Lower(c))
<1>0. c \in Nat
  BY SMT DEF CodePoints
<1>1. CASE c \in 65..90
  <2>1. Lower(c) = c + 32
    BY <1>1, SMT DEF Lower
  <2>0. c \in Int /\ c >= 65 /\ c <= 90
    BY <1>1, SMT
  <2>2. ~IsChinese(c) /\ ~IsPunctuation(c)
    <3>1. ~IsChinese(c)
      BY <2>0, SMT DEF IsChinese, Between
    <3>2. ~IsPunctuation(c)
      BY <2>0, SMT DEF IsPunctuation, Between
    <3> QED
      BY <3>1, <3>2
  <2> DEFINE d == c + 32
  <2>4. d \in Int /\ d >= 97 /\ d <= 122
    BY <2>0, SMT
  <2> HIDE DEF d
  <2>5. ~IsChinese(d)
    BY <2>4, SMT DEF IsChinese, Between
  <2>6. ~IsPunctuation(d)
    BY <2>4, SMT DEF IsPunctuation, Between
  <2>3. ~IsChinese(c + 32) /\ ~IsPunctuation(c + 32)
    BY <2>5, <2>6, Zenon DEF d
  <2> QED
    BY <2>1, <2>2, <2>3, Zenon DEF Alone
<1>2. CASE c \notin 65..90
  BY <1>2, Zenon DEF Lower, Alone
<1> QED
  BY <1>1, <1>2

\* What the loop of BasicTokenize keeps.
States == [words : Seq(Seq(Bytes)), current : Seq(Bytes)]

Empty == [words |-> <<>>, current |-> <<>>]

\* What Flush and Consume return.
LEMMA FlushType ==
  ASSUME NEW s \in States
  PROVE  /\ Flush(s) \in States /\ Flush(s).current = <<>>
         /\ Flush(s).words = IF s.current = <<>> THEN s.words ELSE Append(s.words, s.current)
BY DEF Flush, States

LEMMA ConsumeCases ==
  ASSUME NEW s \in States, NEW cp \in CodePoints
  PROVE  /\ IsControl(cp) => Consume(s, cp) = s
         /\ ~IsControl(cp) /\ IsWhitespace(cp) => Consume(s, cp) = Flush(s)
         /\ ~IsControl(cp) /\ ~IsWhitespace(cp) /\ Alone(cp)
              => Consume(s, cp) = [words |-> Append(Flush(s).words, EncodeUtf8(Lower(cp))),
                                   current |-> <<>>]
         /\ ~IsControl(cp) /\ ~IsWhitespace(cp) /\ ~Alone(cp)
              => Consume(s, cp) = [words |-> s.words,
                                   current |-> s.current \o EncodeUtf8(Lower(cp))]
<1> DEFINE c == Lower(cp)
<1>1. Alone(cp) <=> IsChinese(c) \/ IsPunctuation(c)
  BY AloneLower
<1>2. CASE IsControl(cp)
  BY <1>2 DEF Consume
<1>3. CASE ~IsControl(cp) /\ IsWhitespace(cp)
  BY <1>3 DEF Consume
<1>4. CASE ~IsControl(cp) /\ ~IsWhitespace(cp) /\ Alone(cp)
  <2>1. Consume(s, cp) = [Flush(s) EXCEPT !.words = Append(@, EncodeUtf8(c))]
    BY <1>1, <1>4 DEF Consume
  <2> QED
    BY <1>4, <2>1, FlushType DEF States
<1>5. CASE ~IsControl(cp) /\ ~IsWhitespace(cp) /\ ~Alone(cp)
  <2>1. Consume(s, cp) = [s EXCEPT !.current = @ \o EncodeUtf8(c)]
    BY <1>1, <1>5 DEF Consume
  <2> QED
    BY <1>5, <2>1 DEF States
<1> QED
  BY <1>2, <1>3, <1>4, <1>5

LEMMA ConsumeType ==
  ASSUME NEW s \in States, NEW cp \in CodePoints
  PROVE  Consume(s, cp) \in States
<1>1. Flush(s) \in States
  BY FlushType
<1>2. EncodeUtf8(Lower(cp)) \in Seq(Bytes)
  BY LowerType, EncodeType
<1>3. s.words \in Seq(Seq(Bytes)) /\ s.current \in Seq(Bytes) /\ Flush(s).words \in Seq(Seq(Bytes))
  BY <1>1 DEF States
<1>4. CASE IsControl(cp)
  BY <1>4, ConsumeCases
<1>5. CASE ~IsControl(cp) /\ IsWhitespace(cp)
  BY <1>1, <1>5, ConsumeCases
<1>6. CASE ~IsControl(cp) /\ ~IsWhitespace(cp) /\ Alone(cp)
  <2>1. Append(Flush(s).words, EncodeUtf8(Lower(cp))) \in Seq(Seq(Bytes))
    BY <1>2, <1>3
  <2>2. <<>> \in Seq(Bytes)
    OBVIOUS
  <2>3. [words |-> Append(Flush(s).words, EncodeUtf8(Lower(cp))), current |-> <<>>] \in States
    BY <2>1, <2>2, Zenon DEF States
  <2> QED
    BY <1>6, <2>3, ConsumeCases
<1>7. CASE ~IsControl(cp) /\ ~IsWhitespace(cp) /\ ~Alone(cp)
  <2>1. s.current \o EncodeUtf8(Lower(cp)) \in Seq(Bytes)
    BY <1>2, <1>3
  <2>2. [words |-> s.words, current |-> s.current \o EncodeUtf8(Lower(cp))] \in States
    BY <1>3, <2>1, Zenon DEF States
  <2> QED
    BY <1>7, <2>2, ConsumeCases
<1> QED
  BY <1>4, <1>5, <1>6, <1>7

\* The loop of BasicTokenize: what it has made of the characters up to a place.
LEMMA ConsumeLoop ==
  ASSUME NEW t \in Seq(Bytes), NEW cps, cps = DecodeUtf8(t)
  PROVE  \E f \in [0..Len(cps) -> States] :
           /\ f[0] = Empty
           /\ \A n \in 1..Len(cps) : f[n] = Consume(f[n - 1], cps[n])
           /\ BasicTokenize(t) = Flush(f[Len(cps)]).words
<1> DEFINE N == Len(cps)
           prev == [n \in 1..N |-> n - 1]
           step == [x \in States \X (1..N) |-> Consume(x[1], cps[x[2]])]
<1>1. cps \in Seq(CodePoints) /\ N \in Nat
  BY DecodeType
<1>2. Empty \in States
  BY DEF Empty, States
<1>3. prev \in [1..N -> Nat] /\ \A n \in 1..N : prev[n] < n
  BY <1>1
<1>4. step \in [States \X (1..N) -> States]
  <2>1. ASSUME NEW s \in States, NEW n \in 1..N PROVE Consume(s, cps[n]) \in States
    <3>1. cps[n] \in CodePoints
      BY <1>1
    <3> QED
      BY <3>1, ConsumeType
  <2> QED
    BY <2>1
<1>5. PICK f : Steps(f, States, Empty, N, prev, step)
  <2> HIDE DEF step, prev, N
  <2>1. \A n \in 1..N : prev[n] < n
    BY <1>3
  <2>2. prev \in [1..N -> Nat]
    BY <1>3
  <2> QED
    BY <1>1, <1>2, <1>4, <2>1, <2>2, StepsExist, Zenon
<1>6. /\ f \in [0..N -> States] /\ f[0] = Empty
      /\ \A n \in 1..N : f[n] = step[<<f[prev[n]], n>>]
  <2> HIDE DEF step, prev, N
  <2> QED
    BY <1>5, Zenon DEF Steps
<1> HIDE DEF N
<1>7. ASSUME NEW n \in 1..N PROVE f[n] = Consume(f[n - 1], cps[n])
  <2>1. prev[n] = n - 1 /\ n - 1 \in 0..N /\ f[n - 1] \in States
    BY <1>1, <1>6
  <2>2. step[<<f[n - 1], n>>] = Consume(f[n - 1], cps[n])
    BY <2>1
  <2> HIDE DEF step, prev
  <2> QED
    BY <1>6, <2>1, <2>2
<1> DEFINE after[n \in 0..Len(cps)] ==
             IF n = 0 THEN [words |-> <<>>, current |-> <<>>]
                      ELSE Consume(after[n - 1], cps[n])
<1>8. f = [n \in 0..Len(cps) |->
             IF n = 0 THEN [words |-> <<>>, current |-> <<>>]
                      ELSE Consume(f[n - 1], cps[n])]
  <2>1. f = [n \in 0..N |-> f[n]]
    BY <1>6
  <2>2. ASSUME NEW n \in 0..N
        PROVE  f[n] = IF n = 0 THEN Empty ELSE Consume(f[n - 1], cps[n])
    <3>1. n = 0 \/ (n \in 1..N /\ n # 0)
      BY <1>1
    <3> QED
      BY <1>6, <1>7, <3>1, Zenon
  <2> QED
    BY <2>1, <2>2 DEF N, Empty
<1>9. after = [n \in 0..Len(cps) |->
             IF n = 0 THEN [words |-> <<>>, current |-> <<>>]
                      ELSE Consume(after[n - 1], cps[n])]
  BY <1>8
<1>10. BasicTokenize(t) = Flush(after[Len(cps)]).words
  BY DEF BasicTokenize
<1> HIDE DEF after
<1>11. after[0] = Empty
  BY <1>1, <1>9 DEF Empty, N
<1>12. ASSUME NEW n \in 1..N PROVE after[n] = Consume(after[n - 1], cps[n])
  <2>1. n \in 0..Len(cps) /\ n # 0
    BY <1>1 DEF N
  <2> QED
    BY <1>9, <2>1, Zenon
<1>13. 0..N \subseteq {n \in 0..N : after[n] \in States}
  <2> DEFINE S == {n \in 0..N : after[n] \in States}
  <2>1. ASSUME NEW n \in 0..N, \A m \in 0..(n - 1) : m \in S PROVE n \in S
    <3>1. CASE n = 0
      BY <1>2, <1>11, <3>1
    <3>2. CASE n \in 1..N
      <4>1. n - 1 \in 0..(n - 1)
        BY <1>1, <3>2
      <4>2. after[n - 1] \in States /\ cps[n] \in CodePoints
        BY <1>1, <2>1, <3>2, <4>1 DEF N
      <4> QED
        BY <1>12, <3>2, <4>2, ConsumeType
    <3> QED
      BY <1>1, <3>1, <3>2
  <2> HIDE DEF S
  <2>2. 0..N \subseteq S
    BY <1>1, <2>1, StrongInduction
  <2> QED
    BY <2>2 DEF S
<1>14. after \in [0..N -> States]
  <2>1. after = [n \in 0..N |-> after[n]]
    BY <1>9 DEF N
  <2> QED
    BY <1>13, <2>1
<1> QED
  BY <1>10, <1>11, <1>12, <1>14 DEF N

\* How many words have begun when the first i characters are read.
Begun(cps, i) == Cardinality({j \in Starts(cps) : j <= i})

\* The word that is being read may still go on.
Open(cps, n) ==
  \E j \in Visible(cps) : /\ j <= n /\ ~Alone(cps[j])
                          /\ \A k \in (j + 1)..n : IsControl(cps[k])

\* The bytes b spell, in lower case, the characters at the places P.
Writes(b, cps, P) ==
  \E e : Enumerates(e, P) /\ Spells(b, [k \in 1..Len(e) |-> Lower(cps[e[k]])])

\* What BasicTokenize has made of the first n characters: the words that have
\* begun, as far as they were read, the last of them still open or not.
Read(cps, n, s) ==
  /\ s \in States
  /\ Len(Flush(s).words) = Begun(cps, n)
  /\ \A w \in 1..Begun(cps, n) :
       Writes(Flush(s).words[w], cps, {i \in Places(cps, w) : i <= n})
  /\ s.current # <<>> <=> Open(cps, n)

\* The words that have begun are counted one by one.
LEMMA BegunSets ==
  ASSUME NEW cps \in Seq(CodePoints), NEW i \in Nat
  PROVE  IsFiniteSet({j \in Starts(cps) : j <= i}) /\ Begun(cps, i) \in Nat
<1> DEFINE T == {j \in Starts(cps) : j <= i}
<1>1. T \subseteq 1..Len(cps)
  BY DEF Starts, Visible
<1>2. IsFiniteSet(1..Len(cps))
  BY FS_Interval
<1>3. IsFiniteSet(T)
  BY <1>1, <1>2, FS_Subset
<1> QED
  BY <1>3, FS_CardinalityType DEF Begun

LEMMA BegunNothing ==
  ASSUME NEW cps \in Seq(CodePoints)
  PROVE  Begun(cps, 0) = 0
<1>1. {j \in Starts(cps) : j <= 0} = {}
  BY DEF Starts, Visible
<1> QED
  BY <1>1, FS_EmptySet DEF Begun

LEMMA BegunNext ==
  ASSUME NEW cps \in Seq(CodePoints), NEW n \in 0..(Len(cps) - 1)
  PROVE  Begun(cps, n + 1) = IF n + 1 \in Starts(cps) THEN Begun(cps, n) + 1
                                                       ELSE Begun(cps, n)
<1> DEFINE T == {j \in Starts(cps) : j <= n}
           U == {j \in Starts(cps) : j <= n + 1}
<1>1. Starts(cps) \subseteq Nat /\ n \in Nat
  BY DEF Starts, Visible
<1>2. IsFiniteSet(T) /\ n + 1 \notin T
  BY <1>1, BegunSets
<1>3. CASE n + 1 \in Starts(cps)
  <2>1. U = T \cup {n + 1}
    BY <1>1, <1>3
  <2> HIDE DEF T, U
  <2>2. Cardinality(U) = Cardinality(T) + 1
    BY <1>2, <2>1, FS_AddElement
  <2> QED
    BY <1>3, <2>2 DEF T, U, Begun
<1>4. CASE n + 1 \notin Starts(cps)
  <2>1. U = T
    BY <1>1, <1>4
  <2> QED
    BY <1>4, <2>1 DEF Begun
<1> QED
  BY <1>3, <1>4

LEMMA BegunMonotonic ==
  ASSUME NEW cps \in Seq(CodePoints), NEW i \in Nat, NEW n \in Nat, i <= n
  PROVE  Begun(cps, i) <= Begun(cps, n)
<1> DEFINE T == {j \in Starts(cps) : j <= i}
           U == {j \in Starts(cps) : j <= n}
<1>1. T \subseteq U
  BY DEF Starts, Visible
<1>2. IsFiniteSet(U)
  BY BegunSets
<1> HIDE DEF T, U
<1>3. Cardinality(T) <= Cardinality(U)
  BY <1>1, <1>2, FS_Subset
<1> QED
  BY <1>3 DEF T, U, Begun

\* The places of a word up to the next character.
LEMMA PlacesNext ==
  ASSUME NEW cps \in Seq(CodePoints), NEW n \in 0..(Len(cps) - 1), NEW w
  PROVE  {i \in Places(cps, w) : i <= n + 1} =
           IF n + 1 \in Visible(cps) /\ Begun(cps, n + 1) = w
           THEN {i \in Places(cps, w) : i <= n} \cup {n + 1}
           ELSE {i \in Places(cps, w) : i <= n}
<1>1. Places(cps, w) = {i \in Visible(cps) : Begun(cps, i) = w}
  BY DEF Places, Begun
<1>2. Visible(cps) \subseteq Nat /\ n \in Nat
  BY DEF Visible
<1> QED
  BY <1>1, <1>2

\* No character read so far belongs to a word that has not begun.
LEMMA PlacesAhead ==
  ASSUME NEW cps \in Seq(CodePoints), NEW n \in Nat, NEW w \in Nat, w > Begun(cps, n)
  PROVE  {i \in Places(cps, w) : i <= n} = {}
<1>1. Places(cps, w) = {i \in Visible(cps) : Begun(cps, i) = w}
  BY DEF Places, Begun
<1> SUFFICES ASSUME NEW i \in Places(cps, w), i <= n PROVE FALSE
  OBVIOUS
<1>2. i \in Nat
  BY <1>1 DEF Visible
<1>3. Begun(cps, i) <= Begun(cps, n)
  BY <1>2, BegunMonotonic
<1>4. Begun(cps, i) = w
  BY <1>1
<1>5. Begun(cps, n) \in Nat
  BY BegunSets
<1> QED
  BY <1>3, <1>4, <1>5

\* Which characters begin a word and which leave one open.
LEMMA OpenNext ==
  ASSUME NEW cps \in Seq(CodePoints), NEW n \in 0..(Len(cps) - 1)
  PROVE  LET c == cps[n + 1] IN
         /\ IsControl(c) => (Open(cps, n + 1) <=> Open(cps, n))
         /\ ~IsControl(c) /\ IsWhitespace(c) => ~Open(cps, n + 1)
         /\ n + 1 \in Visible(cps) =>
              /\ Open(cps, n + 1) <=> ~Alone(c)
              /\ n + 1 \in Starts(cps) <=> Alone(c) \/ ~Open(cps, n)
<1> DEFINE c == cps[n + 1]
<1>1. Visible(cps) \subseteq Nat /\ n \in Nat
  BY DEF Visible
<1>2. ASSUME IsControl(c) PROVE Open(cps, n + 1) <=> Open(cps, n)
  <2>1. n + 1 \notin Visible(cps)
    BY <1>2 DEF Visible
  <2>2. ASSUME NEW j \in Visible(cps)
        PROVE  (j <= n + 1 /\ \A k \in (j + 1)..(n + 1) : IsControl(cps[k]))
                 <=> (j <= n /\ \A k \in (j + 1)..n : IsControl(cps[k]))
    <3>1. j <= n + 1 <=> j <= n
      BY <1>1, <2>1
    <3>2. ASSUME j <= n PROVE (j + 1)..(n + 1) = (j + 1)..n \cup {n + 1}
      BY <1>1, <3>2
    <3> QED
      BY <1>2, <3>1, <3>2
  <2> QED
    BY <2>2 DEF Open
<1>3. ASSUME ~IsControl(c), IsWhitespace(c) PROVE ~Open(cps, n + 1)
  <2>1. n + 1 \notin Visible(cps)
    BY <1>3 DEF Visible
  <2>2. ASSUME NEW j \in Visible(cps), j <= n + 1
        PROVE  n + 1 \in (j + 1)..(n + 1)
    BY <1>1, <2>1, <2>2
  <2> QED
    BY <1>3, <2>2 DEF Open
<1>4. ASSUME n + 1 \in Visible(cps)
      PROVE  /\ Open(cps, n + 1) <=> ~Alone(c)
             /\ n + 1 \in Starts(cps) <=> Alone(c) \/ ~Open(cps, n)
  <2>1. ~IsControl(c)
    BY <1>4 DEF Visible
  <2>2. ASSUME NEW j \in Visible(cps), j <= n + 1, \A k \in (j + 1)..(n + 1) : IsControl(cps[k])
        PROVE  j = n + 1
    <3>1. j # n + 1 => n + 1 \in (j + 1)..(n + 1)
      BY <1>1, <2>2
    <3> QED
      BY <2>1, <2>2, <3>1
  <2>3. n + 1 <= n + 1 /\ ((n + 1) + 1)..(n + 1) = {}
    BY <1>1
  <2>4. Open(cps, n + 1) <=> ~Alone(c)
    BY <1>4, <2>2, <2>3 DEF Open
  <2>5. ASSUME NEW j \in Visible(cps)
        PROVE  GoesOn(cps, j, n + 1) <=> ~Alone(c) /\ j <= n /\ ~Alone(cps[j])
                                           /\ \A k \in (j + 1)..n : IsControl(cps[k])
    <3>1. (j < n + 1 <=> j <= n) /\ (j + 1)..((n + 1) - 1) = (j + 1)..n
      BY <1>1
    <3> QED
      BY <3>1 DEF GoesOn
  <2>6. (\E j \in Visible(cps) : GoesOn(cps, j, n + 1)) <=> ~Alone(c) /\ Open(cps, n)
    BY <2>5 DEF Open
  <2> QED
    BY <1>4, <2>4, <2>6 DEF Starts
<1> QED
  BY <1>2, <1>3, <1>4

\* The last of some numbers, and the ones before it.
LEMMA LastOrBefore ==
  ASSUME NEW n \in Nat, NEW k \in 1..(n + 1)
  PROVE  k \in 1..n \/ k = n + 1
OBVIOUS

LEMMA LastOne ==
  ASSUME NEW n \in Nat, NEW k \in 1..n
  PROVE  k \in 1..(n - 1) \/ k = n
OBVIOUS

\* No character read so far belongs to the next word.
LEMMA AheadOfBegun ==
  ASSUME NEW cps \in Seq(CodePoints), NEW n \in Nat
  PROVE  {i \in Places(cps, Begun(cps, n) + 1) : i <= n} = {}
<1> DEFINE B == Begun(cps, n)
<1>1. B \in Nat
  BY BegunSets, Zenon
<1> HIDE DEF B
<1>2. B + 1 \in Nat /\ B + 1 > B
  BY <1>1
<1> QED
  BY <1>2, PlacesAhead, Zenon DEF B

\* No byte writes no character.
LEMMA WritesNothing == ASSUME NEW cps PROVE Writes(<<>>, cps, {})
<1>1. Enumerates(<<>>, {})
  BY DEF Enumerates
<1>2. [k \in 1..Len(<<>>) |-> Lower(cps[<<>>[k]])] = <<>>
  OBVIOUS
<1> QED
  BY <1>1, <1>2, SpellsNothing DEF Writes

\* One more character behind the ones that are written.
LEMMA WritesOneMore ==
  ASSUME NEW cps \in Seq(CodePoints), NEW P, NEW m \in 1..Len(cps), \A i \in P : i < m,
         NEW b, Writes(b, cps, P)
  PROVE  Writes(b \o EncodeUtf8(Lower(cps[m])), cps, P \cup {m})
<1>1. PICK e : /\ Enumerates(e, P)
               /\ Spells(b, [k \in 1..Len(e) |-> Lower(cps[e[k]])])
  BY DEF Writes
<1> DEFINE f == Append(e, m)
           cs == [k \in 1..Len(e) |-> Lower(cps[e[k]])]
           ds == [k \in 1..Len(f) |-> Lower(cps[f[k]])]
           c == Lower(cps[m])
<1>2. e \in Seq(Nat) /\ m \in Nat
  BY <1>1 DEF Enumerates
<1>3. Enumerates(f, P \cup {m})
  BY <1>1, <1>2, EnumeratesAppend
<1>4. c \in CodePoints
  BY LowerType
<1>5. cs \in Seq(CodePoints)
  BY <1>1 DEF Spells, SpelledAt
<1>6. ds = Append(cs, c)
  <2>1. /\ Len(f) = Len(e) + 1 /\ f[Len(e) + 1] = m
        /\ \A k \in 1..Len(e) : f[k] = e[k]
    BY <1>2
  <2>2. Len(cs) = Len(e) /\ Len(e) \in Nat
    BY <1>2
  <2> DEFINE g == Append(cs, c)
  <2>3. /\ g \in [1..(Len(e) + 1) -> CodePoints] /\ g[Len(e) + 1] = c
        /\ \A k \in 1..Len(e) : g[k] = cs[k]
    <3> HIDE DEF cs, c
    <3>1. /\ g \in Seq(CodePoints) /\ Len(g) = Len(cs) + 1
          /\ \A k \in 1..Len(cs) : g[k] = cs[k]
          /\ g[Len(cs) + 1] = c
      BY <1>4, <1>5, AppendProperties
    <3>2. g \in [1..Len(g) -> CodePoints]
      BY <3>1, LenProperties
    <3> QED
      BY <2>2, <3>1, <3>2
  <2>4. ASSUME NEW k \in 1..(Len(e) + 1)
        PROVE  Lower(cps[f[k]]) = g[k]
    <3>1. CASE k = Len(e) + 1
      BY <2>1, <2>3, <3>1
    <3>2. CASE k \in 1..Len(e)
      BY <2>1, <2>3, <3>2
    <3> QED
      BY <2>2, <3>1, <3>2, LastOrBefore, Zenon
  <2> HIDE DEF cs, c, f, g
  <2>5. g = [k \in 1..(Len(e) + 1) |-> g[k]]
    BY <2>3
  <2>6. g = [k \in 1..(Len(e) + 1) |-> Lower(cps[f[k]])]
    BY <2>4, <2>5
  <2> QED
    BY <2>1, <2>6, Zenon DEF g
<1> HIDE DEF cs, ds, c, f
<1>7. Spells(b \o EncodeUtf8(c), Append(cs, c))
  BY <1>1, <1>4, SpellsOneMore DEF cs
<1>8. Spells(b \o EncodeUtf8(c), ds)
  BY <1>6, <1>7
<1> QED
  BY <1>3, <1>8, Zenon DEF Writes, ds, c

\* The lengths of a word's parts: no character is spelled by no byte.
LEMMA EncodeNotEmpty ==
  ASSUME NEW c \in CodePoints, NEW b \in Seq(Bytes)
  PROVE  b \o EncodeUtf8(c) # <<>> /\ EncodeUtf8(c) # <<>> /\ b \o EncodeUtf8(c) \in Seq(Bytes)
<1>1. EncodeUtf8(c) \in Seq(Bytes) /\ Len(EncodeUtf8(c)) \in 1..4
  BY EncodeType
<1> DEFINE e == EncodeUtf8(c)
<1> HIDE DEF e
<1>2. e \in Seq(Bytes) /\ Len(e) \in 1..4
  BY <1>1 DEF e
<1>3. b \o e \in Seq(Bytes) /\ Len(b \o e) = Len(b) + Len(e) /\ Len(b) \in Nat
  BY <1>2
<1>4. b \o e # <<>> /\ e # <<>>
  <2>1. \A l \in Nat, k \in 1..4 : k # 0 /\ l + k # 0
    OBVIOUS
  <2>2. Len(b \o e) # 0 /\ Len(e) # 0
    BY <1>2, <1>3, <2>1, Zenon
  <2>3. Len(<<>>) = 0
    OBVIOUS
  <2> QED
    BY <2>2, <2>3, Zenon
<1> QED
  BY <1>3, <1>4 DEF e

\* One step of the loop reads one more character.
LEMMA ReadNext ==
  ASSUME NEW cps \in Seq(CodePoints), NEW n \in 0..(Len(cps) - 1),
         NEW s, Read(cps, n, s)
  PROVE  Read(cps, n + 1, Consume(s, cps[n + 1]))
<1> DEFINE c == cps[n + 1]
           r == Consume(s, c)
           W == Flush(s).words
           B == Begun(cps, n)
           P(w) == {i \in Places(cps, w) : i <= n}
           Q(w) == {i \in Places(cps, w) : i <= n + 1}
<1>1. /\ s \in States /\ Len(W) = B
      /\ \A w \in 1..B : Writes(W[w], cps, P(w))
      /\ s.current # <<>> <=> Open(cps, n)
  BY DEF Read
<1>2. c \in CodePoints /\ n \in Nat /\ n + 1 \in 1..Len(cps)
  BY SMT
<1>3. r \in States
  BY <1>1, <1>2, ConsumeType
<1>4. W \in Seq(Seq(Bytes)) /\ s.current \in Seq(Bytes) /\ s.words \in Seq(Seq(Bytes)) /\ B \in Nat
  BY <1>1, <1>2, FlushType, BegunSets DEF States
<1>5. n + 1 \in Visible(cps) <=> ~IsControl(c) /\ ~IsWhitespace(c)
  BY <1>2 DEF Visible
<1>6. Starts(cps) \subseteq Visible(cps)
  BY DEF Starts
<1>7. \A w : \A i \in P(w) : i < n + 1
  BY <1>2 DEF Places, Visible
<1>8. Lower(c) \in CodePoints
  BY <1>2, LowerType
<1> HIDE DEF c, r, W
\* A character that is skipped or separates words.
<1>9. CASE n + 1 \notin Visible(cps)
  <2>1. Begun(cps, n + 1) = B
    BY <1>6, <1>9, BegunNext
  <2>2. \A w : Q(w) = P(w)
    BY <1>9, PlacesNext
  <2>3. Flush(r).words = W /\ (r.current # <<>> <=> Open(cps, n + 1))
    <3>1. CASE IsControl(c)
      <4>1. r = s
        BY <1>1, <1>2, <3>1, ConsumeCases DEF r
      <4> QED
        BY <1>1, <3>1, <4>1, OpenNext DEF W, c
    <3>2. CASE ~IsControl(c)
      <4>1. IsWhitespace(c)
        BY <1>5, <1>9, <3>2
      <4>2. r = Flush(s)
        BY <1>1, <1>2, <3>2, <4>1, ConsumeCases DEF r
      <4>3. r.current = <<>> /\ Flush(r).words = r.words
        BY <1>1, <1>3, <4>2, FlushType
      <4>4. ~Open(cps, n + 1)
        BY <3>2, <4>1, OpenNext DEF c
      <4> QED
        BY <4>2, <4>3, <4>4 DEF W
    <3> QED
      BY <3>1, <3>2
  <2> QED
    BY <1>1, <1>3, <2>1, <2>2, <2>3 DEF Read, r, c
\* A character that is a word of its own.
<1>10. CASE n + 1 \in Visible(cps) /\ Alone(c)
  <2>1. Begun(cps, n + 1) = B + 1
    BY <1>10, BegunNext, OpenNext DEF c
  <2>2. r.words = Append(W, EncodeUtf8(Lower(c))) /\ r.current = <<>>
    BY <1>1, <1>2, <1>5, <1>10, ConsumeCases DEF r, W
  <2>3. Flush(r).words = Append(W, EncodeUtf8(Lower(c)))
    BY <1>3, <2>2, FlushType
  <2>4. ~Open(cps, n + 1)
    BY <1>10, OpenNext DEF c
  <2> DEFINE X == EncodeUtf8(Lower(c))
  <2>5. X \in Seq(Bytes)
    BY <1>8, EncodeType
  <2>6. /\ Len(Append(W, X)) = B + 1 /\ Append(W, X)[B + 1] = X
        /\ \A w \in 1..B : Append(W, X)[w] = W[w]
    BY <1>1, <1>4, <2>5
  <2>7. ASSUME NEW w \in 1..(B + 1) PROVE Writes(Append(W, X)[w], cps, Q(w))
    <3>1. CASE w \in 1..B
      <4>1. Q(w) = P(w)
        BY <1>4, <2>1, <3>1, PlacesNext
      <4> QED
        BY <1>1, <2>6, <3>1, <4>1
    <3>2. CASE w = B + 1
      <4>1. P(B + 1) = {}
        BY <1>2, <1>4, AheadOfBegun
      <4>2. Q(B + 1) = P(B + 1) \cup {n + 1}
        BY <1>10, <2>1, PlacesNext
      <4>3. Writes(<<>> \o X, cps, {} \cup {n + 1})
        BY <1>2, WritesNothing, WritesOneMore DEF c
      <4>4. <<>> \o X = X
        BY <2>5
      <4> QED
        BY <2>6, <3>2, <4>1, <4>2, <4>3, <4>4
    <3> QED
      BY <1>4, <3>1, <3>2, LastOrBefore, Zenon
  <2> HIDE DEF X
  <2> QED
    BY <1>3, <2>1, <2>2, <2>3, <2>4, <2>6, <2>7 DEF Read, r, c, X
\* A character that goes on with the open word, or opens one.
<1>11. CASE n + 1 \in Visible(cps) /\ ~Alone(c)
  <2> DEFINE X == EncodeUtf8(Lower(c))
             Y == s.current \o X
  <2>1. r = [words |-> s.words, current |-> Y]
    BY <1>1, <1>2, <1>5, <1>11, ConsumeCases DEF r
  <2>2. Y # <<>> /\ Y \in Seq(Bytes)
    BY <1>4, <1>8, EncodeNotEmpty
  <2>3. r.words = s.words /\ r.current = Y
    BY <2>1
  <2>4. Flush(r).words = Append(s.words, Y)
    BY <1>3, <2>2, <2>3, FlushType
  <2>5. r.current # <<>> /\ Open(cps, n + 1)
    BY <1>11, <2>2, <2>3, OpenNext DEF c
  <2>6. n + 1 \in Starts(cps) <=> ~Open(cps, n)
    BY <1>11, OpenNext DEF c
  <2>7. CASE Open(cps, n)
    <3>1. Begun(cps, n + 1) = B
      BY <2>6, <2>7, BegunNext
    <3>2. W = Append(s.words, s.current)
      BY <1>1, <2>7, FlushType DEF W
    <3>3. B = Len(s.words) + 1 /\ B \in 1..B
      BY <1>1, <1>4, <3>2
    <3>4. /\ Len(Append(s.words, Y)) = B /\ Append(s.words, Y)[B] = Y
          /\ \A w \in 1..(B - 1) : Append(s.words, Y)[w] = W[w]
          /\ W[B] = s.current
      <4> HIDE DEF Y
      <4> QED
        BY <1>4, <2>2, <3>2, <3>3
    <3>5. ASSUME NEW w \in 1..B PROVE Writes(Append(s.words, Y)[w], cps, Q(w))
      <4>1. CASE w \in 1..(B - 1)
        <5>1. Q(w) = P(w)
          BY <1>4, <3>1, <4>1, PlacesNext
        <5> QED
          BY <1>1, <3>4, <4>1, <5>1
      <4>2. CASE w = B
        <5>1. Q(B) = P(B) \cup {n + 1}
          BY <1>11, <3>1, PlacesNext
        <5>2. Writes(s.current, cps, P(B))
          BY <1>1, <3>3, <3>4
        <5>3. Writes(s.current \o X, cps, P(B) \cup {n + 1})
          BY <1>2, <1>7, <5>2, WritesOneMore DEF c
        <5> QED
          BY <3>4, <4>2, <5>1, <5>3
      <4> QED
        BY <1>4, <4>1, <4>2, LastOne, Zenon
    <3> HIDE DEF Y
    <3> QED
      BY <1>3, <2>4, <2>5, <3>1, <3>4, <3>5 DEF Read, r, c
  <2>8. CASE ~Open(cps, n)
    <3>1. Begun(cps, n + 1) = B + 1
      BY <2>6, <2>8, BegunNext
    <3>2. s.current = <<>> /\ W = s.words
      BY <1>1, <2>8, FlushType DEF W
    <3>3. Y = X
      BY <1>8, <3>2, EncodeType
    <3>4. /\ Len(Append(s.words, Y)) = B + 1 /\ Append(s.words, Y)[B + 1] = Y
          /\ \A w \in 1..B : Append(s.words, Y)[w] = W[w]
      <4> HIDE DEF Y, B
      <4> QED
        BY <1>1, <1>4, <2>2, <3>2, AppendProperties
    <3>5. ASSUME NEW w \in 1..(B + 1) PROVE Writes(Append(s.words, Y)[w], cps, Q(w))
      <4>1. CASE w \in 1..B
        <5>1. Q(w) = P(w)
          BY <1>4, <3>1, <4>1, PlacesNext
        <5> QED
          BY <1>1, <3>4, <4>1, <5>1
      <4>2. CASE w = B + 1
        <5>1. P(B + 1) = {}
          BY <1>2, <1>4, AheadOfBegun
        <5>2. Q(B + 1) = P(B + 1) \cup {n + 1}
          BY <1>11, <3>1, PlacesNext
        <5>3. Writes(<<>> \o X, cps, {} \cup {n + 1})
          BY <1>2, WritesNothing, WritesOneMore DEF c
        <5> QED
          BY <3>2, <3>4, <4>2, <5>1, <5>2, <5>3
      <4> QED
        BY <1>4, <4>1, <4>2, LastOrBefore, Zenon
    <3> HIDE DEF Y
    <3> QED
      BY <1>3, <2>4, <2>5, <3>1, <3>4, <3>5 DEF Read, r, c
  <2> QED
    BY <2>7, <2>8
<1> QED
  BY <1>9, <1>10, <1>11

\* Before the first character there is no word.
LEMMA ReadNothing ==
  ASSUME NEW cps \in Seq(CodePoints)
  PROVE  Read(cps, 0, Empty)
<1>1. Begun(cps, 0) = 0
  BY BegunNothing
<1>2. Empty \in States /\ Empty.current = <<>> /\ Flush(Empty).words = <<>>
  BY DEF Empty, States, Flush
<1>3. ~Open(cps, 0)
  BY DEF Open, Visible
<1>4. Len(<<>>) = 0 /\ 1..0 = {}
  OBVIOUS
<1> QED
  BY <1>1, <1>2, <1>3, <1>4, Zenon DEF Read

\* All the places are read at the end.
LEMMA AllBegun ==
  ASSUME NEW cps \in Seq(CodePoints)
  PROVE  /\ Begun(cps, Len(cps)) = Cardinality(Starts(cps))
         /\ \A w : {i \in Places(cps, w) : i <= Len(cps)} = Places(cps, w)
<1>1. \A i \in Visible(cps) : i <= Len(cps)
  BY DEF Visible
<1>2. {j \in Starts(cps) : j <= Len(cps)} = Starts(cps)
  BY <1>1 DEF Starts
<1>3. \A w : Places(cps, w) \subseteq Visible(cps)
  BY DEF Places
<1> QED
  BY <1>1, <1>2, <1>3, Zenon DEF Begun

\* What the bytes that write some characters are decoded to.
LEMMA WritesDecode ==
  ASSUME NEW cps, NEW P, NEW b, Writes(b, cps, P)
  PROVE  DecodeUtf8(b) = [k \in 1..Cardinality(P) |-> Lower(cps[Nth(P, k)])]
<1>1. PICK e : /\ Enumerates(e, P)
               /\ Spells(b, [k \in 1..Len(e) |-> Lower(cps[e[k]])])
  BY DEF Writes
<1>2. DecodeUtf8(b) = [k \in 1..Len(e) |-> Lower(cps[e[k]])]
  BY <1>1, SpellsDecode
<1>3. Cardinality(P) = Len(e) /\ \A k \in 1..Len(e) : Nth(P, k) = e[k]
  BY <1>1, EnumeratesCount
<1> QED
  BY <1>2, <1>3

\* BasicTokenize, of any bytes, makes the words that the characters form.
LEMMA WordsRight ==
  ASSUME NEW t \in Seq(Bytes), NEW words, words = BasicTokenize(t)
  PROVE  /\ words \in Seq(Seq(Bytes))
         /\ [n \in DOMAIN words |-> DecodeUtf8(words[n])] = WordsOf(DecodeUtf8(t))
<1> DEFINE cps == DecodeUtf8(t)
           N == Len(cps)
<1>1. cps \in Seq(CodePoints) /\ N \in Nat
  BY DecodeType
<1> HIDE DEF cps
<1>2. PICK f \in [0..N -> States] :
        /\ f[0] = Empty
        /\ \A n \in 1..N : f[n] = Consume(f[n - 1], cps[n])
        /\ words = Flush(f[N]).words
  BY ConsumeLoop DEF cps
<1>3. 0..N \subseteq {n \in 0..N : Read(cps, n, f[n])}
  <2> DEFINE S == {n \in 0..N : Read(cps, n, f[n])}
  <2>1. ASSUME NEW n \in 0..N, \A m \in 0..(n - 1) : m \in S PROVE n \in S
    <3>1. CASE n = 0
      BY <1>1, <1>2, <3>1, ReadNothing
    <3>2. CASE n \in 1..N
      <4>1. n - 1 \in 0..(n - 1) /\ n - 1 \in 0..(N - 1) /\ (n - 1) + 1 = n
        BY <1>1, <3>2
      <4>2. Read(cps, n - 1, f[n - 1])
        BY <2>1, <4>1
      <4>3. Read(cps, (n - 1) + 1, Consume(f[n - 1], cps[(n - 1) + 1]))
        BY <1>1, <4>1, <4>2, ReadNext, Zenon
      <4> QED
        BY <1>2, <3>2, <4>1, <4>3
    <3> QED
      BY <1>1, <3>1, <3>2
  <2> HIDE DEF S
  <2>2. 0..N \subseteq S
    BY <1>1, <2>1, StrongInduction
  <2> QED
    BY <2>2 DEF S
<1>4. Read(cps, N, f[N])
  <2>1. N \in 0..N
    BY <1>1
  <2> QED
    BY <1>3, <2>1
<1>5. f[N] \in States
  BY <1>4 DEF Read
<1>6. words \in Seq(Seq(Bytes))
  <2>1. Flush(f[N]) \in States
    BY <1>5, FlushType
  <2> QED
    BY <1>2, <2>1 DEF States
<1> DEFINE W == Cardinality(Starts(cps))
<1>7. Len(words) = W /\ \A w \in 1..W : Writes(words[w], cps, Places(cps, w))
  BY <1>1, <1>2, <1>4, AllBegun, Zenon DEF Read
<1>8. DOMAIN words = 1..W
  BY <1>6, <1>7
<1>9. ASSUME NEW w \in 1..W
      PROVE  DecodeUtf8(words[w]) = [k \in 1..Cardinality(Places(cps, w)) |->
                                       Lower(cps[Nth(Places(cps, w), k)])]
  <2>1. Writes(words[w], cps, Places(cps, w))
    BY <1>7
  <2> DEFINE P == Places(cps, w)
             b == words[w]
  <2>2. Writes(b, cps, P)
    BY <2>1
  <2> HIDE DEF P, b
  <2>3. DecodeUtf8(b) = [k \in 1..Cardinality(P) |-> Lower(cps[Nth(P, k)])]
    BY <2>2, WritesDecode
  <2> QED
    BY <2>3 DEF P, b
<1>10. [n \in DOMAIN words |-> DecodeUtf8(words[n])] = WordsOf(cps)
  BY <1>8, <1>9 DEF WordsOf
<1> QED
  BY <1>6, <1>10 DEF cps

\* An answer tells the text that was asked, and a success the input made of it
\* with the vocabulary that the runtime still holds.
AnswerKnown ==
  answer # <<>> =>
    /\ answer.text \in Seq(Bytes)
    /\ answer.success \in BOOLEAN
    /\ answer.success =>
         /\ answer.encoded = Encode(impl.vocabulary, answer.text, MaxLength)
         /\ {Pad, Unk, Cls, Sep} \subseteq DOMAIN impl.vocabulary

\* Each step keeps what the answer tells.
LEMMA AnswerStep ==
  TypeOK /\ AnswerKnown /\ [RuntimeNext]_runtimeVars => AnswerKnown'
<1> SUFFICES ASSUME TypeOK, AnswerKnown, [RuntimeNext]_runtimeVars
             PROVE  AnswerKnown'
  OBVIOUS
<1>1. CASE UNCHANGED runtimeVars
  BY <1>1 DEF runtimeVars, AnswerKnown
<1>2. CASE answer' = <<>>
  BY <1>2 DEF AnswerKnown
<1>3. ASSUME NEW call \in Calls, answer' = Failed(call.text)
      PROVE  AnswerKnown'
  <2>1. call.text \in Seq(Bytes)
    BY InputAssumption
  <2>2. answer'.text = call.text /\ answer'.success = FALSE
    BY <1>3 DEF Failed
  <2> QED
    BY <2>1, <2>2 DEF AnswerKnown
<1>4. ASSUME NEW call \in Calls, Classify(call)
      PROVE  AnswerKnown'
  <2>1. call.text \in Seq(Bytes)
    BY InputAssumption
  <2>2. /\ answer'.text = call.text /\ answer'.success = TRUE
        /\ answer'.encoded = Encode(impl.vocabulary, call.text, MaxLength)
        /\ impl' = impl
    BY <1>4 DEF Classify
  <2>3. {Pad, Unk, Cls, Sep} \subseteq DOMAIN impl.vocabulary
    BY <1>4 DEF Classify, IsReady, TypeOK, Released
  <2> QED
    BY <2>1, <2>2, <2>3 DEF AnswerKnown
<1> QED
  BY <1>1, <1>2, <1>3, <1>4
     DEF RuntimeNext, Forget, InitializeFails, Release, Initialize,
         ClassifyUnready, ClassifyFails

LEMMA AnswerHolds == RuntimeSpec => []AnswerKnown
<1>1. RuntimeInit => AnswerKnown
  BY DEF RuntimeInit, AnswerKnown
<1> QED
  BY <1>1, AnswerStep, TypeCorrect, PTL DEF RuntimeSpec

(***************************************************************************)
(* The words that BasicTokenize makes of the bytes of any text are the     *)
(* ones its visible characters form, in lower case: no character is lost   *)
(* and none joins a neighbour that it is separated from.                   *)
(***************************************************************************)
THEOREM WordsFollowText == RuntimeSpec => []WordsAreRight
<1>1. AnswerKnown => WordsAreRight
  <2> SUFFICES ASSUME AnswerKnown, answer # <<>>
               PROVE  LET words == BasicTokenize(answer.text)
                      IN  [n \in DOMAIN words |-> DecodeUtf8(words[n])]
                            = WordsOf(DecodeUtf8(answer.text))
    BY DEF WordsAreRight
  <2>1. answer.text \in Seq(Bytes)
    BY DEF AnswerKnown
  <2> QED
    BY <2>1, WordsRight
<1> QED
  BY <1>1, AnswerHolds, PTL

-----------------------------------------------------------------------------
(* WordPieceTokenize: the pieces of a word *)

\* What EndOfPiece finds among the ends up to one: the longest piece that the
\* vocabulary has, or none.
LongestUpTo(v, chars, start, last, e) ==
  /\ e \in (start - 1)..last
  /\ e >= start => Candidate(chars, start, e) \in DOMAIN v
  /\ \A l \in start..last : l > e => Candidate(chars, start, l) \notin DOMAIN v

\* One end more: it is the longest when the piece is known.
LEMMA LongestNext ==
  ASSUME NEW v, NEW chars, NEW start \in Nat \ {0}, NEW last \in Nat, last >= start,
         NEW e, LongestUpTo(v, chars, start, last - 1, e)
  PROVE  LongestUpTo(v, chars, start, last,
                     IF Candidate(chars, start, last) \in DOMAIN v THEN last ELSE e)
<1>1. e \in (start - 1)..(last - 1)
  BY DEF LongestUpTo
<1>2. CASE Candidate(chars, start, last) \in DOMAIN v
  <2>1. last \in (start - 1)..last /\ \A l \in start..last : ~(l > last)
    OBVIOUS
  <2> QED
    BY <1>2, <2>1, Zenon DEF LongestUpTo
<1>3. CASE Candidate(chars, start, last) \notin DOMAIN v
  <2>1. e \in (start - 1)..last
    BY <1>1
  <2>2. \A l \in start..last : l \in start..(last - 1) \/ l = last
    OBVIOUS
  <2>3. \A l \in start..last : l > e => Candidate(chars, start, l) \notin DOMAIN v
    BY <1>3, <2>2, Zenon DEF LongestUpTo
  <2> QED
    BY <1>3, <2>1, <2>3, Zenon DEF LongestUpTo
<1> QED
  BY <1>2, <1>3

\* The loop of EndOfPiece takes the longest piece that begins at a character.
LEMMA EndOfPieceLongest ==
  ASSUME NEW v, NEW chars \in Seq(CodePoints), NEW start \in 1..Len(chars)
  PROVE  LongestUpTo(v, chars, start, Len(chars), EndOfPiece(v, chars, start))
<1> DEFINE n == Len(chars)
           o == start - 1
           N == n - o
           Known(e) == Candidate(chars, start, e) \in DOMAIN v
           prev == [i \in 1..N |-> i - 1]
           step == [x \in Nat \X (1..N) |-> IF Known(o + x[2]) THEN o + x[2] ELSE x[1]]
<1>1. n \in Nat /\ o \in Nat /\ N \in Nat /\ start = o + 1 /\ n = o + N /\ start \in Nat \ {0}
  OBVIOUS
<1> HIDE DEF n, o, N, Known
<1>2. prev \in [1..N -> Nat] /\ \A i \in 1..N : prev[i] < i
  BY <1>1
<1>3. step \in [Nat \X (1..N) -> Nat]
  BY <1>1
<1>4. PICK g : Steps(g, Nat, o, N, prev, step)
  <2> HIDE DEF step, prev
  <2> QED
    BY <1>1, <1>2, <1>3, StepsExist, Zenon
<1>5. g \in [0..N -> Nat] /\ g[0] = o /\ \A i \in 1..N : g[i] = step[<<g[prev[i]], i>>]
  <2> HIDE DEF step, prev
  <2> QED
    BY <1>4, Zenon DEF Steps
<1>6. ASSUME NEW i \in 1..N
      PROVE  g[i] = IF Known(o + i) THEN o + i ELSE g[i - 1]
  <2>1. prev[i] = i - 1 /\ g[i - 1] \in Nat
    BY <1>1, <1>5
  <2>2. step[<<g[i - 1], i>>] = IF Known(o + i) THEN o + i ELSE g[i - 1]
    BY <2>1
  <2> HIDE DEF step, prev
  <2> QED
    BY <1>5, <2>1, <2>2
<1> DEFINE down[e \in (start - 1)..Len(chars)] ==
             IF e < start \/ Candidate(chars, start, e) \in DOMAIN v
             THEN e ELSE down[e - 1]
           h == [e \in o..n |-> g[e - o]]
<1>7. h = [e \in o..n |-> IF e < start \/ Known(e) THEN e ELSE h[e - 1]]
  <2>1. ASSUME NEW e \in o..n
        PROVE  h[e] = IF e < start \/ Known(e) THEN e ELSE h[e - 1]
    <3>1. e - o \in 0..N /\ o + (e - o) = e /\ h[e] = g[e - o]
      BY <1>1
    <3>2. CASE e < start
      <4>1. e = o /\ e - o = 0
        BY <1>1, <3>2
      <4> QED
        BY <1>5, <3>1, <3>2, <4>1
    <3>3. CASE ~(e < start)
      <4>1. e - o \in 1..N /\ e - 1 \in o..n /\ (e - 1) - o = (e - o) - 1
        BY <1>1, <3>3
      <4>2. h[e - 1] = g[(e - o) - 1]
        BY <4>1
      <4> HIDE DEF h
      <4> QED
        BY <1>6, <3>1, <3>3, <4>1, <4>2
    <3> QED
      BY <3>2, <3>3
  <2>2. h = [e \in o..n |-> h[e]]
    OBVIOUS
  <2> HIDE DEF h
  <2> QED
    BY <2>1, <2>2
<1> HIDE DEF h
<1>8. down = [e \in (start - 1)..Len(chars) |->
                IF e < start \/ Candidate(chars, start, e) \in DOMAIN v
                THEN e ELSE down[e - 1]]
  <2>1. \E f : f = [e \in (start - 1)..Len(chars) |->
                IF e < start \/ Candidate(chars, start, e) \in DOMAIN v
                THEN e ELSE f[e - 1]]
    BY <1>7, Zenon DEF o, n, Known
  <2> QED
    BY <2>1
<1>9. EndOfPiece(v, chars, start) = down[Len(chars)]
  BY DEF EndOfPiece
<1> HIDE DEF down
<1>10. 0..N \subseteq {i \in 0..N : LongestUpTo(v, chars, start, o + i, down[o + i])}
  <2> DEFINE S == {i \in 0..N : LongestUpTo(v, chars, start, o + i, down[o + i])}
  <2>1. ASSUME NEW i \in 0..N, \A m \in 0..(i - 1) : m \in S PROVE i \in S
    <3>1. o + i \in (start - 1)..Len(chars)
      BY <1>1 DEF n, o
    <3>2. CASE i = 0
      <4>1. o + i = o /\ o < start
        BY <1>1, <3>2
      <4>2. down[o] = o
        BY <1>8, <3>1, <4>1, Zenon
      <4>3. LongestUpTo(v, chars, start, o, o)
        BY <1>1 DEF LongestUpTo
      <4> QED
        BY <3>2, <4>1, <4>2, <4>3
    <3>3. CASE i \in 1..N
      <4> DEFINE l == o + i
      <4>1. i - 1 \in 0..(i - 1) /\ o + (i - 1) = l - 1 /\ ~(l < start) /\ l >= start /\ l \in Nat
        BY <1>1, <3>3
      <4>2. LongestUpTo(v, chars, start, l - 1, down[l - 1])
        <5>1. i - 1 \in S
          BY <2>1, <4>1
        <5>2. LongestUpTo(v, chars, start, o + (i - 1), down[o + (i - 1)])
          BY <5>1
        <5> QED
          BY <4>1, <5>2, Zenon
      <4>3. down[l] = IF Candidate(chars, start, l) \in DOMAIN v THEN l ELSE down[l - 1]
        BY <1>8, <3>1, <4>1, Zenon
      <4> HIDE DEF l
      <4>4. LongestUpTo(v, chars, start, l, down[l])
        BY <1>1, <4>1, <4>2, <4>3, LongestNext, Zenon
      <4> QED
        BY <4>4 DEF l
    <3> QED
      BY <1>1, <3>2, <3>3
  <2> HIDE DEF S
  <2>2. 0..N \subseteq S
    BY <1>1, <2>1, StrongInduction
  <2> QED
    BY <2>2 DEF S
<1> QED
  BY <1>1, <1>9, <1>10, N \in 0..N DEF n

\* A piece is a sequence of characters, and one that does not begin the word
\* starts with "##": it is never taken for [UNK].
LEMMA CandidateType ==
  ASSUME NEW chars \in Seq(CodePoints), NEW start \in 1..Len(chars), NEW end \in 1..Len(chars)
  PROVE  /\ Candidate(chars, start, end) \in Seq(CodePoints)
         /\ start > 1 => Candidate(chars, start, end) # Unk
<1> DEFINE s == SubSeq(chars, start, end)
<1>1. s \in Seq(CodePoints)
  BY SubSeqProperties
<1>2. 35 \in CodePoints
  BY SMT DEF CodePoints
<1> HIDE DEF s
<1>3. Candidate(chars, start, end) = IF start = 1 THEN <<>> \o s ELSE <<35, 35>> \o s
  BY DEF Candidate, s
<1>4. <<>> \o s = s
  BY <1>1
<1>5. <<35, 35>> \in Seq(CodePoints)
  BY <1>2
<1>6. <<35, 35>> \o s \in Seq(CodePoints)
  <2> DEFINE p == <<35, 35>>
  <2>1. p \in Seq(CodePoints)
    BY <1>5
  <2> HIDE DEF p
  <2>2. p \o s \in Seq(CodePoints)
    BY <1>1, <2>1
  <2> QED
    BY <2>2 DEF p
<1>7. (<<35, 35>> \o s)[1] = 35
  BY <1>1
<1>8. Unk[1] = 91
  BY DEF Unk
<1> QED
  BY <1>1, <1>3, <1>4, <1>6, <1>7, <1>8

LEMMA UnkType == <<Unk>> \in Seq(Seq(CodePoints))
<1>1. 91 \in CodePoints /\ 85 \in CodePoints /\ 78 \in CodePoints /\ 75 \in CodePoints /\ 93 \in CodePoints
  BY SMT DEF CodePoints
<1>2. Unk \in Seq(CodePoints)
  BY <1>1 DEF Unk
<1> QED
  BY <1>2

\* The pieces of a word from some character on, given the ones behind a piece.
WithPiece(v, chars, start, rest) ==
  IF EndOfPiece(v, chars, start) < start THEN <<Unk>>
  ELSE IF rest = <<Unk>> THEN rest
  ELSE <<Candidate(chars, start, EndOfPiece(v, chars, start))>> \o rest

LEMMA WithPieceType ==
  ASSUME NEW v, NEW chars \in Seq(CodePoints), NEW start \in 1..Len(chars),
         NEW rest \in Seq(Seq(CodePoints))
  PROVE  WithPiece(v, chars, start, rest) \in Seq(Seq(CodePoints))
<1> DEFINE E == EndOfPiece(v, chars, start)
           p == Candidate(chars, start, E)
<1>1. LongestUpTo(v, chars, start, Len(chars), E)
  BY EndOfPieceLongest
<1>2. CASE E < start
  BY <1>2, UnkType DEF WithPiece
<1>3. CASE ~(E < start)
  <2>1. E \in 1..Len(chars)
    <3> HIDE DEF E
    <3> QED
      BY <1>1, <1>3 DEF LongestUpTo
  <2>2. p \in Seq(CodePoints)
    BY <2>1, CandidateType
  <2> HIDE DEF p
  <2>3. <<p>> \o rest \in Seq(Seq(CodePoints))
    BY <2>2
  <2> QED
    BY <1>3, <2>3, Zenon DEF WithPiece, p
<1> QED
  BY <1>2, <1>3

\* f holds the pieces from every character on.
PiecesFrom(v, chars, f) ==
  /\ f \in [1..(Len(chars) + 1) -> Seq(Seq(CodePoints))]
  /\ f[Len(chars) + 1] = <<>>
  /\ \A i \in 1..Len(chars) :
       f[i] = WithPiece(v, chars, i, f[EndOfPiece(v, chars, i) + 1])

\* The loop of WordPieceTokenize.
LEMMA WordPieceLoop ==
  ASSUME NEW v, NEW word \in Seq(Bytes), NEW chars, chars = DecodeUtf8(word),
         ~(Len(chars) > MaxWord)
  PROVE  \E f : PiecesFrom(v, chars, f) /\ WordPieceTokenize(v, word) = f[1]
<1> DEFINE N == Len(chars)
           V == Seq(Seq(CodePoints))
           End(i) == EndOfPiece(v, chars, i)
           prev == [j \in 1..N |-> IF End((N + 1) - j) < (N + 1) - j THEN 0
                                   ELSE N - End((N + 1) - j)]
           step == [x \in V \X (1..N) |-> WithPiece(v, chars, (N + 1) - x[2], x[1])]
<1>1. chars \in Seq(CodePoints) /\ N \in Nat
  BY DecodeType
<1>2. ASSUME NEW i \in 1..N
      PROVE  End(i) \in (i - 1)..N
  BY <1>1, EndOfPieceLongest DEF LongestUpTo
<1>3. <<>> \in V
  OBVIOUS
<1> HIDE DEF End, V
<1>4. prev \in [1..N -> Nat] /\ \A j \in 1..N : prev[j] < j
  <2>1. ASSUME NEW j \in 1..N PROVE prev[j] \in 0..(j - 1)
    <3> DEFINE i == (N + 1) - j
               m == N - End(i)
    <3>1. i \in 1..N
      BY <1>1
    <3>2. End(i) \in (i - 1)..N
      BY <1>2, <3>1
    <3>3. i \in Int /\ End(i) \in Int
      BY <3>1, <3>2
    <3>4. ~(End(i) < i) => m \in 0..(j - 1)
      BY <1>1, <3>1, <3>2, <3>3
    <3>5. 0 \in 0..(j - 1)
      OBVIOUS
    <3>6. prev[j] = IF End(i) < i THEN 0 ELSE m
      OBVIOUS
    <3> HIDE DEF m, i
    <3> QED
      BY <3>4, <3>5, <3>6, Zenon
  <2>2. \A j \in 1..N : prev[j] \in Nat /\ prev[j] < j
    <3> HIDE DEF prev
    <3> QED
      BY <2>1
  <2> QED
    BY <2>2
<1>5. step \in [V \X (1..N) -> V]
  <2>1. ASSUME NEW s \in V, NEW j \in 1..N
        PROVE  WithPiece(v, chars, (N + 1) - j, s) \in V
    <3>1. (N + 1) - j \in 1..N
      BY <1>1
    <3> QED
      BY <1>1, <3>1, WithPieceType DEF V
  <2> QED
    BY <2>1
<1>6. PICK g : Steps(g, V, <<>>, N, prev, step)
  <2> HIDE DEF step, prev, N
  <2>1. \A j \in 1..N : prev[j] < j
    BY <1>4
  <2>2. prev \in [1..N -> Nat]
    BY <1>4
  <2> QED
    BY <1>1, <1>3, <1>5, <2>1, <2>2, StepsExist, Zenon
<1>7. /\ g \in [0..N -> V] /\ g[0] = <<>>
      /\ \A j \in 1..N : g[j] = step[<<g[prev[j]], j>>]
  <2> HIDE DEF step, prev, N
  <2> QED
    BY <1>6, Zenon DEF Steps
<1> DEFINE f == [i \in 1..(N + 1) |-> g[(N + 1) - i]]
<1> HIDE DEF N
<1>8. f[N + 1] = <<>>
  <2>1. N + 1 \in 1..(N + 1) /\ (N + 1) - (N + 1) = 0
    BY <1>1
  <2> QED
    BY <1>7, <2>1
<1>9. ASSUME NEW i \in 1..N
      PROVE  f[i] = WithPiece(v, chars, i, f[End(i) + 1])
  <2> DEFINE j == (N + 1) - i
  <2>1. j \in 1..N /\ (N + 1) - j = i /\ i \in 1..(N + 1) /\ i \in Nat
    BY <1>1
  <2>2. f[i] = g[j]
    BY <2>1
  <2>3. prev[j] \in 0..N /\ g[prev[j]] \in V
    <3>1. prev[j] \in Nat /\ prev[j] < j
      BY <1>4, <2>1
    <3>2. prev[j] \in 0..N
      <4> HIDE DEF prev
      <4> QED
        BY <1>1, <2>1, <3>1
    <3> QED
      BY <1>7, <3>2
  <2>4. g[j] = WithPiece(v, chars, i, g[prev[j]])
    <3>1. step[<<g[prev[j]], j>>] = WithPiece(v, chars, (N + 1) - j, g[prev[j]])
      BY <2>1, <2>3
    <3> HIDE DEF step, prev
    <3> QED
      BY <1>7, <2>1, <3>1
  <2>5. CASE End(i) < i
    BY <2>2, <2>4, <2>5, Zenon DEF WithPiece, End
  <2>6. CASE ~(End(i) < i)
    <3>1. prev[j] = N - End(i)
      BY <2>1, <2>6
    <3>2. End(i) + 1 \in 1..(N + 1) /\ (N + 1) - (End(i) + 1) = N - End(i)
      BY <1>1, <1>2
    <3>3. f[End(i) + 1] = g[N - End(i)]
      BY <3>2
    <3> HIDE DEF f, prev, j
    <3> QED
      BY <2>2, <2>4, <3>1, <3>3
  <2> QED
    BY <2>5, <2>6
<1> DEFINE from[start \in 1..(Len(chars) + 1)] ==
        IF start > Len(chars) THEN <<>>
        ELSE IF EndOfPiece(v, chars, start) < start THEN <<Unk>>
        ELSE LET rest == from[EndOfPiece(v, chars, start) + 1] IN
               IF rest = <<Unk>> THEN rest
               ELSE <<Candidate(chars, start, EndOfPiece(v, chars, start))>> \o rest
<1>10. f = [start \in 1..(Len(chars) + 1) |->
        IF start > Len(chars) THEN <<>>
        ELSE IF EndOfPiece(v, chars, start) < start THEN <<Unk>>
        ELSE LET rest == f[EndOfPiece(v, chars, start) + 1] IN
               IF rest = <<Unk>> THEN rest
               ELSE <<Candidate(chars, start, EndOfPiece(v, chars, start))>> \o rest]
  <2>1. f = [i \in 1..(N + 1) |-> f[i]]
    OBVIOUS
  <2> HIDE DEF f
  <2>2. ASSUME NEW i \in 1..(N + 1)
        PROVE  f[i] = IF i > N THEN <<>> ELSE WithPiece(v, chars, i, f[End(i) + 1])
    <3>1. (i \in 1..N /\ ~(i > N)) \/ (i = N + 1 /\ i > N)
      BY <1>1
    <3> QED
      BY <1>8, <1>9, <3>1, Zenon
  <2>3. f = [i \in 1..(N + 1) |->
               IF i > N THEN <<>> ELSE WithPiece(v, chars, i, f[End(i) + 1])]
    BY <2>1, <2>2, Zenon
  <2> QED
    BY <2>3, Zenon DEF N, End, WithPiece
<1> HIDE DEF f
<1>11. from = [start \in 1..(Len(chars) + 1) |->
        IF start > Len(chars) THEN <<>>
        ELSE IF EndOfPiece(v, chars, start) < start THEN <<Unk>>
        ELSE LET rest == from[EndOfPiece(v, chars, start) + 1] IN
               IF rest = <<Unk>> THEN rest
               ELSE <<Candidate(chars, start, EndOfPiece(v, chars, start))>> \o rest]
  BY <1>10
<1>12. WordPieceTokenize(v, word) = from[1]
  BY DEF WordPieceTokenize
<1> HIDE DEF from
<1>13. from = [i \in 1..(N + 1) |->
               IF i > N THEN <<>> ELSE WithPiece(v, chars, i, from[End(i) + 1])]
  BY <1>11, Zenon DEF N, End, WithPiece
<1>14. from[N + 1] = <<>>
  <2>1. N + 1 \in 1..(N + 1) /\ N + 1 > N
    BY <1>1
  <2> QED
    BY <1>13, <2>1, Zenon
<1>15. ASSUME NEW i \in 1..N
       PROVE  from[i] = WithPiece(v, chars, i, from[End(i) + 1])
  <2>1. i \in 1..(N + 1) /\ ~(i > N)
    BY <1>1
  <2> QED
    BY <1>13, <2>1, Zenon
<1>16. 0..N \subseteq {j \in 0..N : from[(N + 1) - j] \in V}
  <2> DEFINE S == {j \in 0..N : from[(N + 1) - j] \in V}
  <2>1. ASSUME NEW j \in 0..N, \A m \in 0..(j - 1) : m \in S PROVE j \in S
    <3>1. CASE j = 0
      BY <1>1, <1>3, <1>14, <3>1
    <3>2. CASE j \in 1..N
      <4> DEFINE i == (N + 1) - j
                 m == N - End(i)
      <4>1. i \in 1..N /\ i \in Nat
        BY <1>1, <3>2
      <4>2. from[i] = WithPiece(v, chars, i, from[End(i) + 1])
        BY <1>15, <4>1
      <4>3. CASE End(i) < i
        <5>1. from[i] = <<Unk>>
          BY <4>2, <4>3, Zenon DEF WithPiece, End
        <5> QED
          BY <5>1, UnkType DEF V
      <4>4. CASE ~(End(i) < i)
        <5>1. End(i) \in (i - 1)..N
          BY <1>2, <4>1
        <5>2. m \in 0..(j - 1) /\ (N + 1) - m = End(i) + 1
          <6> DEFINE x == End(i)
          <6>1. x \in (i - 1)..N /\ ~(x < i)
            BY <4>4, <5>1
          <6> HIDE DEF x
          <6>2. N - x \in 0..(j - 1) /\ (N + 1) - (N - x) = x + 1
            BY <1>1, <3>2, <6>1
          <6> QED
            BY <6>2 DEF x
        <5>3. from[End(i) + 1] \in V
          BY <2>1, <5>2
        <5> HIDE DEF i
        <5>4. from[i] \in V
          <6>1. i \in 1..Len(chars)
            BY <4>1 DEF N
          <6> QED
            BY <1>1, <4>2, <5>3, <6>1, WithPieceType, Zenon DEF V
        <5> QED
          BY <5>4 DEF i
      <4> QED
        BY <4>3, <4>4
    <3> QED
      BY <1>1, <3>1, <3>2
  <2> HIDE DEF S
  <2>2. 0..N \subseteq S
    BY <1>1, <2>1, StrongInduction
  <2> QED
    BY <2>2 DEF S
<1>17. from \in [1..(N + 1) -> V]
  <2>1. ASSUME NEW i \in 1..(N + 1) PROVE from[i] \in V
    <3>1. (N + 1) - i \in 0..N /\ (N + 1) - ((N + 1) - i) = i
      BY <1>1
    <3> QED
      BY <1>16, <3>1
  <2>2. from = [i \in 1..(N + 1) |-> from[i]]
    BY <1>13
  <2> QED
    BY <2>1, <2>2
<1>18. PiecesFrom(v, chars, from)
  BY <1>14, <1>15, <1>17, Zenon DEF PiecesFrom, V, N, End
<1> QED
  BY <1>12, <1>18

\* The next place where a word is cut.
CutAfter(cuts, c) == Min({d \in cuts : d > c})

\* No longer piece than the one between two cuts is known, and that one is.
GoodCut(v, chars, a, b) ==
  /\ Candidate(chars, a + 1, b) \in DOMAIN v
  /\ \A c \in (b + 1)..Len(chars) : Candidate(chars, a + 1, c) \notin DOMAIN v

\* LongestCuts, of the characters behind a place.
CutsFrom(v, chars, a) ==
  {cuts \in SUBSET (a..Len(chars)) :
     /\ {a, Len(chars)} \subseteq cuts
     /\ \A c \in cuts \ {Len(chars)} : GoodCut(v, chars, c, CutAfter(cuts, c))}

\* The cuts behind the place before the first character are all of them.
LEMMA CutsFromAll ==
  ASSUME NEW v, NEW chars
  PROVE  LongestCuts(v, chars) = CutsFrom(v, chars, 0)
BY Zenon DEF LongestCuts, CutsFrom, GoodCut, CutAfter

\* Min of a set of numbers that has a smallest.
LEMMA MinIs ==
  ASSUME NEW S, S \subseteq Nat, NEW m \in S, \A x \in S : m <= x
  PROVE  Min(S) = m
<1>1. \A x \in S : (\A y \in S : x <= y) => x = m
  OBVIOUS
<1>2. Min(S) \in S /\ \A y \in S : Min(S) <= y
  BY Zenon DEF Min
<1> QED
  BY <1>1, <1>2

\* The next cut is one, and no cut lies before it.
LEMMA CutAfterIn ==
  ASSUME NEW cuts, cuts \subseteq Nat, NEW c, NEW n \in cuts, n > c
  PROVE  /\ CutAfter(cuts, c) \in cuts /\ CutAfter(cuts, c) > c
         /\ \A d \in cuts : d > c => CutAfter(cuts, c) <= d
<1> DEFINE S == {d \in cuts : d > c}
<1>1. S \subseteq Nat /\ S # {}
  OBVIOUS
<1>2. Min(S) \in S
  BY <1>1, MinInSet
<1>3. \A y \in S : Min(S) <= y
  <2>1. \E x \in S : \A y \in S : x <= y
    <3>1. PICK x \in S : \A y \in S : ~(<<y, x>> \in OpToRel(<, Nat))
      BY <1>1, NatLessThanWellFounded, WFMin
    <3>2. \A y \in S : ~(y < x)
      BY <1>1, <3>1, Zenon DEF OpToRel
    <3> QED
      BY <1>1, <3>2
  <2> QED
    BY <2>1, Zenon DEF Min
<1> QED
  BY <1>2, <1>3, Zenon DEF CutAfter

\* Where the longest piece from a place ends, the first cut behind it is.
LEMMA FirstCut ==
  ASSUME NEW v, NEW chars \in Seq(CodePoints), NEW a \in 0..(Len(chars) - 1),
         NEW b, LongestUpTo(v, chars, a + 1, Len(chars), b),
         NEW cuts \in CutsFrom(v, chars, a)
  PROVE  b = CutAfter(cuts, a) /\ b \in cuts /\ b > a
<1> DEFINE n == Len(chars)
           m == CutAfter(cuts, a)
<1>1. n \in Nat /\ a \in Nat /\ n > a
  OBVIOUS
<1>2. cuts \subseteq a..n /\ a \in cuts /\ n \in cuts /\ cuts \subseteq Nat
  BY DEF CutsFrom
<1>3. GoodCut(v, chars, a, m)
  BY <1>1, <1>2 DEF CutsFrom
<1>4. b \in a..n
  BY <1>1 DEF LongestUpTo
<1> HIDE DEF n, m
<1>5. m \in cuts /\ m > a
  BY <1>1, <1>2, CutAfterIn DEF m
<1>6. m \in (a + 1)..n /\ m \in Nat
  BY <1>1, <1>2, <1>5
<1>7. ~(m > b)
  BY <1>3, <1>6 DEF LongestUpTo, GoodCut, n
<1>8. ~(b > m)
  <2> SUFFICES ASSUME b > m PROVE FALSE
    OBVIOUS
  <2>1. b \in (m + 1)..n
    BY <1>4, <1>6
  <2>2. b >= a + 1
    BY <1>1, <1>4, <1>6
  <2> QED
    BY <1>3, <2>1, <2>2 DEF LongestUpTo, GoodCut, n
<1>9. b = m
  BY <1>4, <1>6, <1>7, <1>8
<1> QED
  BY <1>5, <1>9 DEF m

\* Without a known piece from a place there are no cuts behind it.
LEMMA NoCuts ==
  ASSUME NEW v, NEW chars \in Seq(CodePoints), NEW a \in 0..(Len(chars) - 1),
         LongestUpTo(v, chars, a + 1, Len(chars), a)
  PROVE  CutsFrom(v, chars, a) = {}
<1> SUFFICES ASSUME NEW cuts \in CutsFrom(v, chars, a) PROVE FALSE
  OBVIOUS
<1>1. a > a
  BY FirstCut
<1> QED
  BY <1>1

WithCut(S, a) == {cuts \cup {a} : cuts \in S}

\* The cuts behind a place are this place and the cuts behind the first piece.
LEMMA CutsSplit ==
  ASSUME NEW v, NEW chars \in Seq(CodePoints), NEW a \in 0..(Len(chars) - 1),
         NEW b, LongestUpTo(v, chars, a + 1, Len(chars), b), b > a
  PROVE  CutsFrom(v, chars, a) = WithCut(CutsFrom(v, chars, b), a)
<1> DEFINE n == Len(chars)
<1>1. n \in Nat /\ a \in Nat /\ n > a /\ a \in 0..(n - 1)
  OBVIOUS
<1>2. b \in (a + 1)..n /\ b \in Nat
  BY <1>1 DEF LongestUpTo
<1>3. GoodCut(v, chars, a, b)
  <2>1. \A c \in (b + 1)..n : c \in (a + 1)..n /\ c > b
    BY <1>1, <1>2
  <2>2. b >= a + 1
    BY <1>1, <1>2
  <2> QED
    BY <2>1, <2>2 DEF LongestUpTo, GoodCut
\* Cuts without their first one.
<1>4. ASSUME NEW cuts \in CutsFrom(v, chars, a)
      PROVE  cuts \ {a} \in CutsFrom(v, chars, b) /\ cuts = (cuts \ {a}) \cup {a}
  <2> DEFINE D == cuts \ {a}
  <2>1. cuts \subseteq a..n /\ a \in cuts /\ n \in cuts /\ cuts \subseteq Nat
    BY DEF CutsFrom
  <2>2. b = CutAfter(cuts, a) /\ b \in cuts
    BY FirstCut
  <2>3. ASSUME NEW d \in D PROVE d \in b..n
    <3>1. d \in a..n /\ d > a
      BY <1>1, <2>1
    <3>2. b <= d
      BY <1>1, <2>1, <2>2, <3>1, CutAfterIn
    <3> QED
      BY <1>1, <1>2, <3>1, <3>2
  <2>4. b \in D /\ n \in D
    BY <1>1, <1>2, <2>1, <2>2
  <2>5. ASSUME NEW c \in D \ {n} PROVE GoodCut(v, chars, c, CutAfter(D, c))
    <3>1. c > a
      BY <1>1, <1>2, <2>3
    <3>2. \A d \in cuts : d > c <=> (d > c /\ d \in D)
      <4>1. c \in Nat
        BY <2>1
      <4> QED
        BY <1>1, <2>1, <3>1, <4>1
    <3>3. {d \in cuts : d > c} = {d \in D : d > c}
      BY <3>2
    <3>4. CutAfter(cuts, c) = CutAfter(D, c)
      BY <3>3, Zenon DEF CutAfter
    <3>5. GoodCut(v, chars, c, CutAfter(cuts, c))
      BY DEF CutsFrom
    <3> QED
      BY <3>4, <3>5
  <2>6. D \in SUBSET (b..n)
    BY <2>3
  <2> HIDE DEF D
  <2>7. D \in CutsFrom(v, chars, b)
    BY <2>4, <2>5, <2>6 DEF CutsFrom
  <2> QED
    BY <2>1, <2>7 DEF D
\* Cuts behind a piece, with the place before it.
<1>5. ASSUME NEW D \in CutsFrom(v, chars, b)
      PROVE  D \cup {a} \in CutsFrom(v, chars, a)
  <2> DEFINE cuts == D \cup {a}
  <2>1. D \subseteq b..n /\ b \in D /\ n \in D /\ D \subseteq Nat
    BY <1>2 DEF CutsFrom
  <2>2. CutAfter(cuts, a) = b
    <3> DEFINE S == {d \in cuts : d > a}
    <3>1. S = D
      <4>1. ASSUME NEW d \in D PROVE d > a
        <5>1. d \in b..n
          BY <2>1
        <5> QED
          BY <1>1, <1>2, <5>1
      <4>2. ~(a > a)
        BY <1>1
      <4> QED
        BY <4>1, <4>2
    <3>2. \A d \in D : b <= d
      BY <1>2, <2>1
    <3> HIDE DEF S
    <3>3. Min(S) = b
      BY <2>1, <3>1, <3>2, MinIs
    <3> QED
      BY <3>3, Zenon DEF S, CutAfter
  <2>3. ASSUME NEW c \in D \ {n} PROVE GoodCut(v, chars, c, CutAfter(cuts, c))
    <3>1. c > a /\ c \in Nat
      BY <1>1, <1>2, <2>1
    <3>2. {d \in cuts : d > c} = {d \in D : d > c}
      BY <1>1, <2>1, <3>1
    <3>3. CutAfter(cuts, c) = CutAfter(D, c)
      BY <3>2, Zenon DEF CutAfter
    <3>4. GoodCut(v, chars, c, CutAfter(D, c))
      BY DEF CutsFrom
    <3> QED
      BY <3>3, <3>4
  <2>4. ASSUME NEW c \in cuts \ {n} PROVE GoodCut(v, chars, c, CutAfter(cuts, c))
    BY <1>3, <2>2, <2>3
  <2>5. cuts \in SUBSET (a..n) /\ {a, n} \subseteq cuts
    BY <1>1, <1>2, <2>1
  <2> HIDE DEF cuts
  <2>6. cuts \in CutsFrom(v, chars, a)
    BY <2>4, <2>5 DEF CutsFrom
  <2> QED
    BY <2>6 DEF cuts
<1>6. ASSUME NEW cuts \in CutsFrom(v, chars, a)
      PROVE  cuts \in {c \cup {a} : c \in CutsFrom(v, chars, b)}
  BY <1>4
<1> QED
  BY <1>5, <1>6 DEF WithCut

\* Behind the last character there is only this cut.
LEMMA LastCuts ==
  ASSUME NEW v, NEW chars \in Seq(CodePoints)
  PROVE  CutsFrom(v, chars, Len(chars)) = {{Len(chars)}}
<1> DEFINE n == Len(chars)
<1>1. n \in Nat /\ n..n = {n}
  OBVIOUS
<1> HIDE DEF n
<1>2. {n} \in SUBSET (n..n) /\ {n, n} \subseteq {n} /\ {n} \ {n} = {}
  BY <1>1
<1>3. \A cuts \in SUBSET (n..n) : {n, n} \subseteq cuts => cuts = {n}
  BY <1>1
<1> QED
  BY <1>2, <1>3 DEF CutsFrom, n

\* The pieces between the cuts that e lists.
PiecesBetween(chars, e) == [k \in 1..(Len(e) - 1) |-> Candidate(chars, e[k] + 1, e[k + 1])]

\* r is what WordPieceTokenize must make of the characters behind a place.
Pieced(v, chars, a, r) ==
  \/ r = <<Unk>> /\ CutsFrom(v, chars, a) = {}
  \/ /\ a > 0 => r # <<Unk>>
     /\ \E e, C : /\ Enumerates(e, C) /\ Len(e) >= 1 /\ e[1] = a
                  /\ CutsFrom(v, chars, a) = {C}
                  /\ r = PiecesBetween(chars, e)

\* Behind the last character there are no pieces.
LEMMA PiecedLast ==
  ASSUME NEW v, NEW chars \in Seq(CodePoints)
  PROVE  Pieced(v, chars, Len(chars), <<>>)
<1> DEFINE n == Len(chars)
<1>1. n \in Nat
  OBVIOUS
<1>2. CutsFrom(v, chars, n) = {{n}}
  BY LastCuts
<1> HIDE DEF n
<1>3. Enumerates(<<n>>, {n}) /\ Len(<<n>>) = 1 /\ <<n>>[1] = n
  BY <1>1 DEF Enumerates
<1>4. PiecesBetween(chars, <<n>>) = <<>>
  <2>1. 1..(Len(<<n>>) - 1) = {}
    BY <1>3
  <2> QED
    BY <2>1 DEF PiecesBetween
<1>5. <<>> # <<Unk>>
  OBVIOUS
<1>6. Len(<<n>>) >= 1
  BY <1>3
<1> QED
  BY <1>2, <1>3, <1>4, <1>5, <1>6, Zenon DEF Pieced, n

\* One more place in front of the listed ones: one more piece in front.
LEMMA PiecesBetweenPrepend ==
  ASSUME NEW chars \in Seq(CodePoints), NEW e \in Seq(Nat), Len(e) >= 1, NEW a \in Nat,
         Candidate(chars, a + 1, e[1]) \in Seq(CodePoints),
         PiecesBetween(chars, e) \in Seq(Seq(CodePoints))
  PROVE  PiecesBetween(chars, <<a>> \o e) =
           <<Candidate(chars, a + 1, e[1])>> \o PiecesBetween(chars, e)
<1> DEFINE g == <<a>> \o e
           p == Candidate(chars, a + 1, e[1])
           r == PiecesBetween(chars, e)
           q == <<p>> \o r
<1>0. p \in Seq(CodePoints) /\ r \in Seq(Seq(CodePoints))
  OBVIOUS
<1>1. /\ g \in Seq(Nat) /\ Len(g) = Len(e) + 1 /\ g[1] = a
      /\ \A k \in 2..(Len(e) + 1) : g[k] = e[k - 1]
      /\ Len(e) \in Nat \ {0}
  OBVIOUS
<1>2. DOMAIN r = 1..(Len(e) - 1)
  BY DEF PiecesBetween
<1>p. p = Candidate(chars, a + 1, e[1])
  OBVIOUS
<1>r. \A k \in 1..(Len(e) - 1) : r[k] = Candidate(chars, e[k] + 1, e[k + 1])
  BY DEF PiecesBetween
<1> HIDE DEF p, r
<1>3. Len(r) = Len(e) - 1
  <2>1. DOMAIN r = 1..Len(r) /\ Len(r) \in Nat
    BY <1>0
  <2> QED
    BY <1>1, <1>2, <2>1
<1>4. /\ q \in Seq(Seq(CodePoints)) /\ Len(q) = Len(e) /\ q[1] = p
      /\ \A k \in 2..Len(e) : q[k] = r[k - 1]
  <2>1. /\ q \in Seq(Seq(CodePoints)) /\ Len(q) = Len(r) + 1 /\ q[1] = p
        /\ \A k \in 2..(Len(r) + 1) : q[k] = r[k - 1]
    BY <1>0
  <2>2. Len(r) + 1 = Len(e)
    BY <1>1, <1>3
  <2> QED
    BY <2>1, <2>2
<1> HIDE DEF g, q
<1>5. ASSUME NEW k \in 1..Len(e)
      PROVE  q[k] = Candidate(chars, g[k] + 1, g[k + 1])
  <2>1. g[k + 1] = e[k]
    <3>1. k + 1 \in 2..(Len(e) + 1) /\ (k + 1) - 1 = k
      BY <1>1
    <3> QED
      BY <1>1, <3>1
  <2>2. CASE k = 1
    BY <1>1, <1>4, <1>p, <2>1, <2>2
  <2>3. CASE k # 1
    <3>1. k \in 2..Len(e) /\ k \in 2..(Len(e) + 1) /\ k - 1 \in 1..(Len(e) - 1) /\ (k - 1) + 1 = k
      BY <1>1, <2>3
    <3>2. q[k] = r[k - 1] /\ g[k] = e[k - 1]
      BY <1>1, <1>4, <3>1
    <3>3. r[k - 1] = Candidate(chars, e[k - 1] + 1, e[k])
      BY <1>r, <3>1
    <3> QED
      BY <2>1, <3>2, <3>3
  <2> QED
    BY <2>2, <2>3
<1>6. Len(g) - 1 = Len(e)
  BY <1>1
<1>7. q = [k \in 1..Len(e) |-> q[k]]
  BY <1>4
<1>8. q = [k \in 1..Len(e) |-> Candidate(chars, g[k] + 1, g[k + 1])]
  BY <1>5, <1>7
<1> QED
  BY <1>6, <1>8, Zenon DEF PiecesBetween, q, g, p, r

\* One piece more in front of the pieces behind it.
LEMMA PiecedNext ==
  ASSUME NEW v, NEW chars \in Seq(CodePoints), NEW a \in 0..(Len(chars) - 1),
         NEW b, b = EndOfPiece(v, chars, a + 1),
         NEW rest \in Seq(Seq(CodePoints)), b > a => Pieced(v, chars, b, rest)
  PROVE  Pieced(v, chars, a, WithPiece(v, chars, a + 1, rest))
<1> DEFINE n == Len(chars)
           p == Candidate(chars, a + 1, b)
           r == WithPiece(v, chars, a + 1, rest)
<1>1. a \in Nat /\ n \in Nat /\ a + 1 \in 1..n
  OBVIOUS
<1>2. LongestUpTo(v, chars, a + 1, n, b)
  BY <1>1, EndOfPieceLongest
<1>3. b \in a..n
  BY <1>1, <1>2 DEF LongestUpTo
<1> HIDE DEF n, r
<1>4. CASE ~(b > a)
  <2>1. b = a /\ b < a + 1
    BY <1>1, <1>3, <1>4
  <2>2. CutsFrom(v, chars, a) = {}
    BY <1>2, <2>1, NoCuts DEF n
  <2>3. r = <<Unk>>
    BY <2>1 DEF r, WithPiece
  <2> QED
    BY <2>2, <2>3 DEF Pieced, r
<1>5. CASE b > a
  <2>1. CutsFrom(v, chars, a) = WithCut(CutsFrom(v, chars, b), a)
    BY <1>2, <1>5, CutsSplit, Zenon DEF n
  <2>2. ~(b < a + 1) /\ b > 0 /\ b \in 1..n
    BY <1>1, <1>3, <1>5
  <2>3. r = IF rest = <<Unk>> THEN rest ELSE <<p>> \o rest
    BY <2>2 DEF r, WithPiece
  <2>4. CASE rest = <<Unk>>
    <3>1. CutsFrom(v, chars, b) = {}
      BY <1>5, <2>2, <2>4 DEF Pieced
    <3>2. CutsFrom(v, chars, a) = {}
      BY <2>1, <3>1 DEF WithCut
    <3> QED
      BY <2>3, <2>4, <3>2 DEF Pieced, r
  <2>5. CASE rest # <<Unk>>
    <3>1. PICK e, C : /\ Enumerates(e, C) /\ Len(e) >= 1 /\ e[1] = b
                      /\ CutsFrom(v, chars, b) = {C}
                      /\ rest = PiecesBetween(chars, e)
      BY <1>5, <2>5 DEF Pieced
    <3>2. CutsFrom(v, chars, a) = {C \cup {a}}
      BY <2>1, <3>1 DEF WithCut
    <3>3. \A c \in C : a < c
      <4>1. C \subseteq b..n
        BY <3>1 DEF CutsFrom, n
      <4> QED
        BY <1>1, <1>3, <1>5, <4>1
    <3>4. Enumerates(<<a>> \o e, C \cup {a})
      BY <1>1, <3>1, <3>3, EnumeratesPrepend
    <3>5. e \in Seq(Nat)
      BY <3>1 DEF Enumerates
    <3>6. Len(<<a>> \o e) >= 1 /\ (<<a>> \o e)[1] = a
      BY <1>1, <3>5
    <3>7. p \in Seq(CodePoints) /\ (a > 0 => p # Unk)
      <4>1. a > 0 => a + 1 > 1
        BY <1>1
      <4> HIDE DEF p
      <4>2. p \in Seq(CodePoints) /\ (a + 1 > 1 => p # Unk)
        BY <1>1, <2>2, CandidateType, Zenon DEF n, p
      <4> QED
        BY <4>1, <4>2
    <3>8. <<p>> \o rest = PiecesBetween(chars, <<a>> \o e)
      <4>1. p = Candidate(chars, a + 1, e[1])
        BY <3>1
      <4> HIDE DEF p
      <4> QED
        <5>1. /\ e \in Seq(Nat) /\ Len(e) >= 1 /\ a \in Nat
              /\ p = Candidate(chars, a + 1, e[1]) /\ p \in Seq(CodePoints)
              /\ rest = PiecesBetween(chars, e) /\ rest \in Seq(Seq(CodePoints))
          BY <1>1, <3>1, <3>5, <3>7, <4>1
        <5>2. /\ Candidate(chars, a + 1, e[1]) \in Seq(CodePoints)
              /\ PiecesBetween(chars, e) \in Seq(Seq(CodePoints))
          BY <5>1, Zenon
        <5>3. PiecesBetween(chars, <<a>> \o e) =
                <<Candidate(chars, a + 1, e[1])>> \o PiecesBetween(chars, e)
          BY <5>1, <5>2, PiecesBetweenPrepend, Zenon
        <5> QED
          BY <5>1, <5>3, Zenon
    <3>9. (<<p>> \o rest)[1] = p
      <4> HIDE DEF p
      <4> QED
        BY <3>7
    <3>10. a > 0 => <<p>> \o rest # <<Unk>>
      <4>1. <<Unk>>[1] = Unk
        OBVIOUS
      <4> HIDE DEF p
      <4> QED
        BY <3>7, <3>9, <4>1, Zenon
    <3>11. r = <<p>> \o rest
      BY <2>3, <2>5
    <3> HIDE DEF p
    <3> QED
      BY <3>2, <3>4, <3>6, <3>8, <3>10, <3>11 DEF Pieced, r
  <2> QED
    BY <2>4, <2>5
<1> QED
  BY <1>4, <1>5

\* WordPieceTokenize makes the longest pieces of a word's characters.
LEMMA WordPieceRight ==
  ASSUME NEW v, NEW word \in Seq(Bytes)
  PROVE  /\ WordPieceTokenize(v, word) \in Seq(Seq(CodePoints))
         /\ WordPieceTokenize(v, word) = PiecesOf(v, DecodeUtf8(word))
<1> DEFINE chars == DecodeUtf8(word)
           N == Len(chars)
<1>1. chars \in Seq(CodePoints) /\ N \in Nat
  BY DecodeType
<1>2. CASE N > MaxWord
  <2>1. WordPieceTokenize(v, word) = <<Unk>>
    BY <1>2 DEF WordPieceTokenize
  <2>2. PiecesOf(v, chars) = <<Unk>>
    BY <1>2 DEF PiecesOf
  <2> QED
    BY <2>1, <2>2, UnkType
<1>3. CASE ~(N > MaxWord)
  <2>0. chars = DecodeUtf8(word)
    OBVIOUS
  <2> HIDE DEF chars
  <2>z. PICK f : PiecesFrom(v, chars, f) /\ WordPieceTokenize(v, word) = f[1]
    BY <1>3, <2>0, WordPieceLoop, Zenon
  <2>1. /\ f \in [1..(N + 1) -> Seq(Seq(CodePoints))]
        /\ f[N + 1] = <<>>
        /\ \A i \in 1..N : f[i] = WithPiece(v, chars, i, f[EndOfPiece(v, chars, i) + 1])
        /\ WordPieceTokenize(v, word) = f[1]
    BY <2>z, Zenon DEF PiecesFrom
  <2>2. 0..N \subseteq {j \in 0..N : Pieced(v, chars, N - j, f[(N - j) + 1])}
    <3> DEFINE S == {j \in 0..N : Pieced(v, chars, N - j, f[(N - j) + 1])}
    <3>1. ASSUME NEW j \in 0..N, \A m \in 0..(j - 1) : m \in S PROVE j \in S
      <4>1. CASE j = 0
        <5>1. N - j = N
          BY <1>1, <4>1
        <5> QED
          BY <1>1, <2>1, <5>1, PiecedLast
      <4>2. CASE j \in 1..N
        <5> DEFINE a == N - j
                   b == EndOfPiece(v, chars, a + 1)
                   rest == f[b + 1]
        <5>1. a \in 0..(N - 1) /\ a + 1 \in 1..N /\ a \in Nat /\ (a + 1) - 1 = a
          BY <1>1, <4>2
        <5>2. LongestUpTo(v, chars, a + 1, N, b)
          BY <1>1, <5>1, EndOfPieceLongest
        <5>3. b \in a..N
          BY <5>1, <5>2 DEF LongestUpTo
        <5>4. b + 1 \in 1..(N + 1)
          BY <1>1, <5>1, <5>3
        <5>5. rest \in Seq(Seq(CodePoints))
          BY <2>1, <5>4
        <5>6. ASSUME b > a PROVE Pieced(v, chars, b, rest)
          <6> HIDE DEF b
          <6>1. N - b \in 0..(j - 1) /\ N - (N - b) = b
            BY <1>1, <5>1, <5>3, <5>6, <4>2
          <6>2. N - b \in S
            BY <3>1, <6>1
          <6> QED
            BY <6>1, <6>2
        <5>7. f[a + 1] = WithPiece(v, chars, a + 1, rest)
          BY <2>1, <5>1
        <5> HIDE DEF rest, b
        <5>8. Pieced(v, chars, a, WithPiece(v, chars, a + 1, rest))
          <6>1. b = EndOfPiece(v, chars, a + 1)
            BY DEF b
          <6> HIDE DEF a
          <6> QED
            BY <1>1, <5>1, <5>5, <5>6, <6>1, PiecedNext
        <5> QED
          BY <5>7, <5>8
      <4> QED
        BY <1>1, <4>1, <4>2
    <3> HIDE DEF S
    <3>2. 0..N \subseteq S
      BY <1>1, <3>1, StrongInduction
    <3> QED
      BY <3>2 DEF S
  <2>3. Pieced(v, chars, 0, f[1])
    <3>1. N \in 0..N /\ N - N = 0 /\ 0 + 1 = 1
      BY <1>1
    <3> DEFINE z == N - N
    <3>2. Pieced(v, chars, z, f[z + 1])
      BY <2>2, <3>1, Zenon
    <3>3. z = 0 /\ z + 1 = 1
      BY <3>1
    <3> HIDE DEF z
    <3> QED
      BY <3>2, <3>3, Zenon
  <2>4. f[1] \in Seq(Seq(CodePoints))
    <3>1. 1 \in 1..(N + 1)
      BY <1>1
    <3> QED
      BY <2>1, <3>1, Zenon
  <2>5. f[1] = PiecesOf(v, chars)
    <3>1. CASE f[1] = <<Unk>> /\ CutsFrom(v, chars, 0) = {}
      BY <3>1, CutsFromAll DEF PiecesOf
    <3>2. ASSUME NEW e, NEW C, Enumerates(e, C), CutsFrom(v, chars, 0) = {C},
                 f[1] = PiecesBetween(chars, e)
          PROVE  f[1] = PiecesOf(v, chars)
      <4>1. LongestCuts(v, chars) = {C}
        BY <3>2, CutsFromAll
      <4>2. (CHOOSE c \in LongestCuts(v, chars) : TRUE) = C
        BY <4>1
      <4>3. PiecesOf(v, chars) =
              [k \in 1..(Cardinality(C) - 1) |-> Candidate(chars, Nth(C, k) + 1, Nth(C, k + 1))]
        BY <1>3, <4>1, <4>2 DEF PiecesOf
      <4>4. /\ Cardinality(C) = Len(e)
            /\ \A k \in 1..Len(e) : Nth(C, k) = e[k]
        BY <3>2, EnumeratesCount
      <4>5. \A k \in 1..(Len(e) - 1) : k \in 1..Len(e) /\ k + 1 \in 1..Len(e)
        <5>1. Len(e) \in Nat
          BY <3>2 DEF Enumerates
        <5> QED
          BY <5>1
      <4> QED
        BY <3>2, <4>3, <4>4, <4>5 DEF PiecesBetween
    <3> QED
      BY <2>3, <3>1, <3>2 DEF Pieced
  <2> QED
    BY <2>1, <2>4, <2>5 DEF chars
<1> QED
  BY <1>2, <1>3

-----------------------------------------------------------------------------
(* Encode: the input of the network *)

\* g holds the sequences of s joined up to each of them.
Joins(g, V, s) ==
  /\ g \in [0..Len(s) -> Seq(V)]
  /\ g[0] = <<>>
  /\ \A n \in 1..Len(s) : g[n] = g[n - 1] \o s[n]

\* Sequences can be joined one after the other.
LEMMA JoinsExist ==
  ASSUME NEW V, NEW s \in Seq(Seq(V))
  PROVE  \E g : Joins(g, V, s)
<1> DEFINE N == Len(s)
           S == Seq(V)
           prev == [n \in 1..N |-> n - 1]
           step == [x \in S \X (1..N) |-> x[1] \o s[x[2]]]
<1>1. N \in Nat /\ <<>> \in S
  OBVIOUS
<1>2. prev \in [1..N -> Nat] /\ \A n \in 1..N : prev[n] < n
  BY <1>1
<1>3. step \in [S \X (1..N) -> S]
  <2>1. ASSUME NEW a \in S, NEW n \in 1..N PROVE a \o s[n] \in S
    <3>1. s[n] \in Seq(V)
      OBVIOUS
    <3> QED
      BY <3>1
  <2> QED
    BY <2>1
<1>4. PICK g : Steps(g, S, <<>>, N, prev, step)
  <2> HIDE DEF step, prev, N, S
  <2>1. \A n \in 1..N : prev[n] < n
    BY <1>2
  <2>2. prev \in [1..N -> Nat]
    BY <1>2
  <2> QED
    BY <1>1, <1>3, <2>1, <2>2, StepsExist, Zenon
<1>5. /\ g \in [0..N -> S] /\ g[0] = <<>>
      /\ \A n \in 1..N : g[n] = step[<<g[prev[n]], n>>]
  <2> HIDE DEF step, prev, N, S
  <2> QED
    BY <1>4, Zenon DEF Steps
<1>6. ASSUME NEW n \in 1..N PROVE g[n] = g[n - 1] \o s[n]
  <2>1. prev[n] = n - 1 /\ n - 1 \in 0..N
    BY <1>1
  <2>2. g[n - 1] \in S
    BY <1>5, <2>1
  <2>3. step[<<g[n - 1], n>>] = g[n - 1] \o s[n]
    BY <2>2
  <2> HIDE DEF step, prev
  <2> QED
    BY <1>5, <2>1, <2>3
<1> QED
  BY <1>5, <1>6, Zenon DEF Joins

\* FlattenSeq joins all of them.
LEMMA FlattenJoins ==
  ASSUME NEW V, NEW s \in Seq(Seq(V)), NEW g, Joins(g, V, s)
  PROVE  FlattenSeq(s) = g[Len(s)]
<1> DEFINE N == Len(s)
<1>1. /\ N \in Nat /\ g \in [0..N -> Seq(V)] /\ g[0] = <<>>
      /\ \A n \in 1..N : g[n] = g[n - 1] \o s[n] /\ s[n] \in Seq(V)
  BY DEF Joins
<1>2. CASE N = 0
  <2>1. s = <<>>
    BY <1>2
  <2> QED
    BY <1>1, <1>2, <2>1 DEF FlattenSeq
<1>3. CASE N # 0
  <2> DEFINE flatten[i \in 1..Len(s)] == IF i = 1 THEN s[i] ELSE flatten[i-1] \o s[i]
             h == [i \in 1..N |-> g[i]]
  <2>1. ASSUME NEW i \in 1..N
        PROVE  g[i] = IF i = 1 THEN s[i] ELSE g[i - 1] \o s[i]
    <3>1. CASE i = 1
      <4>1. g[i] = g[0] \o s[1] /\ s[1] \in Seq(V)
        <5>1. i - 1 = 0
          BY <3>1
        <5>2. g[i] = g[i - 1] \o s[i] /\ s[i] \in Seq(V)
          BY <1>1
        <5> QED
          BY <3>1, <5>1, <5>2
      <4>2. <<>> \o s[1] = s[1]
        BY <4>1
      <4> QED
        BY <1>1, <3>1, <4>1, <4>2
    <3>2. CASE i # 1
      BY <1>1, <3>2
    <3> QED
      BY <3>1, <3>2
  <2>2. h = [i \in 1..Len(s) |-> IF i = 1 THEN s[i] ELSE h[i-1] \o s[i]]
    <3>1. ASSUME NEW i \in 1..N
          PROVE  h[i] = IF i = 1 THEN s[i] ELSE h[i - 1] \o s[i]
      <4>1. h[i] = g[i] /\ (i # 1 => h[i - 1] = g[i - 1])
        BY <1>1
      <4> HIDE DEF h
      <4> QED
        BY <2>1, <4>1
    <3>2. h = [i \in 1..N |-> h[i]]
      OBVIOUS
    <3> HIDE DEF h
    <3> QED
      BY <3>1, <3>2
  <2> HIDE DEF h
  <2>3. flatten = [i \in 1..Len(s) |-> IF i = 1 THEN s[i] ELSE flatten[i-1] \o s[i]]
    BY <2>2
  <2>4. FlattenSeq(s) = flatten[Len(s)]
    BY <1>3 DEF FlattenSeq
  <2> HIDE DEF flatten
  <2>5. 0..N \subseteq {i \in 0..N : i # 0 => flatten[i] = g[i]}
    <3> DEFINE S == {i \in 0..N : i # 0 => flatten[i] = g[i]}
    <3>1. ASSUME NEW i \in 0..N, \A m \in 0..(i - 1) : m \in S PROVE i \in S
      <4> SUFFICES ASSUME i # 0 PROVE flatten[i] = g[i]
        OBVIOUS
      <4>1. i \in 1..N
        BY <1>1
      <4>2. flatten[i] = IF i = 1 THEN s[i] ELSE flatten[i - 1] \o s[i]
        BY <2>3, <4>1, Zenon
      <4>3. i # 1 => flatten[i - 1] = g[i - 1]
        <5> SUFFICES ASSUME i # 1 PROVE flatten[i - 1] = g[i - 1]
          OBVIOUS
        <5>1. i - 1 \in 0..(i - 1) /\ i - 1 # 0
          BY <1>1, <4>1
        <5> QED
          BY <3>1, <5>1
      <4> QED
        BY <2>1, <4>1, <4>2, <4>3
    <3> HIDE DEF S
    <3>2. 0..N \subseteq S
      BY <1>1, <3>1, StrongInduction
    <3> QED
      BY <3>2 DEF S
  <2>6. N \in 0..N
    BY <1>1
  <2> QED
    BY <1>3, <2>4, <2>5, <2>6
<1> QED
  BY <1>2, <1>3

\* Pieces joins the pieces of a text's words.
LEMMA PiecesJoins ==
  ASSUME NEW v, NEW t \in Seq(Bytes), NEW words, words = BasicTokenize(t),
         NEW s, s = [n \in DOMAIN words |-> WordPieceTokenize(v, words[n])]
  PROVE  /\ s \in Seq(Seq(Seq(CodePoints)))
         /\ Pieces(v, t) = FlattenSeq(s)
         /\ Pieces(v, t) \in Seq(Seq(CodePoints))
<1> DEFINE N == Len(words)
           V == Seq(CodePoints)
<1>1. words \in Seq(Seq(Bytes)) /\ N \in Nat /\ DOMAIN words = 1..N
  BY WordsRight
<1>2. ASSUME NEW n \in 1..N PROVE WordPieceTokenize(v, words[n]) \in Seq(V)
  <2>1. words[n] \in Seq(Bytes)
    BY <1>1
  <2> QED
    BY <2>1, WordPieceRight
<1> HIDE DEF V, N
<1>3. s \in Seq(Seq(V)) /\ Len(s) = N /\ \A n \in 1..N : s[n] = WordPieceTokenize(v, words[n])
  <2>1. s = [n \in 1..N |-> WordPieceTokenize(v, words[n])]
    BY <1>1
  <2>2. s \in [1..N -> Seq(V)]
    BY <1>2, <2>1
  <2>3. s \in Seq(Seq(V)) /\ Len(s) = N
    BY <1>1, <2>2
  <2> QED
    BY <2>1, <2>3
<1>4. PICK g : Joins(g, V, s)
  BY <1>3, JoinsExist
<1>5. /\ g \in [0..N -> Seq(V)] /\ g[0] = <<>>
      /\ \A n \in 1..N : g[n] = g[n - 1] \o WordPieceTokenize(v, words[n])
  BY <1>3, <1>4 DEF Joins
<1>6. FlattenSeq(s) = g[N]
  BY <1>3, <1>4, FlattenJoins
<1> DEFINE upto[n \in 0..Len(words)] ==
             IF n = 0 THEN <<>> ELSE upto[n - 1] \o WordPieceTokenize(v, words[n])
<1>7. g = [n \in 0..Len(words) |->
             IF n = 0 THEN <<>> ELSE g[n - 1] \o WordPieceTokenize(v, words[n])]
  <2>1. g = [n \in 0..N |-> g[n]]
    BY <1>5
  <2>2. ASSUME NEW n \in 0..N
        PROVE  g[n] = IF n = 0 THEN <<>> ELSE g[n - 1] \o WordPieceTokenize(v, words[n])
    <3>1. n = 0 \/ (n \in 1..N /\ n # 0)
      BY <1>1
    <3> QED
      BY <1>5, <3>1, Zenon
  <2> QED
    BY <2>1, <2>2, Zenon DEF N
<1>8. upto = [n \in 0..Len(words) |->
             IF n = 0 THEN <<>> ELSE upto[n - 1] \o WordPieceTokenize(v, words[n])]
  BY <1>7
<1>9. Pieces(v, t) = upto[Len(words)]
  BY DEF Pieces
<1> HIDE DEF upto
<1>10. 0..N \subseteq {n \in 0..N : upto[n] = g[n]}
  <2> DEFINE S == {n \in 0..N : upto[n] = g[n]}
  <2>1. ASSUME NEW n \in 0..N, \A m \in 0..(n - 1) : m \in S PROVE n \in S
    <3>0. n \in 0..Len(words)
      BY DEF N
    <3>1. CASE n = 0
      BY <1>5, <1>8, <3>0, <3>1
    <3>2. CASE n \in 1..N
      <4>1. n - 1 \in 0..(n - 1) /\ n # 0
        BY <1>1, <3>2
      <4>2. upto[n - 1] = g[n - 1]
        BY <2>1, <4>1
      <4>3. upto[n] = upto[n - 1] \o WordPieceTokenize(v, words[n])
        BY <1>8, <3>0, <4>1, Zenon
      <4> QED
        BY <1>5, <3>2, <4>2, <4>3
    <3> QED
      BY <1>1, <3>1, <3>2
  <2> HIDE DEF S
  <2>2. 0..N \subseteq S
    BY <1>1, <2>1, StrongInduction
  <2> QED
    BY <2>2 DEF S
<1>11. N \in 0..N
  BY <1>1
<1>12. Pieces(v, t) = g[N] /\ g[N] \in Seq(V)
  BY <1>5, <1>9, <1>10, <1>11 DEF N
<1> QED
  BY <1>3, <1>6, <1>12 DEF V

\* An input is [CLS], the pieces that fit, [SEP] and padding outside the mask.
Shaped(e, v, pieces) ==
  LET used == Min({Len(pieces) + 2, MaxLength})
      ids == e.inputIds
  IN  /\ DOMAIN ids = 1..MaxLength
      /\ ids[1] = v[Cls] /\ ids[used] = v[Sep]
      /\ \A i \in 2..(used - 1) : ids[i] = v[pieces[i - 1]]
      /\ \A i \in (used + 1)..MaxLength : ids[i] = v[Pad]
      /\ \A i \in 1..MaxLength : e.attentionMask[i] = IF i <= used THEN 1 ELSE 0

\* Encode makes such an input, of any pieces.
LEMMA EncodeShape ==
  ASSUME NEW v, NEW t, Pieces(v, t) \in Seq(Seq(CodePoints))
  PROVE  Shaped(Encode(v, t, MaxLength), v, Pieces(v, t))
<1> DEFINE pieces == Pieces(v, t)
           used == Min({Len(pieces) + 2, MaxLength})
<1>0. pieces \in Seq(Seq(CodePoints))
  OBVIOUS
<1>u. used = Min({Len(pieces) + 2, MaxLength})
  OBVIOUS
<1> HIDE DEF used, pieces
<1> DEFINE L == Len(pieces)
           k == IF L <= MaxLength - 2 THEN L ELSE MaxLength - 2
           kept == SubSeq(pieces, 1, k)
           tokens == <<Cls>> \o kept \o <<Sep>>
           Id(i) == v[IF i <= Len(tokens) THEN tokens[i] ELSE Pad]
           Mask(i) == IF i <= Len(tokens) THEN 1 ELSE 0
           V == Seq(CodePoints)
<1>1. MaxLength \in Nat /\ MaxLength >= 2 /\ L \in Nat
  BY <1>0, InputAssumption
<1>2. k \in 0..L /\ k + 2 \in 2..MaxLength /\ (k + 2 = L + 2 \/ k + 2 = MaxLength)
      /\ k + 2 <= L + 2 /\ k + 2 <= MaxLength
  BY <1>1
<1>3. used = k + 2
  <2> DEFINE S == {L + 2, MaxLength}
             m == k + 2
  <2>1. S \subseteq Nat /\ m \in S /\ \A x \in S : m <= x
    BY <1>1, <1>2
  <2>2. used = Min(S)
    BY <1>u
  <2> HIDE DEF S, m
  <2>3. Min(S) = m
    BY <2>1, MinIs
  <2> QED
    BY <2>2, <2>3 DEF m
<1>4. Encode(v, t, MaxLength) = [inputIds |-> [i \in 1..MaxLength |-> Id(i)],
                                 attentionMask |-> [i \in 1..MaxLength |-> Mask(i)]]
  BY Zenon DEF Encode, Kept, pieces
<1>5. Cls \in V /\ Sep \in V /\ pieces \in Seq(V)
  <2>1. /\ 91 \in CodePoints /\ 67 \in CodePoints /\ 76 \in CodePoints /\ 83 \in CodePoints
        /\ 69 \in CodePoints /\ 80 \in CodePoints /\ 93 \in CodePoints
    BY SMT DEF CodePoints
  <2> QED
    BY <1>0, <2>1 DEF Cls, Sep
<1> HIDE DEF L, k, V, tokens
<1>6. kept \in Seq(V) /\ Len(kept) = k /\ \A i \in 1..k : kept[i] = pieces[i]
  <2>1. 1 \in 1..(Len(pieces) + 1) /\ k \in 0..Len(pieces)
    BY <1>1, <1>2 DEF L
  <2> QED
    BY <1>5, <2>1, SubSeqProperties
<1> HIDE DEF kept
<1>7. /\ Len(tokens) = k + 2 /\ tokens[1] = Cls /\ tokens[k + 2] = Sep
      /\ \A i \in 2..(k + 1) : tokens[i] = kept[i - 1]
  <2> HIDE DEF Cls, Sep
  <2> DEFINE a == <<Cls>> \o kept
  <2>1. /\ a \in Seq(V) /\ Len(a) = k + 1 /\ a[1] = Cls
        /\ \A i \in 2..(k + 1) : a[i] = kept[i - 1]
    BY <1>5, <1>6
  <2>2. tokens = a \o <<Sep>>
    BY DEF tokens
  <2> HIDE DEF a
  <2>3. /\ Len(tokens) = Len(a) + 1 /\ tokens[Len(a) + 1] = Sep
        /\ \A i \in 1..Len(a) : tokens[i] = a[i]
    BY <1>5, <2>1, <2>2
  <2>4. k \in Nat
    BY <1>1, <1>2
  <2> QED
    BY <2>1, <2>3, <2>4
<1> HIDE DEF Id, Mask
<1>8. ASSUME NEW i \in 1..MaxLength
      PROVE  /\ Id(i) = v[IF i <= used THEN tokens[i] ELSE Pad]
             /\ Mask(i) = IF i <= used THEN 1 ELSE 0
  BY <1>3, <1>7 DEF Id, Mask
<1> DEFINE ids == [i \in 1..MaxLength |-> Id(i)]
           mask == [i \in 1..MaxLength |-> Mask(i)]
<1>9. used \in 2..MaxLength
  BY <1>2, <1>3
<1>10. Id(1) = v[Cls] /\ Id(used) = v[Sep]
  <2>1. 1 \in 1..MaxLength /\ used \in 1..MaxLength /\ 1 <= used /\ used <= used
    BY <1>1, <1>9
  <2> QED
    BY <1>3, <1>7, <1>8, <2>1
<1>11. ASSUME NEW i \in 2..(used - 1) PROVE i \in 1..MaxLength /\ Id(i) = v[pieces[i - 1]]
  <2>1. i \in 1..MaxLength /\ i <= used /\ i \in 2..(k + 1) /\ i - 1 \in 1..k
    BY <1>1, <1>2, <1>3, <1>9
  <2> QED
    BY <1>6, <1>7, <1>8, <2>1
<1>12. ASSUME NEW i \in (used + 1)..MaxLength PROVE i \in 1..MaxLength /\ Id(i) = v[Pad]
  <2>1. i \in 1..MaxLength /\ ~(i <= used)
    BY <1>1, <1>9
  <2> QED
    BY <1>8, <2>1
<1>13. 1 \in 1..MaxLength /\ used \in 1..MaxLength
  BY <1>1, <1>9
<1>14. Encode(v, t, MaxLength).inputIds = ids /\ Encode(v, t, MaxLength).attentionMask = mask
  BY <1>4
<1> DEFINE e == Encode(v, t, MaxLength)
<1>15. /\ DOMAIN ids = 1..MaxLength
       /\ ids[1] = v[Cls] /\ ids[used] = v[Sep]
       /\ \A i \in 2..(used - 1) : ids[i] = v[pieces[i - 1]]
       /\ \A i \in (used + 1)..MaxLength : ids[i] = v[Pad]
       /\ \A i \in 1..MaxLength : mask[i] = IF i <= used THEN 1 ELSE 0
  BY <1>8, <1>10, <1>11, <1>12, <1>13
<1> HIDE DEF ids, mask, e
<1>16. Shaped(e, v, pieces)
  BY <1>14, <1>15, <1>u, Zenon DEF Shaped, e
<1> QED
  BY <1>16 DEF e, pieces

(***************************************************************************)
(* The input that a successful Classify gives the network holds [CLS], the *)
(* longest known pieces of the text's words as far as they fit, [SEP], and *)
(* padding outside the mask.                                               *)
(***************************************************************************)
THEOREM InputIsRight == RuntimeSpec => []EncodedRight
<1>1. AnswerKnown => EncodedRight
  <2> SUFFICES ASSUME AnswerKnown, answer # <<>>, answer.success
               PROVE  EncodedRight
    BY DEF EncodedRight
  <2> DEFINE t == answer.text
             v == impl.vocabulary
             made == BasicTokenize(t)
             words == WordsOf(DecodeUtf8(t))
             s == [n \in DOMAIN words |-> PiecesOf(v, words[n])]
             p == Pieces(v, t)
  <2>1. t \in Seq(Bytes) /\ answer.encoded = Encode(v, t, MaxLength)
    BY DEF AnswerKnown
  <2>2. made \in Seq(Seq(Bytes)) /\ words = [n \in DOMAIN made |-> DecodeUtf8(made[n])]
    BY <2>1, WordsRight
  <2>3. s = [n \in DOMAIN made |-> WordPieceTokenize(v, made[n])]
    <3>1. ASSUME NEW n \in DOMAIN made
          PROVE  PiecesOf(v, words[n]) = WordPieceTokenize(v, made[n])
      <4>1. words[n] = DecodeUtf8(made[n])
        BY <2>2
      <4>2. made[n] \in Seq(Bytes)
        BY <2>2
      <4> HIDE DEF made, words
      <4> QED
        BY <4>1, <4>2, WordPieceRight
    <3>2. DOMAIN words = DOMAIN made
      BY <2>2
    <3> HIDE DEF made, words
    <3> QED
      BY <3>1, <3>2
  <2>4. p = FlattenSeq(s) /\ p \in Seq(Seq(CodePoints))
    <3> HIDE DEF s
    <3> QED
      BY <2>1, <2>3, PiecesJoins
  <2> DEFINE e == Encode(v, t, MaxLength)
  <2>5. Shaped(e, v, p)
    BY <2>4, EncodeShape
  <2> HIDE DEF e
  <2>6. Shaped(e, v, FlattenSeq(s))
    BY <2>4, <2>5
  <2> QED
    BY <2>1, <2>6, Zenon DEF EncodedRight, Shaped, e
<1> QED
  BY <1>1, AnswerHolds, PTL

-----------------------------------------------------------------------------
(* FaceInference *)

LEMMA WordIsNat == Word \subseteq Nat
BY DEF Word

\* What scaling a position below n down from a grid of k places gives.
LEMMA ScaledRecognizer ==
  ASSUME NEW n \in Nat \ {0}, NEW i \in 0..(RecognizerSize - 1)
  PROVE  (i * n) \div RecognizerSize \in 0..(n - 1)
<1>1. i * n \in Nat /\ i * n <= 111 * n
  BY DEF RecognizerSize
<1>2. i * n < 112 * n
  BY <1>1
<1> DEFINE a == i * n
<1>3. a \in Nat /\ a < 112 * n
  BY <1>1, <1>2
<1> HIDE DEF a
<1>4. a \div 112 \in 0..(n - 1)
  BY <1>3
<1> QED
  BY <1>4 DEF a, RecognizerSize

LEMMA ScaledDetector ==
  ASSUME NEW n \in Nat \ {0}, NEW i \in 0..(DetectorSize - 1)
  PROVE  (i * n) \div DetectorSize \in 0..(n - 1)
<1>1. i * n \in Nat /\ i * n <= 639 * n
  BY DEF DetectorSize
<1>2. i * n < 640 * n
  BY <1>1
<1> DEFINE a == i * n
<1>3. a \in Nat /\ a < 640 * n
  BY <1>1, <1>2
<1> HIDE DEF a
<1>4. a \div 640 \in 0..(n - 1)
  BY <1>3
<1> QED
  BY <1>4 DEF a, DetectorSize

\* The bytes of a pixel of the picture lie behind the header and before the end.
LEMMA PixelInside ==
  ASSUME NEW width \in Nat \ {0}, NEW height \in Nat \ {0},
         NEW x \in 0..(width - 1), NEW y \in 0..(height - 1), NEW c \in 0..2
  PROVE  PixelOffset(width, x, y) + c \in Header..(Header + (width * height * 4) - 1)
<1>1. (y * width) \in Nat /\ (y * width) <= ((height - 1) * width)
  <2>1. y \in Nat /\ y <= height - 1 /\ height - 1 \in Nat
    OBVIOUS
  <2> QED
    BY <2>1
<1>2. ((height - 1) * width) = (width * height) - width
  OBVIOUS
<1>3. width * height \in Nat
  OBVIOUS
<1> DEFINE row == y * width
           all == width * height
<1>4. row \in Nat /\ all \in Nat /\ row <= all - width
  BY <1>1, <1>2, <1>3
<1> HIDE DEF row, all
<1>5. (Header + ((row + x) * 4)) + c \in Header..(Header + (all * 4) - 1)
  BY <1>4 DEF Header
<1> QED
  BY <1>5 DEF row, all, PixelOffset

\* Cutting the middle out of a side of the picture stays inside it.
LEMMA CropInside ==
  ASSUME NEW size \in Nat \ {0}, NEW crop \in 1..size,
         NEW i \in 0..(RecognizerSize - 1)
  PROVE  CropSource(size, crop, i) \in 0..(size - 1)
<1>1. (i * crop) \div RecognizerSize \in 0..(crop - 1)
  BY ScaledRecognizer
<1> DEFINE s == (i * crop) \div RecognizerSize
<1>2. s \in 0..(crop - 1)
  BY <1>1
<1> HIDE DEF s
<1>3. ((size - crop) \div 2) + s \in 0..(size - 1)
  BY <1>2
<1> QED
  BY <1>3 DEF s, CropSource

(***************************************************************************)
(* Of a picture that passed the check of ExtractEmbeddingStub every byte   *)
(* that the recognizer's and the detector's input is made of lies in the   *)
(* payload, for every size of picture and payload.  The hypothesis is that *)
(* the picture's byte count is a size_t, which the code takes for granted. *)
(***************************************************************************)
THEOREM PixelsInside ==
  ASSUME NEW width \in Word, NEW height \in Word, NEW rawLength \in Nat,
         Header + (width * height * 4) < SizeT,
         Accepted(width, height, rawLength)
  PROVE  RecognizerOffsets(width, height) \cup DetectorOffsets(width, height)
           \subseteq Header..(rawLength - 1)
<1> DEFINE all == width * height
<1>1. width \in Nat \ {0} /\ height \in Nat \ {0} /\ all \in Nat
  <2>1. width \in Nat /\ height \in Nat
    BY WordIsNat
  <2>2. width >= 16 /\ height >= 16
    BY DEF Accepted
  <2>3. width * height \in Nat
    BY <2>1
  <2> QED
    BY <2>1, <2>2, <2>3
<1>2. Header + (all * 4) <= rawLength
  <2> DEFINE bytes == Header + (all * 4)
  <2>1. bytes \in Nat /\ bytes < SizeT /\ rawLength >= bytes % SizeT
    BY <1>1 DEF Header, Accepted, ExpectedLength
  <2> HIDE DEF bytes
  <2>2. bytes % SizeT = bytes
    BY <2>1, SMT DEF SizeT
  <2>3. bytes <= rawLength
    BY <2>1, <2>2
  <2> QED
    BY <2>3 DEF bytes
<1>3. ASSUME NEW x \in 0..(width - 1), NEW y \in 0..(height - 1), NEW c \in 0..2
      PROVE  PixelOffset(width, x, y) + c \in Header..(rawLength - 1)
  <2>1. PixelOffset(width, x, y) + c \in Header..(Header + (all * 4) - 1)
    BY <1>1, PixelInside
  <2> HIDE DEF all
  <2> QED
    BY <2>1, <1>1, <1>2 DEF Header
<1> HIDE DEF all
<1>4. RecognizerOffsets(width, height) \subseteq Header..(rawLength - 1)
  <2> DEFINE crop == Crop(width, height)
  <2>1. crop \in 1..width /\ crop \in 1..height
    BY <1>1 DEF Crop
  <2> HIDE DEF crop
  <2>2. ASSUME NEW x \in 0..(RecognizerSize - 1), NEW y \in 0..(RecognizerSize - 1),
               NEW c \in 0..2
        PROVE  PixelOffset(width, CropSource(width, crop, x), CropSource(height, crop, y)) + c
                 \in Header..(rawLength - 1)
    <3>1. CropSource(width, crop, x) \in 0..(width - 1)
      BY <1>1, <2>1, CropInside
    <3>2. CropSource(height, crop, y) \in 0..(height - 1)
      BY <1>1, <2>1, CropInside
    <3> QED
      BY <1>3, <3>1, <3>2
  <2> QED
    BY <2>2 DEF RecognizerOffsets, crop
<1>5. DetectorOffsets(width, height) \subseteq Header..(rawLength - 1)
  <2>1. ASSUME NEW x \in 0..(DetectorSize - 1), NEW y \in 0..(DetectorSize - 1),
               NEW c \in 0..2
        PROVE  PixelOffset(width, DetectorSource(width, x), DetectorSource(height, y)) + c
                 \in Header..(rawLength - 1)
    <3>1. DetectorSource(width, x) \in 0..(width - 1)
      BY <1>1, ScaledDetector DEF DetectorSource
    <3>2. DetectorSource(height, y) \in 0..(height - 1)
      BY <1>1, ScaledDetector DEF DetectorSource
    <3> QED
      BY <1>3, <3>1, <3>2
  <2> QED
    BY <2>1 DEF DetectorOffsets
<1> QED
  BY <1>4, <1>5

-----------------------------------------------------------------------------
(* FaceUserStore *)

\* The list in a file that can be read.
ListOf(c) == c[1]

JobTypes == [id : Nat, by : {"enrol", "delete", "load"}, list : Lists, open : BOOLEAN,
             todo : {<<"backup", "primary">>, <<"primary">>, <<"backup">>}]

\* What the variables hold in every state.
StoreTypes ==
  /\ users \in Lists /\ shown \in Lists /\ saved \in BOOLEAN
  /\ loading \in {"primary", "backup", "done"}
  /\ failures \in Nat /\ saves \in Nat /\ overlap \in {"none", "past", "now"}
  /\ file \in [Files -> Contents]
  /\ \A j \in jobs : j \in JobTypes /\ (j.by = "load" <=> j.todo = <<"backup">>)

\* What is there while a list is loaded, and while the loaded list is written
\* to the backup: no face can be deleted then, as none is shown.
StoreInv ==
  /\ loading # "done" => jobs = {} /\ shown = {} /\ users = {} /\ ~saved
  /\ loading = "backup" => ~Readable(file["primary"])
  /\ jobs # {} => ~saved
  /\ \A j \in jobs : j.by = "load" => shown = {} /\ jobs = {j}
  /\ overlap = "none" /\ saved => file["primary"] = <<users>>

\* A save that was begun while no other was in progress stays the only one
\* until another is begun: it writes the list in memory, into a file that it
\* has truncated itself.
StoreAlone ==
  overlap # "now" =>
    \A j \in jobs : /\ jobs = {j} /\ j.list = users
                    /\ j.open => file[Head(j.todo)] = <<>>

\* The primary file holds a list that a restart may come up with, or cannot be
\* read while no list at all is such a list and the backup holds none.
PrimaryFine ==
  IF Readable(file["primary"]) THEN ListOf(file["primary"]) \in expected
  ELSE {} \in expected /\ file["backup"] = <<>>

\* What the files hold at every step of a save before anything has failed.
StepFine(j) ==
  CASE j.todo = <<"backup", "primary">> -> PrimaryFine
    [] j.todo = <<"primary">> ->
         /\ file["backup"] = <<users>>
         /\ Readable(file["primary"]) => ListOf(file["primary"]) \in expected
    [] j.todo = <<"backup">> -> file["primary"] = <<users>>

\* After one failure the files may hold less while the next save is written:
\* it has to be complete before another may fail.
DiskInv ==
  overlap = "none" /\ failures <= 1 =>
    /\ jobs = {} => OnDisk \in expected
    /\ \A j \in jobs : /\ users \in expected
                       /\ j.todo = <<"backup">> => file["primary"] = <<users>>
    /\ failures = 0 /\ jobs = {} => PrimaryFine
    /\ failures = 0 => \A j \in jobs : StepFine(j)

StoreAll == StoreTypes /\ StoreInv /\ StoreAlone

-----------------------------------------------------------------------------

\* What is written into a truncated file is all that it holds then.
LEMMA WrittenAlone ==
  ASSUME NEW l PROVE Written(<<>>, l) = {<<l>>}
BY DEF Written

LEMMA ReadableLists ==
  ASSUME NEW l PROVE Readable(<<l>>) /\ ListOf(<<l>>) = l /\ ~Readable(<<>>) /\ <<l>> # <<>>
<1>1. Len(<<l>>) = 1 /\ <<l>>[1] = l
  OBVIOUS
<1>2. Len(<<>>) = 0
  OBVIOUS
<1> QED
  BY <1>1, <1>2 DEF Readable, ListOf

\* The three kinds of contents a file may have; one can be read.
LEMMA ContentsAre ==
  ASSUME NEW c \in Contents
  PROVE  \/ c = <<>> /\ ~Readable(c)
         \/ Readable(c) /\ ListOf(c) \in Lists /\ c = <<ListOf(c)>>
         \/ ~Readable(c) /\ c \in Lists \X Lists
<1>1. CASE c = <<>>
  BY <1>1, ReadableLists
<1>2. ASSUME NEW l \in Lists, c = <<l>>
      PROVE  Readable(c) /\ ListOf(c) \in Lists /\ c = <<ListOf(c)>>
  BY <1>2, ReadableLists
<1>3. ASSUME NEW l \in Lists, NEW m \in Lists, c = <<l, m>> PROVE ~Readable(c)
  BY <1>3 DEF Readable
<1> QED
  BY <1>1, <1>2, <1>3 DEF Contents

LEMMA WrittenTypes ==
  ASSUME NEW c \in Contents, NEW l \in Lists PROVE Written(c, l) \subseteq Contents
<1>1. <<l>> \in Contents
  BY DEF Contents
<1>2. CASE c = <<>>
  BY <1>1, <1>2, WrittenAlone
<1>3. ASSUME NEW last \in Lists PROVE <<l, last>> \in Contents
  BY DEF Contents
<1>4. CASE Readable(c) /\ ListOf(c) \in Lists /\ c = <<ListOf(c)>>
  <2>1. c[Len(c)] \in Lists
    BY <1>4 DEF Readable, ListOf
  <2> QED
    BY <1>1, <1>3, <2>1 DEF Written
<1>5. CASE c \in Lists \X Lists
  <2>1. Len(c) = 2 /\ c[2] \in Lists
    BY <1>5
  <2>2. c[Len(c)] \in Lists
    BY <2>1
  <2> QED
    BY <1>1, <1>3, <2>2 DEF Written
<1> QED
  BY <1>2, <1>4, <1>5, ContentsAre

\* The three things a job may still have to write.
LEMMA Todos ==
  /\ Head(<<"backup", "primary">>) = "backup" /\ Tail(<<"backup", "primary">>) = <<"primary">>
  /\ Head(<<"primary">>) = "primary" /\ Head(<<"backup">>) = "backup"
  /\ Len(<<"backup", "primary">>) = 2 /\ Len(<<"primary">>) = 1 /\ Len(<<"backup">>) = 1
  /\ <<"backup", "primary">> # <<"backup">> /\ <<"backup", "primary">> # <<"primary">>
  /\ <<"primary">> # <<"backup">>
  /\ "primary" \in Files /\ "backup" \in Files
<1>1. Len(<<"backup", "primary">>) = 2 /\ Len(<<"primary">>) = 1 /\ Len(<<"backup">>) = 1
  OBVIOUS
<1>2. <<"primary">>[1] = "primary" /\ <<"backup">>[1] = "backup"
  OBVIOUS
<1>3. <<"primary">> # <<"backup">>
  BY <1>2
<1> QED
  BY <1>1, <1>3 DEF Files

LEMMA StoreInit == Init => StoreAll
<1> SUFFICES ASSUME Init PROVE StoreAll
  OBVIOUS
<1>1. PICK l \in Lists : file \in {[f \in Files |-> <<l>>], [f \in Files |-> <<>>]}
  BY DEF Init
<1>2. <<l>> \in Contents /\ <<>> \in Contents
  BY DEF Contents
<1>3. file \in [Files -> Contents]
  BY <1>1, <1>2
<1>4. {} \in Lists
  BY DEF Lists
<1>5. StoreTypes
  BY <1>3, <1>4 DEF Init, StoreTypes
<1>6. StoreInv /\ StoreAlone
  BY DEF Init, StoreInv, StoreAlone
<1> QED
  BY <1>5, <1>6 DEF StoreAll

\* A change is begun when the list is loaded and its backup is written.
LEMMA ChangeBegins ==
  ASSUME StoreAll, NEW u \in Users, Enrol(u) \/ Delete(u)
  PROVE  /\ loading = "done" /\ shown' \in Lists
         /\ \A j \in jobs : j.by # "load"
         /\ \E list \in Lists, by \in {"enrol", "delete"} : SaveUsers(list, by)
<1>1. users \in Lists /\ shown \in Lists
  BY DEF StoreAll, StoreTypes
<1>2. users \cup {u} \in Lists /\ users \ {u} \in Lists
  BY <1>1 DEF Lists
<1>3. CASE Enrol(u)
  BY <1>1, <1>2, <1>3 DEF Enrol, Loading
<1>4. CASE Delete(u)
  <2>1. shown # {} /\ SaveUsers(users \ {u}, "delete") /\ shown' = users'
    BY <1>4 DEF Delete
  <2>2. loading = "done" /\ \A j \in jobs : j.by # "load"
    BY <2>1 DEF StoreAll, StoreInv
  <2>3. users' = users \ {u}
    BY <2>1 DEF SaveUsers
  <2> QED
    BY <1>2, <2>1, <2>2, <2>3
<1> QED
  BY <1>3, <1>4

LEMMA SaveStep ==
  ASSUME StoreAll, NEW list \in Lists, NEW by \in {"enrol", "delete"},
         loading = "done", \A j \in jobs : j.by # "load",
         SaveUsers(list, by), shown' \in Lists
  PROVE  StoreAll'
<1> DEFINE j == [id |-> saves', by |-> by, list |-> list, open |-> FALSE,
                 todo |-> <<"backup", "primary">>]
<1>1. /\ jobs' = jobs \cup {j} /\ users' = list /\ saved' = FALSE /\ saves' = saves + 1
      /\ overlap' = IF jobs # {} THEN "now" ELSE IF overlap = "now" THEN "past" ELSE overlap
      /\ UNCHANGED <<file, loading, failures>>
  BY DEF SaveUsers
<1>2. saves' \in Nat
  BY <1>1 DEF StoreAll, StoreTypes
<1>3. j \in JobTypes /\ j.by # "load" /\ j.todo # <<"backup">> /\ ~j.open /\ j.list = list
  BY <1>1, <1>2, Todos DEF JobTypes
<1> HIDE DEF j
<1>4. StoreTypes'
  BY <1>1, <1>2, <1>3 DEF StoreAll, StoreTypes
<1>5. StoreInv'
  BY <1>1, <1>3 DEF StoreAll, StoreInv
<1>6. StoreAlone'
  BY <1>1, <1>3 DEF StoreAlone
<1> QED
  BY <1>4, <1>5, <1>6 DEF StoreAll

LEMMA JobFacts ==
  ASSUME StoreAll, NEW j \in jobs
  PROVE  /\ loading = "done" /\ ~saved /\ j \in JobTypes
         /\ j.by = "load" <=> j.todo = <<"backup">>
         /\ j.by = "load" => shown = {} /\ jobs = {j}
         /\ overlap # "now" => /\ jobs = {j} /\ jobs \ {j} = {} /\ j.list = users
                               /\ j.open => file[Head(j.todo)] = <<>>
<1>1. loading = "done" /\ ~saved /\ (j.by = "load" => shown = {} /\ jobs = {j})
  BY DEF StoreAll, StoreInv
<1>2. j \in JobTypes /\ (j.by = "load" <=> j.todo = <<"backup">>)
  BY DEF StoreAll, StoreTypes
<1>3. overlap # "now" => /\ jobs = {j} /\ j.list = users
                         /\ j.open => file[Head(j.todo)] = <<>>
  BY DEF StoreAll, StoreAlone
<1> QED
  BY <1>1, <1>2, <1>3

LEMMA JobTodo ==
  ASSUME NEW j \in JobTypes
  PROVE  /\ j.todo \in {<<"backup", "primary">>, <<"primary">>, <<"backup">>}
         /\ Head(j.todo) \in Files
         /\ Len(j.todo) = 1 <=> j.todo # <<"backup", "primary">>
<1>1. j.todo \in {<<"backup", "primary">>, <<"primary">>, <<"backup">>}
  BY DEF JobTypes
<1> QED
  BY <1>1, Todos

LEMMA OpenStep ==
  ASSUME StoreAll, NEW j \in jobs, OpenFile(j)
  PROVE  /\ StoreAll'
         /\ overlap # "now" => jobs' = {[j EXCEPT !.open = TRUE]}
         /\ file' = [file EXCEPT ![Head(j.todo)] = <<>>]
<1> DEFINE k == [j EXCEPT !.open = TRUE]
<1>1. /\ jobs' = (jobs \ {j}) \cup {k} /\ file' = [file EXCEPT ![Head(j.todo)] = <<>>]
      /\ UNCHANGED <<users, shown, loading, saves, saved, expected, failures, overlap>>
  BY DEF OpenFile
<1>2. Head(j.todo) \in Files
  BY JobFacts, JobTodo
<1>3. file \in [Files -> Contents] /\ <<>> \in Contents
  BY DEF StoreAll, StoreTypes, Contents
<1>4. file' \in [Files -> Contents] /\ file'[Head(j.todo)] = <<>>
  BY <1>1, <1>2, <1>3
<1>5. k \in JobTypes /\ k.todo = j.todo /\ k.by = j.by /\ k.list = j.list
  BY JobFacts DEF JobTypes
<1> HIDE DEF k
<1>6. StoreTypes'
  BY <1>1, <1>4, <1>5, JobFacts DEF StoreAll, StoreTypes
<1>7. StoreInv'
  <2>1. ASSUME NEW i \in jobs', i.by = "load" PROVE shown = {} /\ jobs' = {i}
    BY <1>1, <1>5, <2>1, JobFacts DEF StoreAll, StoreInv
  <2> QED
    BY <1>1, <2>1, JobFacts DEF StoreAll, StoreInv
<1>8. overlap # "now" => jobs' = {k}
  BY <1>1, JobFacts
<1>9. StoreAlone'
  BY <1>1, <1>4, <1>5, <1>8, JobFacts DEF StoreAlone
<1> QED
  BY <1>1, <1>6, <1>7, <1>8, <1>9 DEF StoreAll, k

\* A write of a save that is alone puts the list in memory into the file that
\* was truncated, and the save goes on with the next file or is over; of saves
\* that overlap only the types are kept.
LEMMA WriteStep ==
  ASSUME StoreAll, NEW j \in jobs, WriteFile(j)
  PROVE  /\ StoreAll' /\ UNCHANGED <<users, loading>>
         /\ overlap = "now" => overlap' = "now"
         /\ overlap # "now" =>
              /\ file' = [file EXCEPT ![Head(j.todo)] = <<users>>]
              /\ \/ /\ j.todo = <<"backup", "primary">>
                    /\ jobs' = {[j EXCEPT !.open = FALSE, !.todo = <<"primary">>]}
                    /\ UNCHANGED <<expected, failures, overlap>>
                 \/ j.todo = <<"primary">> /\ jobs' = {} /\ expected' = {users}
                 \/ /\ j.todo = <<"backup">> /\ jobs' = {}
                    /\ UNCHANGED <<expected, failures, overlap>>
<1> DEFINE k == [j EXCEPT !.open = FALSE, !.todo = <<"primary">>]
           f == Head(j.todo)
<1>0. /\ loading = "done" /\ ~saved /\ j \in JobTypes /\ f \in Files /\ j.list \in Lists
      /\ j.by = "load" <=> j.todo = <<"backup">>
      /\ j.by = "load" => shown = {} /\ jobs = {j}
      /\ saves \in Nat /\ failures \in Nat /\ users \in Lists /\ shown \in Lists
      /\ file \in [Files -> Contents]
      /\ overlap \in {"none", "past", "now"}
  BY JobFacts, JobTodo DEF StoreAll, StoreTypes, JobTypes
<1>1. PICK c \in Written(file[f], j.list) : file' = [file EXCEPT ![f] = c]
  BY DEF WriteFile
<1>2. file' \in [Files -> Contents]
  <2>1. c \in Contents
    BY <1>0, <1>1, WrittenTypes
  <2> QED
    BY <1>0, <1>1, <2>1
<1>3. overlap # "now" => file' = [file EXCEPT ![f] = <<users>>]
  <2> SUFFICES ASSUME overlap # "now" PROVE c = <<users>>
    BY <1>1
  <2>1. file[f] = <<>> /\ j.list = users
    BY JobFacts DEF WriteFile
  <2> QED
    BY <1>1, <2>1, WrittenAlone
<1>4. UNCHANGED <<users, loading, saves>>
  BY DEF WriteFile
<1>5. CASE j.todo = <<"backup", "primary">>
  <2>1. jobs' = (jobs \ {j}) \cup {k} /\ UNCHANGED <<shown, saved, expected, failures, overlap>>
    <3>1. Len(j.todo) # 1 /\ Tail(j.todo) = <<"primary">>
      BY <1>5, Todos
    <3>2. [j EXCEPT !.open = FALSE, !.todo = Tail(@)] = k
      BY <1>0, <3>1 DEF JobTypes
    <3> QED
      BY <3>1, <3>2 DEF WriteFile
  <2>2. k \in JobTypes /\ k.by = j.by /\ k.todo = <<"primary">> /\ ~k.open /\ k.list = j.list
    BY <1>0 DEF JobTypes
  <2>3. j.by # "load" /\ k.todo # <<"backup">>
    BY <1>0, <1>5, <2>2, Todos
  <2> HIDE DEF k
  <2>4. StoreTypes'
    BY <1>0, <1>2, <1>4, <2>1, <2>2, <2>3 DEF StoreAll, StoreTypes
  <2>5. StoreInv'
    <3>1. \A i \in jobs : i.by # "load"
      BY <1>0, <2>3 DEF StoreAll, StoreInv
    <3> QED
      BY <1>0, <1>4, <2>1, <2>2, <2>3, <3>1 DEF StoreInv
  <2>6. overlap # "now" => jobs' = {k}
    BY <2>1, JobFacts
  <2>7. StoreAlone'
    BY <1>4, <2>1, <2>2, <2>6, JobFacts DEF StoreAlone
  <2> QED
    BY <1>3, <1>4, <1>5, <2>1, <2>4, <2>5, <2>6, <2>7 DEF StoreAll, k
<1>6. CASE j.todo # <<"backup", "primary">>
  <2>1. Len(j.todo) = 1 /\ j.todo \in {<<"primary">>, <<"backup">>}
    BY <1>0, <1>6, JobTodo
  <2>2. /\ jobs' = jobs \ {j} /\ shown' \in Lists
        /\ saved' = (IF j.by = "load" THEN saved ELSE jobs' = {})
        /\ expected' = IF saved' THEN {users} ELSE expected
        /\ IF j.by # "load" /\ overlap # "now"
           THEN failures' = 0 /\ overlap' = "none"
           ELSE UNCHANGED <<failures, overlap>>
    BY <1>0, <2>1 DEF WriteFile
  <2>3. /\ saved' \in BOOLEAN /\ failures' \in Nat /\ overlap' \in {"none", "past", "now"}
        /\ jobs' # {} => ~saved'
    <3>1. CASE j.by = "load"
      <4>1. saved' = saved /\ UNCHANGED <<failures, overlap>>
        BY <2>2, <3>1
      <4> QED
        BY <1>0, <4>1 DEF StoreAll, StoreTypes
    <3>2. CASE j.by # "load"
      <4>1. saved' = (jobs' = {})
        BY <2>2, <3>2
      <4>2. failures' \in Nat /\ overlap' \in {"none", "past", "now"}
        BY <1>0, <2>2, SMT
      <4> QED
        BY <4>1, <4>2
    <3> QED
      BY <3>1, <3>2
  <2>4. StoreTypes'
    BY <1>0, <1>2, <1>4, <2>2, <2>3 DEF StoreAll, StoreTypes
  <2>5. \A i \in jobs' : i.by # "load"
    BY <1>0, <2>2 DEF StoreAll, StoreInv
  <2>6. StoreAlone'
    BY <1>0, <2>2, JobFacts DEF StoreAlone
  <2>7. overlap' = "none" /\ saved' => file'["primary"] = <<users'>>
    <3> SUFFICES ASSUME overlap' = "none", saved' PROVE file'["primary"] = <<users'>>
      OBVIOUS
    <3>1. j.by # "load" /\ overlap # "now"
      BY <1>0, <2>2
    <3>2. j.todo = <<"primary">>
      BY <1>0, <2>1, <3>1
    <3> QED
      BY <1>0, <1>3, <1>4, <3>1, <3>2, Todos
  <2>8. StoreInv'
    BY <1>0, <1>4, <2>3, <2>5, <2>7 DEF StoreInv
  <2>9. overlap # "now" => jobs' = {}
    BY <2>2, JobFacts
  <2>10. CASE j.todo = <<"primary">>
    <3>1. j.by # "load"
      BY <1>0, <2>10, Todos
    <3> QED
      BY <1>3, <1>4, <2>2, <2>4, <2>6, <2>8, <2>9, <2>10, <3>1 DEF StoreAll
  <2>11. CASE j.todo = <<"backup">>
    <3>1. j.by = "load" /\ ~saved'
      BY <1>0, <2>2, <2>11
    <3> QED
      BY <1>3, <1>4, <2>2, <2>4, <2>6, <2>8, <2>9, <2>11, <3>1 DEF StoreAll
  <2> QED
    BY <2>1, <2>10, <2>11
<1> QED
  BY <1>5, <1>6

LEMMA FailStep ==
  ASSUME StoreAll, NEW j \in jobs, WriteFails(j)
  PROVE  /\ StoreAll' /\ UNCHANGED <<file, expected, overlap>>
         /\ failures' = failures + 1 /\ (overlap # "now" => jobs' = {})
<1>1. /\ jobs' = jobs \ {j} /\ failures' = failures + 1 /\ shown' \in {users, shown}
      /\ UNCHANGED <<users, file, loading, saves, saved, expected, overlap>>
      /\ ~saved /\ loading = "done"
  BY JobFacts DEF WriteFails
<1>2. StoreTypes'
  BY <1>1 DEF StoreAll, StoreTypes
<1>3. \A i \in jobs' : i.by # "load"
  <2>1. ASSUME NEW i \in jobs, i.by = "load" PROVE jobs = {i}
    BY <2>1 DEF StoreAll, StoreInv
  <2> QED
    BY <1>1, <2>1
<1>4. StoreInv'
  BY <1>1, <1>3 DEF StoreInv
<1>5. overlap # "now" => jobs' = {}
  BY <1>1, JobFacts
<1>6. StoreAlone'
  BY <1>1, <1>5 DEF StoreAlone
<1> QED
  BY <1>1, <1>2, <1>4, <1>5, <1>6 DEF StoreAll

LEMMA RestartStep ==
  ASSUME StoreAll, Restart
  PROVE  /\ StoreAll' /\ jobs' = {} /\ loading' # "done"
         /\ UNCHANGED <<file, expected, overlap>>
         /\ failures' = IF jobs = {} THEN failures ELSE failures + 1
<1>1. failures' \in Nat /\ {} \in Lists
  BY DEF StoreAll, StoreTypes, Restart, Lists
<1>2. StoreTypes'
  BY <1>1 DEF StoreAll, StoreTypes, Restart
<1> QED
  BY <1>2 DEF StoreAll, StoreInv, StoreAlone, Restart

\* Loading takes what is on the disk, and a list from the primary file is
\* written to the backup.
LEMMA LoadStep ==
  ASSUME StoreAll, LoadPrimary \/ LoadBackup
  PROVE  /\ StoreAll'
         /\ jobs = {} /\ UNCHANGED <<file, failures, expected, overlap>>
         /\ loading' = "done" => users' = OnDisk
         /\ jobs' # {} => file["primary"] = <<users'>> /\ loading' = "done"
         /\ \A j \in jobs' : j.todo = <<"backup">>
<1>1. jobs = {} /\ users = {} /\ shown = {} /\ ~saved
  BY DEF StoreAll, StoreInv, LoadPrimary, LoadBackup
<1>2. UNCHANGED <<file, saves, saved, expected, failures, overlap>>
  BY DEF LoadPrimary, LoadBackup
<1>3. users \in Lists /\ saves \in Nat /\ failures \in Nat /\ file \in [Files -> Contents]
  BY DEF StoreAll, StoreTypes
<1>4. file["primary"] \in Contents /\ file["backup"] \in Contents
  BY <1>3, Todos
<1>5. CASE LoadPrimary /\ Readable(file["primary"])
  <2> DEFINE j == [id |-> 0, by |-> "load", list |-> users',
                   open |-> FALSE, todo |-> <<"backup">>]
  <2>1. /\ loading' = "done" /\ users' = file["primary"][1] /\ jobs' = {j} /\ shown' = shown
    BY <1>1, <1>5 DEF LoadPrimary
  <2>2. users' \in Lists /\ file["primary"] = <<users'>> /\ users' = OnDisk
    BY <1>4, <1>5, <2>1, ContentsAre DEF ListOf, OnDisk
  <2>3. j \in JobTypes /\ j.by = "load" /\ j.todo = <<"backup">> /\ ~j.open /\ j.list = users'
    BY <2>2 DEF JobTypes
  <2> HIDE DEF j
  <2>4. StoreTypes'
    BY <1>2, <1>3, <2>1, <2>2, <2>3 DEF StoreAll, StoreTypes
  <2>5. StoreInv' /\ StoreAlone'
    BY <1>1, <1>2, <2>1, <2>3 DEF StoreInv, StoreAlone
  <2> QED
    BY <1>1, <1>2, <2>1, <2>2, <2>3, <2>4, <2>5 DEF StoreAll
<1>6. CASE LoadPrimary /\ ~Readable(file["primary"])
  <2>1. loading' = "backup" /\ UNCHANGED <<users, jobs, shown>>
    BY <1>6 DEF LoadPrimary
  <2>2. StoreTypes'
    BY <1>1, <1>2, <1>3, <2>1 DEF StoreAll, StoreTypes
  <2>3. StoreInv' /\ StoreAlone'
    BY <1>1, <1>2, <1>6, <2>1 DEF StoreInv, StoreAlone
  <2> QED
    BY <1>1, <1>2, <2>1, <2>2, <2>3 DEF StoreAll
<1>7. CASE LoadBackup
  <2>1. loading' = "done" /\ jobs' = {} /\ shown' = users' /\ ~Readable(file["primary"])
    BY <1>1, <1>7 DEF LoadBackup, StoreAll, StoreInv
  <2>2. users' = OnDisk
    BY <1>1, <1>7, <2>1 DEF LoadBackup, OnDisk
  <2>3. users' \in Lists
    BY <1>3, <1>4, <1>7, ContentsAre DEF LoadBackup, ListOf
  <2>4. StoreTypes'
    BY <1>1, <1>2, <1>3, <2>1, <2>3 DEF StoreAll, StoreTypes
  <2>5. StoreInv' /\ StoreAlone'
    BY <1>1, <1>2, <2>1 DEF StoreInv, StoreAlone
  <2> QED
    BY <1>1, <1>2, <2>1, <2>2, <2>4, <2>5 DEF StoreAll
<1> QED
  BY <1>5, <1>6, <1>7

LEMMA StoreStep == StoreAll /\ [Next]_vars => StoreAll'
<1> SUFFICES ASSUME StoreAll, [Next]_vars PROVE StoreAll'
  OBVIOUS
<1>1. ASSUME NEW u \in Users, Enrol(u) \/ Delete(u) PROVE StoreAll'
  BY <1>1, ChangeBegins, SaveStep
<1>2. ASSUME NEW j \in jobs, OpenFile(j) \/ WriteFile(j) \/ WriteFails(j) PROVE StoreAll'
  BY <1>2, OpenStep, WriteStep, FailStep
<1>3. CASE Restart
  BY <1>3, RestartStep
<1>4. CASE LoadPrimary \/ LoadBackup
  BY <1>4, LoadStep
<1>5. CASE UNCHANGED vars
  <2>1. StoreTypes'
    BY <1>5 DEF vars, StoreAll, StoreTypes
  <2>2. StoreInv' /\ StoreAlone'
    BY <1>5 DEF vars, StoreAll, StoreInv, StoreAlone
  <2> QED
    BY <2>1, <2>2 DEF StoreAll
<1> QED
  BY <1>1, <1>2, <1>3, <1>4, <1>5 DEF Next

-----------------------------------------------------------------------------

(***************************************************************************)
(* What has been reported as saved by a save that no other overlapped is   *)
(* what a restart loads: no enrolled face is missing and no deleted one    *)
(* returns.  It is so whatever saves that overlapped, failed or were cut   *)
(* off have left in the files before.                                      *)
(***************************************************************************)
THEOREM SaveIsDurable == Spec => []SavedIsDurable
<1>1. Init => StoreAll
  BY StoreInit
<1>2. StoreAll /\ [Next]_vars => StoreAll'
  BY StoreStep
<1>3. StoreAll => SavedIsDurable
  BY ReadableLists DEF StoreAll, StoreInv, SavedIsDurable, OnDisk, ListOf
<1> QED
  BY <1>1, <1>2, <1>3, PTL DEF Spec

-----------------------------------------------------------------------------

LEMMA DiskInit == Init => DiskInv
<1> SUFFICES ASSUME Init PROVE DiskInv
  OBVIOUS
<1>1. PICK l \in Lists :
        /\ file \in {[f \in Files |-> <<l>>], [f \in Files |-> <<>>]}
        /\ expected = IF file["primary"] = <<>> THEN {{}} ELSE {l}
  BY DEF Init
<1>2. CASE file = [f \in Files |-> <<l>>]
  <2>1. file["primary"] = <<l>> /\ file["backup"] = <<l>> /\ expected = {l}
    BY <1>1, <1>2, Todos, ReadableLists
  <2> QED
    BY <2>1, ReadableLists DEF Init, DiskInv, OnDisk, PrimaryFine, ListOf
<1>3. CASE file = [f \in Files |-> <<>>]
  <2>1. file["primary"] = <<>> /\ file["backup"] = <<>> /\ expected = {{}}
    BY <1>1, <1>3, Todos
  <2> QED
    BY <2>1, ReadableLists DEF Init, DiskInv, OnDisk, PrimaryFine, ListOf
<1> QED
  BY <1>1, <1>2, <1>3

\* While nothing has failed, a restart comes up with an expected list at every
\* step of a save.
LEMMA StepOnDisk ==
  ASSUME NEW j \in JobTypes, users \in expected, StepFine(j)
  PROVE  OnDisk \in expected
<1>1. j.todo \in {<<"backup", "primary">>, <<"primary">>, <<"backup">>}
  BY JobTodo
<1>2. CASE j.todo = <<"backup", "primary">>
  BY <1>2, Todos, ReadableLists DEF StepFine, PrimaryFine, OnDisk, ListOf
<1>3. CASE j.todo = <<"primary">>
  BY <1>3, Todos, ReadableLists DEF StepFine, OnDisk, ListOf
<1>4. CASE j.todo = <<"backup">>
  BY <1>4, Todos, ReadableLists DEF StepFine, OnDisk, ListOf
<1> QED
  BY <1>1, <1>2, <1>3, <1>4

LEMMA ChangeDisk ==
  ASSUME StoreAll, DiskInv, NEW u \in Users, Enrol(u) \/ Delete(u)
  PROVE  DiskInv'
<1> SUFFICES ASSUME overlap' = "none", failures' <= 1 PROVE DiskInv'
  BY DEF DiskInv
<1>1. PICK list \in Lists, by \in {"enrol", "delete"} : SaveUsers(list, by)
  BY ChangeBegins
<1>2. /\ users' = list /\ expected' = expected \cup {list} /\ UNCHANGED <<file, failures>>
      /\ jobs = {} /\ overlap = "none"
  BY <1>1 DEF SaveUsers
<1>3. PICK j : jobs' = {j} /\ j.todo = <<"backup", "primary">>
  <2> DEFINE j == [id |-> saves', by |-> by, list |-> list, open |-> FALSE,
                   todo |-> <<"backup", "primary">>]
  <2>1. jobs' = {j} /\ j.todo = <<"backup", "primary">>
    BY <1>1, <1>2 DEF SaveUsers
  <2> QED
    BY <2>1
<1>4. ASSUME failures' = 0 PROVE StepFine(j)'
  <2>1. PrimaryFine
    BY <1>2, <1>4 DEF DiskInv
  <2>2. PrimaryFine'
    BY <1>2, <2>1 DEF PrimaryFine
  <2> QED
    BY <1>3, <2>2 DEF StepFine
<1>5. j.todo # <<"backup">> /\ users' \in expected' /\ jobs' # {}
  BY <1>2, <1>3, Todos
<1> QED
  BY <1>3, <1>4, <1>5 DEF DiskInv

LEMMA OpenDisk ==
  ASSUME StoreAll, DiskInv, NEW j \in jobs, OpenFile(j)
  PROVE  DiskInv'
<1> DEFINE k == [j EXCEPT !.open = TRUE]
<1>1. UNCHANGED <<users, failures, expected, overlap>>
  BY DEF OpenFile
<1> SUFFICES ASSUME overlap = "none", failures <= 1 PROVE DiskInv'
  BY <1>1 DEF DiskInv
<1>2. jobs' = {k} /\ file' = [file EXCEPT ![Head(j.todo)] = <<>>]
  BY OpenStep
<1>3. k.todo = j.todo
  BY JobFacts DEF JobTypes
<1> HIDE DEF k
<1>4. j.todo \in {<<"backup", "primary">>, <<"primary">>, <<"backup">>}
  BY JobFacts, JobTodo
<1>5. file \in [Files -> Contents]
  BY DEF StoreAll, StoreTypes
<1>6. Head(j.todo) = "backup" => file'["primary"] = file["primary"] /\ file'["backup"] = <<>>
  BY <1>2, <1>5, Todos
<1>7. Head(j.todo) = "primary" => file'["backup"] = file["backup"] /\ file'["primary"] = <<>>
  BY <1>2, <1>5, Todos
<1>8. ASSUME failures = 0 PROVE StepFine(k)'
  <2>1. StepFine(j)
    BY <1>8 DEF DiskInv
  <2>2. CASE j.todo = <<"backup", "primary">>
    BY <1>1, <1>3, <1>6, <2>1, <2>2, Todos DEF StepFine, PrimaryFine
  <2>3. CASE j.todo = <<"primary">>
    BY <1>1, <1>3, <1>7, <2>1, <2>3, Todos, ReadableLists DEF StepFine
  <2>4. CASE j.todo = <<"backup">>
    BY <1>1, <1>3, <1>6, <2>1, <2>4, Todos DEF StepFine
  <2> QED
    BY <1>4, <2>2, <2>3, <2>4
<1>9. users' \in expected' /\ (k.todo = <<"backup">> => file'["primary"] = <<users'>>)
  BY <1>1, <1>3, <1>6, Todos DEF DiskInv
<1> QED
  BY <1>1, <1>2, <1>8, <1>9 DEF DiskInv

\* A save that ends alone leaves the primary file with the list in memory,
\* whatever was in it before.
LEMMA WriteDisk ==
  ASSUME StoreAll, DiskInv, NEW j \in jobs, WriteFile(j)
  PROVE  DiskInv'
<1> SUFFICES ASSUME overlap' = "none", failures' <= 1 PROVE DiskInv'
  BY DEF DiskInv
<1>1. /\ overlap # "now" /\ users' = users
      /\ file' = [file EXCEPT ![Head(j.todo)] = <<users>>]
  BY WriteStep
<1>2. file \in [Files -> Contents]
  BY DEF StoreAll, StoreTypes
<1>3. Head(j.todo) = "backup" => file'["primary"] = file["primary"] /\ file'["backup"] = <<users>>
  BY <1>1, <1>2, Todos
<1>4. Head(j.todo) = "primary" => file'["backup"] = file["backup"] /\ file'["primary"] = <<users>>
  BY <1>1, <1>2, Todos
<1>5. CASE j.todo = <<"backup", "primary">>
  <2> DEFINE k == [j EXCEPT !.open = FALSE, !.todo = <<"primary">>]
  <2>1. jobs' = {k} /\ UNCHANGED <<expected, failures, overlap>>
    BY <1>1, <1>5, WriteStep, Todos
  <2>2. k.todo = <<"primary">>
    BY JobFacts DEF JobTypes
  <2> HIDE DEF k
  <2>3. users \in expected /\ (failures = 0 => StepFine(j))
    BY <2>1 DEF DiskInv
  <2>4. ASSUME failures = 0 PROVE StepFine(k)'
    <3>1. StepFine(j)
      BY <2>3, <2>4
    <3>2. Readable(file["primary"]) => ListOf(file["primary"]) \in expected
      BY <1>5, <3>1, Todos DEF StepFine, PrimaryFine
    <3> QED
      BY <1>1, <1>3, <1>5, <2>1, <2>2, <3>2, Todos DEF StepFine
  <2> QED
    BY <1>1, <2>1, <2>2, <2>3, <2>4, Todos DEF DiskInv
<1>6. CASE j.todo # <<"backup", "primary">>
  <2>1. jobs' = {} /\ users \in expected' /\ file'["primary"] = <<users>>
    <3>1. CASE j.todo = <<"primary">>
      BY <1>1, <1>4, <3>1, WriteStep, Todos
    <3>2. CASE j.todo = <<"backup">>
      <4>1. jobs' = {} /\ UNCHANGED <<expected, failures, overlap>>
        BY <1>1, <3>2, WriteStep, Todos
      <4> QED
        BY <1>3, <3>2, <4>1, Todos DEF DiskInv
    <3> QED
      BY <1>6, <3>1, <3>2, JobFacts, JobTodo
  <2> QED
    BY <1>1, <2>1, ReadableLists DEF DiskInv, OnDisk, PrimaryFine, ListOf
<1> QED
  BY <1>5, <1>6

\* The first failure: whichever step it failures off, the disk is fine.
LEMMA FailDisk ==
  ASSUME StoreAll, DiskInv, jobs # {}, failures' = failures + 1,
         overlap # "now" => jobs' = {}, UNCHANGED <<file, expected, overlap>>
  PROVE  DiskInv'
<1> SUFFICES ASSUME overlap = "none", failures' <= 1 PROVE DiskInv'
  BY DEF DiskInv
<1>1. failures = 0 /\ failures' # 0 /\ jobs' = {}
  BY DEF StoreAll, StoreTypes
<1>2. PICK j \in jobs : TRUE
  OBVIOUS
<1>3. OnDisk \in expected
  BY <1>1, <1>2, StepOnDisk, JobFacts DEF DiskInv
<1>4. OnDisk' = OnDisk
  BY DEF OnDisk
<1> QED
  BY <1>1, <1>3, <1>4 DEF DiskInv

LEMMA LoadDisk ==
  ASSUME StoreAll, DiskInv, LoadPrimary \/ LoadBackup
  PROVE  /\ DiskInv'
         /\ overlap = "none" /\ failures <= 1 /\ loading' = "done" => users' \in expected
<1>1. /\ jobs = {} /\ UNCHANGED <<file, failures, expected, overlap>>
      /\ loading' = "done" => users' = OnDisk
      /\ jobs' # {} => file["primary"] = <<users'>> /\ loading' = "done"
      /\ \A j \in jobs' : j.todo = <<"backup">>
  BY LoadStep
<1> SUFFICES ASSUME overlap = "none", failures <= 1
             PROVE  DiskInv' /\ (loading' = "done" => users' \in expected)
  BY <1>1 DEF DiskInv
<1>2. OnDisk \in expected /\ OnDisk' = OnDisk
  BY <1>1 DEF DiskInv, OnDisk
<1>3. ASSUME NEW j \in jobs' PROVE users' \in expected /\ StepFine(j)'
  <2>1. file["primary"] = <<users'>> /\ j.todo = <<"backup">> /\ users' = OnDisk
    BY <1>1, <1>3
  <2> QED
    BY <1>1, <1>2, <2>1, Todos DEF StepFine
<1>4. failures' = 0 /\ jobs' = {} => PrimaryFine'
  BY <1>1 DEF DiskInv, PrimaryFine
<1> QED
  BY <1>1, <1>2, <1>3, <1>4 DEF DiskInv

LEMMA DiskStep ==
  ASSUME StoreAll, DiskInv, [Next]_vars
  PROVE  /\ DiskInv'
         /\ loading # "done" /\ loading' = "done" /\ overlap = "none" /\ failures <= 1
              => users' \in expected
<1>1. ASSUME NEW u \in Users, Enrol(u) \/ Delete(u)
      PROVE  DiskInv' /\ loading' = loading
  BY <1>1, ChangeDisk DEF Enrol, Delete, SaveUsers
<1>2. ASSUME NEW j \in jobs, OpenFile(j) \/ WriteFile(j)
      PROVE  DiskInv' /\ loading' = loading
  BY <1>2, OpenDisk, WriteDisk DEF OpenFile, WriteFile
<1>3. ASSUME NEW j \in jobs, WriteFails(j)
      PROVE  DiskInv' /\ loading' = loading
  BY <1>3, FailStep, FailDisk DEF WriteFails
<1>4. CASE Restart
  <2>1. /\ jobs' = {} /\ loading' # "done" /\ UNCHANGED <<file, expected, overlap>>
        /\ failures' = IF jobs = {} THEN failures ELSE failures + 1
    BY <1>4, RestartStep
  <2>2. CASE jobs # {}
    BY <2>1, <2>2, FailDisk
  <2>3. CASE jobs = {}
    BY <2>1, <2>3 DEF DiskInv, OnDisk, PrimaryFine
  <2> QED
    BY <2>1, <2>2, <2>3
<1>5. CASE LoadPrimary \/ LoadBackup
  BY <1>5, LoadDisk
<1>6. CASE UNCHANGED vars
  <2>1. UNCHANGED <<users, file, jobs, loading, failures, expected, overlap>>
    BY <1>6 DEF vars
  <2>2. PrimaryFine' = PrimaryFine /\ OnDisk' = OnDisk
    BY <2>1 DEF PrimaryFine, OnDisk
  <2>3. ASSUME NEW j \in jobs, StepFine(j) PROVE StepFine(j)'
    BY <2>1, <2>2, <2>3 DEF StepFine
  <2> QED
    BY <2>1, <2>2, <2>3 DEF DiskInv
<1> QED
  BY <1>1, <1>2, <1>3, <1>4, <1>5, <1>6 DEF Next

(***************************************************************************)
(* Wherever a save fails or is cut off, a restart comes up with the list   *)
(* as it was saved last or as it was being saved, never with less, if      *)
(* there was at most one such failure and no overlap of saves since the    *)
(* last save that was alone and complete.                                  *)
(***************************************************************************)
THEOREM RestartIsSafe == Spec => RestartKeepsList
<1> DEFINE Inv == StoreAll /\ DiskInv
<1>1. Init => Inv
  BY StoreInit, DiskInit
<1>2. Inv /\ [Next]_vars => Inv'
  BY StoreStep, DiskStep
<1>3. Inv /\ [Next]_vars =>
        [loading # "done" /\ loading' = "done" /\ overlap = "none" /\ failures <= 1
           => users' \in expected]_vars
  BY DiskStep
<1> HIDE DEF Inv
<1> QED
  BY <1>1, <1>2, <1>3, PTL DEF Spec, RestartKeepsList
=============================================================================
