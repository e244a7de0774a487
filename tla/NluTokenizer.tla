---------------------------- MODULE NluTokenizer ----------------------------
(***************************************************************************)
(* The tokenizer of the on-device language understanding                   *)
(* (entry/src/main/cpp/nlu_tokenizer.cpp): from the bytes of a text to the *)
(* token ids that the model reads.                                         *)
(*                                                                         *)
(* A byte is a number below 256, a text or a word a sequence of bytes, a   *)
(* piece and a line of the vocabulary a sequence of code points.  The      *)
(* recursion over positions is written as recursive functions.             *)
(***************************************************************************)
EXTENDS Integers, Sequences, Functions, FiniteSetsExt

CONSTANT MaxWord  \* characters of the longest word that is cut into pieces

Bytes == 0..255
Replacement == 65533  \* U+FFFD, for a byte that starts no character

-----------------------------------------------------------------------------
(* UTF-8 *)

\* The bytes of the character that a first byte announces, 0 for none.
Announced(first) ==
  IF first < 128 THEN 1
  ELSE IF first \in 192..223 THEN 2
  ELSE IF first \in 224..239 THEN 3
  ELSE IF first \in 240..247 THEN 4
  ELSE 0

\* The character at position i and its length.  The bytes that follow the
\* first are not checked; a character that the text cuts off is replaced.
CharAt(t, i) ==
  LET n == Announced(t[i])
      Low(k) == t[i + k] % 64
  IN  IF n = 0 \/ i + n - 1 > Len(t) THEN [cp |-> Replacement, length |-> 1]
      ELSE [cp |-> IF n = 1 THEN t[i]
                   ELSE IF n = 2 THEN ((t[i] % 32) * 64) + Low(1)
                   ELSE IF n = 3 THEN ((t[i] % 16) * 4096) + (Low(1) * 64) + Low(2)
                   ELSE ((t[i] % 8) * 262144) + (Low(1) * 4096) + (Low(2) * 64) + Low(3),
            length |-> n]

DecodeUtf8(t) ==
  LET from[i \in 1..(Len(t) + 1)] ==
        IF i > Len(t) THEN <<>>
        ELSE <<CharAt(t, i).cp>> \o from[i + CharAt(t, i).length]
  IN  from[1]

\* Continuation bytes hold six bits each.
Following(cp, unit) == 128 + ((cp \div unit) % 64)

EncodeUtf8(cp) ==
  IF cp <= 127 THEN <<cp>>
  ELSE IF cp <= 2047 THEN <<192 + (cp \div 64), Following(cp, 1)>>
  ELSE IF cp <= 65535 THEN
    <<224 + (cp \div 4096), Following(cp, 64), Following(cp, 1)>>
  ELSE <<240 + (cp \div 262144), Following(cp, 4096), Following(cp, 64),
         Following(cp, 1)>>

-----------------------------------------------------------------------------
(* Classes of code points *)

IsWhitespace(c) ==
  \/ c \in {32, 9, 10, 13, 160, 5760, 8232, 8233, 8239, 8287, 12288}
  \/ c \in 8192..8202

IsControl(c) ==
  /\ c \notin {9, 10, 13}
  /\ c < 32 \/ c \in 127..159 \/ c = Replacement

Between(c, first, last) == first <= c /\ c <= last

IsChinese(c) ==
  \/ Between(c, 13312, 19903)
  \/ Between(c, 19968, 40959)
  \/ Between(c, 63744, 64255)
  \/ Between(c, 131072, 173791)
  \/ Between(c, 173824, 177983)
  \/ Between(c, 177984, 178207)
  \/ Between(c, 178208, 183983)
  \/ Between(c, 194560, 195103)

IsPunctuation(c) ==
  \/ Between(c, 33, 47)
  \/ Between(c, 58, 64)
  \/ Between(c, 91, 96)
  \/ Between(c, 123, 126)
  \/ Between(c, 8192, 8303)
  \/ Between(c, 11776, 11903)
  \/ Between(c, 12289, 12351)
  \/ Between(c, 65040, 65055)
  \/ Between(c, 65072, 65103)
  \/ Between(c, 65281, 65381)

Lower(c) == IF c \in 65..90 THEN c + 32 ELSE c

-----------------------------------------------------------------------------
(* BasicTokenize: the words of a text *)

Flush(s) == [words |-> IF s.current = <<>> THEN s.words
                                           ELSE Append(s.words, s.current),
             current |-> <<>>]

\* Mutant of Consume: a Chinese character does not end the word before it.
ConsumeUnflushed(s, cp) ==
  LET c == Lower(cp) IN
  CASE IsControl(cp) -> s
    [] ~IsControl(cp) /\ IsWhitespace(cp) -> Flush(s)
    [] ~IsControl(cp) /\ ~IsWhitespace(cp) /\ (IsChinese(c) \/ IsPunctuation(c))
         -> [s EXCEPT !.words = Append(@, EncodeUtf8(c))]
    [] OTHER -> [s EXCEPT !.current = @ \o EncodeUtf8(c)]

\* One code point: skipped, a separator, a word of its own or part of a word.
Consume(s, cp) ==
  LET c == Lower(cp) IN
  CASE IsControl(cp) -> s
    [] ~IsControl(cp) /\ IsWhitespace(cp) -> Flush(s)
    [] ~IsControl(cp) /\ ~IsWhitespace(cp) /\ (IsChinese(c) \/ IsPunctuation(c))
         -> [Flush(s) EXCEPT !.words = Append(@, EncodeUtf8(c))]
    [] OTHER -> [s EXCEPT !.current = @ \o EncodeUtf8(c)]

BasicTokenize(t) ==
  LET cps == DecodeUtf8(t)
      after[n \in 0..Len(cps)] ==
        IF n = 0 THEN [words |-> <<>>, current |-> <<>>]
                 ELSE Consume(after[n - 1], cps[n])
  IN  Flush(after[Len(cps)]).words

-----------------------------------------------------------------------------
(* The vocabulary, and WordPieceTokenize: the pieces of a word *)

Pad == <<91, 80, 65, 68, 93>>  \* the code points of "[PAD]", and so on
Unk == <<91, 85, 78, 75, 93>>
Cls == <<91, 67, 76, 83, 93>>
Sep == <<91, 83, 69, 80, 93>>

\* LoadVocabulary: a token has the number of its first line.
Vocabulary(lines) ==
  [token \in Range(lines) |->
     Min({i \in DOMAIN lines : lines[i] = token}) - 1]

HasSpecialTokens(lines) == {Pad, Unk, Cls, Sep} \subseteq Range(lines)

\* The piece of a word from one of its characters to another; "##" marks the
\* pieces that do not begin the word.
Candidate(characters, start, end) ==
  (IF start = 1 THEN <<>> ELSE <<35, 35>>) \o SubSeq(characters, start, end)

\* Mutant of EndOfPiece: the shortest piece is taken.
EndOfShortest(vocabulary, characters, start) ==
  LET up[e \in start..(Len(characters) + 1)] ==
        IF e > Len(characters) THEN start - 1
        ELSE IF Candidate(characters, start, e) \in DOMAIN vocabulary THEN e
        ELSE up[e + 1]
  IN  up[start]

\* The end of the piece that begins at start: the code tries the whole rest and
\* then ever shorter pieces.  Before start when there is none.
EndOfPiece(vocabulary, characters, start) ==
  LET down[e \in (start - 1)..Len(characters)] ==
        IF e < start \/ Candidate(characters, start, e) \in DOMAIN vocabulary
        THEN e ELSE down[e - 1]
  IN  down[Len(characters)]

WordPieceTokenize(vocabulary, word) ==
  LET characters == DecodeUtf8(word)
      End(start) == EndOfPiece(vocabulary, characters, start)
      \* The pieces from some character on, or what makes the word unknown.
      from[start \in 1..(Len(characters) + 1)] ==
        IF start > Len(characters) THEN <<>>
        ELSE IF End(start) < start THEN <<Unk>>
        ELSE LET rest == from[End(start) + 1] IN
               IF rest = <<Unk>> THEN rest
               ELSE <<Candidate(characters, start, End(start))>> \o rest
  IN  IF Len(characters) > MaxWord THEN <<Unk>> ELSE from[1]

-----------------------------------------------------------------------------
(* Encode: the ids of a text, its attention mask, and padding to a length *)

Pieces(vocabulary, t) ==
  LET words == BasicTokenize(t)
      upto[n \in 0..Len(words)] ==
        IF n = 0 THEN <<>>
        ELSE upto[n - 1] \o WordPieceTokenize(vocabulary, words[n])
  IN  upto[Len(words)]

\* Mutant of Kept: the last place is not left for [SEP].
KeptFull(pieces, maxLength) ==
  SubSeq(pieces, 1, IF Len(pieces) <= maxLength - 1 THEN Len(pieces)
                                                    ELSE maxLength - 1)

\* The pieces that fit between [CLS] and [SEP].
Kept(pieces, maxLength) ==
  SubSeq(pieces, 1, IF Len(pieces) <= maxLength - 2 THEN Len(pieces)
                                                    ELSE maxLength - 2)

Encode(vocabulary, t, maxLength) ==
  LET tokens == <<Cls>> \o Kept(Pieces(vocabulary, t), maxLength) \o <<Sep>>
  IN  [inputIds |-> [i \in 1..maxLength |->
         vocabulary[IF i <= Len(tokens) THEN tokens[i] ELSE Pad]],
       attentionMask |-> [i \in 1..maxLength |->
         IF i <= Len(tokens) THEN 1 ELSE 0]]
=============================================================================
