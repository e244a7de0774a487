---------------------------- MODULE MCNluRuntime ----------------------------
(* Vocabularies, texts and answers of the network for the runs of NluRuntime. *)
EXTENDS NluRuntime

\* Letters a and b with pieces of one and two characters, a Chinese character
\* (U+4E00), and lines in an order that gives one token twice.
FullLines == << Pad, Unk, Cls, Sep, <<97>>, <<97, 98>>, <<35, 35, 97>>,
                <<35, 35, 98, 98>>, <<97>>, <<19968>> >>
NoSeparator == << Pad, Unk, Cls, <<97>> >>

TextVocabularies == {FullLines, NoSeparator}

\* a, b, A, a space, a comma, the bytes of U+4E00 and a byte that begins none.
Alphabet == {97, 98, 65, 32, 44, 228, 184, 128}

LongTexts == { <<97, 98, 98, 98>>, <<228, 184, 128, 228, 184, 128>>,
               <<193, 129>>, <<97, 9, 97, 0, 98>>, <<240, 159, 152, 128, 97>>,
               <<97, 32, 97, 32, 97, 32, 97>> }

ShortTexts == UNION {[1..n -> Alphabet] : n \in 0..4}

Unsure == [route |-> <<40, 5, 55>>, label |-> "light_set", intent |-> 90]

Says(text, out) == [text |-> text, route |-> out.route, label |-> out.label,
                    intent |-> out.intent]

TextCalls == {Says(t, Unsure) : t \in ShortTexts \cup LongTexts}

\* Every threshold met, and missed by one percent.
Heads == { [route |-> <<r[1], r[2], 100 - r[1] - r[2]>>, label |-> l, intent |-> i] :
             r \in {<<r1, r2>> \in {49, 50, 69, 70, 85, 86} \X {14, 15, 31, 1} :
                       r1 + r2 <= 100},
             l \in {"light_set", "home_scene"},
             i \in {14, 15} }

HeadCalls == {Says(<<97>>, out) : out \in Heads}

AllCalls == TextCalls \cup HeadCalls
=============================================================================
