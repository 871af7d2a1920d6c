------------------------------- MODULE Base64 -------------------------------
(***************************************************************************)
(* f_b64_ntop and f_b64_pton of SocketRocket (fbase64.c), with which the web  *)
(* socket of FirebaseDatabase writes its keys.                                *)
(*                                                                           *)
(* A character of the alphabet is its value 0..63; the others are the pad,    *)
(* white space and one that does not belong.  pton is given a buffer; without  *)
(* one it would only count the bytes.                                         *)
(***************************************************************************)
EXTENDS Integers, Sequences, FiniteSetsExt, SequencesExt

Pad64 == 64
Space == 65
Foreign == 66

\* The four values of up to three bytes; missing ones are zero.
Quantum(input) ==
    LET b(i) == IF i <= Len(input) THEN input[i] ELSE 0
    IN  <<b(1) \div 4, (b(1) % 4) * 16 + b(2) \div 16, (b(2) % 16) * 4 + b(3) \div 64, b(3) % 64>>

\* f_b64_ntop: the characters, or an error when they and the final '\0' do not fit.
RECURSIVE b64_ntop(_, _, _)
b64_ntop(src, target, targsize) ==
    IF src = <<>>
    THEN [ok |-> Len(target) < targsize, out |-> target]
    ELSE LET input == SubSeq(src, 1, Min({3, Len(src)}))
             n == Len(input)
             output == [i \in 1..4 |-> IF i <= n + 1 THEN Quantum(input)[i] ELSE Pad64]
         IN  IF Len(target) + 4 > targsize THEN [ok |-> FALSE, out |-> target]
             ELSE b64_ntop(SubSeq(src, n + 1, Len(src)), target \o output, targsize)

\* One character of the alphabet in state 0..3.  `last` is the byte at tarindex, which later
\* characters fill up.
TakeCharacter(r, ch, targsize) ==
    LET needed == IF r.state \in {1, 2} THEN r.tarindex + 1 ELSE r.tarindex
        put == CASE r.state = 0 -> [full |-> <<>>, last |-> ch * 4]
                 [] r.state = 1 -> [full |-> <<r.last + ch \div 16>>, last |-> (ch % 16) * 16]
                 [] r.state = 2 -> [full |-> <<r.last + ch \div 4>>, last |-> (ch % 4) * 64]
                 [] r.state = 3 -> [full |-> <<r.last + ch>>, last |-> 0]
    IN  IF needed >= targsize THEN [r EXCEPT !.ok = FALSE]
        ELSE [r EXCEPT !.out = @ \o put.full, !.last = put.last,
                       !.tarindex = @ + Len(put.full), !.state = (@ + 1) % 4]

\* Mutant: the bits past the last full byte are not looked at.
IgnoreSlop(r) == TRUE

\* The bits that slopped past the last full byte are zero.
NoSlop(r) == r.last = 0

\* The characters from the first pad on are right for the state.
GoodPadding(r, rest) ==
    LET marks == SelectSeq(rest, LAMBDA ch : ch # Space)
    IN  CASE r.state = 2 -> marks = <<Pad64, Pad64>> /\ NoSlop(r)
          [] r.state = 3 -> marks = <<Pad64>> /\ NoSlop(r)
          [] OTHER -> FALSE

b64_pton(src, targsize) ==
    LET pads == {i \in DOMAIN src : src[i] = Pad64}
        end == IF pads = {} THEN Len(src) ELSE Min(pads) - 1
        Take(r, ch) ==
            IF ~r.ok \/ ch = Space THEN r
            ELSE IF ch = Foreign THEN [r EXCEPT !.ok = FALSE]
            ELSE TakeCharacter(r, ch, targsize)
        r == FoldLeft(Take, [ok |-> TRUE, out |-> <<>>, last |-> 0, tarindex |-> 0, state |-> 0],
                      SubSeq(src, 1, end))
    IN  [ok |-> r.ok /\ IF pads = {} THEN r.state = 0 ELSE GoodPadding(r, SubSeq(src, end + 1, Len(src))),
         out |-> r.out]

EncodedLength(data) == 4 * ((Len(data) + 2) \div 3)

\* Data is encoded exactly when the buffer has room for it and the final '\0', and is decoded
\* to itself in a buffer of whole quanta.
Base64RoundTrip(data) ==
    /\ \A size \in 0..EncodedLength(data) + 2 :
           b64_ntop(data, <<>>, size).ok <=> size > EncodedLength(data)
    /\ LET text == b64_ntop(data, <<>>, EncodedLength(data) + 1).out
       IN  /\ Len(text) = EncodedLength(data)
           /\ b64_pton(text, 3 * (Len(text) \div 4)) = [ok |-> TRUE, out |-> data]

\* Text that is accepted is what the encoder would have written for the result, white space
\* aside: no two texts are the same data.
Base64Canonical(text) ==
    LET read == b64_pton(text, Len(text) + 1)
        plain == SelectSeq(text, LAMBDA ch : ch # Space)
    IN  /\ read.ok => b64_ntop(read.out, <<>>, Len(plain) + 1) = [ok |-> TRUE, out |-> plain]
        /\ \A size \in 0..3 : b64_pton(text, size).ok => read.ok /\ Len(read.out) <= size
=============================================================================
