--------------------------------- MODULE Lists ---------------------------------
(* Comprehensions with a condition, as the parsers and the segmenter use them. *)
EXTENDS Integers, Sequences

\* The items of s at the positions in a set, in their order.
Kept(s, positions) ==
    LET upto[i \in 0 .. Len(s)] ==
            IF i = 0 THEN <<>>
            ELSE IF i \in positions THEN Append(upto[i - 1], s[i]) ELSE upto[i - 1]
    IN  upto[Len(s)]
================================================================================
