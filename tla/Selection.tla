------------------------------ MODULE Selection ------------------------------
(***************************************************************************)
(* The elements of a sequence that are in a given set, in their order;     *)
(* what a function makes of the elements of a sequence, one after the      *)
(* other; and a sequence cut into parts.  SelectSeq and FoldLeft would do  *)
(* for the first two; a function that is defined by recursion is what the  *)
(* proofs can follow.                                                      *)
(***************************************************************************)
EXTENDS Naturals, Sequences

Selected(S, seq) ==
    LET upTo[n \in 0..Len(seq)] ==
            IF n = 0 THEN <<>>
            ELSE IF seq[n] \in S THEN Append(upTo[n - 1], seq[n])
            ELSE upTo[n - 1]
    IN  upTo[Len(seq)]

Folded(step, first, seq) ==
    LET upTo[n \in 0..Len(seq)] == IF n = 0 THEN first ELSE step[<<upTo[n - 1], seq[n]>>]
    IN  upTo[Len(seq)]

(* the parts of a sequence over T between the separators, of which there is always one *)
Cut(T, sep, seq) ==
    LET take(parts, e) == IF e = sep THEN Append(parts, <<>>)
                          ELSE [parts EXCEPT ![Len(parts)] = Append(@, e)]
    IN  Folded([p \in Seq(Seq(T)) \X T |-> take(p[1], p[2])], << <<>> >>, seq)
=============================================================================
