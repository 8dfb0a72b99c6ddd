-------------------------------- MODULE Lists --------------------------------
(***************************************************************************)
(* Linked lists of the server as sequences: what is left of a list when    *)
(* some of its nodes are unlinked.  Keep is SelectSeq with a set for the   *)
(* test, as a recursive function, which is a definition that can be        *)
(* reasoned about (Lists_proofs).                                          *)
(***************************************************************************)
EXTENDS Naturals, Sequences, SequencesExt

\* The nodes of s that are in S, in their order.
Keep(s, S) ==
    LET kept[i \in 0..Len(s)] ==
          IF i = 0 THEN << >>
          ELSE IF s[i] \in S THEN Append(kept[i - 1], s[i]) ELSE kept[i - 1]
    IN  kept[Len(s)]

\* The list s when e is unlinked.
Without(s, e) == Keep(s, ToSet(s) \ {e})
=============================================================================
