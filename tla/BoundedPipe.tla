---------------------------- MODULE BoundedPipe ----------------------------
(***************************************************************************)
(* What one direction of a socketpair promises its users: a first-in       *)
(* first-out pipe of Capacity bytes.  A write that does not have to wait   *)
(* takes as many of its bytes as fit, a read returns as many as there are, *)
(* both at least one; closing never discards what was written.  Byte       *)
(* number n of the stream is the value n.                                  *)
(***************************************************************************)
EXTENDS Naturals

CONSTANTS Capacity, Lens

VARIABLES wr,      \* bytes written so far
          rd,      \* bytes read so far
          dst,     \* the bytes the last read returned
          closed

Least(m, n) == IF m < n THEN m ELSE n

Init == wr = 0 /\ rd = 0 /\ dst = [i \in {} |-> 0] /\ closed = FALSE

Write(n) ==
    /\ wr - rd < Capacity
    /\ wr' = wr + Least(n, Capacity - (wr - rd))
    /\ UNCHANGED <<rd, dst, closed>>

Read(n) ==
    /\ rd < wr
    /\ rd' = rd + Least(n, wr - rd)
    /\ dst' = [i \in 1 .. rd' - rd |-> rd + i - 1]
    /\ UNCHANGED <<wr, closed>>

Close == closed' = TRUE /\ UNCHANGED <<wr, rd, dst>>

Next == Close \/ \E n \in Lens : Write(n) \/ Read(n)

Spec == Init /\ [][Next]_<<wr, rd, dst, closed>>

=============================================================================
