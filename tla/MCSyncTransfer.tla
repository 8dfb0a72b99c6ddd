--------------------------- MODULE MCSyncTransfer ---------------------------
(* Three files for the runs of SyncTransfer: the end of the second cannot be read, and *)
(* the third cannot be unlinked and is longer on the device.                           *)
EXTENDS SyncTransfer

CONSTANTS f1, f2, f3

ThreeFiles  == <<f1, f2, f3>>
Contents    == [f \in {f1, f2, f3} |->
                  CASE f = f1 -> <<"a", "b">> [] f = f2 -> <<"c", "d">> [] f = f3 -> <<"e">>]
CanRead     == [f \in {f1, f2, f3} |-> IF f = f1 THEN 2 ELSE 1]
OldContents == [f \in {f1, f2, f3} |-> IF f = f3 THEN <<"o", "p">> ELSE <<"o">>]
=============================================================================
