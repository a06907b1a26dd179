------------------------------- MODULE MCWin64 ------------------------------
(* Instances of Win64 with two registers; the sizes are one that goes into *)
(* a register, one that does not although it is shorter, and a long one.   *)
EXTENDS Win64

MCSize == [ag \in Aggrs |-> CASE ag = "A8"  -> 8
                              [] ag = "A3"  -> 3
                              [] ag = "A16" -> 16]

(* After a reset, one argument at most and one kind of aggregate returned. *)
FewAfterReset == epoch > 0 => Len(bound) <= 1 /\ ret \in {NoRet, NullAggr}
=============================================================================
