------------------------------ MODULE MCCallVM ------------------------------
(* Instances of CallVM with three integer and two float registers.  The    *)
(* aggregates cover every outcome of argAggr: one and two eightbytes, both *)
(* classes, memory, a size that needs realignment.                         *)
EXTENDS CallVM

MCSize    == [ag \in Aggrs |-> CASE ag = "I"   -> 4
                                 [] ag = "II"  -> 12
                                 [] ag = "IS"  -> 16
                                 [] ag = "SS"  -> 16
                                 [] ag = "MEM" -> 20]
MCClasses == [ag \in Aggrs |-> CASE ag = "I"   -> <<"INTEGER">>
                                 [] ag = "II"  -> <<"INTEGER", "INTEGER">>
                                 [] ag = "IS"  -> <<"INTEGER", "SSE">>
                                 [] ag = "SS"  -> <<"SSE", "SSE">>
                                 [] ag = "MEM" -> <<"MEMORY">>]

(* A CallVM that was reset is refilled with one argument, returns no       *)
(* aggregate and is in a mode it supports.                                 *)
FewAfterReset ==
  epoch > 0 => Len(bound) <= 1 /\ ret = NoRet /\ vm.mError = "NONE"
=============================================================================
