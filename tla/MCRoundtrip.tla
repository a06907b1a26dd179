---------------------------- MODULE MCRoundtrip -----------------------------
(* Instances of Roundtrip; the aggregates are those of MCCallVM. *)
EXTENDS Roundtrip

MCSize    == [ag \in Aggrs |-> CASE ag = "I"   -> 4
                                 [] ag = "II"  -> 12
                                 [] ag = "IS"  -> 16
                                 [] ag = "SI"  -> 16
                                 [] ag = "SS"  -> 16
                                 [] ag = "MEM" -> 20]
MCClasses == [ag \in Aggrs |-> CASE ag = "I"   -> <<"INTEGER">>
                                 [] ag = "II"  -> <<"INTEGER", "INTEGER">>
                                 [] ag = "IS"  -> <<"INTEGER", "SSE">>
                                 [] ag = "SI"  -> <<"SSE", "INTEGER">>
                                 [] ag = "SS"  -> <<"SSE", "SSE">>
                                 [] ag = "MEM" -> <<"MEMORY">>]
=============================================================================
