-------------------------------- MODULE SysV --------------------------------
(***************************************************************************)
(* What the two sides of a call share on x64 System V: how many registers  *)
(* there are, and the aggregate descriptions (DCaggr) with their class per *)
(* eightbyte.  Only closed descriptions are used here, so Size and Classes *)
(* are constants; the module Aggregate models how classes are computed.    *)
(***************************************************************************)
EXTENDS Integers, Sequences

CONSTANTS
  NumIntRegs,    \* numIntRegs (6 on x64)
  NumFloatRegs,  \* numFloatRegs (8 on x64)
  Aggrs,         \* closed aggregate descriptions
  Size,          \* DCaggr.size of each, in bytes
  Classes        \* DCaggr.sysv_classes of each, up to the first SYSVC_NONE

RegClass == {"INTEGER", "SSE"}
NullAggr == "NULL"     \* the null DCaggr*: a non-trivial C++ aggregate
NoRet    == "none"     \* the return type is no aggregate

(* Two eightbytes and the hidden pointer must fit the integer registers:   *)
(* argAggr counts them before it skips the hidden pointer.  An eightbyte   *)
(* has a class only when a field covers some of it, so that an aggregate   *)
(* with classes is not empty.                                              *)
ASSUME SysVAssumption ==
  /\ NumIntRegs \in Nat /\ NumIntRegs >= 3
  /\ NumFloatRegs \in Nat
  /\ Size \in [Aggrs -> Nat]
  /\ Classes \in [Aggrs -> {<<>>, <<"MEMORY">>}
                             \cup {<<c>> : c \in RegClass}
                             \cup {<<c, d>> : c \in RegClass, d \in RegClass}]
  /\ \A ag \in Aggrs : Classes[ag] # <<>> => Size[ag] > 0
  /\ {NullAggr, NoRet, "int", "float"} \cap Aggrs = {}

Eightbytes(ag) == Len(Classes[ag])
InMemory(ag)   == Classes[ag] = <<"MEMORY">>

(* How many registers of a class the aggregate needs. *)
Needs(ag, clz) ==
    (IF Eightbytes(ag) >= 1 /\ Classes[ag][1] = clz THEN 1 ELSE 0)
  + (IF Eightbytes(ag) = 2 /\ Classes[ag][2] = clz THEN 1 ELSE 0)

(* Returned through a pointer the caller passes as a hidden first argument. *)
Hidden(ag) == ag = NullAggr \/ (ag \in Aggrs /\ InMemory(ag))

(* Bytes of full stack slots that n bytes take. *)
RoundUp8(n) == ((n + 7) \div 8) * 8
=============================================================================
