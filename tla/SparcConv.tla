------------------------------ MODULE SparcConv -----------------------------
(***************************************************************************)
(* The SPARC conventions, v7 and v9: every argument is in the vector, from *)
(* whose beginning the kernels load the registers.                         *)
(***************************************************************************)
EXTENDS Platform

SparcABIs == {"sparc32", "sparc64"}

gVT_sparc       == [reset |-> "sparc", arg |-> "sparc32", call |-> "sparc32"]
gVT_v9          == [reset |-> "sparc", arg |-> "v9", call |-> "v9"]
gVT_v9_ellipsis == [reset |-> "sparc", arg |-> "v9_ellipsis", call |-> "v9"]

arg_sparc(s, t, v) == dcVecAppend(s, IF t \in Wide THEN v ELSE Extend(v, 4))

(* Mutant: a single in the left half. *)
argFloat_v9_left(s, v) == dcVecAppend(s, Junks(4) \o v)

(* A single is in the right half of its slot. *)
argFloat_v9(s, v) == dcVecAppend(s, Padded(v))

arg_v9(s, t, v) == IF t = "float" THEN argFloat_v9(s, v) ELSE dcVecAppend(s, Extend(v, 8))

arg_v9_ellipsis(s, t, v) == dcVecAppend(s, IF t = "float" THEN Widen(v) ELSE Extend(v, 8))

mode_sparc(mode) ==
  IF mode \in CDefault \cup CEllipsis \cup {"SPARC32"} THEN gVT_sparc ELSE NoVT

mode_v9(mode) ==
  CASE mode \in CDefault \cup {"SPARC64", "ELLIPSIS"} -> gVT_v9
    [] mode = "VARARGS" -> gVT_v9_ellipsis
    [] OTHER -> NoVT

dcCall_sparc(s) ==
  Image(FirstWords(s, IntRegs[s.abi], 4), s.freg, VecRest(s, 4 * IntRegs[s.abi]))

dcCall_v9(s) ==
  Image(FirstWords(s, IntRegs[s.abi], 8), FirstWords(s, FloatRegs[s.abi], 8),
        VecRest(s, 8 * IntRegs[s.abi]))

(* The thunk stores the integer registers before the stack's arguments.    *)
WordSize(a) == IF a.abi = "sparc32" THEN 4 ELSE 8

Memory(a) ==
  LET w == WordSize(a) IN
    [k \in 1 .. w * IntRegs[a.abi] |->
       InMemory(a.abi, a.ireg[(k - 1) \div w])[((k - 1) % w) + 1]] \o a.stack

FromMemory(a, n, w) ==
  Fetched([a EXCEPT !.sp = @ + w], InMemory(a.abi, Bytes(Memory(a), a.sp, n)))

dcbArg_sparc32(a, t) == IF t \in Wide THEN FromMemory(a, 8, 8) ELSE FromMemory(a, 4, 4)

(* One count (sp, in bytes) for both banks. *)
dcbArg_sparc64(a, t) ==
  IF t \in Floats /\ a.sp < 8 * FloatRegs[a.abi]
  THEN Fetched([a EXCEPT !.sp = @ + 8], a.freg[a.sp \div 8])
  ELSE FromMemory(a, 8, 8)

SparcReset(s) == Zeroed(s)

SparcArg(s, t, v) ==
  CASE s.vt.arg = "sparc32"     -> arg_sparc(s, t, v)
    [] s.vt.arg = "v9"          -> arg_v9(s, t, v)
    [] s.vt.arg = "v9_ellipsis" -> arg_v9_ellipsis(s, t, v)

SparcMode(abi, mode) == IF abi = "sparc32" THEN mode_sparc(mode) ELSE mode_v9(mode)

SparcCall(s) == IF s.vt.call = "sparc32" THEN dcCall_sparc(s) ELSE dcCall_v9(s)

SparcFetch(a, t) == IF a.abi = "sparc32" THEN dcbArg_sparc32(a, t) ELSE dcbArg_sparc64(a, t)
=============================================================================
