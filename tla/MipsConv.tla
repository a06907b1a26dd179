------------------------------ MODULE MipsConv ------------------------------
(***************************************************************************)
(* The MIPS conventions: o32 and eabi in 32 bit, n32 and n64 in 64 bit, in *)
(* both byte orders and with soft float, for which FloatRegs is 0.         *)
(***************************************************************************)
EXTENDS Platform

MipsO32  == {"mips_o32_le", "mips_o32_be", "mips_o32_soft"}
MipsN64  == {"mips_n64", "mips_n64_le", "mips_n64_soft"}
MipsABIs == MipsO32 \cup MipsN64 \cup {"mips_eabi", "mips_n32"}

-----------------------------------------------------------------------------
(* o32: all arguments go to the vector; the first two, if they are floats, *)
(* also to float registers.  i is mArgCount.                               *)

gVT_mips_o32 == [reset |-> "mips", arg |-> "o32", call |-> "o32"]

arg_mips_o32(s, t, v) ==
  LET inReg == t \in Floats /\ s.i < FloatRegs[s.abi]
      r     == IF t \in Wide THEN dcVecAppend(dcVecSkip4(s), v)
                             ELSE dcVecAppend(s, Extend(v, 4)) IN
    [r EXCEPT !.i = @ + 1, !.freg = IF inReg THEN [@ EXCEPT ![s.i] = Padded(v)] ELSE @]

mode_mips_o32(mode) ==
  IF mode \in CDefault \cup CEllipsis \cup {"MIPS32_O32"} THEN gVT_mips_o32 ELSE NoVT

(* At least the home of the four integer registers, in multiples of 8. *)
StackSize(s) == LET n == RoundUp(dcVecSize(s), 8) IN IF n < 16 THEN 16 ELSE n

call_mips_o32(s) == Image(s.ireg, s.freg, Bytes(s.vec, 0, StackSize(s)))

(* The callback's integers come from the stack, where the thunk has stored *)
(* the registers; the first one ends the use of float registers, which the *)
(* thunk has stored below the arguments.                                   *)
NoFloats(a) == [a EXCEPT !.f = FloatRegs[a.abi]]

(* Mutant: an integer leaves the float registers in use. *)
o32_intKeepsFloats(a) == FromStack(a, 4, 4)

o32_int(a) == FromStack(NoFloats(a), 4, 4)

o32_longlong(a) == TwoWords(o32_int, SkipSP(a))

o32_floatReg(a, w) ==
  Fetched([a EXCEPT !.f = @ + 1, !.sp = @ + w], a.freg[SkipSP(a).sp \div 8])

o32_float(a)  == IF a.f < FloatRegs[a.abi] THEN o32_floatReg(a, 4) ELSE FromStack(a, 4, 4)
o32_double(a) ==
  LET b == SkipSP(a) IN
    IF b.f < FloatRegs[b.abi] THEN o32_floatReg(b, 8) ELSE FromStack(b, 8, 8)

dcbArg_mips_o32(a, t) ==
  CASE t \in IntTypes -> o32_int(a)
    [] t = "longlong" -> o32_longlong(a)
    [] t = "float"    -> o32_float(a)
    [] t = "double"   -> o32_double(a)

-----------------------------------------------------------------------------
(* eabi: integers and singles have registers; a double is a long long.     *)

gVT_mips_eabi == [reset |-> "mips", arg |-> "mips_eabi", call |-> "mips_eabi"]

eabi_int(s, v) == IF s.i < IntRegs[s.abi] THEN PutInt(s, v) ELSE dcVecAppend(s, v)

eabi_longlong(s, v) ==
  IF s.i < IntRegs[s.abi] - 1
  THEN PutInt(PutInt([s EXCEPT !.i = RoundUp(@, 2)], WordOf(s.abi, v, 0)), WordOf(s.abi, v, 1))
  ELSE dcVecAppend(dcVecSkip4([s EXCEPT !.i = IntRegs[s.abi]]), v)

(* Mutant: floats on the stack are counted as well. *)
eabi_floatCounts(s, v) ==
  IF s.f < FloatRegs[s.abi] THEN PutFloat(s, v) ELSE [dcVecAppend(s, v) EXCEPT !.f = @ + 1]

eabi_float(s, v) == IF s.f < FloatRegs[s.abi] THEN PutFloat(s, v) ELSE dcVecAppend(s, v)

arg_mips_eabi(s, t, v) ==
  CASE t \in IntTypes -> eabi_int(s, Extend(v, 4))
    [] t \in Wide     -> eabi_longlong(s, v)
    [] t = "float"    -> eabi_float(s, v)

mode_mips_eabi(mode) ==
  IF mode \in CDefault \cup CEllipsis \cup {"MIPS32_EABI"} THEN gVT_mips_eabi ELSE NoVT

call_mips_eabi(s) == Image(s.ireg, s.freg, s.vec)

dcbArgInt_mips(a)   == IF a.i < IntRegs[a.abi] THEN FromInt(a) ELSE FromStack(a, 4, 4)

(* Mutant: a float on the stack takes eight bytes there. *)
dcbArgFloat_mipsSlot(a) ==
  IF a.f < FloatRegs[a.abi] THEN FromFloat(a) ELSE FromStack(a, 4, 8)

dcbArgFloat_mips(a) == IF a.f < FloatRegs[a.abi] THEN FromFloat(a) ELSE FromStack(a, 4, 4)

(* The stack pointer is aligned also when the value is in registers. *)
dcbArgULongLong_mips(a) == TwoWords(dcbArgInt_mips, SkipSP([a EXCEPT !.i = RoundUp(@, 2)]))

dcbArg_mips_eabi(a, t) ==
  CASE t \in IntTypes -> dcbArgInt_mips(a)
    [] t = "float"    -> dcbArgFloat_mips(a)
    [] t \in Wide     -> dcbArgULongLong_mips(a)

-----------------------------------------------------------------------------
(* n64 and n32: eight registers of either bank, an argument taking both of *)
(* one number; i counts them and d is mUseDouble, as the set of its bits.  *)

gVT_mips_n64          == [reset |-> "mips", arg |-> "n64", call |-> "n64"]
gVT_mips_n64_ellipsis == [reset |-> "mips", arg |-> "n64_ellipsis", call |-> "n64"]
gVT_mips_n32          == [reset |-> "mips", arg |-> "n32", call |-> "n32"]
gVT_mips_n32_ellipsis == [reset |-> "mips", arg |-> "n32_ellipsis", call |-> "n32"]

argLongLong_n(s, v) == IF s.i < IntRegs[s.abi] THEN PutInt(s, v) ELSE dcVecAppend(s, v)

IsHardFloat(abi) == FloatRegs[abi] > 0

argDouble_n64(s, v) ==
  CASE ~IsHardFloat(s.abi) -> argLongLong_n(s, v)
    [] IsHardFloat(s.abi) /\ s.i < IntRegs[s.abi] ->
         [s EXCEPT !.freg[s.i] = v, !.d = @ \cup {s.i}, !.i = @ + 1]
    [] OTHER -> dcVecAppend(s, v)

(* With soft float a single is right in a register, left in a stack slot.  *)
argFloat_n64(s, v) ==
  CASE ~IsHardFloat(s.abi) ->
         argLongLong_n(s, IF s.abi \in BigEndian /\ s.i >= IntRegs[s.abi]
                          THEN Junks(4) \o v ELSE Padded(v))
    [] IsHardFloat(s.abi) /\ s.i < IntRegs[s.abi] ->
         [s EXCEPT !.freg[s.i] = v, !.i = @ + 1]
    [] OTHER -> dcVecSkip(dcVecAppend(s, v), 4)

arg_mips_n64(s, t, v) ==
  CASE t \notin Floats -> argLongLong_n(s, Extend(v, 8))
    [] t = "double"    -> argDouble_n64(s, v)
    [] t = "float"     -> argFloat_n64(s, v)

arg_mips_n64_ellipsis(s, t, v) ==
  argLongLong_n(s, IF t = "float" THEN Widen(v) ELSE Extend(v, 8))

mode_mips_n64(mode) ==
  CASE mode \in CDefault \cup {"MIPS64_N64", "ELLIPSIS"} -> gVT_mips_n64
    [] mode = "VARARGS" -> gVT_mips_n64_ellipsis
    [] OTHER -> NoVT

(* A float register is loaded as a single unless its bit in mUseDouble is set. *)
LoadedFloats(s) ==
  [k \in DOMAIN s.freg |->
     IF k \in s.d THEN s.freg[k] ELSE Padded(Trunc(s.freg[k], 4))]

call_mips_n64(s) == Image(s.ireg, LoadedFloats(s), Bytes(s.vec, 0, StackSize(s)))

(* n32 has hard float only.  A pointer is read as eight bytes from its     *)
(* four: what is behind it comes with it.                                  *)
arg_mips_n32(s, t, v) ==
  LET inReg == s.i < IntRegs[s.abi] IN
    CASE t = "pointer" -> argLongLong_n(s, Joined(s.abi, v, Junks(4)))
      [] t \notin Floats \cup {"pointer"} -> argLongLong_n(s, Extend(v, 8))
      [] t = "double" /\ inReg  -> [s EXCEPT !.freg[s.i] = v, !.d = @ \cup {s.i}, !.i = @ + 1]
      [] t = "float" /\ inReg   -> [s EXCEPT !.freg[s.i] = v, !.i = @ + 1]
      [] t = "double" /\ ~inReg -> dcVecAppend(s, v)
      [] t = "float" /\ ~inReg  -> dcVecSkip(dcVecAppend(s, v), 4)

arg_mips_n32_ellipsis(s, t, v) ==
  CASE t = "float"  -> argLongLong_n(s, Widen(v))
    [] t = "double" -> argLongLong_n(s, v)
    [] OTHER        -> arg_mips_n32(s, t, v)

mode_mips_n32(mode) ==
  CASE mode \in CDefault \cup {"MIPS64_N32", "ELLIPSIS"} -> gVT_mips_n32
    [] mode = "VARARGS" -> gVT_mips_n32_ellipsis
    [] OTHER -> NoVT

call_mips_n32(s) == Image(s.ireg, LoadedFloats(s), Bytes(s.vec, 0, StackSize(s)))

(* The callback; with soft float both banks are the integer one. *)
mips64_float(a, n) ==
  CASE a.i < IntRegs[a.abi] /\ IsHardFloat(a.abi) ->
         Fetched([a EXCEPT !.i = @ + 1], a.freg[a.i])
    [] a.i < IntRegs[a.abi] /\ ~IsHardFloat(a.abi) -> FromInt(a)
    [] OTHER -> FromStack(a, n, 8)

dcbArg_mips64(a, t) ==
  CASE t \notin Floats /\ a.i < IntRegs[a.abi]  -> FromInt(a)
    [] t \notin Floats /\ a.i >= IntRegs[a.abi] -> FromStack(a, 8, 8)
    [] t = "double" -> mips64_float(a, 8)
    [] t = "float"  -> mips64_float(a, 4)

-----------------------------------------------------------------------------
(* The family.                                                             *)

MipsReset(s) ==
  IF s.vt.call \in {"n64", "n32"} THEN [Zeroed(s) EXCEPT !.d = {}] ELSE Zeroed(s)

MipsArg(s, t, v) ==
  CASE s.vt.arg = "o32"          -> arg_mips_o32(s, t, v)
    [] s.vt.arg = "mips_eabi"    -> arg_mips_eabi(s, t, v)
    [] s.vt.arg = "n64"          -> arg_mips_n64(s, t, v)
    [] s.vt.arg = "n64_ellipsis" -> arg_mips_n64_ellipsis(s, t, v)
    [] s.vt.arg = "n32"          -> arg_mips_n32(s, t, v)
    [] s.vt.arg = "n32_ellipsis" -> arg_mips_n32_ellipsis(s, t, v)

MipsMode(abi, mode) ==
  CASE abi \in MipsO32   -> mode_mips_o32(mode)
    [] abi = "mips_eabi" -> mode_mips_eabi(mode)
    [] abi \in MipsN64   -> mode_mips_n64(mode)
    [] abi = "mips_n32"  -> mode_mips_n32(mode)

MipsCall(s) ==
  CASE s.vt.call = "o32"       -> call_mips_o32(s)
    [] s.vt.call = "mips_eabi" -> call_mips_eabi(s)
    [] s.vt.call = "n64"       -> call_mips_n64(s)
    [] s.vt.call = "n32"       -> call_mips_n32(s)

MipsFetch(a, t) ==
  CASE a.abi \in MipsO32   -> dcbArg_mips_o32(a, t)
    [] a.abi = "mips_eabi" -> dcbArg_mips_eabi(a, t)
    [] OTHER               -> dcbArg_mips64(a, t)
=============================================================================
