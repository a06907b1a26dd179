------------------------------- MODULE PpcConv ------------------------------
(***************************************************************************)
(* The PowerPC conventions: Darwin and System V in 32 bit, ELF v1 and v2   *)
(* in 64 bit, and their system calls.                                      *)
(***************************************************************************)
EXTENDS Platform

PpcABIs == {"ppc32_darwin", "ppc32_sysv", "ppc64_v1", "ppc64_v2"}

(* Fill an integer register if one is left. *)
FillInt(s, v) == IF s.i < IntRegs[s.abi] THEN PutInt(s, v) ELSE s

-----------------------------------------------------------------------------
(* Darwin: everything goes to the vector, and to registers as long as      *)
(* there are some; a float takes integer registers too, for callees with   *)
(* variable arguments.                                                     *)

gVT_ppc32_darwin  == [reset |-> "ppc", arg |-> "darwin", call |-> "darwin"]
gVT_ppc32_sysv    == [reset |-> "ppc", arg |-> "sysv", call |-> "sysv"]
gVT_ppc32_syscall == [reset |-> "ppc", arg |-> "sysv", call |-> "syscall32"]

darwin_int(s, v) == dcVecAppend(FillInt(s, v), v)

darwin_longlong(s, v) == darwin_int(darwin_int(s, WordOf(s.abi, v, 0)), WordOf(s.abi, v, 1))

darwin_double(s, v) ==
  LET w(j) == WordOf(s.abi, v, j) IN
    dcVecAppend(IF s.f < FloatRegs[s.abi] THEN FillInt(FillInt(PutFloat(s, v), w(0)), w(1))
                                          ELSE s, v)

darwin_float(s, v) ==
  dcVecAppend(FillInt(IF s.f < FloatRegs[s.abi] THEN PutFloat(s, Widen(v)) ELSE s, v), v)

arg_ppc32_darwin(s, t, v) ==
  CASE t \in IntTypes -> darwin_int(s, Extend(v, 4))
    [] t = "longlong" -> darwin_longlong(s, v)
    [] t = "double"   -> darwin_double(s, v)
    [] t = "float"    -> darwin_float(s, v)

(* System V: registers or the vector; eight bytes take an even pair of     *)
(* integer registers, and are aligned in the vector.                       *)
sysv_int(s, v) == IF s.i < IntRegs[s.abi] THEN PutInt(s, v) ELSE dcVecAppend(s, v)

(* Mutant: the last odd register stays free when a long long is on the stack. *)
sysv_longlongOdd(s, v) ==
  IF s.i < IntRegs[s.abi] - 1
  THEN PutInt(PutInt([s EXCEPT !.i = RoundUp(@, 2)], WordOf(s.abi, v, 0)), WordOf(s.abi, v, 1))
  ELSE dcVecAppend(dcVecAlign(s, 8), v)

sysv_longlong(s, v) ==
  IF s.i < IntRegs[s.abi] - 1
  THEN PutInt(PutInt([s EXCEPT !.i = RoundUp(@, 2)], WordOf(s.abi, v, 0)), WordOf(s.abi, v, 1))
  ELSE dcVecAppend(dcVecAlign([s EXCEPT !.i = IntRegs[s.abi]], 8), v)

sysv_double(s, v) ==
  IF s.f < FloatRegs[s.abi] THEN PutFloat(s, v) ELSE dcVecAppend(dcVecAlign(s, 8), v)

sysv_float(s, v) ==
  IF s.f < FloatRegs[s.abi] THEN PutFloat(s, Widen(v)) ELSE dcVecAppend(s, v)

arg_ppc32_sysv(s, t, v) ==
  CASE t \in IntTypes -> sysv_int(s, Extend(v, 4))
    [] t = "longlong" -> sysv_longlong(s, v)
    [] t = "double"   -> sysv_double(s, v)
    [] t = "float"    -> sysv_float(s, v)

mode_ppc32(abi, mode) ==
  CASE mode \in CDefault \cup CEllipsis ->
         IF abi = "ppc32_darwin" THEN gVT_ppc32_darwin ELSE gVT_ppc32_sysv
    [] mode = "PPC32_OSX"  -> gVT_ppc32_darwin
    [] mode = "PPC32_SYSV" -> gVT_ppc32_sysv
    [] mode = "SYS"        -> gVT_ppc32_syscall
    [] OTHER -> NoVT

(* The parameter area has room for the integer registers at least. *)
AtLeast(s, n) == Bytes(s.vec, 0, IF dcVecSize(s) < n THEN n ELSE dcVecSize(s))

call_ppc32_darwin(s) == Image(s.ireg, s.freg, AtLeast(s, 4 * IntRegs[s.abi]))
call_ppc32_sysv(s)   == Image(s.ireg, s.freg, s.vec)

(* The system call kernels load five registers and no stack. *)
FiveRegs(s) == [k \in DOMAIN s.ireg |-> IF k < 5 THEN s.ireg[k] ELSE Junks(8)]

call_ppc32_syscall(s) == Image(FiveRegs(s), Registers(FloatRegs[s.abi]), <<>>)

(* The callbacks. *)
darwin_argInt(a) ==
  IF a.i < IntRegs[a.abi] THEN LET r == FromInt(a) IN [r EXCEPT !.args.sp = @ + 4]
  ELSE FromStack(a, 4, 4)

darwin_argFloat(a, ints, w) ==
  LET b == [a EXCEPT !.i = IF @ + ints < IntRegs[a.abi] THEN @ + ints ELSE IntRegs[a.abi]] IN
    IF b.f < FloatRegs[b.abi]
    THEN Fetched([b EXCEPT !.f = @ + 1, !.sp = @ + w],
                 IF w = 4 THEN Narrow(b.freg[b.f]) ELSE b.freg[b.f])
    ELSE FromStack(b, w, w)

dcbArg_ppc32_darwin(a, t) ==
  CASE t \in IntTypes -> darwin_argInt(a)
    [] t = "longlong" -> TwoWords(darwin_argInt, a)
    [] t = "double"   -> darwin_argFloat(a, 2, 8)
    [] t = "float"    -> darwin_argFloat(a, 1, 4)

sysv_argLongLong(a) ==
  LET b == [a EXCEPT !.i = RoundUp(@, 2)] IN
    IF a.i < IntRegs[a.abi] - 1
    THEN Fetched([b EXCEPT !.i = @ + 2], Joined(a.abi, b.ireg[b.i], b.ireg[b.i + 1]))
    ELSE FromStack(AlignSP([a EXCEPT !.i = IntRegs[a.abi]], 8), 8, 8)

dcbArg_ppc32_sysv(a, t) ==
  LET inReg == a.f < FloatRegs[a.abi] IN
    CASE t \in IntTypes /\ a.i < IntRegs[a.abi]  -> FromInt(a)
      [] t \in IntTypes /\ a.i >= IntRegs[a.abi] -> FromStack(a, 4, 4)
      [] t = "longlong" -> sysv_argLongLong(a)
      [] t = "double" /\ inReg  -> FromFloat(a)
      [] t = "double" /\ ~inReg -> FromStack(AlignSP(a, 8), 8, 8)
      [] t = "float" /\ inReg   -> LET r == FromFloat(a) IN [r EXCEPT !.val = Narrow(@)]
      [] t = "float" /\ ~inReg  -> FromStack(a, 4, 4)

-----------------------------------------------------------------------------
(* 64 bit: slots of eight bytes.  ELF v1 has the whole parameter area in   *)
(* the vector; v2 begins it with the first argument that needs it, and     *)
(* for variable arguments with the first of them.                          *)

gVT_ppc64          == [reset |-> "ppc", arg |-> "ppc64", call |-> "ppc64"]
gVT_ppc64_ellipsis == [reset |-> "ppc", arg |-> "ppc64_ellipsis", call |-> "ppc64"]
gVT_ppc64_syscall  == [reset |-> "ppc", arg |-> "ppc64", call |-> "syscall64"]

IsV2(s)          == s.abi = "ppc64_v2"
SkipIfEmpty(s, n) == IF dcVecSize(s) = 0 THEN dcVecSkip(s, n) ELSE s

(* Append v unless ELF v2 has put it into a register. *)
AppendParam(s, inReg, v) ==
  CASE IsV2(s) /\ inReg  -> s
    [] IsV2(s) /\ ~inReg -> dcVecAppend(SkipIfEmpty(s, 8 * IntRegs[s.abi]), v)
    [] ~IsV2(s)          -> dcVecAppend(s, v)

ppc64_longlong(s, v) == AppendParam(FillInt(s, v), s.i < IntRegs[s.abi], v)

ppc64_double(s, v) ==
  LET inReg == s.f < FloatRegs[s.abi]
      r     == IF inReg THEN FillInt(PutFloat(s, v), v) ELSE s IN
    AppendParam(r, inReg /\ s.i < IntRegs[s.abi], v)

(* A double in the registers, a float in the word of its slot on the stack. *)
ppc64_float(s, v) ==
  LET inReg == s.f < FloatRegs[s.abi]
      r     == IF inReg THEN FillInt(PutFloat(s, Widen(v)), Widen(v)) ELSE s IN
    AppendParam(r, inReg /\ s.i < IntRegs[s.abi], Padded(v))

arg_ppc64(s, t, v) ==
  CASE t \notin Floats -> ppc64_longlong(s, Extend(v, 8))
    [] t = "double"    -> ppc64_double(s, v)
    [] t = "float"     -> ppc64_float(s, v)

ellipsis_longlong(s, v) == dcVecAppend(FillInt(SkipIfEmpty(s, 8 * s.i), v), v)

ellipsis_double(s, v) ==
  LET e == SkipIfEmpty(s, 8 * s.i) IN
    dcVecAppend(IF e.f < FloatRegs[e.abi] THEN FillInt(PutFloat(e, v), v) ELSE e, v)

arg_ppc64_ellipsis(s, t, v) ==
  CASE t \notin Floats -> ellipsis_longlong(s, Extend(v, 8))
    [] t = "double"    -> ellipsis_double(s, v)
    [] t = "float"     -> ellipsis_double(s, Widen(v))

mode_ppc64(abi, mode) ==
  CASE mode \in CDefault \cup {"PPC64", "ELLIPSIS"} -> gVT_ppc64
    [] mode = "VARARGS" -> IF abi = "ppc64_v2" THEN gVT_ppc64_ellipsis ELSE gVT_ppc64
    [] mode = "SYS"     -> gVT_ppc64_syscall
    [] OTHER -> NoVT

call_ppc64(s)         == Image(s.ireg, s.freg, AtLeast(s, 8 * IntRegs[s.abi]))
call_ppc64_syscall(s) == Image(FiveRegs(s), Registers(FloatRegs[s.abi]), <<>>)

(* Mutant: the whole area is skipped whatever is in the vector. *)
PadVecAlways(s) == dcVecSkip(s, 8 * IntRegs[s.abi])

(* The call skips to the end of the parameter area in the vector itself. *)
PadVec(s) == dcVecResize(s, Len(AtLeast(s, 8 * IntRegs[s.abi])))

ppc64_argFloat(a) ==
  IF a.f < FloatRegs[a.abi]
  THEN Fetched([a EXCEPT !.f = @ + 1, !.sp = @ + 8,
                         !.i = IF @ < IntRegs[a.abi] THEN @ + 1 ELSE @], a.freg[a.f])
  ELSE FromStack(a, 8, 8)

ppc64_argLongLong(a) ==
  IF a.i < IntRegs[a.abi] THEN LET r == FromInt(a) IN [r EXCEPT !.args.sp = @ + 8]
  ELSE FromStack(a, 8, 8)

dcbArg_ppc64(a, t) ==
  CASE t \notin Floats -> ppc64_argLongLong(a)
    [] t = "double"    -> ppc64_argFloat(a)
    [] t = "float" /\ a.f < FloatRegs[a.abi]  ->
         LET r == ppc64_argFloat(a) IN [r EXCEPT !.val = Narrow(@)]
    [] t = "float" /\ a.f >= FloatRegs[a.abi] -> ppc64_argFloat(a)

-----------------------------------------------------------------------------
(* The family.                                                             *)

PpcReset(s) == Zeroed(s)

PpcArg(s, t, v) ==
  CASE s.vt.arg = "darwin"         -> arg_ppc32_darwin(s, t, v)
    [] s.vt.arg = "sysv"           -> arg_ppc32_sysv(s, t, v)
    [] s.vt.arg = "ppc64"          -> arg_ppc64(s, t, v)
    [] s.vt.arg = "ppc64_ellipsis" -> arg_ppc64_ellipsis(s, t, v)

PpcMode(abi, mode) ==
  IF abi \in {"ppc32_darwin", "ppc32_sysv"} THEN mode_ppc32(abi, mode) ELSE mode_ppc64(abi, mode)

PpcCall(s) ==
  CASE s.vt.call = "darwin"    -> call_ppc32_darwin(s)
    [] s.vt.call = "sysv"      -> call_ppc32_sysv(s)
    [] s.vt.call = "syscall32" -> call_ppc32_syscall(s)
    [] s.vt.call = "ppc64"     -> call_ppc64(s)
    [] s.vt.call = "syscall64" -> call_ppc64_syscall(s)

PpcFetch(a, t) ==
  CASE a.abi = "ppc32_darwin" -> dcbArg_ppc32_darwin(a, t)
    [] a.abi = "ppc32_sysv"   -> dcbArg_ppc32_sysv(a, t)
    [] OTHER                  -> dcbArg_ppc64(a, t)
=============================================================================
