------------------------------- MODULE X86Conv ------------------------------
(***************************************************************************)
(* The x86 conventions, which differ in who removes the arguments from the *)
(* stack, on GNU/Linux ("x86") and with Microsoft's run time ("x86_msvc"). *)
(* Callbacks know their convention from the signature's prefix, and how    *)
(* much to remove from its types.                                          *)
(***************************************************************************)
EXTENDS Platform, FiniteSets

X86ABIs == {"x86", "x86_msvc"}

gVT_x86_cdecl                == [reset |-> "x86", arg |-> "x86", call |-> "cdecl"]
gVT_x86_win32_std            == [reset |-> "x86", arg |-> "x86", call |-> "std"]
gVT_x86_win32_fast_ms        == [reset |-> "fast", arg |-> "fast_ms", call |-> "fast"]
gVT_x86_win32_fast_gnu       == [reset |-> "fast", arg |-> "fast_gnu", call |-> "fast"]
gVT_x86_win32_this_ms        == [reset |-> "x86", arg |-> "x86", call |-> "this_ms"]
gVT_x86_syscall_int80h_linux == [reset |-> "x86", arg |-> "x86", call |-> "int80h_linux"]
gVT_x86_syscall_int80h_bsd   == [reset |-> "x86", arg |-> "x86", call |-> "int80h_bsd"]

(* Mutant: fastcall resets like the other conventions. *)
reset_fastNoRoom(s) == Zeroed(s)

(* The room for ECX and EDX is at the beginning of the vector. *)
reset_x86_win32_fast(s) == dcVecResize(Zeroed(s), 8)

arg_x86(s, t, v) == dcVecAppend(s, IF t \in Wide THEN v ELSE Extend(v, 4))

fast_ms_int(s, v) ==
  IF s.i < 2 THEN [VecWrite(s, 4 * s.i, v) EXCEPT !.i = @ + 1] ELSE dcVecAppend(s, v)

arg_x86_win32_fast_ms(s, t, v) ==
  IF t \in IntTypes THEN fast_ms_int(s, Extend(v, 4)) ELSE arg_x86(s, t, v)

fast_gnu_int(s, v) ==
  IF s.i < 2 THEN [VecWrite(s, 4 * s.i, v) EXCEPT !.i = @ + 1] ELSE dcVecAppend(s, v)

(* Mutant: a long long leaves the registers to later integers. *)
fast_gnu_longlongKeeps(s, v) == dcVecAppend(s, v)

fast_gnu_longlong(s, v) == dcVecAppend([s EXCEPT !.i = 2], v)

arg_x86_win32_fast_gnu(s, t, v) ==
  CASE t \in IntTypes -> fast_gnu_int(s, Extend(v, 4))
    [] t = "longlong" -> fast_gnu_longlong(s, v)
    [] t \in Floats   -> arg_x86(s, t, v)

mode_x86(abi, mode) ==
  LET msvc == abi = "x86_msvc" IN
    CASE mode = "DEFAULT" \/ mode \in CEllipsis        -> gVT_x86_cdecl
      [] mode = "THIS" /\ ~msvc                        -> gVT_x86_cdecl
      [] mode = "X86_CDECL"                            -> gVT_x86_cdecl
      [] mode = "X86_STD"                              -> gVT_x86_win32_std
      [] mode = "X86_FAST_MS"                          -> gVT_x86_win32_fast_ms
      [] mode = "X86_FAST_GNU"                         -> gVT_x86_win32_fast_gnu
      [] mode = "X86_THIS_MS" \/ (mode = "THIS" /\ msvc) -> gVT_x86_win32_this_ms
      [] mode = "SYS" /\ ~msvc                         -> gVT_x86_syscall_int80h_linux
      [] mode = "SYS_BSD"                              -> gVT_x86_syscall_int80h_bsd
      [] OTHER                                         -> NoVT

-----------------------------------------------------------------------------
(* The kernels.  Those of conventions whose callee removes the arguments   *)
(* leave the stack pointer to it and pop the saved registers at once.      *)

Pushed(stack) == Image(Registers(2), <<>>, stack)

call_x86_cdecl(s)        == Pushed(Bytes(s.vec, 0, RoundUp(dcVecSize(s), 16)))
call_x86_win32_std(s)    == Pushed(s.vec)
call_x86_win32_fast(s)   == Image(FirstWords(s, 2, 4), <<>>, VecRest(s, 8))
call_x86_this_ms(s)      ==
  Image([Registers(2) EXCEPT ![0] = FirstWords(s, 1, 4)[0]], <<>>, VecRest(s, 4))
call_x86_int80h_linux(s) == Image(FirstWords(s, 5, 4), <<>>, <<>>)
call_x86_int80h_bsd(s)   == Pushed(s.vec)

(* The fast and this kernels subtract the registers from the size unasked. *)
Underflows(s) ==
  dcVecSize(s) < (CASE s.vt.call = "fast" -> 8 [] s.vt.call = "this_ms" -> 4 [] OTHER -> 0)

CallerPops(vt, m) == IF vt.call \in {"cdecl", "int80h_bsd"} THEN Len(m.stack) ELSE 0

-----------------------------------------------------------------------------
(* The callback: how many bytes of the types of a signature it removes, as *)
(* the sum its loop ends with.                                             *)

WordsIn(types) == Len(types) + Cardinality({k \in DOMAIN types : types[k] \in Wide})

(* How many integers are in the two registers, of those in a set.          *)
InTwoRegs(ints) == IF Cardinality(ints) < 2 THEN Cardinality(ints) ELSE 2

dcbCleanupSize_x86_cdecl(types)   == 0
dcbCleanupSize_x86_std(types)     == 4 * WordsIn(types)
dcbCleanupSize_x86_this_ms(types) == 4 * WordsIn(types)

(* Integers are free while one of the two registers is. *)
IntsOf(types) == {k \in DOMAIN types : types[k] \in IntTypes}

dcbCleanupSize_x86_fast_ms(types) == 4 * (WordsIn(types) - InTwoRegs(IntsOf(types)))

(* Mutant: a long long leaves the count of registers alone. *)
cleanup_fast_gnuKeeps(types) == dcbCleanupSize_x86_fast_ms(types)

(* A long long takes both. *)
IntsBeforeLongLong(types) ==
  {k \in IntsOf(types) : \A j \in 1 .. k - 1 : types[j] # "longlong"}

dcbCleanupSize_x86_fast_gnu(types) ==
  4 * (WordsIn(types) - InTwoRegs(IntsBeforeLongLong(types)))

(* A prefix that is none of these leaves both members as they were. *)
InitCallback_x86(abi, prefix, types) ==
  CASE prefix \in {"none", "X86_CDECL"} ->
         [vt |-> "default", cleanup |-> dcbCleanupSize_x86_cdecl(types)]
    [] prefix = "X86_STD"      -> [vt |-> "default", cleanup |-> dcbCleanupSize_x86_std(types)]
    [] prefix = "X86_FAST_MS"  -> [vt |-> "fast_ms", cleanup |-> dcbCleanupSize_x86_fast_ms(types)]
    [] prefix = "X86_FAST_GNU" -> [vt |-> "fast_gnu", cleanup |-> dcbCleanupSize_x86_fast_gnu(types)]
    [] prefix = "X86_THIS_MS" \/ (prefix = "THIS" /\ abi = "x86_msvc") ->
         [vt |-> "this_ms", cleanup |-> dcbCleanupSize_x86_this_ms(types)]
    [] OTHER -> [vt |-> "unset", cleanup |-> 0]

(* i is fast_count, ireg is fast_data, of which a fetched this is cleared. *)
Spilled_x86(abi, m, cb) ==
  [abi |-> abi, vt |-> cb.vt, ireg |-> m.ireg, freg |-> m.freg, stack |-> m.stack,
   sp |-> 0, i |-> 0, f |-> 0, d |-> 0]

default_i32(a) == FromStack(a, 4, 4)
default_i64(a) == FromStack(a, 8, 8)

this_i32(a) ==
  IF a.ireg[0] # Junks(8)
  THEN Fetched([a EXCEPT !.ireg[0] = Junks(8)], a.ireg[0])
  ELSE default_i32(a)

fast_i32(a) == IF a.i < 2 THEN FromInt(a) ELSE default_i32(a)

fast_gnu_i64(a) == default_i64([a EXCEPT !.i = @ + 2])

dcbArg_x86(a, t) ==
  CASE t \in IntTypes /\ a.vt = "default"                -> default_i32(a)
    [] t \in IntTypes /\ a.vt = "this_ms"                -> this_i32(a)
    [] t \in IntTypes /\ a.vt \in {"fast_ms", "fast_gnu"} -> fast_i32(a)
    [] t = "longlong" /\ a.vt = "fast_gnu"               -> fast_gnu_i64(a)
    [] t = "longlong" /\ a.vt # "fast_gnu"               -> default_i64(a)
    [] t = "double"                                      -> default_i64(a)
    [] t = "float"                                       -> default_i32(a)

-----------------------------------------------------------------------------
(* The family.                                                             *)

X86Reset(s) == IF s.vt.reset = "fast" THEN reset_x86_win32_fast(s) ELSE Zeroed(s)

X86Arg(s, t, v) ==
  CASE s.vt.arg = "x86"      -> arg_x86(s, t, v)
    [] s.vt.arg = "fast_ms"  -> arg_x86_win32_fast_ms(s, t, v)
    [] s.vt.arg = "fast_gnu" -> arg_x86_win32_fast_gnu(s, t, v)

X86Call(s) ==
  CASE s.vt.call = "cdecl"        -> call_x86_cdecl(s)
    [] s.vt.call = "std"          -> call_x86_win32_std(s)
    [] s.vt.call = "fast"         -> call_x86_win32_fast(s)
    [] s.vt.call = "this_ms"      -> call_x86_this_ms(s)
    [] s.vt.call = "int80h_linux" -> call_x86_int80h_linux(s)
    [] s.vt.call = "int80h_bsd"   -> call_x86_int80h_bsd(s)
=============================================================================
