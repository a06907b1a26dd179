------------------------------ MODULE Platform ------------------------------
(***************************************************************************)
(* What the calling conventions of dyncall share: the argument vector as   *)
(* the bytes it holds, values as their bytes, and the records the CallVM   *)
(* and the callback's DCArgs are on every platform but x64 System V.       *)
(*                                                                         *)
(* A byte is <<n, k>>: the k-th byte, least significant first, of the n-th *)
(* argument bound; k = 0 stands for a byte of a sign extension, and        *)
(* k = 11 .. 18 are the bytes of a float widened to a double.  A value is  *)
(* the sequence of its bytes from the least significant one; memory holds  *)
(* it in the platform's byte order.                                        *)
(***************************************************************************)
EXTENDS Integers, Sequences

CONSTANTS
  IntRegs,    \* how many integer argument registers a platform has
  FloatRegs,  \* how many float argument registers a platform has
  VecTotal    \* DCVecHead.mTotal: the room in the argument vector, in bytes

ABIs == DOMAIN IntRegs

ASSUME PlatformAssumption ==
  /\ IntRegs \in [ABIs -> Nat]
  /\ FloatRegs \in [ABIs -> Nat]
  /\ VecTotal \in Nat

BigEndian == {"mips_o32_be", "mips_n32", "mips_n64", "mips_n64_soft", "ppc32_darwin",
              "ppc32_sysv", "ppc64_v1", "sparc32", "sparc64"}
LP64      == {"arm64", "arm64_apple", "mips_n64", "mips_n64_le", "mips_n64_soft",
              "ppc64_v1", "ppc64_v2", "sparc64"}

(* The types that every convention promotes to its integer. *)
IntTypes == {"bool", "char", "short", "int", "long", "pointer"}
Wide     == {"longlong", "double"}
Floats   == {"float", "double"}

(* The modes every platform knows. *)
CDefault  == {"DEFAULT", "THIS"}
CEllipsis == {"ELLIPSIS", "VARARGS"}

SizeOf(abi, t) ==
  CASE t = "char"  -> 1
    [] t = "short" -> 2
    [] t \in {"bool", "int", "float"} -> 4
    [] t \in {"longlong", "double"} -> 8
    [] t = "long" -> IF abi \in LP64 THEN 8 ELSE 4
    [] t = "pointer" -> IF abi \in LP64 \cup {"arm64_win", "x64_win"} THEN 8 ELSE 4

-----------------------------------------------------------------------------
(* Values.                                                                 *)

Junk == <<0, 0>>

Junks(n)    == [k \in 1 .. n |-> Junk]
Value(n, w) == [k \in 1 .. w |-> <<n, k>>]

(* C conversions: to a wider integer, to a narrower one, float to double,  *)
(* double to float.                                                        *)
Extend(v, w) == [k \in 1 .. w |-> IF k <= Len(v) THEN v[k] ELSE <<v[1][1], 0>>]
Trunc(v, w)  == SubSeq(v, 1, w)
Widen(v)     == [k \in 1 .. 8 |-> <<v[1][1], 10 + k>>]
Padded(v)    == v \o Junks(8 - Len(v))
Narrow(v)    == IF v = Widen(v) THEN Value(v[1][1], 4) ELSE Junks(4)

(* The bytes of a value in memory, and the value that bytes in memory are. *)
InMemory(abi, v) ==
  IF abi \in BigEndian THEN [k \in 1 .. Len(v) |-> v[Len(v) - k + 1]] ELSE v

(* The words 0 and 1 of an eight byte value in memory, and the value that  *)
(* two words in memory are.                                                *)
WordOf(abi, v, j) ==
  IF (abi \in BigEndian) = (j = 1) THEN SubSeq(v, 1, 4) ELSE SubSeq(v, 5, 8)
Joined(abi, w0, w1) == IF abi \in BigEndian THEN w1 \o w0 ELSE w0 \o w1

(* n bytes of b behind its first off ones; behind its end there is junk. *)
Bytes(b, off, n) ==
  [k \in 1 .. n |-> IF off + k <= Len(b) THEN b[off + k] ELSE Junk]

-----------------------------------------------------------------------------
(* The argument vector.                                                    *)

RoundUp(n, to) == ((n + to - 1) \div to) * to
And4(n)        == ((n \div 4) % 2) * 4      \* n & 4

dcVecSize(s) == Len(s.vec)

dcVecAppend(s, v) ==
  IF dcVecSize(s) + Len(v) <= VecTotal
  THEN [s EXCEPT !.vec = @ \o InMemory(s.abi, v)]
  ELSE s

(* What is skipped is not written: junk. *)
dcVecResize(s, n) == [s EXCEPT !.vec = Bytes(@, 0, n)]
dcVecSkip(s, n)   == dcVecResize(s, dcVecSize(s) + n)
dcVecAlign(s, n)  == dcVecResize(s, RoundUp(dcVecSize(s), n))

(* Mutant: eight bytes are appended wherever the last argument ended. *)
dcVecSkip4None(s) == s

dcVecSkip4(s)     == dcVecSkip(s, And4(dcVecSize(s)))

(* Write v at an offset (dcVecAt). *)
VecWrite(s, off, v) ==
  [s EXCEPT !.vec = [k \in DOMAIN @ |->
     IF k \in off + 1 .. off + Len(v) THEN InMemory(s.abi, v)[k - off] ELSE @[k]]]

(* The first n words of w bytes, which a kernel loads into registers, and   *)
(* what is behind the first off bytes.                                     *)
FirstWords(s, n, w) == [k \in 0 .. n - 1 |-> InMemory(s.abi, Bytes(s.vec, w * k, w))]
VecRest(s, off)     == SubSeq(s.vec, off + 1, dcVecSize(s))

-----------------------------------------------------------------------------
(* The CallVM: its table, the vector, the register counts (i integers, f   *)
(* floats, d doubles or other state of the convention) and the registers.  *)

NoVT == [reset |-> "none", arg |-> "none", call |-> "none"]

(* What a register held before a reset counts as junk from then on. *)
Registers(n) == [k \in 0 .. n - 1 |-> Junks(8)]

Zeroed(s) ==
  [s EXCEPT !.vec = <<>>, !.i = 0, !.f = 0, !.d = 0,
            !.ireg = Registers(IntRegs[s.abi]), !.freg = Registers(FloatRegs[s.abi])]

Blank(abi, vt) ==
  Zeroed([abi |-> abi, vt |-> vt, err |-> "NONE", vec |-> <<>>, i |-> 0, f |-> 0, d |-> 0,
          ireg |-> <<>>, freg |-> <<>>])

(* A mode without a table is an error and leaves the old table in place. *)
SetVT(s, vt) ==
  IF vt = NoVT THEN [s EXCEPT !.err = "UNSUPPORTED_MODE"]
  ELSE [s EXCEPT !.vt = vt, !.err = "NONE"]

PutInt(s, v)   == [s EXCEPT !.ireg[s.i] = v, !.i = @ + 1]
PutFloat(s, v) == [s EXCEPT !.freg[s.f] = v, !.f = @ + 1]

-----------------------------------------------------------------------------
(* A call: what registers and stack hold when the target is entered, and   *)
(* the DCArgs that a callback's thunk makes of it.                         *)

Image(ireg, freg, stack) == [ireg |-> ireg, freg |-> freg, stack |-> stack]

Spilled(abi, m) ==
  [abi |-> abi, ireg |-> m.ireg, freg |-> m.freg, stack |-> m.stack,
   sp |-> 0, i |-> 0, f |-> 0, d |-> 0]

Fetched(a, v) == [args |-> a, val |-> v]

(* The value of n bytes at the stack pointer; w is how far it moves. *)
AtSP(a, n)       == InMemory(a.abi, Bytes(a.stack, a.sp, n))
FromStack(a, n, w) == Fetched([a EXCEPT !.sp = @ + w], AtSP(a, n))
FromInt(a)       == Fetched([a EXCEPT !.i = @ + 1], a.ireg[a.i])
FromFloat(a)     == Fetched([a EXCEPT !.f = @ + 1], a.freg[a.f])
AlignSP(a, n)    == [a EXCEPT !.sp = RoundUp(@, n)]
SkipSP(a)        == [a EXCEPT !.sp = @ + And4(@)]

(* Two words, each fetched by Word, that make a long value. *)
TwoWords(Word(_), a) ==
  LET w0 == Word(a)
      w1 == Word(w0.args) IN
    Fetched(w1.args, Joined(a.abi, w0.val, w1.val))
=============================================================================
