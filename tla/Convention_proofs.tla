------------------------- MODULE Convention_proofs --------------------------
(***************************************************************************)
(* Proofs about Convention, for any number of registers of any platform,   *)
(* any types and modes, and any number of arguments: that its values have  *)
(* their types, that a call repeated is the same call, and that a call     *)
(* faults only for want of reserved registers.                             *)
(***************************************************************************)
EXTENDS Convention, Platform_proofs, FiniteSetTheorems

-----------------------------------------------------------------------------
(* How the k-th argument of a call is passed: in the mode of the call, or  *)
(* as a variable argument.                                                 *)
Way(c, k) == IF c.mode = "ELLIPSIS" /\ IsVariadic(c, k) THEN "VARARGS" ELSE c.mode

Ways(abi) == KnownModes(abi) \cup {"VARARGS"}

(* What the target does to find an argument passed that way.               *)
FetchAs(a, w, t) ==
  CASE w = "SYS" -> FromInt(a)
    [] w \in CEllipsis /\ a.abi \in AllAsIntegers -> dcbArg(a, AsInteger(t))
    [] w = "VARARGS" /\ a.abi \notin AllAsIntegers -> va_arg(a, t)
    [] OTHER -> dcbArg(a, t)

(* The types of arguments that are passed a way. *)
AllTypes == IntTypes \cup Wide \cup Floats

TypesOf(w) ==
  CASE w = "SYS" -> {"char"} [] w = "VARARGS" -> AllTypes \ {"float"} [] OTHER -> AllTypes

(* How far a target has come: the counters of its DCArgs, and whether a    *)
(* thiscall callback has taken this.                                       *)
Cursors == [i : Nat, f : Nat, d : Nat, sp : Nat, gone : BOOLEAN]

Start == [i |-> 0, f |-> 0, d |-> 0, sp |-> 0, gone |-> FALSE]

(* The table of the callback on x86. *)
CallbackOf(abi, w) ==
  CASE w \in {"DEFAULT", "ELLIPSIS", "VARARGS", "X86_CDECL", "X86_STD"} -> "default"
    [] w = "X86_FAST_MS"  -> "fast_ms"
    [] w = "X86_FAST_GNU" -> "fast_gnu"
    [] w \in {"THIS", "X86_THIS_MS"} -> "this_ms"
    [] OTHER -> "unset"

(* The DCArgs of a target that has come so far. *)
At(abi, w, m, p) ==
  IF abi \in X86ABIs
  THEN [abi |-> abi, vt |-> CallbackOf(abi, w), freg |-> m.freg, stack |-> m.stack,
        ireg |-> IF p.gone THEN [m.ireg EXCEPT ![0] = Junks(8)] ELSE m.ireg,
        sp |-> p.sp, i |-> p.i, f |-> p.f, d |-> p.d]
  ELSE [abi |-> abi, ireg |-> m.ireg, freg |-> m.freg, stack |-> m.stack,
        sp |-> p.sp, i |-> p.i, f |-> p.f, d |-> p.d]

(* The target at p finds argument n of type t and is then at q. *)
Finds(abi, w, m, p, q, n, t) ==
  LET r == FetchAs(At(abi, w, m, p), w, t) IN
    r.args = At(abi, w, m, q) /\ Trunc(r.val, SizeOf(abi, t)) = Value(n, SizeOf(abi, t))

(* What binding does besides putting the argument somewhere. *)
Binds(s, u) ==
  /\ IsVM(u) /\ Keeps(s, u) /\ u.vt = s.vt /\ u.err = s.err
  /\ \/ Len(u.vec) <= RoundUp(Len(s.vec), 8) + 8
     \/ Len(u.vec) <= 8 * IntRegs[s.abi] + 8

(* There is room for one more argument. *)
Room(s) ==
  /\ RoundUp(Len(s.vec), 8) + 8 <= VecTotal
  /\ 8 * IntRegs[s.abi] + 8 <= VecTotal

-----------------------------------------------------------------------------
(* Types.                                                                  *)

LEMMA Sizes ==
  ASSUME NEW abi \in ABIs, NEW t \in AllTypes
  PROVE  /\ SizeOf(abi, t) \in {1, 2, 4, 8}
         /\ t \in Wide => SizeOf(abi, t) = 8
         /\ t = "float" => SizeOf(abi, t) = 4
         /\ t \in IntTypes /\ abi \notin LP64 \cup {"arm64_win", "x64_win"} => SizeOf(abi, t) \in {1, 2, 4}
<1>1. SizeOf(abi, "char") = 1 /\ SizeOf(abi, "short") = 2 /\ SizeOf(abi, "bool") = 4
      /\ SizeOf(abi, "int") = 4 /\ SizeOf(abi, "float") = 4
  BY DEF SizeOf
<1>2. SizeOf(abi, "longlong") = 8 /\ SizeOf(abi, "double") = 8
  BY DEF SizeOf
<1>3. SizeOf(abi, "long") = IF abi \in LP64 THEN 8 ELSE 4
  BY DEF SizeOf
<1>4. SizeOf(abi, "pointer") = IF abi \in LP64 \cup {"arm64_win", "x64_win"} THEN 8 ELSE 4
  BY DEF SizeOf
<1> QED BY <1>1, <1>2, <1>3, <1>4 DEF AllTypes, IntTypes, Wide, Floats

(* An argument as the integer it is promoted to.                           *)
LEMMA Promoted ==
  ASSUME NEW abi \in ABIs, NEW t \in AllTypes, NEW n \in Nat, n > 0, NEW z \in {4, 8},
         SizeOf(abi, t) <= z
  PROVE  /\ Solid(Extend(Value(n, SizeOf(abi, t)), z), z)
         /\ Trunc(Extend(Value(n, SizeOf(abi, t)), z), SizeOf(abi, t)) = Value(n, SizeOf(abi, t))
<1>1. SizeOf(abi, t) \in Nat /\ SizeOf(abi, t) > 0
  BY Sizes
<1> QED BY <1>1, ExtendType

LEMMA Whole ==
  ASSUME NEW n \in Nat, n > 0, NEW w \in Nat
  PROVE  Solid(Value(n, w), w) /\ Trunc(Value(n, w), w) = Value(n, w)
<1>1. Solid(Value(n, w), w)
  BY ValueType
<1> DEFINE v == Value(n, w)
<1> HIDE DEF v
<1>2. SubSeq(v, 1, w) = v
  BY <1>1 DEF Solid, v
<1> QED BY <1>1, <1>2 DEF Trunc, v

-----------------------------------------------------------------------------
(* Families.                                                               *)

LEMMA FamiliesApart ==
  ASSUME NEW abi
  PROVE  /\ abi \in MipsABIs => abi \notin ArmABIs
         /\ abi \in PpcABIs => abi \notin ArmABIs \cup MipsABIs
         /\ abi \in SparcABIs => abi \notin ArmABIs \cup MipsABIs \cup PpcABIs
         /\ abi \in X86ABIs => abi \notin ArmABIs \cup MipsABIs \cup PpcABIs \cup SparcABIs
BY DEF ArmABIs, Arm32, Arm64, MipsABIs, MipsO32, MipsN64, PpcABIs, SparcABIs, X86ABIs

(* Each operation is the family's. *)
LEMMA ArmFamily ==
  ASSUME NEW abi \in ArmABIs
  PROVE  /\ \A w : ModeTable(abi, w) = ArmMode(abi, w)
         /\ \A s : s.abi = abi => Reset(s) = ArmReset(s) /\ Kernel(s) = ArmCall(s)
         /\ \A s, t, v : s.abi = abi => BindArg(s, t, v) = ArmArg(s, t, v)
         /\ \A a, t : a.abi = abi => dcbArg(a, t) = ArmFetch(a, t)
<1>1. abi \notin MipsABIs /\ abi \notin PpcABIs /\ abi \notin SparcABIs /\ abi \notin X86ABIs
  BY FamiliesApart
<1>2. \A w : ModeTable(abi, w) = ArmMode(abi, w)
  BY <1>1 DEF ModeTable
<1>3. \A s : s.abi = abi => Reset(s) = ArmReset(s) /\ Kernel(s) = ArmCall(s)
  BY <1>1 DEF Reset, Kernel
<1>4. \A s, t, v : s.abi = abi => BindArg(s, t, v) = ArmArg(s, t, v)
  BY <1>1 DEF BindArg
<1>5. \A a, t : a.abi = abi => dcbArg(a, t) = ArmFetch(a, t)
  BY <1>1 DEF dcbArg
<1> QED BY <1>2, <1>3, <1>4, <1>5

LEMMA MipsFamily ==
  ASSUME NEW abi \in MipsABIs
  PROVE  /\ \A w : ModeTable(abi, w) = MipsMode(abi, w)
         /\ \A s : s.abi = abi => Reset(s) = MipsReset(s) /\ Kernel(s) = MipsCall(s)
         /\ \A s, t, v : s.abi = abi => BindArg(s, t, v) = MipsArg(s, t, v)
         /\ \A a, t : a.abi = abi => dcbArg(a, t) = MipsFetch(a, t)
<1>1. abi \notin ArmABIs /\ abi \notin PpcABIs /\ abi \notin SparcABIs /\ abi \notin X86ABIs
  BY FamiliesApart
<1>2. \A w : ModeTable(abi, w) = MipsMode(abi, w)
  BY <1>1 DEF ModeTable
<1>3. \A s : s.abi = abi => Reset(s) = MipsReset(s) /\ Kernel(s) = MipsCall(s)
  BY <1>1 DEF Reset, Kernel
<1>4. \A s, t, v : s.abi = abi => BindArg(s, t, v) = MipsArg(s, t, v)
  BY <1>1 DEF BindArg
<1>5. \A a, t : a.abi = abi => dcbArg(a, t) = MipsFetch(a, t)
  BY <1>1 DEF dcbArg
<1> QED BY <1>2, <1>3, <1>4, <1>5

LEMMA PpcFamily ==
  ASSUME NEW abi \in PpcABIs
  PROVE  /\ \A w : ModeTable(abi, w) = PpcMode(abi, w)
         /\ \A s : s.abi = abi => Reset(s) = PpcReset(s) /\ Kernel(s) = PpcCall(s)
         /\ \A s, t, v : s.abi = abi => BindArg(s, t, v) = PpcArg(s, t, v)
         /\ \A a, t : a.abi = abi => dcbArg(a, t) = PpcFetch(a, t)
<1>1. abi \notin ArmABIs /\ abi \notin MipsABIs /\ abi \notin SparcABIs /\ abi \notin X86ABIs
  BY FamiliesApart
<1>2. \A w : ModeTable(abi, w) = PpcMode(abi, w)
  BY <1>1 DEF ModeTable
<1>3. \A s : s.abi = abi => Reset(s) = PpcReset(s) /\ Kernel(s) = PpcCall(s)
  BY <1>1 DEF Reset, Kernel
<1>4. \A s, t, v : s.abi = abi => BindArg(s, t, v) = PpcArg(s, t, v)
  BY <1>1 DEF BindArg
<1>5. \A a, t : a.abi = abi => dcbArg(a, t) = PpcFetch(a, t)
  BY <1>1 DEF dcbArg
<1> QED BY <1>2, <1>3, <1>4, <1>5

LEMMA SparcFamily ==
  ASSUME NEW abi \in SparcABIs
  PROVE  /\ \A w : ModeTable(abi, w) = SparcMode(abi, w)
         /\ \A s : s.abi = abi => Reset(s) = SparcReset(s) /\ Kernel(s) = SparcCall(s)
         /\ \A s, t, v : s.abi = abi => BindArg(s, t, v) = SparcArg(s, t, v)
         /\ \A a, t : a.abi = abi => dcbArg(a, t) = SparcFetch(a, t)
<1>1. abi \notin ArmABIs /\ abi \notin MipsABIs /\ abi \notin PpcABIs /\ abi \notin X86ABIs
  BY FamiliesApart
<1>2. \A w : ModeTable(abi, w) = SparcMode(abi, w)
  BY <1>1 DEF ModeTable
<1>3. \A s : s.abi = abi => Reset(s) = SparcReset(s) /\ Kernel(s) = SparcCall(s)
  BY <1>1 DEF Reset, Kernel
<1>4. \A s, t, v : s.abi = abi => BindArg(s, t, v) = SparcArg(s, t, v)
  BY <1>1 DEF BindArg
<1>5. \A a, t : a.abi = abi => dcbArg(a, t) = SparcFetch(a, t)
  BY <1>1 DEF dcbArg
<1> QED BY <1>2, <1>3, <1>4, <1>5

LEMMA X86Family ==
  ASSUME NEW abi \in X86ABIs
  PROVE  /\ \A w : ModeTable(abi, w) = mode_x86(abi, w)
         /\ \A s : s.abi = abi => Reset(s) = X86Reset(s) /\ Kernel(s) = X86Call(s)
         /\ \A s, t, v : s.abi = abi => BindArg(s, t, v) = X86Arg(s, t, v)
         /\ \A a, t : a.abi = abi => dcbArg(a, t) = dcbArg_x86(a, t)
<1>1. abi \notin ArmABIs /\ abi \notin MipsABIs /\ abi \notin PpcABIs /\ abi \notin SparcABIs
  BY FamiliesApart
<1>2. \A w : ModeTable(abi, w) = mode_x86(abi, w)
  BY <1>1 DEF ModeTable
<1>3. \A s : s.abi = abi => Reset(s) = X86Reset(s) /\ Kernel(s) = X86Call(s)
  BY <1>1 DEF Reset, Kernel
<1>4. \A s, t, v : s.abi = abi => BindArg(s, t, v) = X86Arg(s, t, v)
  BY <1>1 DEF BindArg
<1>5. \A a, t : a.abi = abi => dcbArg(a, t) = dcbArg_x86(a, t)
  BY <1>1 DEF dcbArg
<1> QED BY <1>2, <1>3, <1>4, <1>5

-----------------------------------------------------------------------------
(* Appending an argument of at most eight bytes where there is room.       *)
LEMMA AppendArg ==
  ASSUME NEW s, IsVM(s), Room(s), NEW v \in Seq(Byte), Len(v) <= 8, NEW u, u = dcVecAppend(s, v)
  PROVE  /\ Binds(s, u) /\ OnlyVec(s, u) /\ Len(u.vec) = Len(s.vec) + Len(v)
         /\ VecAt(u, Len(s.vec), v) /\ \A p \in 1 .. Len(s.vec) : u.vec[p] = s.vec[p]
<1> DEFINE n == Len(s.vec)
           k == Len(v)
<1>1. n \in Nat /\ k \in Nat /\ k <= 8
  BY DEF IsVM, VMs
<1>2. n <= RoundUp(n, 8) /\ RoundUp(n, 8) \in Nat /\ RoundUp(n, 8) + 8 <= VecTotal
  BY <1>1, RoundUpTo DEF Room
<1>3. n + k <= VecTotal /\ n + k <= RoundUp(n, 8) + 8
  <2> HIDE DEF n, k
  <2> QED BY <1>1, <1>2, PlatformAssumption
<1>4. IsVM(u) /\ OnlyVec(s, u) /\ Keeps(s, u) /\ Len(u.vec) = Len(s.vec) + Len(v)
        /\ VecAt(u, Len(s.vec), v) /\ \A p \in 1 .. Len(s.vec) : u.vec[p] = s.vec[p]
  BY <1>3, Appended
<1> QED BY <1>3, <1>4 DEF Binds, OnlyVec

(* The cursor behind w bytes of the stack.                                 *)
LEMMA CursorMoved ==
  ASSUME NEW p \in Cursors, NEW k \in Nat, NEW q, q = [p EXCEPT !.sp = k]
  PROVE  q \in Cursors /\ q.sp = k /\ q.i = p.i /\ q.f = p.f /\ q.d = p.d /\ q.gone = p.gone
BY DEF Cursors

-----------------------------------------------------------------------------
(* The target's DCArgs.                                                    *)

(* The way in which a call goes on. *)
Follows(w, x) == x = w \/ (w = "ELLIPSIS" /\ x = "VARARGS")

LEMMA AtFields ==
  ASSUME NEW abi, abi \notin X86ABIs, NEW w, NEW m, NEW p
  PROVE  LET a == At(abi, w, m, p) IN
           /\ a.abi = abi /\ a.ireg = m.ireg /\ a.freg = m.freg /\ a.stack = m.stack
           /\ a.sp = p.sp /\ a.i = p.i /\ a.f = p.f /\ a.d = p.d
BY DEF At

LEMMA AtInt ==
  ASSUME NEW abi, abi \notin X86ABIs, NEW w, NEW m, NEW p \in Cursors, NEW k \in Nat
  PROVE  /\ [p EXCEPT !.i = k] \in Cursors
         /\ At(abi, w, m, [p EXCEPT !.i = k]) = [At(abi, w, m, p) EXCEPT !.i = k]
BY DEF At, Cursors

LEMMA AtFloat ==
  ASSUME NEW abi, abi \notin X86ABIs, NEW w, NEW m, NEW p \in Cursors, NEW k \in Nat
  PROVE  /\ [p EXCEPT !.f = k] \in Cursors
         /\ At(abi, w, m, [p EXCEPT !.f = k]) = [At(abi, w, m, p) EXCEPT !.f = k]
BY DEF At, Cursors

LEMMA AtDouble ==
  ASSUME NEW abi, abi \notin X86ABIs, NEW w, NEW m, NEW p \in Cursors, NEW k \in Nat
  PROVE  /\ [p EXCEPT !.d = k] \in Cursors
         /\ At(abi, w, m, [p EXCEPT !.d = k]) = [At(abi, w, m, p) EXCEPT !.d = k]
BY DEF At, Cursors

LEMMA AtStack ==
  ASSUME NEW abi, abi \notin X86ABIs, NEW w, NEW m, NEW p \in Cursors, NEW k \in Nat
  PROVE  /\ [p EXCEPT !.sp = k] \in Cursors
         /\ At(abi, w, m, [p EXCEPT !.sp = k]) = [At(abi, w, m, p) EXCEPT !.sp = k]
BY DEF At, Cursors

-----------------------------------------------------------------------------
(* A CallVM that has been reset: what it reserves is junk.                 *)
Reserved(s) == CASE s.vt.reset = "armhf" -> 16 [] s.vt.reset = "fast" -> 8 [] OTHER -> 0

Fresh(s) ==
  /\ IsVM(s) /\ s.i = 0 /\ s.f = 0
  /\ s.ireg = Registers(IntRegs[s.abi]) /\ s.freg = Registers(FloatRegs[s.abi])
  /\ s.d = IF s.vt.call \in {"n64", "n32"} THEN {} ELSE 0
  /\ Len(s.vec) = Reserved(s) /\ \A k \in 1 .. Len(s.vec) : s.vec[k] = Junk

LEMMA FreshRegisters ==
  ASSUME NEW s, Fresh(s)
  PROVE  IntsFree(s) /\ FloatsFree(s)
<1>1. s.abi \in ABIs /\ IntRegs[s.abi] \in Nat /\ FloatRegs[s.abi] \in Nat
  BY PlatformAssumption DEF Fresh, IsVM, VMs
<1> QED BY <1>1 DEF Fresh, IntsFree, FloatsFree, Registers

-----------------------------------------------------------------------------
(* Arguments in words of four bytes, and in words of eight.                *)
Narrow4(abi) == abi \notin LP64 \cup {"arm64_win", "x64_win"}

Words4(t, v) == IF t \in Wide THEN v ELSE Extend(v, 4)

Raw4(abi, t, n) == Words4(t, Value(n, SizeOf(abi, t)))

Width4(t) == IF t \in Wide THEN 8 ELSE 4

LEMMA Raw4Type ==
  ASSUME NEW abi \in ABIs, Narrow4(abi), NEW t \in AllTypes, NEW n \in Nat, n > 0
  PROVE  /\ Solid(Raw4(abi, t, n), Width4(t)) /\ Raw4(abi, t, n) \in Seq(Byte)
         /\ Len(Raw4(abi, t, n)) = Width4(t) /\ Width4(t) \in {4, 8}
         /\ Trunc(Raw4(abi, t, n), SizeOf(abi, t)) = Value(n, SizeOf(abi, t))
<1>1. CASE t \in Wide
  <2>1. SizeOf(abi, t) = 8
    BY <1>1, Sizes
  <2> DEFINE z == 8
  <2>2. z \in Nat /\ z = 8
    OBVIOUS
  <2> HIDE DEF z
  <2>3. Solid(Value(n, z), z) /\ Trunc(Value(n, z), z) = Value(n, z)
    BY <2>2, Whole
  <2>4. Raw4(abi, t, n) = Value(n, z) /\ Width4(t) = z /\ SizeOf(abi, t) = z
    BY <1>1, <2>1, <2>2 DEF Raw4, Words4, Width4
  <2> QED BY <2>2, <2>3, <2>4 DEF Solid
<1>2. CASE t \notin Wide
  <2>1. SizeOf(abi, t) <= 4
    BY <1>2, Sizes DEF AllTypes, Wide, Floats, IntTypes, Narrow4
  <2> DEFINE x == Extend(Value(n, SizeOf(abi, t)), 4)
  <2>2. Solid(x, 4) /\ Trunc(x, SizeOf(abi, t)) = Value(n, SizeOf(abi, t))
    BY <2>1, Promoted
  <2>3. Raw4(abi, t, n) = x /\ Width4(t) = 4
    BY <1>2 DEF Raw4, Words4, Width4
  <2> HIDE DEF x
  <2> QED BY <2>2, <2>3 DEF Solid
<1> QED BY <1>1, <1>2

Raw8(abi, t, n) == Extend(Value(n, SizeOf(abi, t)), 8)

LEMMA Raw8Type ==
  ASSUME NEW abi \in ABIs, NEW t \in AllTypes, NEW n \in Nat, n > 0
  PROVE  /\ Solid(Raw8(abi, t, n), 8) /\ Raw8(abi, t, n) \in Seq(Byte) /\ Len(Raw8(abi, t, n)) = 8
         /\ Trunc(Raw8(abi, t, n), SizeOf(abi, t)) = Value(n, SizeOf(abi, t))
<1>1. SizeOf(abi, t) <= 8
  BY Sizes
<1> QED BY <1>1, Promoted DEF Raw8, Solid

LEMMA WaysTypes ==
  ASSUME NEW w, NEW t \in TypesOf(w)
  PROVE  t \in AllTypes
BY DEF TypesOf, AllTypes, IntTypes, Wide, Floats

(* Writing an argument into room that is reserved, and counting it.        *)
WriteInt(s, off, v, k) == [VecWrite(s, off, v) EXCEPT !.i = k]

LEMMA WriteAndCount ==
  ASSUME NEW s, IsVM(s), NEW off, NEW v
  PROVE  [VecWrite(s, off, v) EXCEPT !.i = @ + 1] = WriteInt(s, off, v, s.i + 1)
<1>1. VecWrite(s, off, v).i = s.i
  BY DEF VecWrite, IsVM, VMs
<1> QED BY <1>1 DEF WriteInt

LEMMA WriteArg ==
  ASSUME NEW s, IsVM(s), NEW v \in Seq(Byte), NEW off \in Nat, off + Len(v) <= Len(s.vec),
         \A p \in off + 1 .. off + Len(v) : s.vec[p] = Junk, NEW k \in Nat,
         NEW u, u = WriteInt(s, off, v, k)
  PROVE  /\ Binds(s, u) /\ Len(u.vec) = Len(s.vec) /\ VecAt(u, off, v)
         /\ u.abi = s.abi /\ u.i = k /\ u.f = s.f /\ u.d = s.d /\ u.ireg = s.ireg /\ u.freg = s.freg
         /\ \A p \in 1 .. Len(s.vec) : p \notin off + 1 .. off + Len(v) => u.vec[p] = s.vec[p]
<1> DEFINE r == VecWrite(s, off, v)
<1>7. u = [r EXCEPT !.i = k]
  BY DEF WriteInt
<1> HIDE DEF r
<1>1. /\ IsVM(r) /\ OnlyVec(s, r) /\ Keeps(s, r) /\ Len(r.vec) = Len(s.vec) /\ VecAt(r, off, v)
      /\ \A p \in 1 .. Len(s.vec) : p \notin off + 1 .. off + Len(v) => r.vec[p] = s.vec[p]
  BY Written DEF r
<1>2. IsVM(r)
  BY <1>1
<1>3. /\ IsVM(u) /\ Keeps(r, u) /\ u.i = k /\ u.abi = r.abi /\ u.vt = r.vt /\ u.err = r.err
      /\ u.vec = r.vec /\ u.f = r.f /\ u.d = r.d /\ u.ireg = r.ireg /\ u.freg = r.freg
  BY <1>2, <1>7, SetInt
<1>4. Keeps(s, u)
  BY <1>1, <1>3, KeepsTransitive
<1>5. VecAt(u, off, v)
  BY <1>1, <1>3 DEF VecAt
<1>6. Len(u.vec) <= RoundUp(Len(s.vec), 8) + 8
  <2> DEFINE n == Len(s.vec)
  <2>1. n \in Nat /\ Len(u.vec) = n
    BY <1>1, <1>3 DEF IsVM, VMs
  <2> HIDE DEF n
  <2>3. n <= RoundUp(n, 8) /\ RoundUp(n, 8) \in Nat
    BY <2>1, RoundUpTo
  <2>2. n <= RoundUp(n, 8) + 8
    BY <2>1, <2>3
  <2> QED BY <2>1, <2>2 DEF n
<1> QED BY <1>1, <1>3, <1>4, <1>5, <1>6 DEF Binds, OnlyVec

(* Setting a counter before an argument is bound.                          *)
LEMMA SetAndBind ==
  ASSUME NEW s, IsVM(s), Room(s), NEW k \in Nat, NEW r, r = [s EXCEPT !.i = k]
  PROVE  /\ IsVM(r) /\ Room(r) /\ r.i = k /\ r.abi = s.abi /\ r.vt = s.vt /\ r.err = s.err
         /\ r.vec = s.vec /\ r.f = s.f /\ r.d = s.d /\ r.ireg = s.ireg /\ r.freg = s.freg
         /\ \A u : Binds(r, u) => Binds(s, u)
<1>1. /\ IsVM(r) /\ Keeps(s, r) /\ r.i = k /\ r.abi = s.abi /\ r.vt = s.vt /\ r.err = s.err
      /\ r.vec = s.vec /\ r.f = s.f /\ r.d = s.d /\ r.ireg = s.ireg /\ r.freg = s.freg
  BY SetInt
<1>2. ASSUME NEW u, Binds(r, u) PROVE Binds(s, u)
  <2>1. Keeps(s, u)
    BY <1>1, <1>2, KeepsTransitive DEF Binds
  <2> QED BY <1>1, <1>2, <2>1 DEF Binds
<1> QED BY <1>1, <1>2 DEF Room

(* Reading the stack where a value is. *)
LEMMA StackFinds ==
  ASSUME NEW s, IsVM(s), NEW a, a.abi = s.abi, NEW base \in Nat, StackIs(a.stack, s, base),
         a.sp \in Nat, NEW v \in Seq(Byte), VecAt(s, base + a.sp, v), NEW n, n = Len(v), NEW k
  PROVE  FromStack(a, n, k) = Fetched([a EXCEPT !.sp = a.sp + k], v)
<1> DEFINE stack == a.stack
           sp == a.sp
<1>1. sp \in Nat /\ StackIs(stack, s, base) /\ VecAt(s, base + sp, v)
  OBVIOUS
<1> HIDE DEF stack, sp
<1>2. InMemory(s.abi, Bytes(stack, sp, n)) = v
  BY <1>1, ReadStack
<1>3. AtSP(a, n) = v
  BY <1>2 DEF AtSP, stack, sp
<1> QED BY <1>3 DEF FromStack

-----------------------------------------------------------------------------
(* The bytes that are appended for an argument. *)
SparcRaw(abi, w, t, v) ==
  CASE abi = "sparc32" -> IF t \in Wide THEN v ELSE Extend(v, 4)
    [] abi = "sparc64" /\ t = "float" -> v
    [] OTHER -> Extend(v, 8)

SparcWidth(abi, t) == IF abi = "sparc32" /\ t \notin Wide THEN 4 ELSE 8

ViaSparc(s, w, p, q, n, t) ==
  /\ p.sp % 4 = 0 /\ (s.abi = "sparc64" => p.sp % 8 = 0)
  /\ q = [p EXCEPT !.sp = @ + SparcWidth(s.abi, t)]
  /\ VecAt(s, IF s.abi = "sparc64" /\ t = "float" THEN p.sp + 4 ELSE p.sp,
           SparcRaw(s.abi, w, t, Value(n, SizeOf(s.abi, t))))

AgreeSparc(s, w, p) ==
  p.sp = Len(s.vec) /\ p.sp % 4 = 0 /\ (s.abi = "sparc64" => p.sp % 8 = 0)

LEMMA SparcRawType ==
  ASSUME NEW abi \in SparcABIs \cap ABIs, NEW w, NEW t \in AllTypes, NEW n \in Nat, n > 0,
         NEW x, x = SparcRaw(abi, w, t, Value(n, SizeOf(abi, t)))
  PROVE  /\ Solid(x, IF abi = "sparc64" /\ t = "float" THEN 4 ELSE SparcWidth(abi, t))
         /\ Trunc(x, SizeOf(abi, t)) = Value(n, SizeOf(abi, t))
<1>1. CASE abi = "sparc32" /\ t \in Wide
  BY <1>1, Sizes, Whole DEF SparcRaw, SparcWidth
<1>2. CASE abi = "sparc32" /\ t \notin Wide
  <2>1. SizeOf(abi, t) <= 4
    BY <1>2, Sizes DEF AllTypes, Wide, Floats, IntTypes, LP64
  <2> QED BY <1>2, <2>1, Promoted DEF SparcRaw, SparcWidth
<1>3. CASE abi = "sparc64" /\ t = "float"
  BY <1>3, Sizes, Whole DEF SparcRaw
<1>4. CASE abi = "sparc64" /\ t # "float"
  <2>1. SizeOf(abi, t) <= 8
    BY Sizes
  <2> QED BY <1>4, <2>1, Promoted DEF SparcRaw, SparcWidth
<1> QED BY <1>1, <1>2, <1>3, <1>4 DEF SparcABIs

(* The table of a way, and what it appends.                                *)
LEMMA SparcTables ==
  ASSUME NEW abi \in SparcABIs, NEW w \in Ways(abi)
  PROVE  /\ abi = "sparc32" => SparcMode(abi, w) = gVT_sparc
         /\ abi = "sparc64" => SparcMode(abi, w) = IF w = "VARARGS" THEN gVT_v9_ellipsis ELSE gVT_v9
<1>1. CASE abi = "sparc32"
  <2>1. OwnModes(abi) = {"SPARC32"}
    BY <1>1 DEF OwnModes, Arm64, MipsO32, MipsN64
  <2>2. w \in {"DEFAULT", "ELLIPSIS", "SPARC32", "THIS", "VARARGS"}
    BY <1>1, <2>1 DEF Ways, KnownModes
  <2> QED BY <1>1, <2>2 DEF SparcMode, mode_sparc, CDefault, CEllipsis
<1>2. CASE abi = "sparc64"
  <2>1. OwnModes(abi) = {"SPARC64"}
    BY <1>2 DEF OwnModes, Arm64, MipsO32, MipsN64
  <2>2. w \in {"DEFAULT", "ELLIPSIS", "SPARC64", "THIS", "VARARGS"}
    BY <1>2, <2>1 DEF Ways, KnownModes
  <2>3. CASE w = "VARARGS"
    BY <1>2, <2>3 DEF SparcMode, mode_v9, CDefault
  <2>4. CASE w # "VARARGS"
    BY <1>2, <2>2, <2>4 DEF SparcMode, mode_v9, CDefault
  <2> QED BY <1>2, <2>3, <2>4
<1> QED BY <1>1, <1>2 DEF SparcABIs

LEMMA SparcAppends ==
  ASSUME NEW s, s.abi \in SparcABIs, NEW w \in Ways(s.abi), s.vt = ModeTable(s.abi, w),
         NEW t \in TypesOf(w), NEW v
  PROVE  BindArg(s, t, v) =
           IF s.abi = "sparc64" /\ t = "float" THEN dcVecAppend(s, Padded(v))
           ELSE dcVecAppend(s, SparcRaw(s.abi, w, t, v))
<1>1. BindArg(s, t, v) = SparcArg(s, t, v) /\ s.vt = SparcMode(s.abi, w)
  BY SparcFamily
<1>2. CASE s.abi = "sparc32"
  <2>1. s.vt.arg = "sparc32"
    BY <1>1, <1>2, SparcTables DEF gVT_sparc
  <2> QED BY <1>1, <1>2, <2>1 DEF SparcArg, arg_sparc, SparcRaw
<1>3. CASE s.abi = "sparc64"
  <2>1. CASE w = "VARARGS"
    <3>1. t # "float" /\ s.vt.arg = "v9_ellipsis"
      BY <1>1, <1>3, <2>1, SparcTables DEF TypesOf, gVT_v9_ellipsis
    <3> QED BY <1>1, <1>3, <2>1, <3>1 DEF SparcArg, arg_v9_ellipsis, SparcRaw
  <2>2. CASE w # "VARARGS"
    <3>1. s.vt.arg = "v9"
      BY <1>1, <1>3, <2>2, SparcTables DEF gVT_v9
    <3>2. SparcArg(s, t, v) = arg_v9(s, t, v)
      BY <3>1 DEF SparcArg
    <3> QED BY <1>1, <1>3, <3>2 DEF arg_v9, argFloat_v9, SparcRaw
  <2> QED BY <2>1, <2>2
<1> QED BY <1>2, <1>3 DEF SparcABIs

LEMMA SparcBehind ==
  ASSUME NEW s, IsVM(s), NEW u, u.abi = s.abi, NEW w, NEW p \in Cursors, AgreeSparc(s, w, p),
         NEW z \in {4, 8}, s.abi = "sparc64" => z = 8, Len(u.vec) = Len(s.vec) + z,
         NEW q, q.sp = p.sp + z
  PROVE  AgreeSparc(u, w, q)
<1>1. p.sp \in Nat
  BY DEF Cursors
<1>2. p.sp = Len(s.vec) /\ p.sp % 4 = 0 /\ (s.abi = "sparc64" => p.sp % 8 = 0)
  BY DEF AgreeSparc
<1>3. (p.sp + z) % 4 = 0 /\ (s.abi = "sparc64" => (p.sp + z) % 8 = 0)
  <2> DEFINE k == p.sp
  <2>1. k \in Nat /\ k % 4 = 0 /\ (s.abi = "sparc64" => k % 8 = 0)
    BY <1>1, <1>2
  <2> HIDE DEF k
  <2>2. (k + z) % 4 = 0
    BY <2>1
  <2>3. s.abi = "sparc64" => (k + z) % 8 = 0
    BY <2>1
  <2> QED BY <2>2, <2>3 DEF k
<1> QED BY <1>2, <1>3 DEF AgreeSparc

LEMMA NewSparc ==
  ASSUME NEW s, IsVM(s), s.abi \in SparcABIs, NEW w \in Ways(s.abi), s.vt = ModeTable(s.abi, w),
         Room(s), NEW p \in Cursors, AgreeSparc(s, w, p), NEW t \in TypesOf(w), NEW n \in Nat, n > 0,
         NEW u, u = BindArg(s, t, Value(n, SizeOf(s.abi, t)))
  PROVE  \E q \in Cursors : ViaSparc(u, w, p, q, n, t) /\ AgreeSparc(u, w, q) /\ Binds(s, u)
<1> DEFINE v == Value(n, SizeOf(s.abi, t))
           x == SparcRaw(s.abi, w, t, v)
           z == SparcWidth(s.abi, t)
           q == [p EXCEPT !.sp = @ + z]
<1>1. s.abi \in ABIs /\ t \in AllTypes /\ Len(s.vec) \in Nat /\ p.sp \in Nat
  BY DEF IsVM, VMs, TypesOf, AllTypes, IntTypes, Wide, Floats, Cursors
<1>2. z \in {4, 8} /\ (s.abi = "sparc64" => z = 8)
  BY DEF SparcWidth
<1>3. q \in Cursors /\ q.sp = p.sp + z
  BY <1>1, <1>2, CursorMoved
<1>4. CASE s.abi = "sparc64" /\ t = "float"
  <2>1. Solid(v, 4) /\ x = v /\ z = 8
    BY <1>1, <1>2, <1>4, Sizes, Whole DEF SparcRaw
  <2>2. Padded(v) \in Seq(Byte) /\ Len(Padded(v)) = 8
    BY <2>1, PaddedType
  <2>3. u = dcVecAppend(s, Padded(v))
    BY <1>4, SparcAppends
  <2> HIDE DEF v, x, z
  <2>4. /\ Binds(s, u) /\ OnlyVec(s, u) /\ Len(u.vec) = Len(s.vec) + 8
        /\ VecAt(u, Len(s.vec), Padded(v))
    <3> DEFINE y == Padded(v)
    <3>1. y \in Seq(Byte) /\ Len(y) = 8 /\ Len(y) <= 8 /\ u = dcVecAppend(s, y)
      BY <2>2, <2>3
    <3> HIDE DEF y
    <3>2. Binds(s, u) /\ OnlyVec(s, u) /\ Len(u.vec) = Len(s.vec) + Len(y) /\ VecAt(u, Len(s.vec), y)
      BY <3>1, AppendArg
    <3> QED BY <3>1, <3>2 DEF y
  <2>5. VecAt(u, Len(s.vec) + Part(u.abi), v)
    BY <1>1, <2>1, <2>4, PaddedAt DEF Binds
  <2>6. u.abi = s.abi /\ Part(u.abi) = 4
    BY <1>4, <2>4 DEF OnlyVec, Part, BigEndian
  <2>7. ViaSparc(u, w, p, q, n, t)
    BY <1>4, <2>1, <2>5, <2>6 DEF ViaSparc, AgreeSparc, x, v, z
  <2>8. AgreeSparc(u, w, q)
    <3>1. Len(u.vec) = Len(s.vec) + 8 /\ q.sp = p.sp + 8 /\ u.abi = s.abi
      BY <1>3, <2>1, <2>4, <2>6
    <3> HIDE DEF q
    <3> QED BY <3>1, SparcBehind
  <2> QED BY <1>3, <2>4, <2>7, <2>8
<1>5. CASE ~(s.abi = "sparc64" /\ t = "float")
  <2>1. Solid(x, z)
    BY <1>1, <1>5, SparcRawType
  <2>2. u = dcVecAppend(s, x)
    BY <1>5, SparcAppends
  <2> HIDE DEF x, z, q
  <2>3. x \in Seq(Byte) /\ Len(x) = z /\ Len(x) <= 8
    BY <1>2, <2>1 DEF Solid
  <2>4. /\ Binds(s, u) /\ OnlyVec(s, u) /\ Len(u.vec) = Len(s.vec) + z
        /\ VecAt(u, Len(s.vec), x)
    BY <2>2, <2>3, AppendArg
  <2>6. u.abi = s.abi
    BY <2>4 DEF OnlyVec
  <2>7. ViaSparc(u, w, p, q, n, t)
    BY <1>5, <2>4, <2>6 DEF ViaSparc, AgreeSparc, x, z, q
  <2>8. AgreeSparc(u, w, q)
    <3>1. Len(u.vec) = Len(s.vec) + z /\ q.sp = p.sp + z /\ z \in {4, 8} /\ u.abi = s.abi
      BY <1>2, <1>3, <2>4, <2>6
    <3>2. s.abi = "sparc64" => z = 8
      BY <1>2
    <3> QED BY <3>1, <3>2, SparcBehind
  <2> QED BY <1>3, <2>4, <2>7, <2>8
<1> QED BY <1>4, <1>5

(* Where the vector begins, registers first, is what the target reads.     *)
LEMMA SparcMemory ==
  ASSUME NEW s, IsVM(s), s.abi \in SparcABIs, NEW a, a.abi = s.abi,
         a.ireg = FirstWords(s, IntRegs[s.abi], IF s.abi = "sparc32" THEN 4 ELSE 8),
         a.stack = VecRest(s, IntRegs[s.abi] * IF s.abi = "sparc32" THEN 4 ELSE 8)
  PROVE  StackIs(Memory(a), s, 0)
<1> DEFINE m == s.vec
           w == IF s.abi = "sparc32" THEN 4 ELSE 8
           c == IntRegs[s.abi]
           F == [k \in 1 .. w * c |-> InMemory(s.abi, a.ireg[(k - 1) \div w])[((k - 1) % w) + 1]]
<1>1. m \in Seq(Byte) /\ Len(m) \in Nat /\ c \in Nat /\ w \in {4, 8}
  BY PlatformAssumption DEF IsVM, VMs
<1>2. Memory(a) = F \o a.stack
  BY DEF Memory, WordSize
<1>3. ASSUME NEW k \in 1 .. w * c
      PROVE  F[k] = IF k <= Len(m) THEN m[k] ELSE Junk
  <2> DEFINE j == (k - 1) \div w
             r == (k - 1) % w
             b == Bytes(m, w * j, w)
  <2>1. j \in 0 .. c - 1 /\ r \in 0 .. w - 1 /\ k = w * j + (r + 1) /\ w * j \in Nat
    BY <1>1
  <2>2. F[k] = InMemory(s.abi, a.ireg[j])[r + 1]
    OBVIOUS
  <2>3. a.ireg[j] = InMemory(s.abi, b)
    BY <2>1 DEF FirstWords
  <2> HIDE DEF j, r, F, w, m
  <2>4. b \in Seq(Byte) /\ Len(b) = w /\ InMemory(s.abi, InMemory(s.abi, b)) = b
    <3> DEFINE o == w * j
    <3>1. o \in Nat /\ w \in Nat
      BY <1>1, <2>1
    <3> HIDE DEF o
    <3>2. Bytes(m, o, w) \in Seq(Byte) /\ Len(Bytes(m, o, w)) = w
      BY <1>1, <3>1, BytesAt
    <3>3. b \in Seq(Byte) /\ Len(b) = w
      BY <3>2 DEF o
    <3> HIDE DEF b
    <3> DEFINE d == InMemory(s.abi, b)
    <3>4. d \in Seq(Byte) /\ Len(d) = Len(b)
      BY <3>3, InMemoryType
    <3>5. InMemory(s.abi, d) = b
      BY <3>3, <3>4, InMemoryTwice
    <3> QED BY <3>3, <3>5
  <2>5. F[k] = b[r + 1]
    BY <2>2, <2>3, <2>4
  <2>6. b[r + 1] = IF w * j + (r + 1) <= Len(m) THEN m[w * j + (r + 1)] ELSE Junk
    BY <1>1, <2>1 DEF Bytes
  <2> QED BY <2>1, <2>5, <2>6
<1>4. F \in Seq(Byte) /\ Len(F) = w * c
  <2> DEFINE z == w * c
  <2>1. z \in Nat
    BY <1>1
  <2> HIDE DEF m, z, w, c
  <2>2. ASSUME NEW k \in 1 .. z PROVE F[k] \in Byte
    <3>1. F[k] = IF k <= Len(m) THEN m[k] ELSE Junk
      BY <1>3 DEF z
    <3>2. k <= Len(m) => m[k] \in Byte
      BY <1>1, <2>1
    <3>3. Junk \in Byte
      BY DEF Junk, Byte
    <3> HIDE DEF F
    <3> QED BY <3>1, <3>2, <3>3
  <2> QED BY <2>1, <2>2, FunctionIsSeq DEF z
<1>5. StackIs(a.stack, s, w * c)
  <2> DEFINE z == w * c
  <2>1. z \in Nat /\ a.stack = VecRest(s, z)
    BY <1>1
  <2> HIDE DEF z
  <2> QED BY <2>1, StackRest DEF z
<1> DEFINE z == w * c
           e == a.stack
<1>6. /\ z \in Nat /\ F \in Seq(Byte) /\ Len(F) = z /\ e \in Seq(Byte)
      /\ \A k \in 1 .. z : k <= Len(m) => F[k] = m[k]
      /\ \A k \in 1 .. Len(m) : k > z => k - z <= Len(e) /\ e[k - z] = m[k]
  BY SMTT(60), <1>1, <1>3, <1>4, <1>5 DEF StackIs
<1> HIDE DEF z, F, e, m, w, c
<1>7. /\ F \o e \in Seq(Byte) /\ Len(F \o e) = z + Len(e)
      /\ \A k \in 1 .. z : (F \o e)[k] = F[k]
      /\ \A k \in 1 .. Len(e) : (F \o e)[z + k] = e[k]
  BY <1>6
<1> DEFINE y == F \o e
<1> HIDE DEF y
<1>8. ASSUME NEW k \in 1 .. Len(m) PROVE k <= Len(y) /\ y[k] = m[k]
  <2>1. CASE k <= z
    BY <1>1, <1>6, <1>7, <2>1 DEF y
  <2>2. CASE k > z
    <3>1. k - z \in 1 .. Len(e) /\ e[k - z] = m[k] /\ z + (k - z) = k
      BY <1>1, <1>6, <2>2
    <3> QED BY <1>6, <1>7, <3>1 DEF y
  <2> QED BY <1>1, <1>6, <2>1, <2>2
<1>9. Memory(a) = y
  BY <1>2 DEF y, e
<1> QED BY <1>7, <1>8, <1>9 DEF StackIs, y, m

LEMMA FetchSparc ==
  ASSUME NEW s, IsVM(s), s.abi \in SparcABIs, NEW x \in Ways(s.abi), s.vt = ModeTable(s.abi, x),
         NEW w \in Ways(s.abi), NEW p \in Cursors, NEW q \in Cursors, NEW t \in TypesOf(w),
         NEW n \in Nat, n > 0, ViaSparc(s, w, p, q, n, t)
  PROVE  Finds(s.abi, w, Kernel(s), p, q, n, t)
<1> DEFINE v == Value(n, SizeOf(s.abi, t))
           z == SparcWidth(s.abi, t)
           m == Kernel(s)
           a == At(s.abi, w, m, p)
           b == Memory(a)
           c == IntRegs[s.abi]
           r == FetchAs(a, w, t)
<1>1. s.abi \in ABIs /\ t \in AllTypes /\ Len(s.vec) \in Nat /\ p.sp \in Nat
  BY DEF IsVM, VMs, TypesOf, AllTypes, IntTypes, Wide, Floats, Cursors
<1>2. s.abi \notin X86ABIs
  BY DEF SparcABIs, X86ABIs
<1>3. m = IF s.abi = "sparc32" THEN dcCall_sparc(s) ELSE dcCall_v9(s)
  <2>1. m = SparcCall(s) /\ s.vt = SparcMode(s.abi, x)
    BY SparcFamily
  <2>2. s.abi = "sparc32" => s.vt.call = "sparc32"
    BY <2>1, SparcTables DEF gVT_sparc
  <2>3. s.abi = "sparc64" => s.vt.call = "v9"
    BY <2>1, SparcTables DEF gVT_v9, gVT_v9_ellipsis
  <2> QED BY <2>1, <2>2, <2>3 DEF SparcCall, SparcABIs
<1>4. /\ a.abi = s.abi /\ a.sp = p.sp /\ a.ireg = m.ireg /\ a.freg = m.freg /\ a.stack = m.stack
  BY <1>2, AtFields
<1>5. StackIs(b, s, 0)
  <2>1. /\ m.ireg = FirstWords(s, c, IF s.abi = "sparc32" THEN 4 ELSE 8)
        /\ m.stack = VecRest(s, c * IF s.abi = "sparc32" THEN 4 ELSE 8)
    <3>1. CASE s.abi = "sparc32"
      BY <1>1, <1>3, <3>1, PlatformAssumption DEF dcCall_sparc, Image
    <3>2. CASE s.abi # "sparc32"
      BY <1>1, <1>3, <3>2, PlatformAssumption DEF dcCall_v9, Image
    <3> QED BY <3>1, <3>2
  <2> HIDE DEF m, a
  <2> QED BY <1>4, <2>1, SparcMemory
<1>6. z \in {4, 8} /\ p.sp + z \in Nat /\ q = [p EXCEPT !.sp = p.sp + z]
  BY <1>1 DEF SparcWidth, ViaSparc
<1>7. At(s.abi, w, m, q) = [a EXCEPT !.sp = p.sp + z]
  <2> DEFINE k == p.sp + z
  <2>1. k \in Nat /\ q = [p EXCEPT !.sp = k]
    BY <1>6
  <2> HIDE DEF k, m
  <2>2. At(s.abi, w, m, q) = [a EXCEPT !.sp = k]
    BY <1>2, <2>1, AtStack
  <2> QED BY <2>2 DEF k
<1>8. s.abi \notin AllAsIntegers /\ w # "SYS"
  BY DEF SparcABIs, AllAsIntegers, Ways, KnownModes, OwnModes, Arm64, MipsO32, MipsN64
<1> DEFINE g == IF w = "VARARGS" /\ s.abi = "sparc64" THEN AsInteger(t) ELSE t
<1>9. r = SparcFetch(a, g)
  <2>1. r = dcbArg(a, g)
    <3>1. CASE w = "VARARGS"
      BY <1>4, <1>8, <3>1 DEF FetchAs, va_arg, VariadicAsIntegers, SparcABIs, MipsABIs, MipsO32, MipsN64
    <3>2. CASE w # "VARARGS"
      BY <1>4, <1>8, <3>2 DEF FetchAs
    <3> QED BY <3>1, <3>2
  <2> QED BY <1>4, <2>1, SparcFamily
<1> DEFINE y == SparcRaw(s.abi, w, t, v)
<1> HIDE DEF r, g, m
<1>10. r.args = [a EXCEPT !.sp = p.sp + z] /\ Trunc(r.val, SizeOf(s.abi, t)) = v
  <2>1. CASE s.abi = "sparc32"
    <3>1. y \in Seq(Byte) /\ Len(y) = z /\ Trunc(y, SizeOf(s.abi, t)) = v
      <4>1. Solid(y, z) /\ Trunc(y, SizeOf(s.abi, t)) = v
        BY <1>1, <2>1, SparcRawType
      <4> HIDE DEF y, z, v
      <4> QED BY <4>1 DEF Solid
    <3>2. r = FromMemory(a, z, z)
      BY <1>4, <1>9, <2>1 DEF g, SparcFetch, dcbArg_sparc32, SparcWidth
    <3>3. VecAt(s, 0 + p.sp, y)
      BY <1>1, <2>1 DEF ViaSparc
    <3> HIDE DEF a, b, y, z
    <3>4. InMemory(s.abi, Bytes(b, p.sp, z)) = y
      BY <1>1, <1>5, <3>1, <3>3, ReadStack
    <3>5. r.val = y /\ r.args = [a EXCEPT !.sp = p.sp + z]
      BY <1>4, <3>2, <3>4 DEF FromMemory, Fetched, b
    <3> QED BY <3>1, <3>5
  <2>2. CASE s.abi = "sparc64"
    <3>1. /\ r = dcbArg_sparc64(a, g) /\ z = 8 /\ p.sp % 8 = 0
          /\ m.freg = FirstWords(s, FloatRegs[s.abi], 8)
      BY <1>3, <1>4, <1>9, <2>2 DEF SparcFetch, SparcWidth, ViaSparc, dcCall_v9, Image
    <3>2. g \in Floats => t = g
      BY DEF g, AsInteger, Floats, TypesOf
    <3>3. CASE g \in Floats /\ p.sp < 8 * FloatRegs[s.abi]
      <4> DEFINE j == p.sp \div 8
                 k == FloatRegs[s.abi]
      <4>1. k \in Nat /\ j \in 0 .. k - 1 /\ p.sp = 8 * j
        <5> DEFINE o == p.sp
        <5>1. o \in Nat /\ o % 8 = 0 /\ k \in Nat /\ o < 8 * k
          BY <1>1, <3>1, <3>3, PlatformAssumption
        <5> HIDE DEF o, k
        <5>2. (o \div 8) \in 0 .. k - 1 /\ o = 8 * (o \div 8)
          BY <5>1
        <5> QED BY <5>1, <5>2 DEF o
      <4>2. r = Fetched([a EXCEPT !.sp = p.sp + 8], FirstWords(s, k, 8)[j])
        BY <1>4, <2>2, <3>1, <3>3 DEF dcbArg_sparc64
      <4>3. Trunc(FirstWords(s, k, 8)[j], SizeOf(s.abi, t)) = v
        <5>1. CASE t = "float"
          <6>1. Solid(v, 4) /\ VecAt(s, p.sp + 4, y) /\ y = v /\ Part(s.abi) = 4 /\ SizeOf(s.abi, t) = 4
            BY <1>1, <2>2, <5>1, Sizes, Whole DEF ViaSparc, SparcRaw, Part, BigEndian
          <6> HIDE DEF j, k, v, y
          <6>2. VecAt(s, 8 * j + Part(s.abi), v)
            BY <4>1, <6>1
          <6> QED BY <4>1, <6>1, <6>2, ReadWordSlot
        <5>2. CASE t # "float"
          <6>1. y \in Seq(Byte) /\ Len(y) = 8 /\ Trunc(y, SizeOf(s.abi, t)) = v
            <7>1. Solid(y, z) /\ Trunc(y, SizeOf(s.abi, t)) = v
              BY <1>1, <2>2, <5>2, SparcRawType
            <7> QED BY <3>1, <7>1 DEF Solid
          <6>2. VecAt(s, p.sp, y)
            BY <2>2, <5>2 DEF ViaSparc
          <6> DEFINE h == 8
          <6>3. h \in {4, 8} /\ Len(y) = h
            BY <6>1
          <6> HIDE DEF j, k, y
          <6>4. VecAt(s, h * j, y)
            BY <4>1, <6>2
          <6> HIDE DEF h
          <6>5. FirstWords(s, k, h)[j] = y
            BY ZenonT(60), <4>1, <6>1, <6>3, <6>4, ReadWord
          <6> QED BY <6>1, <6>5 DEF h
        <5> QED BY <5>1, <5>2
      <4> HIDE DEF a, j, k
      <4> QED BY <3>1, <4>2, <4>3 DEF Fetched
    <3>4. CASE ~(g \in Floats /\ p.sp < 8 * FloatRegs[s.abi])
      <4>1. r = FromMemory(a, 8, 8)
        BY <1>4, <2>2, <3>1, <3>4 DEF dcbArg_sparc64
      <4>2. r.args = [a EXCEPT !.sp = p.sp + 8] /\ r.val = InMemory(s.abi, Bytes(b, p.sp, 8))
        <5> HIDE DEF a
        <5> QED BY <1>4, <4>1 DEF FromMemory, Fetched
      <4>3. Trunc(InMemory(s.abi, Bytes(b, p.sp, 8)), SizeOf(s.abi, t)) = v
        <5>1. CASE t = "float"
          <6>1. Solid(v, 4) /\ VecAt(s, p.sp + 4, y) /\ y = v /\ Part(s.abi) = 4 /\ SizeOf(s.abi, t) = 4
            BY <1>1, <2>2, <5>1, Sizes, Whole DEF ViaSparc, SparcRaw, Part, BigEndian
          <6> DEFINE base == 0
          <6>2. base \in Nat /\ VecAt(s, base + p.sp + Part(s.abi), v) /\ StackIs(b, s, base)
            BY <1>1, <1>5, <6>1
          <6> HIDE DEF v, y, b, base
          <6> QED BY <1>1, <6>1, <6>2, ReadStackSlot
        <5>2. CASE t # "float"
          <6>1. y \in Seq(Byte) /\ Len(y) = 8 /\ Trunc(y, SizeOf(s.abi, t)) = v
            <7>1. Solid(y, z) /\ Trunc(y, SizeOf(s.abi, t)) = v
              BY <1>1, <2>2, <5>2, SparcRawType
            <7> QED BY <3>1, <7>1 DEF Solid
          <6>2. VecAt(s, 0 + p.sp, y)
            BY <1>1, <2>2, <5>2 DEF ViaSparc
          <6> HIDE DEF b, y, z, v, a, c
          <6>3. InMemory(s.abi, Bytes(b, p.sp, Len(y))) = y
            <7>1. p.sp \in Nat /\ 0 \in Nat /\ y \in Seq(Byte)
              BY <1>1, <6>1 DEF Cursors
            <7>2. StackIs(b, s, 0)
              BY <1>5
            <7> QED BY <6>2, <7>1, <7>2, ReadStack
          <6> QED BY <6>1, <6>3
        <5> QED BY <5>1, <5>2
      <4> QED BY <3>1, <4>2, <4>3
    <3> QED BY <3>3, <3>4
  <2> QED BY <2>1, <2>2 DEF SparcABIs
<1> HIDE DEF a
<1> QED BY <1>7, <1>10 DEF Finds, r, m, a

LEMMA KeptSparc ==
  ASSUME NEW s, NEW u, IsVM(s), IsVM(u), Keeps(s, u), s.abi \in SparcABIs, NEW w, NEW p, NEW q,
         NEW t \in TypesOf(w), NEW n \in Nat, n > 0, ViaSparc(s, w, p, q, n, t)
  PROVE  ViaSparc(u, w, p, q, n, t)
<1> DEFINE x == SparcRaw(s.abi, w, t, Value(n, SizeOf(s.abi, t)))
           z == IF s.abi = "sparc64" /\ t = "float" THEN 4 ELSE SparcWidth(s.abi, t)
           o == IF s.abi = "sparc64" /\ t = "float" THEN p.sp + 4 ELSE p.sp
<1>1. s.abi \in ABIs /\ t \in AllTypes /\ u.abi = s.abi
  BY DEF IsVM, VMs, TypesOf, AllTypes, IntTypes, Wide, Floats, Keeps
<1>2. Solid(x, z)
  BY <1>1, SparcRawType
<1>3. VecAt(s, o, x)
  BY DEF ViaSparc
<1> HIDE DEF x, z, o
<1>4. VecAt(u, o, x)
  BY <1>2, <1>3, VecAtKept
<1> QED BY <1>1, <1>4 DEF ViaSparc, x, o

LEMMA StartSparc ==
  ASSUME NEW s, s.abi \in SparcABIs, NEW w \in Ways(s.abi), s.vt = ModeTable(s.abi, w), Fresh(s)
  PROVE  AgreeSparc(s, w, Start)
<1>1. s.vt.reset = "sparc"
  BY SparcFamily, SparcTables DEF SparcABIs, gVT_sparc, gVT_v9, gVT_v9_ellipsis
<1>2. Len(s.vec) = 0
  BY <1>1 DEF Fresh, Reserved
<1> QED BY <1>2 DEF AgreeSparc, Start

LEMMA SwitchSparc ==
  ASSUME NEW s, NEW u, u.abi = s.abi, u.vec = s.vec, NEW p, AgreeSparc(s, "ELLIPSIS", p)
  PROVE  AgreeSparc(u, "VARARGS", p)
BY DEF AgreeSparc

-----------------------------------------------------------------------------
(* How the conventions of x86 pass arguments.                              *)
X86Kind(w) ==
  CASE w \in {"DEFAULT", "ELLIPSIS", "VARARGS", "X86_CDECL", "X86_STD"} -> "stack"
    [] w \in {"THIS", "X86_THIS_MS"} -> "this"
    [] w = "X86_FAST_MS"  -> "fast_ms"
    [] w = "X86_FAST_GNU" -> "fast_gnu"
    [] w = "SYS"          -> "sys"

Fast == {"fast_ms", "fast_gnu"}

X86Ways == {"DEFAULT", "ELLIPSIS", "VARARGS", "X86_CDECL", "X86_STD", "THIS", "X86_THIS_MS",
            "X86_FAST_MS", "X86_FAST_GNU", "SYS"}

(* The bytes of the vector that are not on the target's stack.             *)
X86Base(w) == CASE X86Kind(w) = "this" -> 4 [] X86Kind(w) \in Fast -> 8 [] OTHER -> 0

X86InReg(w, p, t) == X86Kind(w) \in Fast /\ t \in IntTypes /\ p.i < 2

ThisTaken(ireg) == [ireg EXCEPT ![0] = Junks(8)]

ViaX86(s, w, p, q, n, t) ==
  LET x == Raw4(s.abi, t, n) IN
    CASE X86Kind(w) = "sys" ->
           t = "char" /\ ~p.gone /\ p.i < SysArgs /\ VecAt(s, 4 * p.i, x) /\ q = [p EXCEPT !.i = p.i + 1]
      [] X86Kind(w) = "this" /\ ~p.gone ->
           t \in IntTypes /\ VecAt(s, 0, x) /\ q = [p EXCEPT !.gone = TRUE]
      [] X86InReg(w, p, t) -> ~p.gone /\ VecAt(s, 4 * p.i, x) /\ q = [p EXCEPT !.i = p.i + 1]
      [] X86Kind(w) = "fast_gnu" /\ t = "longlong" ->
           VecAt(s, 8 + p.sp, x) /\ q = [[p EXCEPT !.i = p.i + 2] EXCEPT !.sp = p.sp + 8]
      [] OTHER -> VecAt(s, X86Base(w) + p.sp, x) /\ q = [p EXCEPT !.sp = p.sp + Width4(t)]

AgreeX86(s, w, p) ==
  CASE X86Kind(w) = "sys"   -> ~p.gone /\ Len(s.vec) = 4 * p.i
    [] X86Kind(w) = "this"  -> IF p.gone THEN Len(s.vec) = 4 + p.sp ELSE Len(s.vec) = 0 /\ p.sp = 0
    [] X86Kind(w) = "stack" -> ~p.gone /\ Len(s.vec) = p.sp
    [] X86Kind(w) \in Fast  ->
         /\ ~p.gone /\ Len(s.vec) = 8 + p.sp
         /\ (s.i < 2 \/ p.i < 2) => p.i = s.i
         /\ \A k \in 1 .. 8 : k > 4 * s.i => s.vec[k] = Junk

LEMMA X86Tables ==
  ASSUME NEW abi \in X86ABIs, NEW w \in Ways(abi)
  PROVE  /\ w \in X86Ways /\ (abi = "x86" => w # "THIS") /\ (abi = "x86_msvc" => w # "SYS")
         /\ X86Kind(w) = "stack" => mode_x86(abi, w) \in {gVT_x86_cdecl, gVT_x86_win32_std}
         /\ X86Kind(w) = "this" => mode_x86(abi, w) = gVT_x86_win32_this_ms
         /\ X86Kind(w) = "fast_ms" => mode_x86(abi, w) = gVT_x86_win32_fast_ms
         /\ X86Kind(w) = "fast_gnu" => mode_x86(abi, w) = gVT_x86_win32_fast_gnu
         /\ X86Kind(w) = "sys" => mode_x86(abi, w) = gVT_x86_syscall_int80h_linux
<1>1. CASE abi = "x86"
  <2>1. OwnModes(abi) = {"X86_CDECL", "X86_STD", "X86_FAST_MS", "X86_FAST_GNU", "X86_THIS_MS", "SYS"}
    BY <1>1 DEF OwnModes, Arm64, MipsO32, MipsN64
  <2>2. w \in X86Ways /\ w # "THIS"
    BY <1>1, <2>1 DEF Ways, KnownModes, X86Ways
  <2> QED
    BY <1>1, <2>2 DEF mode_x86, X86Ways, X86Kind, CEllipsis
<1>2. CASE abi = "x86_msvc"
  <2>1. OwnModes(abi) = {"X86_CDECL", "X86_STD", "X86_FAST_MS", "X86_FAST_GNU", "X86_THIS_MS"}
    BY <1>2 DEF OwnModes, Arm64, MipsO32, MipsN64
  <2>2. w \in X86Ways /\ w # "SYS"
    BY <1>2, <2>1 DEF Ways, KnownModes, X86Ways
  <2> QED
    BY <1>2, <2>2 DEF mode_x86, X86Ways, X86Kind, CEllipsis
<1> QED BY <1>1, <1>2 DEF X86ABIs

LEMMA X86Kinds ==
  ASSUME NEW w \in X86Ways
  PROVE  X86Kind(w) \in {"stack", "this", "fast_ms", "fast_gnu", "sys"}
BY DEF X86Ways, X86Kind

(* What binding does in each kind of convention.                           *)
X86Does(s, w, t, x, u) ==
  /\ X86Kind(w) \in {"stack", "this", "sys"} => u = dcVecAppend(s, x)
  /\ X86Kind(w) \in Fast /\ t \in IntTypes /\ s.i < 2 =>
       u = WriteInt(s, 4 * s.i, x, s.i + 1)
  /\ X86Kind(w) = "fast_gnu" /\ t = "longlong" => u = dcVecAppend([s EXCEPT !.i = 2], x)
  /\ X86Kind(w) \in Fast /\ ~(t \in IntTypes /\ s.i < 2)
       /\ ~(X86Kind(w) = "fast_gnu" /\ t = "longlong") => u = dcVecAppend(s, x)

LEMMA X86Binds ==
  ASSUME NEW s, IsVM(s), s.abi \in X86ABIs, NEW w \in Ways(s.abi), s.vt = ModeTable(s.abi, w),
         NEW t \in TypesOf(w), NEW v
  PROVE  X86Does(s, w, t, Words4(t, v), BindArg(s, t, v))
<1> DEFINE u == BindArg(s, t, v)
           x == Words4(t, v)
<1>1. u = X86Arg(s, t, v) /\ s.vt = mode_x86(s.abi, w) /\ w \in X86Ways
  BY X86Family, X86Tables
<1>2. t \in AllTypes /\ x = IF t \in Wide THEN v ELSE Extend(v, 4)
  BY WaysTypes DEF Words4
<1> HIDE DEF u, x
<1>3. ASSUME X86Kind(w) \in {"stack", "this", "sys"} PROVE X86Does(s, w, t, x, u)
  <2>1. s.vt.arg = "x86"
    BY <1>1, <1>3, X86Tables DEF gVT_x86_cdecl, gVT_x86_win32_std, gVT_x86_win32_this_ms,
       gVT_x86_syscall_int80h_linux
  <2> QED BY <1>1, <1>2, <1>3, <2>1 DEF X86Arg, arg_x86, Fast, X86Does
<1>4. ASSUME X86Kind(w) = "fast_ms" PROVE X86Does(s, w, t, x, u)
  <2>1. s.vt.arg = "fast_ms"
    BY <1>1, <1>4, X86Tables DEF gVT_x86_win32_fast_ms
  <2>2. u = IF t \in IntTypes THEN fast_ms_int(s, Extend(v, 4)) ELSE arg_x86(s, t, v)
    BY <1>1, <2>1 DEF X86Arg, arg_x86_win32_fast_ms
  <2>3. t \in IntTypes => t \notin Wide
    BY DEF IntTypes, Wide
  <2> QED BY <1>2, <1>4, <2>2, <2>3, WriteAndCount DEF arg_x86, fast_ms_int, Fast, X86Does
<1>5. ASSUME X86Kind(w) = "fast_gnu" PROVE X86Does(s, w, t, x, u)
  <2>1. s.vt.arg = "fast_gnu"
    BY <1>1, <1>5, X86Tables DEF gVT_x86_win32_fast_gnu
  <2>2. u = arg_x86_win32_fast_gnu(s, t, v)
    BY <1>1, <2>1 DEF X86Arg
  <2>3. CASE t \in IntTypes
    <3>1. t \notin Wide /\ t # "longlong" /\ t \notin Floats
      BY <2>3 DEF IntTypes, Wide, Floats
    <3>2. u = fast_gnu_int(s, x)
      BY <1>2, <2>2, <2>3, <3>1 DEF arg_x86_win32_fast_gnu
    <3> QED BY <1>5, <2>3, <3>1, <3>2, WriteAndCount DEF fast_gnu_int, Fast, X86Does
  <2>4. CASE t = "longlong"
    <3>1. t \in Wide /\ t \notin IntTypes /\ t \notin Floats
      BY <2>4 DEF IntTypes, Wide, Floats
    <3>2. u = fast_gnu_longlong(s, x)
      BY <1>2, <2>2, <2>4, <3>1 DEF arg_x86_win32_fast_gnu
    <3> QED BY <1>5, <2>4, <3>1, <3>2 DEF fast_gnu_longlong, Fast, X86Does
  <2>5. CASE t \in Floats
    <3>1. t \notin IntTypes /\ t # "longlong"
      BY <2>5 DEF IntTypes, Floats
    <3>2. u = arg_x86(s, t, v)
      BY <2>2, <2>5, <3>1 DEF arg_x86_win32_fast_gnu
    <3> QED BY <1>2, <1>5, <3>1, <3>2 DEF arg_x86, Fast, X86Does
  <2> QED BY <1>2, <2>3, <2>4, <2>5 DEF AllTypes, Wide, Floats
<1>6. X86Does(s, w, t, x, u)
  BY <1>1, <1>3, <1>4, <1>5, X86Kinds DEF Fast
<1> QED BY <1>6 DEF u, x

LEMMA X86AppendsArg ==
  ASSUME NEW s, IsVM(s), Room(s), s.abi \in X86ABIs, NEW t \in AllTypes, NEW n \in Nat, n > 0,
         NEW x, x = Raw4(s.abi, t, n), NEW u, u = dcVecAppend(s, x)
  PROVE  /\ Binds(s, u) /\ OnlyVec(s, u) /\ Len(u.vec) = Len(s.vec) + Width4(t)
         /\ VecAt(u, Len(s.vec), x) /\ \A j \in 1 .. Len(s.vec) : u.vec[j] = s.vec[j]
<1>1. s.abi \in ABIs /\ Narrow4(s.abi)
  BY DEF IsVM, VMs, Narrow4, X86ABIs, LP64
<1>2. x \in Seq(Byte) /\ Len(x) = Width4(t) /\ Width4(t) \in {4, 8}
  BY <1>1, Raw4Type
<1>3. Len(x) <= 8
  BY <1>2
<1> QED BY <1>2, <1>3, AppendArg

LEMMA NewStackX86 ==
  ASSUME NEW s, IsVM(s), s.abi \in X86ABIs, NEW w \in Ways(s.abi), s.vt = ModeTable(s.abi, w),
         Room(s), NEW p \in Cursors, AgreeX86(s, w, p), NEW t \in TypesOf(w), NEW n \in Nat, n > 0,
         NEW u, u = BindArg(s, t, Value(n, SizeOf(s.abi, t))), X86Kind(w) = "stack"
  PROVE  \E q \in Cursors : ViaX86(u, w, p, q, n, t) /\ AgreeX86(u, w, q) /\ Binds(s, u)
<1> DEFINE x == Raw4(s.abi, t, n)
           k == p.sp + Width4(t)
           q == [p EXCEPT !.sp = k]
<1>1. t \in AllTypes /\ p.sp \in Nat /\ Width4(t) \in {4, 8} /\ k \in Nat
  BY WaysTypes DEF Cursors, Width4
<1>2. u = dcVecAppend(s, x)
  <2> DEFINE v == Value(n, SizeOf(s.abi, t))
  <2>1. x = Words4(t, v) /\ u = BindArg(s, t, v)
    BY DEF Raw4
  <2> HIDE DEF x, v
  <2>2. X86Does(s, w, t, x, u)
    BY <2>1, X86Binds
  <2> QED BY <2>2 DEF X86Does
<1> HIDE DEF x
<1>3. /\ Binds(s, u) /\ OnlyVec(s, u) /\ Len(u.vec) = Len(s.vec) + Width4(t)
      /\ VecAt(u, Len(s.vec), x)
  BY <1>1, <1>2, X86AppendsArg DEF x
<1>4. ~p.gone /\ Len(s.vec) = p.sp /\ u.abi = s.abi
  BY <1>3 DEF Fast, AgreeX86, OnlyVec
<1> HIDE DEF k
<1>5. q \in Cursors /\ q.sp = k /\ q.gone = p.gone
  BY <1>1, CursorMoved
<1>6. AgreeX86(u, w, q)
  BY <1>3, <1>4, <1>5 DEF Fast, AgreeX86, k
<1>7. ~X86InReg(w, p, t) /\ X86Base(w) + p.sp = p.sp
  BY <1>1 DEF X86InReg, X86Base, Fast
<1>8. VecAt(u, X86Base(w) + p.sp, Raw4(u.abi, t, n))
  BY <1>3, <1>4, <1>7 DEF x
<1>9. ViaX86(u, w, p, q, n, t)
  BY <1>7, <1>8 DEF Fast, ViaX86, k
<1> QED BY <1>3, <1>5, <1>6, <1>9

LEMMA NewThisX86 ==
  ASSUME NEW s, IsVM(s), s.abi \in X86ABIs, NEW w \in Ways(s.abi), s.vt = ModeTable(s.abi, w),
         Room(s), NEW p \in Cursors, AgreeX86(s, w, p), NEW t \in TypesOf(w), NEW n \in Nat, n > 0,
         NEW u, u = BindArg(s, t, Value(n, SizeOf(s.abi, t))), X86Kind(w) = "this",
         ~p.gone => t \in IntTypes
  PROVE  \E q \in Cursors : ViaX86(u, w, p, q, n, t) /\ AgreeX86(u, w, q) /\ Binds(s, u)
<1> DEFINE x == Raw4(s.abi, t, n)
<1>1. t \in AllTypes /\ p.sp \in Nat /\ Width4(t) \in {4, 8}
  BY WaysTypes DEF Cursors, Width4
<1>2. u = dcVecAppend(s, x)
  <2> DEFINE v == Value(n, SizeOf(s.abi, t))
  <2>1. x = Words4(t, v) /\ u = BindArg(s, t, v)
    BY DEF Raw4
  <2> HIDE DEF x, v
  <2>2. X86Does(s, w, t, x, u)
    BY <2>1, X86Binds
  <2> QED BY <2>2 DEF X86Does
<1> HIDE DEF x
<1>3. /\ Binds(s, u) /\ OnlyVec(s, u) /\ Len(u.vec) = Len(s.vec) + Width4(t)
      /\ VecAt(u, Len(s.vec), x) /\ u.abi = s.abi
  BY <1>1, <1>2, X86AppendsArg DEF x, OnlyVec
<1>4. CASE p.gone
  <2> DEFINE k == p.sp + Width4(t)
             q == [p EXCEPT !.sp = k]
  <2>1. k \in Nat
    BY <1>1
  <2>2. Len(s.vec) = 4 + p.sp
    BY <1>4 DEF Fast, AgreeX86
  <2> HIDE DEF k
  <2>3. q \in Cursors /\ q.sp = k /\ q.gone = p.gone
    BY <2>1, CursorMoved
  <2>4. AgreeX86(u, w, q)
    <3>1. Len(u.vec) = 4 + q.sp
      BY <1>1, <1>3, <2>2, <2>3 DEF k
    <3> QED BY <1>4, <2>3, <3>1 DEF Fast, AgreeX86
  <2>5. ~X86InReg(w, p, t) /\ X86Base(w) + p.sp = Len(s.vec)
    BY <2>2 DEF X86InReg, X86Base, Fast
  <2>6. VecAt(u, X86Base(w) + p.sp, Raw4(u.abi, t, n))
    BY <1>3, <2>5 DEF x
  <2>7. ViaX86(u, w, p, q, n, t)
    BY <1>4, <2>5, <2>6 DEF Fast, ViaX86, k
  <2> QED BY <1>3, <2>3, <2>4, <2>7
<1>5. CASE ~p.gone
  <2> DEFINE q == [p EXCEPT !.gone = TRUE]
  <2>1. Len(s.vec) = 0 /\ p.sp = 0 /\ t \in IntTypes
    BY <1>5 DEF Fast, AgreeX86
  <2>2. q \in Cursors /\ q.sp = p.sp /\ q.gone
    BY DEF Cursors
  <2>3. Width4(t) = 4
    BY <2>1 DEF Width4, IntTypes, Wide
  <2>4. AgreeX86(u, w, q)
    BY <1>3, <2>1, <2>2, <2>3 DEF Fast, AgreeX86
  <2>6. VecAt(u, 0, Raw4(u.abi, t, n))
    BY <1>3, <2>1 DEF x
  <2>7. /\ X86Kind(w) = "this" /\ X86Kind(w) # "sys" /\ q = [p EXCEPT !.gone = TRUE]
        /\ ~X86InReg(w, p, t) /\ X86Kind(w) # "fast_gnu"
    BY DEF X86InReg, Fast
  <2> HIDE DEF q
  <2>5. ViaX86(u, w, p, q, n, t)
    BY <1>5, <2>1, <2>6, <2>7 DEF ViaX86
  <2> QED BY <1>3, <2>2, <2>4, <2>5
<1> QED BY <1>4, <1>5

LEMMA NewSysX86 ==
  ASSUME NEW s, IsVM(s), s.abi \in X86ABIs, NEW w \in Ways(s.abi), s.vt = ModeTable(s.abi, w),
         Room(s), NEW p \in Cursors, AgreeX86(s, w, p), NEW t \in TypesOf(w), NEW n \in Nat, n > 0,
         NEW u, u = BindArg(s, t, Value(n, SizeOf(s.abi, t))), X86Kind(w) = "sys",
         p.i < SysArgs
  PROVE  \E q \in Cursors : ViaX86(u, w, p, q, n, t) /\ AgreeX86(u, w, q) /\ Binds(s, u)
<1> DEFINE x == Raw4(s.abi, t, n)
           k == p.i + 1
           q == [p EXCEPT !.i = k]
<1>1. t \in AllTypes /\ p.i \in Nat /\ k \in Nat
  BY WaysTypes DEF Cursors
<1>2. u = dcVecAppend(s, x)
  <2> DEFINE v == Value(n, SizeOf(s.abi, t))
  <2>1. x = Words4(t, v) /\ u = BindArg(s, t, v)
    BY DEF Raw4
  <2> HIDE DEF x, v
  <2>2. X86Does(s, w, t, x, u)
    BY <2>1, X86Binds
  <2> QED BY <2>2 DEF X86Does
<1>3. w = "SYS"
  BY X86Tables DEF X86Kind, X86Ways
<1>4. t = "char" /\ Width4(t) = 4
  BY <1>3 DEF TypesOf, Width4, Wide
<1> HIDE DEF x
<1>5. /\ Binds(s, u) /\ OnlyVec(s, u) /\ Len(u.vec) = Len(s.vec) + Width4(t)
      /\ VecAt(u, Len(s.vec), x) /\ u.abi = s.abi
  BY <1>1, <1>2, X86AppendsArg DEF x, OnlyVec
<1>6. ~p.gone /\ Len(s.vec) = 4 * p.i
  BY DEF Fast, AgreeX86
<1>7. q \in Cursors /\ q.i = k /\ q.gone = p.gone
  BY <1>1 DEF Cursors
<1> HIDE DEF q
<1>8. AgreeX86(u, w, q)
  BY <1>1, <1>4, <1>5, <1>6, <1>7 DEF Fast, AgreeX86
<1>9. ViaX86(u, w, p, q, n, t)
  BY <1>4, <1>5, <1>6 DEF Fast, ViaX86, x, q, X86InReg
<1> QED BY <1>5, <1>7, <1>8, <1>9

LEMMA NewFastX86 ==
  ASSUME NEW s, IsVM(s), s.abi \in X86ABIs, NEW w \in Ways(s.abi), s.vt = ModeTable(s.abi, w),
         Room(s), NEW p \in Cursors, AgreeX86(s, w, p), NEW t \in TypesOf(w), NEW n \in Nat, n > 0,
         NEW u, X86Does(s, w, t, Raw4(s.abi, t, n), u), X86Kind(w) \in Fast
  PROVE  \E q \in Cursors : ViaX86(u, w, p, q, n, t) /\ AgreeX86(u, w, q) /\ Binds(s, u)
<1> DEFINE x == Raw4(s.abi, t, n)
<1>1. /\ t \in AllTypes /\ p.sp \in Nat /\ p.i \in Nat /\ s.i \in Nat /\ Width4(t) \in {4, 8}
      /\ Len(s.vec) \in Nat
  BY WaysTypes DEF Cursors, Width4, IsVM, VMs
<1>2. X86Does(s, w, t, x, u)
  OBVIOUS
<1>3. x \in Seq(Byte) /\ Len(x) = Width4(t)
  <2>1. s.abi \in ABIs /\ Narrow4(s.abi)
    BY DEF IsVM, VMs, Narrow4, X86ABIs, LP64
  <2> QED BY <1>1, <2>1, Raw4Type
<1>4. /\ ~p.gone /\ Len(s.vec) = 8 + p.sp /\ ((s.i < 2 \/ p.i < 2) => p.i = s.i)
      /\ \A k \in 1 .. 8 : k > 4 * s.i => s.vec[k] = Junk
  BY DEF AgreeX86, Fast
<1>5. X86Base(w) = 8 /\ X86Kind(w) \notin {"stack", "this", "sys"}
  BY DEF X86Base, Fast
<1> HIDE DEF x
<1>6. CASE t \in IntTypes /\ s.i < 2
  <2> DEFINE k == s.i + 1
             q == [p EXCEPT !.i = k]
  <2>1. u = WriteInt(s, 4 * s.i, x, s.i + 1)
    BY <1>2, <1>6 DEF X86Does
  <2>2. Width4(t) = 4 /\ p.i = s.i
    BY <1>4, <1>6 DEF Width4, IntTypes, Wide
  <2> DEFINE o == 4 * s.i
  <2>4. /\ o \in Nat /\ o = 4 * s.i /\ o + 4 <= 8 /\ k \in Nat /\ k = s.i + 1 /\ Len(x) = 4
        /\ o + Len(x) <= Len(s.vec)
    <3>1. (s.i = 0 \/ s.i = 1) /\ Len(x) = 4 /\ Len(s.vec) >= 8
      BY <1>1, <1>3, <1>4, <1>6, <2>2
    <3>2. CASE s.i = 0
      BY <3>1, <3>2, <1>1
    <3>3. CASE s.i = 1
      BY <3>1, <3>3, <1>1
    <3> QED BY <3>1, <3>2, <3>3
  <2>10. u = WriteInt(s, o, x, k)
    BY <2>1
  <2>6. q \in Cursors /\ q.i = k /\ q.sp = p.sp /\ q.gone = p.gone
    BY SMTT(60), <1>1 DEF Cursors
  <2> HIDE DEF o, k
  <2>5. ASSUME NEW j \in o + 1 .. o + Len(x) PROVE s.vec[j] = Junk
    <3>1. j \in 1 .. 8 /\ j > 4 * s.i
      BY SMTT(60), <1>1, <2>4
    <3> QED BY <1>4, <3>1
  <2>7. /\ Binds(s, u) /\ Len(u.vec) = Len(s.vec) /\ VecAt(u, o, x) /\ u.abi = s.abi /\ u.i = k
        /\ \A j \in 1 .. Len(s.vec) : j \notin o + 1 .. o + Len(x) => u.vec[j] = s.vec[j]
    <3>1. /\ x \in Seq(Byte) /\ o \in Nat /\ o + Len(x) <= Len(s.vec) /\ k \in Nat
          /\ \A j \in o + 1 .. o + Len(x) : s.vec[j] = Junk
      BY <1>3, <2>4, <2>5
    <3>2. IsVM(s)
      OBVIOUS
    <3> QED BY <3>1, <3>2, <2>10, WriteArg
  <2>8. AgreeX86(u, w, q)
    <3>1. ASSUME NEW j \in 1 .. 8, j > 4 * u.i PROVE u.vec[j] = Junk
      <4>2. j \in 1 .. Len(s.vec)
        BY <1>1, <1>4
      <4>3. u.i = s.i + 1 /\ o = 4 * s.i /\ Len(x) = 4
        BY <2>4, <2>7
      <4>4. j > o + 4 /\ j > 4 * s.i
        BY <1>1, <3>1, <4>3
      <4>1. j \in 1 .. Len(s.vec) /\ j \notin o + 1 .. o + Len(x) /\ j > 4 * s.i
        BY <4>2, <4>3, <4>4
      <4> QED BY <1>4, <2>7, <4>1
    <3>2. ~q.gone /\ Len(u.vec) = 8 + q.sp /\ q.i = u.i
      BY <1>4, <2>6, <2>7
    <3> QED BY <1>5, <3>1, <3>2 DEF AgreeX86
  <2>9. X86InReg(w, p, t) /\ ~p.gone /\ VecAt(u, 4 * p.i, Raw4(u.abi, t, n)) /\ q = [p EXCEPT !.i = p.i + 1]
    BY <1>4, <1>6, <2>2, <2>4, <2>7 DEF X86InReg, x
  <2> HIDE DEF q
  <2>11. ViaX86(u, w, p, q, n, t)
    <3>1. X86Kind(w) # "sys" /\ X86Kind(w) # "this" /\ t # "longlong"
      BY <1>5, <1>6 DEF IntTypes
    <3> QED BY <2>9, <3>1 DEF ViaX86
  <2> QED BY <2>6, <2>7, <2>8, <2>11
<1>7. CASE X86Kind(w) = "fast_gnu" /\ t = "longlong"
  <2> DEFINE r == [s EXCEPT !.i = 2]
             i == p.i + 2
             k == p.sp + 8
             c == [p EXCEPT !.i = i]
             q == [c EXCEPT !.sp = k]
  <2>1. u = dcVecAppend(r, x) /\ Width4(t) = 8
    BY <1>2, <1>7 DEF X86Does, Width4, Wide
  <2>2. IsVM(r) /\ Room(r) /\ r.i = 2 /\ r.abi = s.abi /\ r.vec = s.vec /\ (\A y : Binds(r, y) => Binds(s, y))
    BY SetAndBind
  <2>3. q \in Cursors /\ q.i = i /\ q.sp = k /\ q.gone = p.gone
    <3>1. c \in Cursors /\ c.i = i /\ c.sp = p.sp /\ c.gone = p.gone /\ k \in Nat
      BY SMTT(60), <1>1 DEF Cursors
    <3> HIDE DEF c, i, k
    <3> QED BY <3>1, CursorMoved
  <2> HIDE DEF r
  <2>4. /\ Binds(r, u) /\ OnlyVec(r, u) /\ Len(u.vec) = Len(r.vec) + 8 /\ VecAt(u, Len(r.vec), x)
    <3>1. IsVM(r) /\ Room(r) /\ x \in Seq(Byte) /\ Len(x) <= 8
      BY <1>3, <2>1, <2>2
    <3>2. Binds(r, u) /\ OnlyVec(r, u) /\ Len(u.vec) = Len(r.vec) + Len(x) /\ VecAt(u, Len(r.vec), x)
      BY <3>1, <2>1, AppendArg
    <3> QED BY <1>3, <2>1, <3>2
  <2>5. Binds(s, u) /\ u.i = 2 /\ u.abi = s.abi /\ Len(u.vec) = Len(s.vec) + 8 /\ VecAt(u, 8 + p.sp, x)
    BY <1>4, <2>2, <2>4 DEF OnlyVec
  <2> HIDE DEF q
  <2>6. AgreeX86(u, w, q)
    <3>1. ~q.gone /\ Len(u.vec) = 8 + q.sp /\ ~(u.i < 2 \/ q.i < 2)
      BY <1>1, <1>4, <2>3, <2>5
    <3>2. \A j \in 1 .. 8 : ~(j > 4 * u.i)
      BY <2>5
    <3> QED BY <1>5, <3>1, <3>2 DEF AgreeX86
  <2>7. ~X86InReg(w, p, t)
    BY <1>7 DEF X86InReg, IntTypes
  <2>8. ViaX86(u, w, p, q, n, t)
    BY <1>5, <1>7, <2>5, <2>7 DEF ViaX86, q, x
  <2> QED BY <2>3, <2>5, <2>6, <2>8
<1>8. CASE ~(t \in IntTypes /\ s.i < 2) /\ ~(X86Kind(w) = "fast_gnu" /\ t = "longlong")
  <2> DEFINE k == p.sp + Width4(t)
             q == [p EXCEPT !.sp = k]
  <2>1. u = dcVecAppend(s, x)
    BY <1>2, <1>8 DEF X86Does
  <2>2. /\ Binds(s, u) /\ OnlyVec(s, u) /\ Len(u.vec) = Len(s.vec) + Width4(t)
        /\ VecAt(u, Len(s.vec), x) /\ \A j \in 1 .. Len(s.vec) : u.vec[j] = s.vec[j]
    BY <1>1, <2>1, X86AppendsArg DEF x
  <2>3. k \in Nat
    BY <1>1
  <2>4. Keeps(s, u) /\ u.abi = s.abi /\ u.i = s.i
    BY <2>2 DEF OnlyVec, Binds
  <2> HIDE DEF k
  <2>5. q \in Cursors /\ q.sp = k /\ q.gone = p.gone /\ q.i = p.i
    BY <2>3, CursorMoved
  <2> HIDE DEF q
  <2>6. AgreeX86(u, w, q)
    <3>1. ~q.gone /\ Len(u.vec) = 8 + q.sp /\ ((u.i < 2 \/ q.i < 2) => q.i = u.i)
      BY <1>1, <1>4, <2>2, <2>4, <2>5 DEF k
    <3>2. ASSUME NEW j \in 1 .. 8, j > 4 * u.i PROVE u.vec[j] = Junk
      <4>1. j \in 1 .. Len(s.vec)
        BY <1>1, <1>4
      <4>2. u.vec[j] = s.vec[j]
        BY <2>2, <4>1
      <4> QED BY <1>4, <2>4, <3>2, <4>2
    <3> QED BY <1>5, <3>1, <3>2 DEF AgreeX86
  <2>7. ~X86InReg(w, p, t)
    BY <1>1, <1>4, <1>8 DEF X86InReg
  <2>8. ViaX86(u, w, p, q, n, t)
    BY <1>4, <1>5, <1>8, <2>2, <2>4, <2>7 DEF ViaX86, q, k, x
  <2> QED BY <2>2, <2>5, <2>6, <2>8
<1> QED BY <1>6, <1>7, <1>8
LEMMA NewX86 ==
  ASSUME NEW s, IsVM(s), s.abi \in X86ABIs, NEW w \in Ways(s.abi), s.vt = ModeTable(s.abi, w),
         Room(s), NEW p \in Cursors, AgreeX86(s, w, p), NEW t \in TypesOf(w), NEW n \in Nat, n > 0,
         NEW u, u = BindArg(s, t, Value(n, SizeOf(s.abi, t))),
         X86Kind(w) = "this" /\ ~p.gone => t \in IntTypes, w = "SYS" => p.i < SysArgs
  PROVE  \E q \in Cursors : ViaX86(u, w, p, q, n, t) /\ AgreeX86(u, w, q) /\ Binds(s, u)
<1>1. X86Kind(w) \in {"stack", "this", "sys"} \cup Fast /\ (X86Kind(w) = "sys" => w = "SYS")
  BY X86Tables, X86Kinds DEF Fast, X86Ways, X86Kind
<1>2. CASE X86Kind(w) \in Fast
  <2> DEFINE v == Value(n, SizeOf(s.abi, t))
  <2>1. Raw4(s.abi, t, n) = Words4(t, v) /\ u = BindArg(s, t, v)
    BY DEF Raw4
  <2> HIDE DEF v
  <2>2. X86Does(s, w, t, Raw4(s.abi, t, n), u)
    BY <2>1, X86Binds
  <2> QED BY <1>2, <2>2, NewFastX86
<1> QED BY <1>1, <1>2, NewStackX86, NewThisX86, NewSysX86

LEMMA KeptX86 ==
  ASSUME NEW s, NEW u, IsVM(s), IsVM(u), Keeps(s, u), s.abi \in X86ABIs, NEW w, NEW p, NEW q,
         NEW t \in TypesOf(w), NEW n \in Nat, n > 0, ViaX86(s, w, p, q, n, t)
  PROVE  ViaX86(u, w, p, q, n, t)
<1> DEFINE x == Raw4(s.abi, t, n)
           z == Width4(t)
<1>1. s.abi \in ABIs /\ t \in AllTypes /\ u.abi = s.abi /\ Narrow4(s.abi)
  BY WaysTypes DEF IsVM, VMs, Keeps, Narrow4, X86ABIs, LP64
<1>2. Solid(x, z)
  BY <1>1, Raw4Type
<1>3. x = Raw4(u.abi, t, n)
  BY <1>1
<1> HIDE DEF x, z
<1>4. \A o : VecAt(s, o, x) => VecAt(u, o, x)
  BY <1>2, VecAtKept
<1>5. \A o : VecAt(s, o, Raw4(s.abi, t, n)) => VecAt(u, o, Raw4(u.abi, t, n))
  BY <1>3, <1>4 DEF x
<1> QED BY <1>5 DEF ViaX86

LEMMA StartX86 ==
  ASSUME NEW s, s.abi \in X86ABIs, NEW w \in Ways(s.abi), s.vt = ModeTable(s.abi, w), Fresh(s)
  PROVE  AgreeX86(s, w, Start)
<1>1. s.vt = mode_x86(s.abi, w) /\ w \in X86Ways
  BY X86Family, X86Tables
<1>2. Start.i = 0 /\ Start.sp = 0 /\ Start.gone = FALSE
  BY DEF Start
<1>3. CASE X86Kind(w) \in {"stack", "this", "sys"}
  <2>1. s.vt.reset = "x86"
    BY <1>1, <1>3, X86Tables DEF gVT_x86_cdecl, gVT_x86_win32_std, gVT_x86_win32_this_ms,
       gVT_x86_syscall_int80h_linux
  <2>2. Len(s.vec) = 0
    BY <2>1 DEF Fresh, Reserved
  <2>3. ~Start.gone /\ Len(s.vec) = 4 * Start.i /\ Len(s.vec) = Start.sp /\ Len(s.vec) = 0
    BY <1>2, <2>2
  <2>4. CASE X86Kind(w) = "stack"
    BY <2>3, <2>4 DEF AgreeX86, Fast
  <2>5. CASE X86Kind(w) = "this"
    BY <1>2, <2>3, <2>5 DEF AgreeX86, Fast
  <2>6. CASE X86Kind(w) = "sys"
    BY <2>3, <2>6 DEF AgreeX86, Fast
  <2> QED BY <1>3, <2>4, <2>5, <2>6
<1>4. CASE X86Kind(w) \in Fast
  <2>1. s.vt.reset = "fast"
    BY <1>1, <1>4, X86Tables DEF gVT_x86_win32_fast_ms, gVT_x86_win32_fast_gnu, Fast
  <2>2. Len(s.vec) = 8 /\ s.i = 0 /\ \A k \in 1 .. 8 : s.vec[k] = Junk
    BY <2>1 DEF Fresh, Reserved
  <2>3. X86Kind(w) \notin {"stack", "this", "sys"}
    BY <1>4 DEF Fast
  <2>4. Len(s.vec) = 8 + Start.sp /\ Start.i = s.i /\ ~Start.gone
    BY <1>2, <2>2
  <2>5. \A k \in 1 .. 8 : k > 4 * s.i => s.vec[k] = Junk
    BY <2>2
  <2> QED BY <1>4, <2>3, <2>4, <2>5 DEF AgreeX86
<1> QED BY <1>1, <1>3, <1>4, X86Kinds DEF Fast

LEMMA SwitchX86 ==
  ASSUME NEW s, NEW u, u.abi = s.abi, u.vec = s.vec, NEW p, AgreeX86(s, "ELLIPSIS", p)
  PROVE  AgreeX86(u, "VARARGS", p)
BY DEF AgreeX86, X86Kind, Fast

-----------------------------------------------------------------------------
(* What the target finds.                                                  *)

(* The callback's DCArgs, as AtInt and AtStack say for other platforms.    *)
LEMMA AtX86 ==
  ASSUME NEW abi \in X86ABIs, NEW w, NEW m, NEW p \in Cursors, NEW a, a = At(abi, w, m, p)
  PROVE  /\ a.abi = abi /\ a.vt = CallbackOf(abi, w) /\ a.stack = m.stack
         /\ a.ireg = IF p.gone THEN ThisTaken(m.ireg) ELSE m.ireg
         /\ a.sp = p.sp /\ a.i = p.i
BY DEF At, ThisTaken

(* A target, or its cursor, with another counter or stack pointer. *)
WithInt(a, k)   == [a EXCEPT !.i = k]
WithStack(a, k) == [a EXCEPT !.sp = k]

LEMMA AtIntX86 ==
  ASSUME NEW abi \in X86ABIs, NEW w, NEW m, NEW p \in Cursors, NEW k
  PROVE  At(abi, w, m, WithInt(p, k)) = WithInt(At(abi, w, m, p), k)
<1> DEFINE q == [p EXCEPT !.i = k]
<1>1. q.i = k /\ q.sp = p.sp /\ q.f = p.f /\ q.d = p.d /\ q.gone = p.gone
  BY DEF Cursors
<1> HIDE DEF q
<1>2. At(abi, w, m, q) = [At(abi, w, m, p) EXCEPT !.i = k]
  BY <1>1 DEF At
<1> QED BY <1>2 DEF q, WithInt

LEMMA AtStackX86 ==
  ASSUME NEW abi \in X86ABIs, NEW w, NEW m, NEW p \in Cursors, NEW k
  PROVE  At(abi, w, m, WithStack(p, k)) = WithStack(At(abi, w, m, p), k)
<1> DEFINE q == [p EXCEPT !.sp = k]
<1>1. q.sp = k /\ q.i = p.i /\ q.f = p.f /\ q.d = p.d /\ q.gone = p.gone
  BY DEF Cursors
<1> HIDE DEF q
<1>2. At(abi, w, m, q) = [At(abi, w, m, p) EXCEPT !.sp = k]
  BY <1>1 DEF At
<1> QED BY <1>2 DEF q, WithStack

LEMMA AtThisX86 ==
  ASSUME NEW abi \in X86ABIs, NEW w, NEW m, NEW p \in Cursors, ~p.gone, NEW q,
         q = [p EXCEPT !.gone = TRUE]
  PROVE  At(abi, w, m, q) = [At(abi, w, m, p) EXCEPT !.ireg[0] = Junks(8)]
<1>1. q.sp = p.sp /\ q.i = p.i /\ q.f = p.f /\ q.d = p.d /\ q.gone
  BY DEF Cursors
<1> QED BY <1>1 DEF At

LEMMA KernelX86 ==
  ASSUME NEW s, IsVM(s), s.abi \in X86ABIs, NEW w \in Ways(s.abi), s.vt = ModeTable(s.abi, w)
  PROVE  LET m == Kernel(s) IN
           /\ X86Kind(w) # "sys" => StackIs(m.stack, s, X86Base(w))
           /\ X86Kind(w) \in Fast => m.ireg = FirstWords(s, 2, 4)
           /\ X86Kind(w) = "this" => m.ireg = [Registers(2) EXCEPT ![0] = FirstWords(s, 1, 4)[0]]
           /\ X86Kind(w) = "sys" => m.ireg = FirstWords(s, 5, 4)
<1> DEFINE m == Kernel(s)
<1>1. m = X86Call(s) /\ s.vt = mode_x86(s.abi, w) /\ w \in X86Ways
  BY X86Family, X86Tables
<1>2. CASE X86Kind(w) = "stack"
  <2> DEFINE n == RoundUp(Len(s.vec), 16)
  <2>1. n \in Nat /\ n >= Len(s.vec)
    BY RoundUpTo DEF IsVM, VMs
  <2> HIDE DEF n
  <2>2. StackIs(Bytes(s.vec, 0, n), s, 0) /\ StackIs(s.vec, s, 0)
    BY <2>1, StackWhole
  <2>3. m.stack = s.vec \/ m.stack = Bytes(s.vec, 0, n)
    <3>1. CASE s.vt = gVT_x86_cdecl
      BY <1>1, <3>1 DEF X86Call, gVT_x86_cdecl, call_x86_cdecl, Pushed, Image, dcVecSize, n
    <3>2. CASE s.vt = gVT_x86_win32_std
      BY <1>1, <3>2 DEF X86Call, gVT_x86_win32_std, call_x86_win32_std, Pushed, Image
    <3> QED BY <1>1, <1>2, <3>1, <3>2, X86Tables
  <2>4. X86Base(w) = 0
    BY <1>2 DEF X86Base, Fast
  <2> QED BY <1>2, <2>2, <2>3, <2>4 DEF Fast
<1>3. CASE X86Kind(w) = "this"
  <2>1. m = call_x86_this_ms(s)
    BY <1>1, <1>3, X86Tables DEF X86Call, gVT_x86_win32_this_ms
  <2>2. X86Base(w) = 4
    BY <1>3 DEF X86Base, Fast
  <2>3. m.stack = VecRest(s, 4) /\ m.ireg = [Registers(2) EXCEPT ![0] = FirstWords(s, 1, 4)[0]]
    BY <2>1 DEF call_x86_this_ms, Image
  <2> HIDE DEF m
  <2> QED BY <1>3, <2>2, <2>3, StackRest DEF Fast, m
<1>4. CASE X86Kind(w) \in Fast
  <2>1. m = call_x86_win32_fast(s)
    BY <1>1, <1>4, X86Tables DEF X86Call, gVT_x86_win32_fast_ms, gVT_x86_win32_fast_gnu, Fast
  <2>2. X86Base(w) = 8 /\ X86Kind(w) # "this" /\ X86Kind(w) # "sys"
    BY <1>4 DEF X86Base, Fast
  <2>3. m.stack = VecRest(s, 8) /\ m.ireg = FirstWords(s, 2, 4)
    BY <2>1 DEF call_x86_win32_fast, Image
  <2> HIDE DEF m
  <2> QED BY <1>4, <2>2, <2>3, StackRest DEF m
<1>5. CASE X86Kind(w) = "sys"
  <2>1. m = call_x86_int80h_linux(s)
    BY <1>1, <1>5, X86Tables DEF X86Call, gVT_x86_syscall_int80h_linux
  <2>2. m.ireg = FirstWords(s, 5, 4)
    BY <2>1 DEF call_x86_int80h_linux, Image
  <2> HIDE DEF m
  <2> QED BY <1>5, <2>2 DEF Fast, m
<1> QED BY <1>1, <1>2, <1>3, <1>4, <1>5, X86Kinds DEF Fast

(* What dcbArg is, where it is the stack that is read. *)
LEMMA StackArgX86 ==
  ASSUME NEW abi \in X86ABIs, NEW w \in Ways(abi), w # "SYS", NEW m, NEW p \in Cursors,
         NEW t \in AllTypes, ~X86InReg(w, p, t), ~(X86Kind(w) = "fast_gnu" /\ t = "longlong"),
         X86Kind(w) = "this" => p.gone /\ 0 \in DOMAIN m.ireg
  PROVE  LET a == At(abi, w, m, p) IN dcbArg_x86(a, t) = FromStack(a, Width4(t), Width4(t))
<1> DEFINE a == At(abi, w, m, p)
           z == Width4(t)
<1>6. a = At(abi, w, m, p)
  OBVIOUS
<1> HIDE DEF a
<1>1. /\ a.vt = CallbackOf(abi, w) /\ a.i = p.i
      /\ a.ireg = IF p.gone THEN ThisTaken(m.ireg) ELSE m.ireg
  BY <1>6, AtX86
<1>2. w \in X86Ways \ {"SYS"} /\ (t \in Wide => z = 8) /\ (t \notin Wide => z = 4)
  BY X86Tables DEF Width4
<1> HIDE DEF z
<1>3. CASE t \in {"longlong", "double"}
  <2>1. t \in Wide /\ t \notin IntTypes
    BY <1>3 DEF Wide, IntTypes
  <2>2. t = "longlong" => a.vt # "fast_gnu"
    BY <1>1, <1>2 DEF CallbackOf, X86Kind, X86Ways
  <2>3. dcbArg_x86(a, t) = default_i64(a)
    BY <1>3, <2>1, <2>2 DEF dcbArg_x86
  <2> QED BY <1>2, <2>1, <2>3 DEF default_i64, a, z
<1>4. CASE t = "float"
  <2>1. t \notin Wide /\ t \notin IntTypes
    BY <1>4 DEF Wide, IntTypes
  <2>3. dcbArg_x86(a, t) = default_i32(a)
    BY <1>4, <2>1 DEF dcbArg_x86
  <2> QED BY <1>2, <2>1, <2>3 DEF default_i32, a, z
<1>5. CASE t \in IntTypes
  <2>1. t \notin Wide /\ t \notin {"longlong", "double", "float"}
    BY <1>5 DEF Wide, IntTypes
  <2>2. dcbArg_x86(a, t) = default_i32(a)
    <3>1. CASE X86Kind(w) = "stack"
      <4>1. a.vt = "default"
        BY <1>1, <1>2, <3>1 DEF CallbackOf, X86Kind, X86Ways
      <4> QED BY <1>5, <2>1, <4>1 DEF dcbArg_x86
    <3>2. CASE X86Kind(w) = "this"
      <4>1. a.vt = "this_ms"
        BY <1>1, <1>2, <3>2 DEF CallbackOf, X86Kind, X86Ways
      <4>2. dcbArg_x86(a, t) = this_i32(a)
        BY <1>5, <2>1, <4>1 DEF dcbArg_x86
      <4>3. a.ireg[0] = Junks(8)
        BY <1>1, <3>2 DEF ThisTaken
      <4> QED BY <4>2, <4>3 DEF this_i32
    <3>3. CASE X86Kind(w) \in Fast
      <4>1. a.vt \in {"fast_ms", "fast_gnu"}
        BY <1>1, <1>2, <3>3 DEF CallbackOf, X86Kind, X86Ways, Fast
      <4>2. dcbArg_x86(a, t) = fast_i32(a)
        BY <1>5, <2>1, <4>1 DEF dcbArg_x86
      <4>3. ~(a.i < 2)
        BY <1>1, <1>5, <3>3 DEF X86InReg
      <4> QED BY <4>2, <4>3 DEF fast_i32
    <3> QED BY <1>2, <3>1, <3>2, <3>3 DEF X86Kind, X86Ways, Fast
  <2> QED BY <1>2, <2>1, <2>2 DEF default_i32, a, z
<1> QED BY <1>3, <1>4, <1>5 DEF AllTypes, Wide, Floats

LEMMA FetchX86 ==
  ASSUME NEW s, IsVM(s), s.abi \in X86ABIs, NEW x \in Ways(s.abi), s.vt = ModeTable(s.abi, x),
         NEW w \in Ways(s.abi), Follows(w, x), NEW p \in Cursors, NEW q \in Cursors,
         NEW t \in TypesOf(w), NEW n \in Nat, n > 0, ViaX86(s, w, p, q, n, t)
  PROVE  Finds(s.abi, w, Kernel(s), p, q, n, t)
<1> DEFINE m == Kernel(s)
           a == At(s.abi, w, m, p)
           r == FetchAs(a, w, t)
           y == Raw4(s.abi, t, n)
           z == Width4(t)
           v == Value(n, SizeOf(s.abi, t))
<1>1. s.abi \in ABIs /\ t \in AllTypes /\ p.sp \in Nat /\ p.i \in Nat /\ Narrow4(s.abi)
  BY WaysTypes DEF IsVM, VMs, Cursors, Narrow4, X86ABIs, LP64
<1>2. y \in Seq(Byte) /\ Len(y) = z /\ z \in {4, 8} /\ Trunc(y, SizeOf(s.abi, t)) = v
      /\ Solid(y, z)
  BY <1>1, Raw4Type
<1>3. w \in X86Ways /\ X86Kind(w) = X86Kind(x) /\ X86Base(w) = X86Base(x)
  <2>1. X86Kind(w) = X86Kind(x)
    BY DEF Follows, X86Kind
  <2> QED BY <2>1, X86Tables DEF X86Base
<1>4. /\ X86Kind(w) # "sys" => StackIs(m.stack, s, X86Base(w))
      /\ X86Kind(w) \in Fast => m.ireg = FirstWords(s, 2, 4)
      /\ X86Kind(w) = "this" => m.ireg = [Registers(2) EXCEPT ![0] = FirstWords(s, 1, 4)[0]]
      /\ X86Kind(w) = "sys" => m.ireg = FirstWords(s, 5, 4)
  BY <1>3, KernelX86
<1>5. X86Base(w) \in Nat /\ (X86Kind(w) = "sys" <=> w = "SYS")
  BY <1>3 DEF X86Base, X86Kind, X86Ways
<1> HIDE DEF m, y, z, v
<1>12. a = At(s.abi, w, m, p)
  OBVIOUS
<1> HIDE DEF a
<1>6. /\ a.abi = s.abi /\ a.vt = CallbackOf(s.abi, w) /\ a.stack = m.stack
      /\ a.ireg = IF p.gone THEN ThisTaken(m.ireg) ELSE m.ireg
      /\ a.sp = p.sp /\ a.i = p.i
  BY <1>12, AtX86
<1>7. /\ w = "SYS" => r = FromInt(a)
      /\ w # "SYS" => r = dcbArg_x86(a, t)
  <2>1. w # "SYS" => FetchAs(a, w, t) = dcbArg(a, t)
    <3>1. s.abi \notin AllAsIntegers /\ s.abi \notin VariadicAsIntegers /\ s.abi # "arm64_apple"
      BY DEF X86ABIs, AllAsIntegers, VariadicAsIntegers, MipsABIs, MipsO32, MipsN64
    <3> QED BY <1>6, <3>1 DEF FetchAs, va_arg
  <2>2. dcbArg(a, t) = dcbArg_x86(a, t)
    BY <1>6, X86Family
  <2>3. w = "SYS" => FetchAs(a, w, t) = FromInt(a)
    BY DEF FetchAs, CEllipsis
  <2> QED BY <2>1, <2>2, <2>3
<1> HIDE DEF r
<1>8. ASSUME r.args = At(s.abi, w, m, q), r.val = y PROVE Finds(s.abi, w, m, p, q, n, t)
  BY <1>2, <1>8 DEF Finds, r, a, v
<1>9. CASE w = "SYS"
  <2> DEFINE c == 5
             h == 4
  <2>0. X86Kind(w) = "sys"
    BY <1>5, <1>9
  <2>1. /\ p.i < 4 /\ VecAt(s, 4 * p.i, y) /\ q = [p EXCEPT !.i = p.i + 1] /\ t = "char"
        /\ ~p.gone
    BY <2>0 DEF ViaX86, SysArgs, y, X86InReg, Fast
  <2>2. z = 4
    BY <2>1 DEF z, Width4, Wide
  <2> DEFINE j == p.i
             k == p.i + 1
  <2>3. c \in Nat /\ h \in {4, 8} /\ j \in 0 .. c - 1 /\ Len(y) = h
    BY <1>1, <1>2, <2>1, <2>2
  <2>7. VecAt(s, h * j, y)
    BY <2>1
  <2> HIDE DEF c, h, j
  <2>41. y \in Seq(Byte)
    BY <1>2
  <2>4. FirstWords(s, c, h)[j] = y
    BY ZenonT(60), <2>3, <2>7, <2>41, ReadWord
  <2>5. a.ireg[p.i] = y
    BY <1>4, <1>5, <1>6, <1>9, <2>1, <2>4 DEF c, h, j
  <2>6. r = Fetched(WithInt(a, k), y)
    BY <1>6, <1>7, <1>9, <2>5 DEF FromInt, WithInt
  <2>8. q = WithInt(p, k)
    BY <2>1 DEF WithInt
  <2> HIDE DEF k
  <2>9. At(s.abi, w, m, q) = WithInt(a, k)
    BY <1>12, <2>8, AtIntX86
  <2>10. r.args = WithInt(a, k) /\ r.val = y
    BY <2>6 DEF Fetched
  <2>11. r.args = At(s.abi, w, m, q)
    BY <2>9, <2>10
  <2> QED BY <1>8, <2>10, <2>11 DEF m
<1>10. CASE w # "SYS" /\ X86Kind(w) = "this" /\ ~p.gone
  <2>1. t \in IntTypes /\ VecAt(s, 0, y) /\ q = [p EXCEPT !.gone = TRUE]
    BY <1>5, <1>10 DEF ViaX86, X86InReg, Fast, y
  <2> DEFINE c == 1
             h == 4
             j == 0
  <2>2. z = 4 /\ h \in {4, 8} /\ c \in Nat /\ j \in 0 .. c - 1 /\ VecAt(s, h * j, y) /\ Len(y) = h
    BY <1>2, <2>1 DEF z, Width4, IntTypes, Wide
  <2> HIDE DEF c, h, j
  <2>41. y \in Seq(Byte)
    BY <1>2
  <2>3. FirstWords(s, c, h)[j] = y
    BY ZenonT(60), <2>2, <2>41, ReadWord
  <2>4. a.ireg[0] = y
    BY <1>4, <1>6, <1>10, <2>3 DEF c, h, j, Registers
  <2>5. y # Junks(8)
    BY <1>2, NotJunks
  <2>6. dcbArg_x86(a, t) = this_i32(a)
    <3>1. a.vt = "this_ms"
      BY <1>3, <1>6, <1>10 DEF CallbackOf, X86Kind, X86Ways
    <3>2. t \notin {"longlong", "double", "float"}
      BY <2>1 DEF IntTypes
    <3> QED BY <2>1, <3>1, <3>2 DEF dcbArg_x86
  <2>7. r = Fetched([a EXCEPT !.ireg[0] = Junks(8)], y)
    BY <1>7, <1>10, <2>4, <2>5, <2>6 DEF this_i32
  <2>8. At(s.abi, w, m, q) = [a EXCEPT !.ireg[0] = Junks(8)]
    BY <1>10, <1>12, <2>1, AtThisX86
  <2>10. r.args = [a EXCEPT !.ireg[0] = Junks(8)] /\ r.val = y
    BY <2>7 DEF Fetched
  <2>11. r.args = At(s.abi, w, m, q)
    BY <2>8, <2>10
  <2> QED BY <1>8, <2>10, <2>11 DEF m
<1>11. CASE X86InReg(w, p, t)
  <2>0. X86Kind(w) \in Fast /\ t \in IntTypes /\ p.i < 2 /\ w # "SYS"
    BY <1>5, <1>11 DEF X86InReg, Fast
  <2>1. VecAt(s, 4 * p.i, y) /\ q = [p EXCEPT !.i = p.i + 1] /\ ~p.gone
    <3>1. X86Kind(w) # "sys" /\ X86Kind(w) # "this" /\ t # "longlong"
      BY <2>0 DEF Fast, IntTypes
    <3> QED BY <1>11, <3>1 DEF ViaX86, y
  <2> DEFINE c == 2
             h == 4
             j == p.i
             k == p.i + 1
  <2>2. z = 4 /\ h \in {4, 8} /\ c \in Nat /\ j \in 0 .. c - 1 /\ VecAt(s, h * j, y) /\ Len(y) = h
    BY <1>1, <1>2, <2>0, <2>1 DEF z, Width4, IntTypes, Wide
  <2> HIDE DEF c, h, j
  <2>41. y \in Seq(Byte)
    BY <1>2
  <2>3. FirstWords(s, c, h)[j] = y
    BY ZenonT(60), <2>2, <2>41, ReadWord
  <2>4. a.ireg[p.i] = y
    BY <1>4, <1>6, <2>0, <2>1, <2>3 DEF c, h, j
  <2>6. dcbArg_x86(a, t) = fast_i32(a)
    <3>1. a.vt \in {"fast_ms", "fast_gnu"}
      BY <1>3, <1>6, <2>0 DEF CallbackOf, X86Kind, X86Ways, Fast
    <3>2. t \notin {"longlong", "double", "float"}
      BY <2>0 DEF IntTypes
    <3> QED BY <2>0, <3>1, <3>2 DEF dcbArg_x86
  <2>7. r = Fetched(WithInt(a, k), y)
    BY <1>6, <1>7, <2>0, <2>4, <2>6 DEF fast_i32, FromInt, WithInt
  <2>9. q = WithInt(p, k)
    BY <2>1 DEF WithInt
  <2> HIDE DEF k
  <2>8. At(s.abi, w, m, q) = WithInt(a, k)
    BY <1>12, <2>9, AtIntX86
  <2>10. r.args = WithInt(a, k) /\ r.val = y
    BY <2>7 DEF Fetched
  <2>11. r.args = At(s.abi, w, m, q)
    BY <2>8, <2>10
  <2> QED BY <1>8, <2>10, <2>11 DEF m
<1>13. CASE X86Kind(w) = "fast_gnu" /\ t = "longlong"
  <2>0. w # "SYS" /\ X86Kind(w) # "this" /\ X86Kind(w) \in Fast /\ X86Base(w) = 8 /\ ~X86InReg(w, p, t)
    BY <1>5, <1>13 DEF Fast, X86Base, X86InReg, IntTypes
  <2> DEFINE j == p.i + 2
             k == p.sp + 8
             c == [p EXCEPT !.i = j]
  <2>1. VecAt(s, 8 + p.sp, y) /\ q = [c EXCEPT !.sp = k]
    BY <1>13, <2>0 DEF ViaX86, y, Fast
  <2>2. z = 8 /\ j \in Nat /\ k \in Nat
    BY <1>1, <1>13 DEF z, Width4, Wide
  <2>3. c = WithInt(p, j) /\ q = WithStack(c, k)
    BY <2>1 DEF WithInt, WithStack
  <2>4. c \in Cursors /\ c.sp = p.sp
    BY <2>2 DEF Cursors
  <2> DEFINE b == At(s.abi, w, m, c)
  <2> HIDE DEF j, k, c
  <2>12. b = At(s.abi, w, m, c)
    OBVIOUS
  <2> HIDE DEF b
  <2>5. b = WithInt(a, j)
    BY <1>12, <2>3, <2>12, AtIntX86
  <2>6. b.abi = s.abi /\ b.sp = p.sp /\ b.stack = m.stack
    BY <2>4, <2>12, AtX86
  <2>7. dcbArg_x86(a, t) = default_i64(b)
    <3>1. a.vt = "fast_gnu"
      BY <1>3, <1>6, <1>13 DEF CallbackOf, X86Kind, X86Ways
    <3>2. t \notin IntTypes
      BY <1>13 DEF IntTypes
    <3>3. dcbArg_x86(a, t) = fast_gnu_i64(a)
      BY <1>13, <3>1, <3>2 DEF dcbArg_x86
    <3> QED BY <1>6, <2>5, <3>3 DEF fast_gnu_i64, WithInt, j
  <2>8. FromStack(b, 8, 8) = Fetched([b EXCEPT !.sp = b.sp + 8], y)
    <3> DEFINE base == 8
               h == 8
    <3>1. base \in Nat /\ StackIs(b.stack, s, base) /\ VecAt(s, base + b.sp, y) /\ b.sp \in Nat /\ h = Len(y)
      BY <1>1, <1>2, <1>4, <1>5, <2>0, <2>1, <2>2, <2>6
    <3> HIDE DEF base, h
    <3>2. FromStack(b, h, 8) = Fetched([b EXCEPT !.sp = b.sp + 8], y)
      BY SMTT(60), <1>2, <2>6, <3>1, StackFinds
    <3> QED BY <3>2 DEF h
  <2>9. r = Fetched(WithStack(b, k), y)
    BY <1>7, <2>0, <2>6, <2>7, <2>8 DEF default_i64, WithStack, k
  <2>10. r.args = WithStack(b, k) /\ r.val = y
    BY <2>9 DEF Fetched
  <2>11. r.args = At(s.abi, w, m, q)
    BY <2>3, <2>4, <2>10, <2>12, AtStackX86
  <2> QED BY <1>8, <2>10, <2>11 DEF m
<1>14. CASE /\ w # "SYS" /\ ~(X86Kind(w) = "this" /\ ~p.gone) /\ ~X86InReg(w, p, t)
            /\ ~(X86Kind(w) = "fast_gnu" /\ t = "longlong")
  <2> DEFINE k == p.sp + z
             base == X86Base(w)
  <2>0. X86Kind(w) # "sys"
    BY <1>5, <1>14
  <2>1. VecAt(s, X86Base(w) + p.sp, y) /\ q = [p EXCEPT !.sp = k]
    BY <1>14, <2>0 DEF ViaX86, y, z
  <2>2. q = WithStack(p, k)
    BY <2>1 DEF WithStack
  <2>3. dcbArg_x86(a, t) = FromStack(a, z, z)
    <3>1. X86Kind(w) = "this" => p.gone /\ 0 \in DOMAIN m.ireg
      BY <1>4, <1>14 DEF Registers
    <3> QED BY <1>1, <1>14, <3>1, StackArgX86 DEF a, z
  <2>4. base \in Nat /\ StackIs(a.stack, s, base) /\ VecAt(s, base + a.sp, y) /\ a.sp \in Nat /\ a.abi = s.abi
        /\ z = Len(y)
    BY <1>1, <1>2, <1>4, <1>5, <1>6, <2>0, <2>1
  <2> HIDE DEF base
  <2>5. FromStack(a, z, z) = Fetched([a EXCEPT !.sp = a.sp + z], y)
    BY <1>2, <2>4, StackFinds
  <2>9. r = Fetched(WithStack(a, k), y)
    BY <1>6, <1>7, <1>14, <2>3, <2>5 DEF WithStack, k
  <2> HIDE DEF k
  <2>10. r.args = WithStack(a, k) /\ r.val = y
    BY <2>9 DEF Fetched
  <2>11. r.args = At(s.abi, w, m, q)
    BY <1>12, <2>2, <2>10, AtStackX86
  <2> QED BY <1>8, <2>10, <2>11 DEF m
<1> QED BY <1>9, <1>10, <1>11, <1>13, <1>14

-----------------------------------------------------------------------------
(* Where everything in the vector is a number of words. *)
WordABIs == Arm32 \cup MipsO32 \cup {"mips_eabi"}

(* The counters stay within the registers. *)
Counts(abi, i, f, d) ==
  /\ f <= FloatRegs[abi]
  /\ abi \in {"ppc64_v1", "ppc64_v2"} => i <= IntRegs[abi]
  /\ abi = "armhf" => d \in Nat /\ d % 2 = 0 /\ d <= FloatRegs[abi]
  /\ abi \in MipsN64 \cup {"mips_n32"} => d \in SUBSET Nat

Within(s) ==
  Counts(s.abi, s.i, s.f, s.d) /\ (s.abi \in WordABIs => Len(s.vec) % 4 = 0)

(* What binding an argument leaves as it was, and how much room it takes.  *)
Sized(s, u) ==
  /\ Len(s.vec) <= Len(u.vec)
  /\ \/ Len(u.vec) <= RoundUp(Len(s.vec), 8) + 8
     \/ Len(u.vec) <= 8 * IntRegs[s.abi] + 8

Stays(s, u) ==
  IsVM(u) /\ u.abi = s.abi /\ u.vt = s.vt /\ u.err = s.err /\ Within(u) /\ Sized(s, u)

(* The same without the vector. *)
SameVec(s, u) == u.abi = s.abi /\ u.vt = s.vt /\ u.err = s.err /\ u.vec = s.vec

-----------------------------------------------------------------------------
(* The operations, whatever is in the registers and in the vector.         *)
LEMMA TypedAppend ==
  ASSUME NEW s, IsVM(s), NEW v \in Seq(Byte)
  PROVE  LET u == dcVecAppend(s, v) IN
           /\ IsVM(u) /\ OnlyVec(s, u)
           /\ Len(u.vec) = Len(s.vec) \/ Len(u.vec) = Len(s.vec) + Len(v)
           /\ Len(u.vec) <= VecTotal \/ Len(u.vec) = Len(s.vec)
<1>1. CASE Len(s.vec) + Len(v) <= VecTotal
  <2> DEFINE u == dcVecAppend(s, v)
  <2>1. u = dcVecAppend(s, v)
    OBVIOUS
  <2> HIDE DEF u
  <2>2. IsVM(u) /\ OnlyVec(s, u) /\ Len(u.vec) = Len(s.vec) + Len(v)
    BY <1>1, <2>1, Appended
  <2> QED BY <1>1, <2>2 DEF u
<1>2. CASE ~(Len(s.vec) + Len(v) <= VecTotal)
  BY <1>2 DEF dcVecAppend, dcVecSize, OnlyVec
<1> QED BY <1>1, <1>2

LEMMA TypedPutInt ==
  ASSUME NEW s, IsVM(s), s.i < IntRegs[s.abi], NEW v \in Seq(Byte)
  PROVE  LET u == PutInt(s, v) IN
           IsVM(u) /\ SameVec(s, u) /\ u.i = s.i + 1 /\ u.f = s.f /\ u.d = s.d
<1> DEFINE x == [s.ireg EXCEPT ![s.i] = v]
           u == [[s EXCEPT !.ireg = x] EXCEPT !.i = s.i + 1]
<1>1. s \in VMs /\ s.i \in Nat /\ IntRegs[s.abi] \in Nat /\ s.ireg \in RegFile(IntRegs[s.abi])
  BY PlatformAssumption DEF IsVM, VMs
<1>2. x \in RegFile(IntRegs[s.abi])
  BY <1>1 DEF RegFile
<1>3. x \in RegFiles
  BY <1>1, <1>2 DEF RegFiles
<1>4. PutInt(s, v) = u
  BY <1>1 DEF PutInt, VMs
<1> DEFINE r == [s EXCEPT !.ireg = x]
<1> HIDE DEF x
<1>5. /\ r \in VMs /\ r.ireg = x /\ r.abi = s.abi /\ r.freg = s.freg
      /\ r.vt = s.vt /\ r.err = s.err /\ r.vec = s.vec /\ r.f = s.f /\ r.d = s.d /\ r.i = s.i
  BY <1>1, <1>3 DEF VMs
<1>6. IsVM(r)
  BY <1>2, <1>5 DEF IsVM
<1> DEFINE k == s.i + 1
<1>7. k \in Nat
  BY <1>1
<1> HIDE DEF r, k
<1> DEFINE y == [r EXCEPT !.i = k]
<1>8. /\ IsVM(y) /\ y.i = k /\ y.abi = r.abi /\ y.vt = r.vt /\ y.err = r.err
      /\ y.vec = r.vec /\ y.f = r.f /\ y.d = r.d
  BY <1>6, <1>7, SetInt
<1>9. PutInt(s, v) = y
  BY <1>4 DEF r, k
<1> HIDE DEF y
<1> QED BY <1>5, <1>8, <1>9 DEF SameVec, k

(* A float register and, if that is counted, another number. *)
LEMMA TypedFloat ==
  ASSUME NEW s, IsVM(s), NEW k \in 0 .. FloatRegs[s.abi] - 1, NEW v \in Seq(Byte)
  PROVE  LET u == [s EXCEPT !.freg[k] = v] IN
           IsVM(u) /\ SameVec(s, u) /\ u.i = s.i /\ u.f = s.f /\ u.d = s.d /\ u.ireg = s.ireg
             /\ u.freg = [s.freg EXCEPT ![k] = v]
<1> DEFINE x == [s.freg EXCEPT ![k] = v]
           u == [s EXCEPT !.freg = x]
<1>1. s \in VMs /\ FloatRegs[s.abi] \in Nat /\ s.freg \in RegFile(FloatRegs[s.abi])
  BY PlatformAssumption DEF IsVM, VMs
<1>2. x \in RegFile(FloatRegs[s.abi])
  BY <1>1 DEF RegFile
<1>3. x \in RegFiles
  BY <1>1, <1>2 DEF RegFiles
<1>4. [s EXCEPT !.freg[k] = v] = u
  BY <1>1 DEF VMs
<1> HIDE DEF x
<1>5. /\ u \in VMs /\ u.freg = x /\ u.abi = s.abi /\ u.ireg = s.ireg
      /\ u.vt = s.vt /\ u.err = s.err /\ u.vec = s.vec /\ u.f = s.f /\ u.d = s.d /\ u.i = s.i
  BY <1>1, <1>3 DEF VMs
<1>6. IsVM(u)
  BY <1>2, <1>5 DEF IsVM
<1> HIDE DEF u
<1> QED BY <1>4, <1>5, <1>6 DEF SameVec, x

LEMMA SetFloat ==
  ASSUME NEW s, IsVM(s), NEW k \in Nat
  PROVE  LET u == [s EXCEPT !.f = k] IN
           IsVM(u) /\ SameVec(s, u) /\ u.f = k /\ u.i = s.i /\ u.d = s.d /\ u.ireg = s.ireg /\ u.freg = s.freg
BY DEF IsVM, VMs, SameVec

LEMMA SetDouble ==
  ASSUME NEW s, IsVM(s), NEW k \in Nat \cup SUBSET Nat
  PROVE  LET u == [s EXCEPT !.d = k] IN
           IsVM(u) /\ SameVec(s, u) /\ u.d = k /\ u.i = s.i /\ u.f = s.f /\ u.ireg = s.ireg /\ u.freg = s.freg
BY DEF IsVM, VMs, SameVec

LEMMA TypedPutFloat ==
  ASSUME NEW s, IsVM(s), s.f < FloatRegs[s.abi], NEW v \in Seq(Byte)
  PROVE  LET u == PutFloat(s, v) IN
           IsVM(u) /\ SameVec(s, u) /\ u.f = s.f + 1 /\ u.i = s.i /\ u.d = s.d
             /\ u.ireg = s.ireg /\ u.freg = [s.freg EXCEPT ![s.f] = v]
<1> DEFINE k == s.f
           r == [s EXCEPT !.freg[k] = v]
           m == k + 1
<1>1. s \in VMs /\ k \in Nat /\ k \in 0 .. FloatRegs[s.abi] - 1 /\ m \in Nat
  BY PlatformAssumption DEF IsVM, VMs
<1>2. PutFloat(s, v) = [r EXCEPT !.f = m]
  BY <1>1 DEF PutFloat, VMs
<1> HIDE DEF k, m
<1>3. IsVM(r) /\ SameVec(s, r) /\ r.i = s.i /\ r.f = s.f /\ r.d = s.d /\ r.ireg = s.ireg
        /\ r.freg = [s.freg EXCEPT ![k] = v]
  BY <1>1, TypedFloat
<1> HIDE DEF r
<1> DEFINE u == [r EXCEPT !.f = m]
<1>4. IsVM(u) /\ SameVec(r, u) /\ u.f = m /\ u.i = r.i /\ u.d = r.d /\ u.ireg = r.ireg /\ u.freg = r.freg
  BY <1>1, <1>3, SetFloat
<1> HIDE DEF u
<1> QED BY <1>2, <1>3, <1>4 DEF SameVec, u, k, m

LEMMA TypedWrite ==
  ASSUME NEW s, IsVM(s), NEW off \in Nat, NEW v \in Seq(Byte)
  PROVE  LET u == VecWrite(s, off, v) IN IsVM(u) /\ OnlyVec(s, u) /\ Len(u.vec) = Len(s.vec)
<1> DEFINE x == [k \in DOMAIN s.vec |->
                   IF k \in off + 1 .. off + Len(v) THEN InMemory(s.abi, v)[k - off] ELSE s.vec[k]]
           m == InMemory(s.abi, v)
<1>1. s.vec \in Seq(Byte) /\ s \in VMs
  BY DEF IsVM, VMs
<1>2. m \in Seq(Byte) /\ Len(m) = Len(v) /\ Len(v) \in Nat
  BY InMemoryType
<1> DEFINE n == Len(s.vec)
<1>3. n \in Nat /\ DOMAIN s.vec = 1 .. n
  BY <1>1
<1>4. ASSUME NEW k \in 1 .. n PROVE x[k] \in Byte
  <2>1. x[k] = IF k \in off + 1 .. off + Len(v) THEN m[k - off] ELSE s.vec[k]
    BY <1>3, <1>4
  <2> HIDE DEF m, x
  <2>2. CASE k \in off + 1 .. off + Len(v)
    <3>1. k - off \in 1 .. Len(m)
      BY <1>2, <1>3, <2>2
    <3>2. m[k - off] \in Byte
      BY <1>2, <3>1
    <3> QED BY <2>1, <2>2, <3>2
  <2>3. CASE k \notin off + 1 .. off + Len(v)
    <3>1. s.vec[k] \in Byte
      BY <1>1, <1>4
    <3> QED BY <2>1, <2>3, <3>1
  <2> QED BY <2>2, <2>3
<1>5. x \in [1 .. n -> Byte]
  <2>1. DOMAIN x = 1 .. n /\ x = [k \in 1 .. n |-> x[k]]
    BY <1>3
  <2> HIDE DEF x, n
  <2> QED BY <1>4, <2>1
<1>6. VecWrite(s, off, v) = [s EXCEPT !.vec = x]
  BY <1>1 DEF VecWrite, VMs
<1> HIDE DEF x
<1>7. x \in Seq(Byte) /\ Len(x) = n
  BY <1>3, <1>5, FunctionIsSeq
<1> DEFINE u == [s EXCEPT !.vec = x]
<1>8. IsVM(u) /\ OnlyVec(s, u) /\ u.vec = x
  BY <1>7, NewVec
<1> HIDE DEF u
<1> QED BY <1>6, <1>7, <1>8 DEF u

-----------------------------------------------------------------------------
(* A CallVM made ready for an argument, at most up to the next eight bytes. *)
Ready(s, r) ==
  /\ IsVM(r) /\ r.abi = s.abi /\ r.vt = s.vt /\ r.err = s.err /\ Within(r)
  /\ Len(s.vec) <= Len(r.vec) /\ Len(r.vec) <= RoundUp(Len(s.vec), 8)

LEMMA RoundUpLeast ==
  ASSUME NEW n \in Nat, NEW k \in Nat, k <= RoundUp(n, 8)
  PROVE  RoundUp(k, 8) <= RoundUp(n, 8)
BY DEF RoundUp

LEMMA LenVec ==
  ASSUME NEW s, IsVM(s)
  PROVE  /\ Len(s.vec) \in Nat /\ s.vec \in Seq(Byte) /\ s.i \in Nat /\ s.f \in Nat /\ s.abi \in ABIs
         /\ IntRegs[s.abi] \in Nat /\ FloatRegs[s.abi] \in Nat
BY PlatformAssumption DEF IsVM, VMs

LEMMA ReadySame ==
  ASSUME NEW s, IsVM(s), NEW r, IsVM(r), SameVec(s, r), Within(s), Counts(r.abi, r.i, r.f, r.d)
  PROVE  Ready(s, r)
<1>1. Len(s.vec) \in Nat /\ Len(s.vec) <= RoundUp(Len(s.vec), 8) /\ Len(s.vec) <= Len(s.vec)
  <2>1. Len(s.vec) \in Nat
    BY LenVec
  <2> DEFINE n == Len(s.vec)
  <2> HIDE DEF n
  <2>2. n \in Nat => n <= RoundUp(n, 8) /\ n <= n
    BY RoundUpTo
  <2> QED BY <2>1, <2>2 DEF n
<1> QED BY <1>1 DEF Ready, SameVec, Within

LEMMA ReadySkip4 ==
  ASSUME NEW s, IsVM(s), s.abi \in WordABIs, NEW r, Ready(s, r)
  PROVE  Ready(s, dcVecSkip4(r))
<1> DEFINE u == dcVecSkip4(r)
<1>1. IsVM(r) /\ Len(r.vec) % 4 = 0 /\ Len(r.vec) \in Nat /\ Len(s.vec) \in Nat
  BY LenVec DEF Ready, Within
<1>2. IsVM(u) /\ OnlyVec(r, u) /\ Len(u.vec) = RoundUp(Len(r.vec), 8)
  BY <1>1, Skipped4
<1> HIDE DEF u
<1> DEFINE n == Len(s.vec)
           k == Len(r.vec)
           m == Len(u.vec)
<1>3. n \in Nat /\ k \in Nat /\ m = RoundUp(k, 8) /\ n <= k /\ k <= RoundUp(n, 8)
  BY <1>1, <1>2 DEF Ready
<1> HIDE DEF n, k, m
<1>4. m <= RoundUp(n, 8) /\ m \in Nat /\ m % 8 = 0 /\ k <= m
  BY <1>3, RoundUpTo, RoundUpLeast
<1>5. n <= m /\ m % 4 = 0
  BY <1>3, <1>4
<1> QED BY <1>2, <1>4, <1>5 DEF Ready, OnlyVec, Within, u, n, m

LEMMA ReadyAlign8 ==
  ASSUME NEW s, IsVM(s), NEW r, Ready(s, r)
  PROVE  Ready(s, dcVecAlign(r, 8))
<1> DEFINE u == dcVecAlign(r, 8)
<1>1. IsVM(r) /\ Len(r.vec) \in Nat /\ Len(s.vec) \in Nat
  BY LenVec DEF Ready
<1>2. IsVM(u) /\ OnlyVec(r, u) /\ Len(u.vec) = RoundUp(Len(r.vec), 8)
  BY <1>1, Aligned8
<1> HIDE DEF u
<1> DEFINE n == Len(s.vec)
           k == Len(r.vec)
           m == Len(u.vec)
<1>3. n \in Nat /\ k \in Nat /\ m = RoundUp(k, 8) /\ n <= k /\ k <= RoundUp(n, 8)
  BY <1>1, <1>2 DEF Ready
<1> HIDE DEF n, k, m
<1>4. m <= RoundUp(n, 8) /\ m \in Nat /\ m % 8 = 0 /\ k <= m
  BY <1>3, RoundUpTo, RoundUpLeast
<1>5. n <= m /\ m % 4 = 0
  BY <1>3, <1>4
<1> QED BY <1>2, <1>4, <1>5 DEF Ready, OnlyVec, Within, u, n, m

LEMMA StaysReady ==
  ASSUME NEW s, IsVM(s), NEW r, Ready(s, r)
  PROVE  Stays(s, r)
<1> DEFINE n == Len(s.vec)
           k == Len(r.vec)
<1>1. n \in Nat /\ k \in Nat /\ n <= k /\ k <= RoundUp(n, 8)
  BY LenVec DEF Ready
<1> HIDE DEF n, k
<1>2. n <= k /\ k <= RoundUp(n, 8) + 8
  BY <1>1, RoundUpTo
<1> QED BY <1>2 DEF Ready, Stays, Sized, n, k

LEMMA StaysAppend ==
  ASSUME NEW s, IsVM(s), NEW r, Ready(s, r), NEW x \in Seq(Byte), Len(x) <= 8,
         s.abi \in WordABIs => Len(x) \in {4, 8}
  PROVE  Stays(s, dcVecAppend(r, x))
<1> DEFINE u == dcVecAppend(r, x)
<1>1. IsVM(r) /\ Len(r.vec) \in Nat /\ Len(s.vec) \in Nat /\ Len(x) \in Nat
  BY LenVec DEF Ready
<1>2. IsVM(u) /\ OnlyVec(r, u) /\ (Len(u.vec) = Len(r.vec) \/ Len(u.vec) = Len(r.vec) + Len(x))
  BY <1>1, TypedAppend
<1> HIDE DEF u
<1> DEFINE n == Len(s.vec)
           k == Len(r.vec)
           m == Len(u.vec)
           z == Len(x)
<1>3. n \in Nat /\ k \in Nat /\ z \in Nat /\ (m = k \/ m = k + z) /\ n <= k /\ k <= RoundUp(n, 8)
        /\ z <= 8
  BY <1>1, <1>2 DEF Ready
<1>6. s.abi \in WordABIs => z \in {4, 8} /\ k % 4 = 0
  BY DEF Ready, Within
<1> HIDE DEF n, k, m, z
<1>4. m <= RoundUp(n, 8) + 8 /\ n <= m
  <2>1. RoundUp(n, 8) \in Nat
    BY <1>3, RoundUpTo
  <2> QED BY <1>3, <2>1
<1>5. s.abi \in WordABIs => m % 4 = 0
  BY <1>3, <1>6
<1> QED BY <1>2, <1>4, <1>5 DEF Ready, OnlyVec, Within, Stays, Sized, u, n, m

(* Room that is written to: nothing is said of what was there. *)
LEMMA StaysWrite ==
  ASSUME NEW s, IsVM(s), Within(s), NEW r, IsVM(r), SameVec(s, r), NEW off \in Nat,
         NEW x \in Seq(Byte), NEW k \in Nat, Counts(r.abi, k, r.f, r.d)
  PROVE  Stays(s, WriteInt(r, off, x, k))
<1> DEFINE u == VecWrite(r, off, x)
           y == [u EXCEPT !.i = k]
<1>1. IsVM(u) /\ OnlyVec(r, u) /\ Len(u.vec) = Len(r.vec)
  BY TypedWrite
<1>2. WriteInt(r, off, x, k) = y
  BY DEF WriteInt
<1> HIDE DEF u
<1>3. /\ IsVM(y) /\ y.i = k /\ y.abi = u.abi /\ y.vt = u.vt /\ y.err = u.err
      /\ y.vec = u.vec /\ y.f = u.f /\ y.d = u.d
  BY <1>1, SetInt
<1> HIDE DEF y
<1>4. Len(s.vec) <= Len(s.vec) /\ Len(s.vec) <= RoundUp(Len(s.vec), 8) + 8
  <2>1. Len(s.vec) \in Nat
    BY LenVec
  <2> DEFINE n == Len(s.vec)
  <2> HIDE DEF n
  <2>2. ASSUME n \in Nat PROVE n <= RoundUp(n, 8) + 8 /\ n <= n
    <3>1. n <= RoundUp(n, 8) /\ RoundUp(n, 8) \in Nat
      BY <2>2, RoundUpTo
    <3> QED BY <2>2, <3>1
  <2> QED BY <2>1, <2>2 DEF n
<1>5. Len(y.vec) = Len(s.vec) /\ y.abi = s.abi /\ y.vt = s.vt /\ y.err = s.err
        /\ y.f = r.f /\ y.d = r.d
  BY <1>1, <1>3 DEF SameVec, OnlyVec
<1>6. Within(y)
  BY <1>3, <1>5 DEF Within, SameVec
<1> QED BY <1>2, <1>3, <1>4, <1>5, <1>6 DEF Stays, Sized

-----------------------------------------------------------------------------
(* ARM.                                                                    *)
Plain32 == {"arm", "arm_eabi", "thumb", "thumb_eabi"}
Eabi32  == {"arm_eabi", "thumb_eabi"}

LEMMA ArmTables ==
  ASSUME NEW abi \in ArmABIs, NEW w \in Ways(abi)
  PROVE  /\ abi = "arm" => ArmMode(abi, w) = gVT_arm32_arm
         /\ abi = "arm_eabi" => ArmMode(abi, w) = gVT_arm32_arm_eabi
         /\ abi = "thumb" => ArmMode(abi, w) = gVT_arm32_thumb
         /\ abi = "thumb_eabi" => ArmMode(abi, w) = gVT_arm32_thumb_eabi
         /\ abi = "armhf" => ArmMode(abi, w) = IF w \in CEllipsis THEN vt_armhf_ellipsis ELSE vt_armhf
         /\ abi = "arm64" => ArmMode(abi, w) = vt_arm64
         /\ abi = "arm64_win" =>
              ArmMode(abi, w) = IF w \in CEllipsis THEN vt_arm64_win_varargs ELSE vt_arm64
         /\ abi = "arm64_apple" =>
              ArmMode(abi, w) = IF w = "VARARGS" THEN vt_arm64_variadic ELSE vt_arm64_apple
<1>1. w \in {"DEFAULT", "ELLIPSIS", "THIS", "VARARGS"} \cup OwnModes(abi)
  BY DEF Ways, KnownModes
<1>2. CASE abi \in {"arm", "arm_eabi"}
  <2>3. OwnModes(abi) = {IF abi = "arm" THEN "ARM_ARM" ELSE "ARM_ARM_EABI"}
    BY <1>2 DEF OwnModes, Arm64, MipsO32, MipsN64
  <2>1. w \in CDefault \cup CEllipsis \cup {IF abi = "arm" THEN "ARM_ARM" ELSE "ARM_ARM_EABI"}
    BY <1>1, <2>3 DEF CDefault, CEllipsis
  <2>2. ArmMode(abi, w) = mode_arm32_arm(abi, w)
    BY <1>2 DEF ArmMode
  <2> QED BY <1>2, <2>1, <2>2 DEF mode_arm32_arm, CDefault, CEllipsis
<1>3. CASE abi \in {"thumb", "thumb_eabi"}
  <2>3. OwnModes(abi) = {IF abi = "thumb" THEN "ARM_THUMB" ELSE "ARM_THUMB_EABI"}
    BY <1>3 DEF OwnModes, Arm64, MipsO32, MipsN64
  <2>1. w \in CDefault \cup CEllipsis \cup {IF abi = "thumb" THEN "ARM_THUMB" ELSE "ARM_THUMB_EABI"}
    BY <1>1, <2>3 DEF CDefault, CEllipsis
  <2>2. ArmMode(abi, w) = mode_arm32_thumb(abi, w)
    BY <1>3 DEF ArmMode
  <2> QED BY <1>3, <2>1, <2>2 DEF mode_arm32_thumb, CDefault, CEllipsis
<1>4. CASE abi = "armhf"
  <2>3. OwnModes(abi) = {"ARM_ARMHF"}
    BY <1>4 DEF OwnModes, Arm64, MipsO32, MipsN64
  <2>1. w \in CDefault \cup CEllipsis \cup {"ARM_ARMHF"}
    BY <1>1, <2>3 DEF CDefault, CEllipsis
  <2>2. ArmMode(abi, w) = mode_armhf(w)
    BY <1>4 DEF ArmMode
  <2> QED BY <1>4, <2>1, <2>2 DEF mode_armhf, CDefault, CEllipsis
<1>5. CASE abi \in {"arm64", "arm64_win"}
  <2>3. OwnModes(abi) = {"ARM64"}
    BY <1>5 DEF OwnModes, Arm64, MipsO32, MipsN64
  <2>1. w \in CDefault \cup CEllipsis \cup {"ARM64"}
    BY <1>1, <2>3 DEF CDefault, CEllipsis
  <2>2. ArmMode(abi, w) = mode_arm64(abi, w)
    BY <1>5 DEF ArmMode
  <2> QED BY <1>5, <2>1, <2>2 DEF mode_arm64, CDefault, CEllipsis
<1>6. CASE abi = "arm64_apple"
  <2>3. OwnModes(abi) = {"ARM64"}
    BY <1>6 DEF OwnModes, Arm64, MipsO32, MipsN64
  <2>1. w \in CDefault \cup CEllipsis \cup {"ARM64"}
    BY <1>1, <2>3 DEF CDefault, CEllipsis
  <2>2. ArmMode(abi, w) = mode_arm64_apple(w)
    BY <1>6 DEF ArmMode
  <2> QED BY <1>6, <2>1, <2>2 DEF mode_arm64_apple, CDefault, CEllipsis
<1> QED BY <1>2, <1>3, <1>4, <1>5, <1>6 DEF ArmABIs, Arm32, Arm64

(* Floats that are passed as integers. *)
AsInts(abi, w) == w \in CEllipsis /\ abi \in AllAsIntegers

(* What binding does on each platform. *)
LEMMA ArmBinds ==
  ASSUME NEW s, s.abi \in ArmABIs, NEW w \in Ways(s.abi), s.vt = ModeTable(s.abi, w),
         NEW t \in AllTypes, NEW v, NEW u, u = BindArg(s, t, v)
  PROVE  /\ s.abi \in Plain32 =>
              u = dcVecAppend(IF s.abi \in Eabi32 /\ t \in Wide THEN dcVecSkip4(s) ELSE s, Words4(t, v))
         /\ s.abi = "armhf" =>
              /\ t \notin Wide /\ (t # "float" \/ AsInts(s.abi, w)) => u = armhf_int(s, Extend(v, 4))
              /\ t \in Wide /\ (t # "double" \/ AsInts(s.abi, w)) => u = armhf_longlong(s, v)
              /\ t = "float" /\ ~AsInts(s.abi, w) => u = armhf_float(s, v)
              /\ t = "double" /\ ~AsInts(s.abi, w) => u = armhf_double(s, v)
         /\ s.abi \in {"arm64", "arm64_win"} =>
              u = IF AsInts(s.abi, w) THEN a_i64(s, Extend(v, 8)) ELSE arg_arm64(s, t, v)
         /\ s.abi = "arm64_apple" =>
              u = IF w = "VARARGS" THEN arg_arm64_variadic(s, t, v) ELSE arg_arm64_apple(s, t, v)
<1>1. u = ArmArg(s, t, v) /\ s.vt = ArmMode(s.abi, w)
  BY ArmFamily
<1>2. CASE s.abi \in {"arm", "arm_eabi"}
  <2>1. s.vt.arg = IF s.abi = "arm" THEN "atpcs" ELSE "eabi"
    BY <1>1, <1>2, ArmTables DEF gVT_arm32_arm, gVT_arm32_arm_eabi
  <2>2. u = arg_arm32_arm(s, t, v)
    BY <1>1, <2>1 DEF ArmArg
  <2>3. t \in Wide \/ t \in IntTypes \cup {"float"}
    BY DEF AllTypes, Wide, Floats
  <2>4. ~(t \in Wide /\ t \in IntTypes \cup {"float"})
    BY DEF Wide, IntTypes
  <2> QED BY <1>2, <2>1, <2>2, <2>3, <2>4 DEF arg_arm32_arm, Words4, Plain32, Eabi32
<1>3. CASE s.abi \in {"thumb", "thumb_eabi"}
  <2>1. s.vt.arg = IF s.abi = "thumb" THEN "thumb_atpcs" ELSE "thumb_eabi"
    BY <1>1, <1>3, ArmTables DEF gVT_arm32_thumb, gVT_arm32_thumb_eabi
  <2>2. u = arg_arm32_thumb(s, t, v)
    BY <1>1, <2>1 DEF ArmArg
  <2> QED BY <1>3, <2>1, <2>2 DEF arg_arm32_thumb, Words4, Plain32, Eabi32
<1>4. CASE s.abi = "armhf"
  <2>1. s.vt.arg = IF AsInts(s.abi, w) THEN "armhf_ellipsis" ELSE "armhf"
    BY <1>1, <1>4, ArmTables DEF vt_armhf, vt_armhf_ellipsis, AsInts, AllAsIntegers
  <2>2. u = arg_armhf(s, t, v)
    BY <1>1, <2>1 DEF ArmArg
  <2>3. /\ t \notin Wide => t \in IntTypes \/ t = "float"
        /\ t \in Wide => t = "longlong" \/ t = "double"
        /\ ~(t \in Wide /\ t \in IntTypes \cup {"float"})
        /\ ~(t \in IntTypes /\ t = "float")
    BY DEF AllTypes, Wide, Floats, IntTypes
  <2>4. (s.vt.arg = "armhf_ellipsis") = AsInts(s.abi, w)
    BY <2>1 DEF AsInts
  <2> QED BY <1>4, <2>2, <2>3, <2>4 DEF arg_armhf, Plain32, Wide
<1>5. CASE s.abi \in {"arm64", "arm64_win"}
  <2>1. s.vt.arg = IF AsInts(s.abi, w) THEN "win_varargs" ELSE "arm64"
    BY <1>1, <1>5, ArmTables DEF vt_arm64, vt_arm64_win_varargs, AsInts, AllAsIntegers
  <2> QED BY <1>1, <1>5, <2>1 DEF ArmArg, arg_arm64_win_varargs, Plain32
<1>6. CASE s.abi = "arm64_apple"
  <2>1. s.vt.arg = IF w = "VARARGS" THEN "variadic" ELSE "apple"
    BY <1>1, <1>6, ArmTables DEF vt_arm64_apple, vt_arm64_variadic
  <2> QED BY <1>1, <1>6, <2>1 DEF ArmArg, Plain32
<1> QED BY <1>2, <1>3, <1>4, <1>5, <1>6 DEF ArmABIs, Arm32, Arm64

LEMMA CountsAfter ==
  ASSUME NEW s, Within(s)
  PROVE  /\ Counts(s.abi, s.i, s.f, s.d)
         /\ s.abi \notin {"ppc64_v1", "ppc64_v2"} => \A k : Counts(s.abi, k, s.f, s.d)
         /\ \A k : k <= FloatRegs[s.abi] => Counts(s.abi, s.i, k, s.d)
BY DEF Within, Counts

(* Writing and counting, as WriteAndCount says of single words. *)
LEMMA WriteAdds ==
  ASSUME NEW s, IsVM(s), NEW off, NEW v, NEW k
  PROVE  [VecWrite(s, off, v) EXCEPT !.i = @ + k] = WriteInt(s, off, v, s.i + k)
<1>1. VecWrite(s, off, v).i = s.i
  BY DEF VecWrite, IsVM, VMs
<1> QED BY <1>1 DEF WriteInt

LEMMA ReadySelf ==
  ASSUME NEW s, IsVM(s), Within(s)
  PROVE  Ready(s, s)
BY ReadySame, CountsAfter DEF SameVec

(* Four bytes in a slot of eight. *)
LEMMA StaysSlot ==
  ASSUME NEW s, IsVM(s), Within(s), s.abi \notin WordABIs, NEW x \in Seq(Byte), Len(x) = 4
  PROVE  Stays(s, dcVecSkip(dcVecAppend(s, x), 4))
<1> DEFINE r == dcVecAppend(s, x)
           u == dcVecSkip(r, 4)
<1>1. IsVM(r) /\ OnlyVec(s, r) /\ (Len(r.vec) = Len(s.vec) \/ Len(r.vec) = Len(s.vec) + 4)
  BY TypedAppend
<1> HIDE DEF r
<1>2. IsVM(u) /\ OnlyVec(r, u) /\ Len(u.vec) = Len(r.vec) + 4
  BY <1>1, Skipped
<1> HIDE DEF u
<1> DEFINE n == Len(s.vec)
           m == Len(u.vec)
<1>3. n \in Nat /\ (m = n + 4 \/ m = n + 8)
  <2>1. n \in Nat
    BY LenVec
  <2> QED BY <1>1, <1>2, <2>1
<1> HIDE DEF n, m
<1>4. m <= RoundUp(n, 8) + 8 /\ n <= m
  <2>1. RoundUp(n, 8) \in Nat /\ n <= RoundUp(n, 8)
    BY <1>3, RoundUpTo
  <2> QED BY <1>3, <2>1
<1> QED BY <1>1, <1>2, <1>4 DEF OnlyVec, Within, Stays, Sized, r, u, n, m

LEMMA ReadyAligned ==
  ASSUME NEW s, IsVM(s), Within(s), s.abi \notin WordABIs, NEW k \in {1, 2, 4, 8}
  PROVE  Ready(s, dcVecAlign(s, k))
<1> DEFINE n == Len(s.vec)
           m == RoundUp(n, k)
           u == dcVecResize(s, m)
<1>1. n \in Nat
  BY LenVec
<1>2. dcVecAlign(s, k) = u
  BY DEF dcVecAlign, dcVecSize
<1> HIDE DEF n
<1>3. m \in Nat /\ n <= m /\ m <= RoundUp(n, 8)
  BY <1>1 DEF RoundUp
<1> HIDE DEF m
<1>4. IsVM(u) /\ OnlyVec(s, u) /\ Len(u.vec) = m
  BY <1>3, Resized DEF n
<1> HIDE DEF u
<1> QED BY <1>2, <1>3, <1>4 DEF OnlyVec, Within, Ready, n

LEMMA StaysPutInt ==
  ASSUME NEW s, IsVM(s), Within(s), s.i < IntRegs[s.abi], NEW x \in Seq(Byte)
  PROVE  Stays(s, PutInt(s, x)) /\ Ready(s, PutInt(s, x))
<1> DEFINE u == PutInt(s, x)
<1>1. IsVM(u) /\ SameVec(s, u) /\ u.i = s.i + 1 /\ u.f = s.f /\ u.d = s.d
  BY TypedPutInt
<1> HIDE DEF u
<1>2. s.i + 1 <= IntRegs[s.abi]
  BY LenVec
<1>3. Counts(u.abi, u.i, u.f, u.d)
  BY <1>1, <1>2 DEF Within, Counts, SameVec
<1>4. Ready(s, u)
  BY <1>1, <1>3, ReadySame
<1> QED BY <1>4, StaysReady DEF u

LEMMA StaysPutFloat ==
  ASSUME NEW s, IsVM(s), Within(s), s.f < FloatRegs[s.abi], NEW x \in Seq(Byte)
  PROVE  Stays(s, PutFloat(s, x)) /\ Ready(s, PutFloat(s, x))
<1> DEFINE u == PutFloat(s, x)
<1>1. IsVM(u) /\ SameVec(s, u) /\ u.f = s.f + 1 /\ u.i = s.i /\ u.d = s.d
  BY TypedPutFloat
<1> HIDE DEF u
<1>2. s.f + 1 <= FloatRegs[s.abi]
  BY LenVec
<1>3. Counts(u.abi, u.i, u.f, u.d)
  BY <1>1, <1>2 DEF Within, Counts, SameVec
<1>4. Ready(s, u)
  BY <1>1, <1>3, ReadySame
<1> QED BY <1>4, StaysReady DEF u

LEMMA StaysArmhfInt ==
  ASSUME NEW s, IsVM(s), Within(s), s.abi = "armhf", NEW x \in Seq(Byte), Len(x) = 4
  PROVE  Stays(s, armhf_int(s, x))
<1>1. CASE s.i < 16
  <2> DEFINE k == s.i + 4
             o == s.i
  <2>4. VecWrite(s, s.i, x).i = s.i /\ k \in Nat /\ o \in Nat
    BY LenVec DEF VecWrite, IsVM, VMs
  <2>1. armhf_int(s, x) = WriteInt(s, o, x, k)
    BY <1>1, <2>4 DEF armhf_int, WriteInt
  <2>2. SameVec(s, s)
    BY DEF SameVec
  <2>3. Counts(s.abi, k, s.f, s.d)
    BY CountsAfter
  <2> HIDE DEF k, o
  <2> QED BY <2>1, <2>2, <2>3, <2>4, StaysWrite
<1>2. CASE ~(s.i < 16)
  <2>1. armhf_int(s, x) = dcVecAppend(s, x)
    BY <1>2 DEF armhf_int
  <2>2. Ready(s, s) /\ Len(x) <= 8 /\ Len(x) \in {4, 8}
    BY ReadySelf
  <2>3. Stays(s, dcVecAppend(s, x))
    BY <2>2, StaysAppend
  <2> QED BY <2>1, <2>3
<1> QED BY <1>1, <1>2

LEMMA StaysArmhfLongLong ==
  ASSUME NEW s, IsVM(s), Within(s), s.abi = "armhf", NEW x \in Seq(Byte), Len(x) = 8
  PROVE  Stays(s, armhf_longlong(s, x))
<1> DEFINE i == ((s.i + 4) \div 8) * 8
           r == [s EXCEPT !.i = i]
<1>1. i \in Nat /\ s \in VMs
  BY LenVec DEF IsVM
<1>2. armhf_longlong(s, x) =
        IF r.i < 16 THEN [VecWrite(r, r.i, x) EXCEPT !.i = @ + 8] ELSE dcVecAppend(dcVecSkip4(r), x)
  BY <1>1 DEF armhf_longlong, VMs
<1> HIDE DEF i
<1>3. /\ IsVM(r) /\ SameVec(s, r) /\ r.i = i /\ r.f = s.f /\ r.d = s.d
  BY <1>1, SetInt DEF SameVec
<1> HIDE DEF r
<1>4. r.abi = s.abi /\ s.abi \in WordABIs
  BY <1>3 DEF SameVec, WordABIs, Arm32
<1>5. Counts(r.abi, i, r.f, r.d) /\ Counts(r.abi, i + 8, r.f, r.d)
  BY <1>3, <1>4, CountsAfter
<1>6. CASE r.i < 16
  <2> DEFINE k == i + 8
  <2>3. VecWrite(r, r.i, x).i = r.i /\ k \in Nat
    BY <1>1, <1>3 DEF VecWrite, IsVM, VMs
  <2>1. armhf_longlong(s, x) = WriteInt(r, i, x, k)
    BY <1>2, <1>3, <1>6, <2>3 DEF WriteInt
  <2> HIDE DEF k
  <2>2. Counts(r.abi, k, r.f, r.d)
    BY <1>5 DEF k
  <2> QED BY <1>1, <1>3, <2>1, <2>2, <2>3, StaysWrite
<1>7. CASE ~(r.i < 16)
  <2>1. Ready(s, r)
    BY <1>3, <1>5, ReadySame
  <2>2. Ready(s, dcVecSkip4(r))
    BY <1>4, <2>1, ReadySkip4
  <2>3. Len(x) <= 8 /\ Len(x) \in {4, 8}
    OBVIOUS
  <2> DEFINE y == dcVecSkip4(r)
  <2>4. armhf_longlong(s, x) = dcVecAppend(y, x) /\ Ready(s, y)
    BY <1>2, <1>7, <2>2
  <2> HIDE DEF y
  <2>5. Stays(s, dcVecAppend(y, x))
    BY <2>3, <2>4, StaysAppend
  <2> QED BY <2>4, <2>5
<1> QED BY <1>6, <1>7

(* The next pair of single registers is among them, as their number is even. *)
LEMMA PairRoom ==
  ASSUME NEW F \in Nat, F % 2 = 0, NEW k \in Nat, k <= F
  PROVE  /\ RoundUp(k, 2) \in Nat /\ RoundUp(k, 2) % 2 = 0 /\ RoundUp(k, 2) <= F /\ k <= RoundUp(k, 2)
         /\ k % 2 = 0 /\ k < F => k + 2 <= F /\ (k + 2) % 2 = 0
BY DEF RoundUp

LEMMA SolidLen ==
  ASSUME NEW v, NEW n \in {4, 8}, Solid(v, n)
  PROVE  v \in Seq(Byte) /\ Len(v) = n /\ Len(v) <= 8 /\ Len(v) \in {4, 8}
<1>1. v \in Seq(Byte) /\ Len(v) = n
  BY DEF Solid
<1>2. n <= 8
  OBVIOUS
<1> QED BY <1>1, <1>2

LEMMA ArmhfRegs ==
  ASSUME NEW s, IsVM(s), Within(s), s.abi = "armhf"
  PROVE  /\ FloatRegs[s.abi] \in Nat /\ FloatRegs[s.abi] % 2 = 0 /\ s.f \in Nat /\ s.f <= FloatRegs[s.abi]
         /\ s.d \in Nat /\ s.d % 2 = 0 /\ s.d <= FloatRegs[s.abi]
<1>1. "armhf" \in ABIs /\ "armhf" \in Arm32
  BY LenVec DEF Arm32
<1> QED BY <1>1, LenVec, RegistersAssumption DEF Within, Counts

LEMMA StaysArmhfFloat ==
  ASSUME NEW s, IsVM(s), Within(s), s.abi = "armhf", NEW x \in Seq(Byte), Len(x) = 4
  PROVE  Stays(s, armhf_float(s, x))
<1> DEFINE F == FloatRegs[s.abi]
           r == PutFloat(s, x)
           e == RoundUp(r.f, 2)
           y == [r EXCEPT !.d = e]
           z == [r EXCEPT !.f = r.d]
<1>1. F \in Nat /\ F % 2 = 0 /\ s.f \in Nat /\ s.f <= F /\ s.d \in Nat /\ s.d % 2 = 0 /\ s.d <= F
  BY ArmhfRegs
<1>2. CASE s.f < F
  <2>1. IsVM(r) /\ SameVec(s, r) /\ r.f = s.f + 1 /\ r.i = s.i /\ r.d = s.d
    BY <1>2, TypedPutFloat
  <2>2. armhf_float(s, x) = IF r.d < r.f THEN y ELSE z
    BY <1>2, <2>1 DEF armhf_float, IsVM, VMs
  <2> HIDE DEF r
  <2>3. r.f \in Nat /\ r.f <= F /\ r.d \in Nat /\ r.abi = "armhf" /\ s.abi = r.abi
    BY <1>1, <1>2, <2>1 DEF SameVec
  <2>4. e \in Nat /\ e % 2 = 0 /\ e <= F
    BY <1>1, <2>3, PairRoom
  <2> HIDE DEF e
  <2>5. IsVM(y) /\ SameVec(r, y) /\ y.d = e /\ y.i = r.i /\ y.f = r.f
    BY <2>1, <2>4, SetDouble
  <2>6. IsVM(z) /\ SameVec(r, z) /\ z.f = r.d /\ z.i = r.i /\ z.d = r.d
    BY <2>1, <2>3, SetFloat
  <2> HIDE DEF y, z
  <2>7. Counts(y.abi, y.i, y.f, y.d) /\ SameVec(s, y)
    BY <2>1, <2>3, <2>4, <2>5 DEF Counts, SameVec, MipsN64
  <2>8. Counts(z.abi, z.i, z.f, z.d) /\ SameVec(s, z)
    BY <1>1, <2>1, <2>3, <2>6 DEF Counts, SameVec, MipsN64
  <2>9. Stays(s, y) /\ Stays(s, z)
    BY <2>5, <2>6, <2>7, <2>8, ReadySame, StaysReady
  <2> QED BY <2>2, <2>9
<1>3. CASE ~(s.f < F)
  <2>1. armhf_float(s, x) = dcVecAppend(s, x)
    BY <1>3 DEF armhf_float
  <2>2. Ready(s, s) /\ Len(x) <= 8 /\ Len(x) \in {4, 8}
    BY ReadySelf
  <2>3. Stays(s, dcVecAppend(s, x))
    BY <2>2, StaysAppend
  <2> QED BY <2>1, <2>3
<1> QED BY <1>2, <1>3

LEMMA StaysArmhfDouble ==
  ASSUME NEW s, IsVM(s), Within(s), s.abi = "armhf", NEW x, Solid(x, 8)
  PROVE  Stays(s, armhf_double(s, x))
<1> DEFINE F == FloatRegs[s.abi]
           d == s.d
           w0 == WordOf(s.abi, x, 0)
           w1 == WordOf(s.abi, x, 1)
           g == IF s.f % 2 = 0 THEN d + 2 ELSE s.f
           r0 == [s EXCEPT !.freg[d] = w0]
           k == d + 1
           r1 == [r0 EXCEPT !.freg[k] = w1]
           e == d + 2
           r2 == [r1 EXCEPT !.d = e]
           r3 == [r2 EXCEPT !.f = g]
<1>1. F \in Nat /\ F % 2 = 0 /\ s.f \in Nat /\ s.f <= F /\ d \in Nat /\ d % 2 = 0 /\ d <= F
  BY ArmhfRegs
<1>2. CASE d < F
  <2>1. armhf_double(s, x) = r3
    <3>1. armhf_double(s, x) = [s EXCEPT !.freg[s.d] = WordOf(s.abi, x, 0), !.freg[s.d + 1] = WordOf(s.abi, x, 1),
                 !.d = @ + 2, !.f = IF @ % 2 = 0 THEN s.d + 2 ELSE @]
      BY <1>2 DEF armhf_double
    <3>2. s \in VMs
      BY DEF IsVM
    <3>3. [s EXCEPT !.freg[s.d] = WordOf(s.abi, x, 0), !.freg[s.d + 1] = WordOf(s.abi, x, 1),
                 !.d = @ + 2, !.f = IF @ % 2 = 0 THEN s.d + 2 ELSE @] = r3
      BY <3>2 DEF VMs
    <3> QED BY <3>1, <3>3
  <2>2. e \in Nat /\ e % 2 = 0 /\ e <= F /\ k \in 0 .. F - 1 /\ d \in 0 .. F - 1
    BY <1>1, <1>2
  <2>3. w0 \in Seq(Byte) /\ w1 \in Seq(Byte)
    BY WordType DEF Solid
  <2>4. g \in Nat /\ g <= F
    BY <1>1, <2>2
  <2> HIDE DEF w0, w1, e, k, g, d
  <2>5. IsVM(r0) /\ SameVec(s, r0) /\ r0.i = s.i
    BY <2>2, <2>3, TypedFloat
  <2> HIDE DEF r0
  <2>6. IsVM(r1) /\ SameVec(r0, r1) /\ r1.i = r0.i
    <3>1. r0.abi = s.abi
      BY <2>5 DEF SameVec
    <3> QED BY <2>2, <2>3, <2>5, <3>1, TypedFloat
  <2> HIDE DEF r1
  <2>7. IsVM(r2) /\ SameVec(r1, r2) /\ r2.d = e /\ r2.i = r1.i
    BY <2>2, <2>6, SetDouble
  <2> HIDE DEF r2
  <2>8. IsVM(r3) /\ SameVec(r2, r3) /\ r3.f = g /\ r3.d = r2.d /\ r3.i = r2.i
    BY <2>4, <2>7, SetFloat
  <2> HIDE DEF r3
  <2>9. SameVec(s, r3)
    BY <2>5, <2>6, <2>7, <2>8 DEF SameVec
  <2>10. Counts(r3.abi, r3.i, r3.f, r3.d)
    BY <2>2, <2>4, <2>7, <2>8, <2>9 DEF Counts, SameVec, MipsN64
  <2>11. Stays(s, r3)
    BY <2>8, <2>9, <2>10, ReadySame, StaysReady
  <2> QED BY <2>1, <2>11
<1>3. CASE ~(d < F)
  <2> DEFINE y == [s EXCEPT !.f = F]
             z == dcVecSkip4(y)
  <2>1. armhf_double(s, x) = dcVecAppend(z, x)
    BY <1>3 DEF armhf_double
  <2>2. IsVM(y) /\ SameVec(s, y) /\ y.f = F /\ y.i = s.i /\ y.d = s.d
    BY <1>1, SetFloat
  <2> HIDE DEF y
  <2>3. Counts(y.abi, y.i, y.f, y.d)
    BY <1>1, <2>2 DEF Counts, SameVec, MipsN64
  <2>4. Ready(s, y)
    BY <2>2, <2>3, ReadySame
  <2>5. s.abi \in WordABIs
    BY DEF WordABIs, Arm32
  <2>6. Ready(s, z)
    BY <2>4, <2>5, ReadySkip4
  <2>7. x \in Seq(Byte) /\ Len(x) <= 8 /\ Len(x) \in {4, 8}
    BY DEF Solid
  <2> HIDE DEF z
  <2>8. Stays(s, dcVecAppend(z, x))
    BY <2>6, <2>7, StaysAppend
  <2> QED BY <2>1, <2>8
<1> QED BY <1>2, <1>3

LEMMA StaysAI64 ==
  ASSUME NEW s, IsVM(s), Within(s), s.abi \notin WordABIs, NEW x \in Seq(Byte), Len(x) = 8
  PROVE  Stays(s, a_i64(s, x))
<1>1. CASE s.i < IntRegs[s.abi]
  <2>1. a_i64(s, x) = PutInt(s, x)
    BY <1>1 DEF a_i64
  <2>2. Stays(s, PutInt(s, x))
    BY <1>1, StaysPutInt
  <2> QED BY <2>1, <2>2
<1>2. CASE ~(s.i < IntRegs[s.abi])
  <2>1. a_i64(s, x) = dcVecAppend(s, x)
    BY <1>2 DEF a_i64
  <2>2. Ready(s, s) /\ Len(x) <= 8
    BY ReadySelf
  <2>3. Stays(s, dcVecAppend(s, x))
    BY <2>2, StaysAppend
  <2> QED BY <2>1, <2>3
<1> QED BY <1>1, <1>2

(* An argument's value. *)
LEMMA ArgValue ==
  ASSUME NEW abi \in ABIs, NEW t \in AllTypes, NEW n \in Nat, n > 0,
         NEW v, v = Value(n, SizeOf(abi, t))
  PROVE  /\ v \in Seq(Byte) /\ Len(v) \in {1, 2, 4, 8} /\ Len(v) <= 8 /\ Len(v) = SizeOf(abi, t)
         /\ t \in Wide => Solid(v, 8)
         /\ t = "float" => Solid(v, 4)
         /\ Solid(Extend(v, 8), 8)
         /\ t \notin Wide /\ Narrow4(abi) => Solid(Extend(v, 4), 4)
<1> DEFINE z == SizeOf(abi, t)
<1>1. z \in {1, 2, 4, 8} /\ (t \in Wide => z = 8) /\ (t = "float" => z = 4)
  BY Sizes
<1>2. Solid(v, z)
  BY <1>1, Whole
<1>3. Solid(Extend(v, 8), 8)
  BY <1>1, Promoted
<1>4. t \notin Wide /\ Narrow4(abi) => Solid(Extend(v, 4), 4)
  <2>1. ASSUME t \notin Wide, Narrow4(abi) PROVE z <= 4
    BY <1>1, <2>1, Sizes DEF AllTypes, Wide, Floats, IntTypes, Narrow4
  <2> QED BY <2>1, Promoted
<1> HIDE DEF z
<1>5. v \in Seq(Byte) /\ Len(v) = z
  BY <1>2 DEF Solid
<1> QED BY <1>1, <1>2, <1>3, <1>4, <1>5 DEF z

LEMMA StaysPlain32 ==
  ASSUME NEW s, IsVM(s), Within(s), s.abi \in Plain32, NEW w \in Ways(s.abi),
         s.vt = ModeTable(s.abi, w), NEW t \in AllTypes, NEW n \in Nat, n > 0
  PROVE  Stays(s, BindArg(s, t, Value(n, SizeOf(s.abi, t))))
<1> DEFINE x == Raw4(s.abi, t, n)
           r == IF s.abi \in Eabi32 /\ t \in Wide THEN dcVecSkip4(s) ELSE s
           u == BindArg(s, t, Value(n, SizeOf(s.abi, t)))
<1>1. s.abi \in ArmABIs /\ s.abi \in WordABIs /\ s.abi \in ABIs /\ Narrow4(s.abi)
  BY LenVec DEF Plain32, ArmABIs, Arm32, WordABIs, Narrow4, LP64
<1>2. u = dcVecAppend(r, x)
  BY <1>1, ArmBinds DEF Raw4
<1>3. x \in Seq(Byte) /\ Len(x) = Width4(t) /\ Width4(t) \in {4, 8}
  BY <1>1, Raw4Type
<1>4. Ready(s, s)
  BY ReadySelf
<1>5. Ready(s, dcVecSkip4(s))
  BY <1>1, <1>4, ReadySkip4
<1> HIDE DEF x, u
<1>6. Len(x) <= 8 /\ Len(x) \in {4, 8} /\ Ready(s, r)
  BY <1>3, <1>4, <1>5
<1> HIDE DEF r
<1>7. Stays(s, dcVecAppend(r, x))
  BY <1>3, <1>6, StaysAppend
<1> QED BY <1>2, <1>7 DEF u

LEMMA StaysArmhf ==
  ASSUME NEW s, IsVM(s), Within(s), s.abi = "armhf", NEW w \in Ways(s.abi),
         s.vt = ModeTable(s.abi, w), NEW t \in AllTypes, NEW n \in Nat, n > 0
  PROVE  Stays(s, BindArg(s, t, Value(n, SizeOf(s.abi, t))))
<1> DEFINE v == Value(n, SizeOf(s.abi, t))
           u == BindArg(s, t, v)
<1>1. s.abi \in ArmABIs /\ s.abi \in ABIs /\ Narrow4(s.abi)
  BY LenVec DEF ArmABIs, Arm32, Narrow4, LP64
<1>2. /\ t \in Wide => Solid(v, 8)
      /\ t = "float" => Solid(v, 4)
      /\ t \notin Wide => Solid(Extend(v, 4), 4)
  BY <1>1, ArgValue
<1>3. /\ t \notin Wide /\ (t # "float" \/ AsInts(s.abi, w)) => u = armhf_int(s, Extend(v, 4))
      /\ t \in Wide /\ (t # "double" \/ AsInts(s.abi, w)) => u = armhf_longlong(s, v)
      /\ t = "float" /\ ~AsInts(s.abi, w) => u = armhf_float(s, v)
      /\ t = "double" /\ ~AsInts(s.abi, w) => u = armhf_double(s, v)
  BY <1>1, ArmBinds
<1> HIDE DEF u, v
<1>4. CASE t \notin Wide /\ (t # "float" \/ AsInts(s.abi, w))
  <2> DEFINE x == Extend(v, 4)
  <2>1. x \in Seq(Byte) /\ Len(x) = 4 /\ u = armhf_int(s, x)
    BY <1>2, <1>3, <1>4 DEF Solid
  <2> HIDE DEF x
  <2>2. Stays(s, armhf_int(s, x))
    BY <2>1, StaysArmhfInt
  <2> QED BY <2>1, <2>2 DEF u, v
<1>5. CASE t \in Wide /\ (t # "double" \/ AsInts(s.abi, w))
  <2>1. v \in Seq(Byte) /\ Len(v) = 8
    BY <1>2, <1>5 DEF Solid
  <2>2. Stays(s, armhf_longlong(s, v))
    BY <2>1, StaysArmhfLongLong
  <2> QED BY <1>3, <1>5, <2>2 DEF u, v
<1>6. CASE t = "float" /\ ~AsInts(s.abi, w)
  <2>1. v \in Seq(Byte) /\ Len(v) = 4
    BY <1>2, <1>6 DEF Solid
  <2>2. Stays(s, armhf_float(s, v))
    BY <2>1, StaysArmhfFloat
  <2> QED BY <1>3, <1>6, <2>2 DEF u, v
<1>7. CASE t = "double" /\ ~AsInts(s.abi, w)
  <2>1. Solid(v, 8)
    BY <1>2, <1>7 DEF Wide
  <2>2. Stays(s, armhf_double(s, v))
    BY <2>1, StaysArmhfDouble
  <2> QED BY <1>3, <1>7, <2>2 DEF u, v
<1> QED BY <1>4, <1>5, <1>6, <1>7 DEF Wide

LEMMA StaysArm64 ==
  ASSUME NEW s, IsVM(s), Within(s), s.abi \in Arm64, NEW w \in Ways(s.abi),
         s.vt = ModeTable(s.abi, w), NEW t \in AllTypes, NEW n \in Nat, n > 0
  PROVE  Stays(s, BindArg(s, t, Value(n, SizeOf(s.abi, t))))
<1> DEFINE v == Value(n, SizeOf(s.abi, t))
           u == BindArg(s, t, v)
           x == Extend(v, 8)
<1>1. s.abi \in ArmABIs /\ s.abi \in ABIs /\ s.abi \notin WordABIs
  BY LenVec DEF ArmABIs, Arm64, WordABIs, Arm32, MipsO32
<1>2. /\ v \in Seq(Byte) /\ Len(v) \in {1, 2, 4, 8} /\ Len(v) <= 8 /\ Len(v) = SizeOf(s.abi, t)
      /\ t \in Wide => Solid(v, 8)
      /\ t = "float" => Solid(v, 4)
      /\ Solid(x, 8)
  BY <1>1, ArgValue
<1>3. /\ s.abi \in {"arm64", "arm64_win"} =>
              u = IF AsInts(s.abi, w) THEN a_i64(s, x) ELSE arg_arm64(s, t, v)
      /\ s.abi = "arm64_apple" =>
              u = IF w = "VARARGS" THEN arg_arm64_variadic(s, t, v) ELSE arg_arm64_apple(s, t, v)
  BY <1>1, ArmBinds
<1>4. x \in Seq(Byte) /\ Len(x) = 8
  BY <1>2 DEF Solid
<1>5. Ready(s, s)
  BY ReadySelf
<1>6. SizeOf(s.abi, t) \in {1, 2, 4, 8}
  BY <1>2
<1> HIDE DEF u, v, x
<1>7. CASE s.abi \in {"arm64", "arm64_win"}
  <2>1. Stays(s, a_i64(s, x))
    BY <1>1, <1>4, StaysAI64
  <2>2. Stays(s, arg_arm64(s, t, v))
    <3>1. CASE t \notin Floats
      <4>1. arg_arm64(s, t, v) = a_i64(s, x)
        <5>1. t \in IntTypes \cup {"longlong"} /\ t # "float" /\ t # "double"
          BY <3>1 DEF AllTypes, Wide, Floats
        <5> QED BY <5>1 DEF arg_arm64, x
      <4> QED BY <2>1, <4>1
    <3>2. CASE t = "float"
      <4>1. arg_arm64(s, t, v) = IF s.f < FloatRegs[s.abi] THEN PutFloat(s, Padded(v))
                                 ELSE dcVecSkip(dcVecAppend(s, v), 4)
        BY <3>2 DEF arg_arm64, IntTypes
      <4>2. Solid(v, 4) /\ v \in Seq(Byte) /\ Len(v) = 4
        BY <1>2, <3>2 DEF Solid
      <4>3. Padded(v) \in Seq(Byte)
        BY <4>2, PaddedType
      <4>4. s.f < FloatRegs[s.abi] => Stays(s, PutFloat(s, Padded(v)))
        BY <4>3, StaysPutFloat
      <4>5. Stays(s, dcVecSkip(dcVecAppend(s, v), 4))
        BY <1>1, <4>2, StaysSlot
      <4> QED BY <4>1, <4>4, <4>5
    <3>3. CASE t = "double"
      <4>1. arg_arm64(s, t, v) = IF s.f < FloatRegs[s.abi] THEN PutFloat(s, v) ELSE dcVecAppend(s, v)
        BY <3>3 DEF arg_arm64, IntTypes
      <4>2. s.f < FloatRegs[s.abi] => Stays(s, PutFloat(s, v))
        BY <1>2, StaysPutFloat
      <4>3. Stays(s, dcVecAppend(s, v))
        BY <1>1, <1>2, <1>5, StaysAppend
      <4> QED BY <4>1, <4>2, <4>3
    <3> QED BY <3>1, <3>2, <3>3 DEF Floats
  <2> QED BY <1>3, <1>7, <2>1, <2>2 DEF u, v
<1>8. CASE s.abi = "arm64_apple"
  <2>1. Stays(s, arg_arm64_variadic(s, t, v))
    <3> DEFINE y == IF t = "float" THEN Widen(v) ELSE x
               r == dcVecAlign(s, 8)
    <3>1. arg_arm64_variadic(s, t, v) = dcVecAppend(r, y)
      BY DEF arg_arm64_variadic, x
    <3>2. y \in Seq(Byte) /\ Len(y) = 8 /\ Len(y) <= 8
      <4>1. t = "float" => Solid(Widen(v), 8)
        <5>1. t = "float" => SizeOf(s.abi, t) = 4
          BY <1>1, Sizes
        <5>2. t = "float" => v = Value(n, 4)
          BY <5>1 DEF v
        <5> QED BY <5>2, WidenType
      <4>4. (t = "float" => y = Widen(v)) /\ (t # "float" => y = x)
        OBVIOUS
      <4> HIDE DEF y
      <4>2. CASE t = "float"
        <5> DEFINE e == Widen(v)
        <5>1. y = e /\ Solid(e, 8)
          BY <4>1, <4>2, <4>4
        <5> HIDE DEF e
        <5>2. e \in Seq(Byte) /\ Len(e) = 8
          BY <5>1 DEF Solid
        <5> QED BY <5>1, <5>2
      <4>3. CASE t # "float"
        <5>1. y = x
          BY <4>3, <4>4
        <5>2. y \in Seq(Byte) /\ Len(y) = 8
          BY <1>4, <5>1
        <5> QED BY <5>2
      <4> QED BY <4>2, <4>3
    <3>3. Ready(s, r)
      BY <1>5, ReadyAlign8
    <3> HIDE DEF r, y
    <3>4. Stays(s, dcVecAppend(r, y))
      BY <1>1, <3>2, <3>3, StaysAppend
    <3> QED BY <3>1, <3>4
  <2>2. Stays(s, arg_arm64_apple(s, t, v))
    <3>1. CASE t \in Floats /\ s.f < FloatRegs[s.abi]
      <4>1. arg_arm64_apple(s, t, v) = PutFloat(s, Padded(v))
        BY <3>1 DEF arg_arm64_apple
      <4>2. Padded(v) \in Seq(Byte)
        <5>1. CASE t = "float"
          BY <1>2, <5>1, PaddedType
        <5>2. CASE t = "double"
          <6>1. v \in Seq(Byte) /\ Len(v) = 8
            BY <1>2, <5>2 DEF Solid, Wide
          <6>2. Junks(8 - Len(v)) \in Seq(Byte)
            <7>1. 8 - Len(v) = 0
              BY <6>1
            <7>2. Junks(0) = << >>
              BY DEF Junks
            <7>3. << >> \in Seq(Byte)
              OBVIOUS
            <7> QED BY <7>1, <7>2, <7>3
          <6> QED BY <6>1, <6>2 DEF Padded
        <5> QED BY <3>1, <5>1, <5>2 DEF Floats
      <4>3. Stays(s, PutFloat(s, Padded(v)))
        BY <3>1, <4>2, StaysPutFloat
      <4> QED BY <4>1, <4>3
    <3>2. CASE t \notin Floats /\ s.i < IntRegs[s.abi]
      <4>1. arg_arm64_apple(s, t, v) = PutInt(s, x)
        BY <3>2 DEF arg_arm64_apple, x
      <4>2. Stays(s, PutInt(s, x))
        BY <1>4, <3>2, StaysPutInt
      <4> QED BY <4>1, <4>2
    <3>3. CASE ~(t \in Floats /\ s.f < FloatRegs[s.abi]) /\ ~(t \notin Floats /\ s.i < IntRegs[s.abi])
      <4> DEFINE r == dcVecAlign(s, SizeOf(s.abi, t))
      <4>1. arg_arm64_apple(s, t, v) = dcVecAppend(r, v)
        BY <3>3 DEF arg_arm64_apple, AppleStack
      <4>2. Ready(s, r)
        BY <1>1, <1>6, ReadyAligned
      <4> HIDE DEF r
      <4>3. Stays(s, dcVecAppend(r, v))
        BY <1>1, <1>2, <4>2, StaysAppend
      <4> QED BY <4>1, <4>3
    <3> QED BY <3>1, <3>2, <3>3
  <2> QED BY <1>3, <1>8, <2>1, <2>2 DEF u, v
<1> QED BY <1>7, <1>8 DEF Arm64

LEMMA StaysArm ==
  ASSUME NEW s, IsVM(s), Within(s), s.abi \in ArmABIs, NEW w \in Ways(s.abi),
         s.vt = ModeTable(s.abi, w), NEW t \in AllTypes, NEW n \in Nat, n > 0
  PROVE  Stays(s, BindArg(s, t, Value(n, SizeOf(s.abi, t))))
BY StaysPlain32, StaysArmhf, StaysArm64 DEF ArmABIs, Arm32, Plain32

-----------------------------------------------------------------------------
(* MIPS.                                                                   *)
LEMMA MipsTables ==
  ASSUME NEW abi \in MipsABIs, NEW w \in Ways(abi)
  PROVE  /\ abi \in MipsO32 => MipsMode(abi, w) = gVT_mips_o32
         /\ abi = "mips_eabi" => MipsMode(abi, w) = gVT_mips_eabi
         /\ abi \in MipsN64 =>
              MipsMode(abi, w) = IF w = "VARARGS" THEN gVT_mips_n64_ellipsis ELSE gVT_mips_n64
         /\ abi = "mips_n32" =>
              MipsMode(abi, w) = IF w = "VARARGS" THEN gVT_mips_n32_ellipsis ELSE gVT_mips_n32
<1>1. w \in {"DEFAULT", "ELLIPSIS", "THIS", "VARARGS"} \cup OwnModes(abi)
  BY DEF Ways, KnownModes
<1>2. CASE abi \in MipsO32
  <2>1. OwnModes(abi) = {"MIPS32_O32"}
    BY <1>2 DEF OwnModes, Arm64, MipsO32, MipsN64
  <2>2. MipsMode(abi, w) = mode_mips_o32(w) /\ abi # "mips_eabi" /\ abi \notin MipsN64 /\ abi # "mips_n32"
    BY <1>2 DEF MipsMode, MipsO32, MipsN64
  <2> QED BY <1>1, <1>2, <2>1, <2>2 DEF mode_mips_o32, CDefault, CEllipsis
<1>3. CASE abi = "mips_eabi"
  <2>1. OwnModes(abi) = {"MIPS32_EABI"}
    BY <1>3 DEF OwnModes, Arm64, MipsO32, MipsN64
  <2>2. MipsMode(abi, w) = mode_mips_eabi(w) /\ abi \notin MipsO32 /\ abi \notin MipsN64
    BY <1>3 DEF MipsMode, MipsO32, MipsN64
  <2> QED BY <1>1, <1>3, <2>1, <2>2 DEF mode_mips_eabi, CDefault, CEllipsis
<1>4. CASE abi \in MipsN64
  <2>1. OwnModes(abi) = {"MIPS64_N64"}
    BY <1>4 DEF OwnModes, Arm64, MipsO32, MipsN64
  <2>2. MipsMode(abi, w) = mode_mips_n64(w) /\ abi \notin MipsO32 /\ abi # "mips_eabi" /\ abi # "mips_n32"
    BY <1>4 DEF MipsMode, MipsO32, MipsN64
  <2> QED BY <1>1, <1>4, <2>1, <2>2 DEF mode_mips_n64, CDefault
<1>5. CASE abi = "mips_n32"
  <2>1. OwnModes(abi) = {"MIPS64_N32"}
    BY <1>5 DEF OwnModes, Arm64, MipsO32, MipsN64
  <2>2. MipsMode(abi, w) = mode_mips_n32(w) /\ abi \notin MipsO32 /\ abi \notin MipsN64
    BY <1>5 DEF MipsMode, MipsO32, MipsN64
  <2> QED BY <1>1, <1>5, <2>1, <2>2 DEF mode_mips_n32, CDefault
<1> QED BY <1>2, <1>3, <1>4, <1>5 DEF MipsABIs

LEMMA MipsBinds ==
  ASSUME NEW s, s.abi \in MipsABIs, NEW w \in Ways(s.abi), s.vt = ModeTable(s.abi, w),
         NEW t \in AllTypes, NEW v, NEW u, u = BindArg(s, t, v)
  PROVE  /\ s.abi \in MipsO32 => u = arg_mips_o32(s, t, v)
         /\ s.abi = "mips_eabi" => u = arg_mips_eabi(s, t, v)
         /\ s.abi \in MipsN64 =>
              u = IF w = "VARARGS" THEN arg_mips_n64_ellipsis(s, t, v) ELSE arg_mips_n64(s, t, v)
         /\ s.abi = "mips_n32" =>
              u = IF w = "VARARGS" THEN arg_mips_n32_ellipsis(s, t, v) ELSE arg_mips_n32(s, t, v)
<1>1. u = MipsArg(s, t, v) /\ s.vt = MipsMode(s.abi, w)
  BY MipsFamily
<1>2. CASE s.abi \in MipsO32
  <2>1. s.vt.arg = "o32" /\ s.abi # "mips_eabi" /\ s.abi \notin MipsN64 /\ s.abi # "mips_n32"
    BY <1>1, <1>2, MipsTables DEF gVT_mips_o32, MipsO32, MipsN64
  <2> QED BY <1>1, <2>1 DEF MipsArg
<1>3. CASE s.abi = "mips_eabi"
  <2>1. s.vt.arg = "mips_eabi" /\ s.abi \notin MipsO32 /\ s.abi \notin MipsN64
    BY <1>1, <1>3, MipsTables DEF gVT_mips_eabi, MipsO32, MipsN64
  <2> QED BY <1>1, <1>3, <2>1 DEF MipsArg
<1>4. CASE s.abi \in MipsN64
  <2>1. /\ s.vt.arg = IF w = "VARARGS" THEN "n64_ellipsis" ELSE "n64"
        /\ s.abi \notin MipsO32 /\ s.abi # "mips_eabi" /\ s.abi # "mips_n32"
    BY <1>1, <1>4, MipsTables DEF gVT_mips_n64, gVT_mips_n64_ellipsis, MipsO32, MipsN64
  <2> QED BY <1>1, <2>1 DEF MipsArg
<1>5. CASE s.abi = "mips_n32"
  <2>1. /\ s.vt.arg = IF w = "VARARGS" THEN "n32_ellipsis" ELSE "n32"
        /\ s.abi \notin MipsO32 /\ s.abi \notin MipsN64
    BY <1>1, <1>5, MipsTables DEF gVT_mips_n32, gVT_mips_n32_ellipsis, MipsO32, MipsN64
  <2> QED BY <1>1, <1>5, <2>1 DEF MipsArg
<1> QED BY <1>2, <1>3, <1>4, <1>5 DEF MipsABIs

LEMMA PaddedSeq ==
  ASSUME NEW v \in Seq(Byte), Len(v) <= 8
  PROVE  Padded(v) \in Seq(Byte) /\ Len(Padded(v)) = 8 /\ (Len(v) = 8 => Padded(v) = v)
<1> DEFINE n == Len(v)
           k == 8 - n
           j == Junks(k)
<1>1. n \in Nat /\ k \in Nat /\ n + k = 8
  OBVIOUS
<1> HIDE DEF n, k
<1>2. j \in [1 .. k -> Byte]
  BY DEF Junks, Junk, Byte
<1>3. j \in Seq(Byte) /\ Len(j) = k
  BY <1>1, <1>2, FunctionIsSeq
<1> HIDE DEF j
<1>4. v \o j \in Seq(Byte) /\ Len(v \o j) = Len(v) + Len(j)
  BY <1>3
<1>5. Len(v \o j) = 8
  BY <1>1, <1>3, <1>4 DEF n
<1>6. ASSUME n = 8 PROVE v \o j = v
  <2>1. Len(j) = 0
    BY <1>1, <1>3, <1>6
  <2>2. j = << >>
    BY <1>3, <2>1
  <2> QED BY <2>2
<1> QED BY <1>4, <1>5, <1>6 DEF Padded, j, k, n

LEMMA ConcatBytes ==
  ASSUME NEW a \in Seq(Byte), NEW b \in Seq(Byte)
  PROVE  a \o b \in Seq(Byte) /\ Len(a \o b) = Len(a) + Len(b)
OBVIOUS

LEMMA JunkBefore ==
  ASSUME NEW v \in Seq(Byte), Len(v) = 4
  PROVE  Junks(4) \o v \in Seq(Byte) /\ Len(Junks(4) \o v) = 8
<1> DEFINE k == 4
           j == Junks(k)
<1>1. k \in Nat /\ k = 4
  OBVIOUS
<1> HIDE DEF k
<1>2. j \in [1 .. k -> Byte]
  BY DEF Junks, Junk, Byte
<1>3. j \in Seq(Byte) /\ Len(j) = k
  BY <1>1, <1>2, FunctionIsSeq
<1> HIDE DEF j
<1>4. j \o v \in Seq(Byte) /\ Len(j \o v) = Len(j) + Len(v)
  BY <1>3, ConcatBytes
<1>5. Len(j \o v) = 8
  BY <1>1, <1>3, <1>4
<1> QED BY <1>4, <1>5 DEF j, k

LEMMA StaysO32 ==
  ASSUME NEW s, IsVM(s), Within(s), s.abi \in MipsO32, NEW w \in Ways(s.abi),
         s.vt = ModeTable(s.abi, w), NEW t \in AllTypes, NEW n \in Nat, n > 0
  PROVE  Stays(s, BindArg(s, t, Value(n, SizeOf(s.abi, t))))
<1> DEFINE v == Value(n, SizeOf(s.abi, t))
           u == BindArg(s, t, v)
           x == Raw4(s.abi, t, n)
           z == IF t \in Wide THEN dcVecSkip4(s) ELSE s
           r == dcVecAppend(z, x)
           inReg == t \in Floats /\ s.i < FloatRegs[s.abi]
           y == IF inReg THEN [r EXCEPT !.freg[s.i] = Padded(v)] ELSE r
           k == s.i + 1
<1>1. s.abi \in MipsABIs /\ s.abi \in ABIs /\ s.abi \in WordABIs /\ Narrow4(s.abi)
  BY LenVec DEF MipsABIs, MipsO32, WordABIs, Narrow4, LP64
<1>2. x \in Seq(Byte) /\ Len(x) = Width4(t) /\ Width4(t) \in {4, 8}
  BY <1>1, Raw4Type
<1>3. v \in Seq(Byte) /\ Len(v) <= 8
  BY <1>1, ArgValue
<1>4. Padded(v) \in Seq(Byte)
  BY <1>3, PaddedSeq
<1>5. Ready(s, s)
  BY ReadySelf
<1>6. Ready(s, dcVecSkip4(s))
  BY <1>1, <1>5, ReadySkip4
<1>7. k \in Nat /\ s.i \in Nat /\ FloatRegs[s.abi] \in Nat
  BY LenVec
<1>8. u = arg_mips_o32(s, t, v)
  BY <1>1, MipsBinds
<1>9. r = IF t \in Wide THEN dcVecAppend(dcVecSkip4(s), v) ELSE dcVecAppend(s, Extend(v, 4))
  BY DEF Raw4, Words4
<1>10. u = [r EXCEPT !.i = @ + 1, !.freg = IF inReg THEN [@ EXCEPT ![s.i] = Padded(v)] ELSE @]
  BY <1>8, <1>9 DEF arg_mips_o32
<1> HIDE DEF x, u
<1>11. Len(x) <= 8 /\ Len(x) \in {4, 8} /\ Ready(s, z) /\ z.i = s.i
  <2>1. dcVecSkip4(s).i = s.i
    BY DEF dcVecSkip4, dcVecSkip, dcVecResize, IsVM, VMs
  <2> QED BY <1>2, <1>5, <1>6, <2>1
<1> HIDE DEF z
<1>12. Stays(s, r) /\ r.i = s.i
  <2>1. Stays(s, r)
    BY <1>2, <1>11, StaysAppend
  <2>2. r.i = z.i
    <3>1. OnlyVec(z, r)
      BY <1>2, <1>11, TypedAppend DEF Ready
    <3> QED BY <3>1 DEF OnlyVec
  <2> QED BY <1>11, <2>1, <2>2
<1> HIDE DEF r
<1>13. IsVM(r) /\ r \in VMs /\ r.abi = s.abi
  BY <1>12 DEF Stays, IsVM
<1>14. u = [y EXCEPT !.i = k]
  BY <1>10, <1>12, <1>13 DEF VMs
<1>15. IsVM(y) /\ SameVec(r, y) /\ y.i = s.i /\ y.f = r.f /\ y.d = r.d
  <2>1. CASE inReg
    <3> DEFINE e == s.i
               g == Padded(v)
    <3>1. e \in 0 .. FloatRegs[r.abi] - 1 /\ g \in Seq(Byte) /\ y = [r EXCEPT !.freg[e] = g]
      BY <1>4, <1>7, <1>13, <2>1
    <3> HIDE DEF e, g, y
    <3>2. LET b == [r EXCEPT !.freg[e] = g] IN IsVM(b) /\ SameVec(r, b) /\ b.i = r.i /\ b.f = r.f /\ b.d = r.d
      BY <1>13, <3>1, TypedFloat
    <3> QED BY <1>12, <3>1, <3>2
  <2>2. CASE ~inReg
    BY <1>12, <1>13, <2>2 DEF SameVec
  <2> QED BY <2>1, <2>2
<1> HIDE DEF y, k
<1> DEFINE q == [y EXCEPT !.i = k]
<1>16. IsVM(q) /\ q.i = k /\ q.abi = y.abi /\ q.vt = y.vt /\ q.err = y.err /\ q.vec = y.vec
         /\ q.f = y.f /\ q.d = y.d
  BY <1>7, <1>15, SetInt
<1> HIDE DEF q
<1>17. SameVec(r, q) /\ q.f = r.f /\ q.d = r.d
  BY <1>15, <1>16 DEF SameVec
<1>18. Counts(q.abi, q.i, q.f, q.d)
  <2>1. Within(r) /\ r.abi \notin {"ppc64_v1", "ppc64_v2"}
    BY <1>12, <1>13 DEF Stays, MipsO32
  <2> QED BY <1>17, <2>1, CountsAfter DEF SameVec
<1>19. Stays(s, q)
  BY <1>12, <1>16, <1>17, <1>18 DEF Stays, SameVec, Within, Sized
<1> QED BY <1>14, <1>19 DEF q, u, v

(* Eight bytes in an even register and the next, where the number is even. *)
Pair(s, x) ==
  PutInt(PutInt([s EXCEPT !.i = RoundUp(@, 2)], WordOf(s.abi, x, 0)), WordOf(s.abi, x, 1))

LEMMA StaysPair ==
  ASSUME NEW s, IsVM(s), Within(s), IntRegs[s.abi] % 2 = 0, s.i < IntRegs[s.abi] - 1, NEW x, Solid(x, 8)
  PROVE  Stays(s, Pair(s, x))
<1> DEFINE I == IntRegs[s.abi]
           k == RoundUp(s.i, 2)
           w0 == WordOf(s.abi, x, 0)
           w1 == WordOf(s.abi, x, 1)
           r == [s EXCEPT !.i = k]
           r0 == PutInt(r, w0)
           r1 == PutInt(r0, w1)
<1>1. I \in Nat /\ s.i \in Nat /\ I % 2 = 0 /\ s.i < I - 1
  BY LenVec
<1>2. k \in Nat /\ k + 1 < I
  <2> DEFINE i == s.i
  <2> HIDE DEF I, i
  <2>1. i \in Nat /\ I \in Nat /\ I % 2 = 0 /\ i < I - 1
    BY <1>1 DEF i
  <2>2. RoundUp(i, 2) \in Nat /\ RoundUp(i, 2) + 1 < I
    BY <2>1 DEF RoundUp
  <2> QED BY <2>2 DEF i
<1>3. w0 \in Seq(Byte) /\ w1 \in Seq(Byte)
  BY WordType DEF Solid
<1>4. Pair(s, x) = r1
  BY DEF Pair, IsVM, VMs
<1> HIDE DEF k, w0, w1
<1>5. IsVM(r) /\ SameVec(s, r) /\ r.i = k /\ r.f = s.f /\ r.d = s.d
  BY <1>2, SetInt DEF SameVec
<1> HIDE DEF r
<1>6. Counts(r.abi, r.i, r.f, r.d)
  BY <1>1, <1>2, <1>5 DEF Within, Counts, SameVec
<1>7. Ready(s, r)
  BY <1>5, <1>6, ReadySame
<1>8. r.i < IntRegs[r.abi] /\ Within(r) /\ r.i = k /\ r.abi = s.abi
  BY <1>1, <1>2, <1>5, <1>7 DEF Ready
<1>9. IsVM(r0) /\ SameVec(r, r0) /\ r0.i = k + 1 /\ r0.f = r.f /\ r0.d = r.d
  BY <1>3, <1>5, <1>8, TypedPutInt
<1>10. Stays(r, r0)
  BY <1>3, <1>5, <1>8, StaysPutInt
<1> HIDE DEF r0
<1>11. r0.i < IntRegs[r0.abi] /\ Within(r0) /\ r0.abi = s.abi
  BY <1>1, <1>2, <1>8, <1>9, <1>10 DEF Stays
<1>12. IsVM(r1) /\ SameVec(r0, r1) /\ r1.i = r0.i + 1 /\ r1.f = r0.f /\ r1.d = r0.d
  BY <1>3, <1>9, <1>11, TypedPutInt
<1>13. Stays(r0, r1)
  BY <1>3, <1>9, <1>11, StaysPutInt
<1> HIDE DEF r1
<1>14. SameVec(s, r1) /\ Counts(r1.abi, r1.i, r1.f, r1.d)
  BY <1>5, <1>9, <1>12, <1>13 DEF SameVec, Stays, Within
<1>15. Stays(s, r1)
  BY <1>12, <1>14, ReadySame, StaysReady
<1> QED BY <1>4, <1>15

LEMMA StaysEabi ==
  ASSUME NEW s, IsVM(s), Within(s), s.abi = "mips_eabi", NEW w \in Ways(s.abi),
         s.vt = ModeTable(s.abi, w), NEW t \in AllTypes, NEW n \in Nat, n > 0
  PROVE  Stays(s, BindArg(s, t, Value(n, SizeOf(s.abi, t))))
<1> DEFINE v == Value(n, SizeOf(s.abi, t))
           u == BindArg(s, t, v)
           x == Extend(v, 4)
<1>1. s.abi \in MipsABIs /\ s.abi \in ABIs /\ s.abi \in WordABIs /\ Narrow4(s.abi)
  BY LenVec DEF MipsABIs, WordABIs, Narrow4, LP64
<1>2. /\ t \in Wide => Solid(v, 8)
      /\ t = "float" => Solid(v, 4)
      /\ t \notin Wide => Solid(x, 4)
  BY <1>1, ArgValue
<1>3. u = arg_mips_eabi(s, t, v)
  BY <1>1, MipsBinds
<1>4. Ready(s, s)
  BY ReadySelf
<1>5. IntRegs[s.abi] \in Nat /\ IntRegs[s.abi] % 2 = 0
  BY <1>1, LenVec, RegistersAssumption
<1> HIDE DEF u, v
<1>6. CASE t \in IntTypes
  <2>1. u = eabi_int(s, x) /\ t \notin Wide
    BY <1>3, <1>6 DEF arg_mips_eabi, IntTypes, Wide
  <2> HIDE DEF x
  <2>2. x \in Seq(Byte) /\ Len(x) <= 8 /\ Len(x) \in {4, 8}
    BY <1>2, <2>1, SolidLen
  <2>3. s.i < IntRegs[s.abi] => Stays(s, PutInt(s, x))
    BY <2>2, StaysPutInt
  <2>4. Stays(s, dcVecAppend(s, x))
    BY <1>4, <2>2, StaysAppend
  <2> QED BY <2>1, <2>3, <2>4 DEF eabi_int, u, v
<1>7. CASE t \in Wide
  <2>1. u = eabi_longlong(s, v)
    BY <1>3, <1>7 DEF arg_mips_eabi, IntTypes, Wide
  <2>2. Solid(v, 8)
    BY <1>2, <1>7
  <2>3. s.i < IntRegs[s.abi] - 1 => Stays(s, Pair(s, v))
    BY <1>5, <2>2, StaysPair
  <2> DEFINE I == IntRegs[s.abi]
             r == [s EXCEPT !.i = I]
             z == dcVecSkip4(r)
  <2>4. IsVM(r) /\ SameVec(s, r) /\ r.i = I /\ r.f = s.f /\ r.d = s.d
    BY <1>5, SetInt DEF SameVec
  <2>5. u = IF s.i < I - 1 THEN Pair(s, v) ELSE dcVecAppend(z, v)
    BY <2>1 DEF eabi_longlong, Pair
  <2> HIDE DEF r
  <2>6. Counts(r.abi, r.i, r.f, r.d)
    BY <2>4 DEF Within, Counts, SameVec
  <2>7. Ready(s, r)
    BY <2>4, <2>6, ReadySame
  <2>8. Ready(s, z)
    BY <1>1, <2>7, ReadySkip4
  <2> HIDE DEF z
  <2>9. v \in Seq(Byte) /\ Len(v) <= 8 /\ Len(v) \in {4, 8}
    BY <2>2 DEF Solid
  <2>10. Stays(s, dcVecAppend(z, v))
    BY <2>8, <2>9, StaysAppend
  <2> QED BY <2>3, <2>5, <2>10 DEF u, v
<1>8. CASE t = "float"
  <2>1. u = eabi_float(s, v)
    BY <1>3, <1>8 DEF arg_mips_eabi, IntTypes, Wide
  <2>2. v \in Seq(Byte) /\ Len(v) <= 8 /\ Len(v) \in {4, 8}
    <3>1. Solid(v, 4)
      BY <1>2, <1>8 DEF Wide
    <3> QED BY <3>1, SolidLen
  <2>3. s.f < FloatRegs[s.abi] => Stays(s, PutFloat(s, v))
    BY <2>2, StaysPutFloat
  <2>4. Stays(s, dcVecAppend(s, v))
    BY <1>4, <2>2, StaysAppend
  <2> QED BY <2>1, <2>3, <2>4 DEF eabi_float, u, v
<1> QED BY <1>6, <1>7, <1>8 DEF AllTypes, Wide, Floats

LEMMA StaysNumbered ==
  ASSUME NEW s, IsVM(s), Within(s), s.abi \in MipsN64 \cup {"mips_n32"}, s.i < FloatRegs[s.abi],
         NEW x \in Seq(Byte)
  PROVE  /\ Stays(s, [s EXCEPT !.freg[s.i] = x, !.d = @ \cup {s.i}, !.i = @ + 1])
         /\ Stays(s, [s EXCEPT !.freg[s.i] = x, !.i = @ + 1])
<1> DEFINE k == s.i
           m == k + 1
           e == s.d \cup {k}
           r == [s EXCEPT !.freg[k] = x]
           y == [r EXCEPT !.d = e]
           u1 == [y EXCEPT !.i = m]
           u2 == [r EXCEPT !.i = m]
<1>1. k \in Nat /\ m \in Nat /\ k \in 0 .. FloatRegs[s.abi] - 1
  BY LenVec
<1>2. s.d \in SUBSET Nat /\ e \in SUBSET Nat /\ e \in Nat \cup SUBSET Nat
  BY <1>1 DEF Within, Counts
<1>3. [s EXCEPT !.freg[s.i] = x, !.d = @ \cup {s.i}, !.i = @ + 1] = u1
  BY DEF IsVM, VMs
<1>4. [s EXCEPT !.freg[s.i] = x, !.i = @ + 1] = u2
  BY DEF IsVM, VMs
<1> HIDE DEF k, m, e
<1>5. IsVM(r) /\ SameVec(s, r) /\ r.f = s.f /\ r.d = s.d
  BY <1>1, TypedFloat
<1> HIDE DEF r
<1>6. IsVM(y) /\ SameVec(r, y) /\ y.f = r.f /\ y.d = e
  BY <1>2, <1>5, SetDouble
<1> HIDE DEF y
<1>7. IsVM(u1) /\ SameVec(y, u1) /\ u1.f = y.f /\ u1.d = y.d
  BY <1>1, <1>6, SetInt DEF SameVec
<1>8. IsVM(u2) /\ SameVec(r, u2) /\ u2.f = r.f /\ u2.d = r.d
  BY <1>1, <1>5, SetInt DEF SameVec
<1> HIDE DEF u1, u2
<1>9. s.abi \notin {"ppc64_v1", "ppc64_v2"} /\ s.abi # "armhf"
  BY DEF MipsN64
<1>10. SameVec(s, u1) /\ SameVec(s, u2)
  BY <1>5, <1>6, <1>7, <1>8 DEF SameVec
<1>11. Counts(u1.abi, u1.i, u1.f, u1.d) /\ Counts(u2.abi, u2.i, u2.f, u2.d)
  BY <1>2, <1>5, <1>6, <1>7, <1>8, <1>9, <1>10 DEF SameVec, Within, Counts
<1>12. Stays(s, u1) /\ Stays(s, u2)
  BY <1>7, <1>8, <1>10, <1>11, ReadySame, StaysReady
<1> QED BY <1>3, <1>4, <1>12

LEMMA StaysN64 ==
  ASSUME NEW s, IsVM(s), Within(s), s.abi \in MipsN64 \cup {"mips_n32"}, NEW w \in Ways(s.abi),
         s.vt = ModeTable(s.abi, w), NEW t \in AllTypes, NEW n \in Nat, n > 0
  PROVE  Stays(s, BindArg(s, t, Value(n, SizeOf(s.abi, t))))
<1> DEFINE v == Value(n, SizeOf(s.abi, t))
           u == BindArg(s, t, v)
           x == Extend(v, 8)
           inReg == s.i < IntRegs[s.abi]
           InFloat(y) == [s EXCEPT !.freg[s.i] = y, !.i = @ + 1]
           InDouble(y) == [s EXCEPT !.freg[s.i] = y, !.d = @ \cup {s.i}, !.i = @ + 1]
<1>1. s.abi \in MipsABIs /\ s.abi \in ABIs /\ s.abi \notin WordABIs
  BY LenVec DEF MipsABIs, MipsN64, WordABIs, MipsO32, Arm32
<1>2. /\ v \in Seq(Byte) /\ Len(v) <= 8 /\ Len(v) = SizeOf(s.abi, t)
      /\ t \in Wide => Solid(v, 8)
      /\ t = "float" => Solid(v, 4)
      /\ Solid(x, 8)
  BY <1>1, ArgValue
<1>3. x \in Seq(Byte) /\ Len(x) = 8
  BY <1>2, SolidLen
<1>4. Ready(s, s)
  BY ReadySelf
<1>5. \A y \in Seq(Byte) : Len(y) = 8 => Stays(s, argLongLong_n(s, y))
  <2> SUFFICES ASSUME NEW y \in Seq(Byte), Len(y) = 8 PROVE Stays(s, argLongLong_n(s, y))
    OBVIOUS
  <2>1. argLongLong_n(s, y) = a_i64(s, y)
    BY DEF argLongLong_n, a_i64
  <2>2. Stays(s, a_i64(s, y))
    BY <1>1, StaysAI64
  <2> QED BY <2>1, <2>2
<1>6. (IsHardFloat(s.abi) \/ s.abi = "mips_n32") /\ inReg => s.i < FloatRegs[s.abi]
  <2>1. s.abi \in MipsN64 => FloatRegs[s.abi] \in {0, IntRegs[s.abi]}
    BY <1>1, RegistersAssumption
  <2>2. s.abi = "mips_n32" => FloatRegs[s.abi] = IntRegs[s.abi]
    BY <1>1, RegistersAssumption
  <2> QED BY <2>1, <2>2 DEF IsHardFloat
<1>7. \A y \in Seq(Byte) : s.i < FloatRegs[s.abi] => Stays(s, InFloat(y)) /\ Stays(s, InDouble(y))
  BY StaysNumbered
<1>8. t = "float" => v \in Seq(Byte) /\ Len(v) = 4
  BY <1>2, SolidLen
<1>9. t = "double" => v \in Seq(Byte) /\ Len(v) = 8
  <2>1. t = "double" => Solid(v, 8)
    BY <1>2 DEF Wide
  <2> QED BY <2>1, SolidLen
<1>10. t = "float" => Widen(v) \in Seq(Byte) /\ Len(Widen(v)) = 8
  <2> SUFFICES ASSUME t = "float" PROVE Widen(v) \in Seq(Byte) /\ Len(Widen(v)) = 8
    OBVIOUS
  <2>1. SizeOf(s.abi, t) = 4
    BY <1>1, Sizes
  <2>2. v = Value(n, 4)
    BY <2>1
  <2>3. Solid(Widen(v), 8)
    BY <2>2, WidenType
  <2> QED BY <2>3, SolidLen
<1>11. Stays(s, dcVecAppend(s, v))
  BY <1>1, <1>2, <1>4, StaysAppend
<1>12. t = "float" => Stays(s, dcVecSkip(dcVecAppend(s, v), 4))
  BY <1>1, <1>8, StaysSlot
<1>13. /\ s.abi \in MipsN64 =>
            u = IF w = "VARARGS" THEN arg_mips_n64_ellipsis(s, t, v) ELSE arg_mips_n64(s, t, v)
       /\ s.abi = "mips_n32" =>
            u = IF w = "VARARGS" THEN arg_mips_n32_ellipsis(s, t, v) ELSE arg_mips_n32(s, t, v)
  BY <1>1, MipsBinds
<1> HIDE DEF u, v, InFloat, InDouble
<1>14. Stays(s, arg_mips_n64_ellipsis(s, t, v))
  <2>1. CASE t = "float"
    <3>1. arg_mips_n64_ellipsis(s, t, v) = argLongLong_n(s, Widen(v))
      BY <2>1 DEF arg_mips_n64_ellipsis
    <3> QED BY <1>5, <1>10, <2>1, <3>1
  <2>2. CASE t # "float"
    <3>1. arg_mips_n64_ellipsis(s, t, v) = argLongLong_n(s, x)
      BY <2>2 DEF arg_mips_n64_ellipsis
    <3> HIDE DEF x
    <3> QED BY <1>3, <1>5, <3>1
  <2> QED BY <2>1, <2>2
<1>15. Stays(s, arg_mips_n64(s, t, v))
  <2>1. CASE t \notin Floats
    <3>1. arg_mips_n64(s, t, v) = argLongLong_n(s, x)
      BY <2>1 DEF arg_mips_n64, Floats
    <3> HIDE DEF x
    <3> QED BY <1>3, <1>5, <3>1
  <2>2. CASE t = "double"
    <3>1. arg_mips_n64(s, t, v) = argDouble_n64(s, v)
      BY <2>2 DEF arg_mips_n64, Floats
    <3>2. CASE ~IsHardFloat(s.abi)
      <4>1. argDouble_n64(s, v) = argLongLong_n(s, v)
        BY <3>2 DEF argDouble_n64
      <4> QED BY <1>5, <1>9, <2>2, <3>1, <4>1
    <3>3. CASE IsHardFloat(s.abi) /\ inReg
      <4>1. argDouble_n64(s, v) = InDouble(v)
        BY <3>3 DEF argDouble_n64, InDouble
      <4> QED BY <1>6, <1>7, <1>9, <2>2, <3>1, <3>3, <4>1
    <3>4. CASE IsHardFloat(s.abi) /\ ~inReg
      <4>1. argDouble_n64(s, v) = dcVecAppend(s, v)
        BY <3>4 DEF argDouble_n64
      <4> QED BY <1>11, <3>1, <4>1
    <3> QED BY <3>2, <3>3, <3>4
  <2>3. CASE t = "float"
    <3>1. arg_mips_n64(s, t, v) = argFloat_n64(s, v)
      BY <2>3 DEF arg_mips_n64, Floats
    <3>2. CASE ~IsHardFloat(s.abi)
      <4> DEFINE y == IF s.abi \in BigEndian /\ s.i >= IntRegs[s.abi] THEN Junks(4) \o v ELSE Padded(v)
      <4>1. argFloat_n64(s, v) = argLongLong_n(s, y)
        BY <3>2 DEF argFloat_n64
      <4>2. Junks(4) \o v \in Seq(Byte) /\ Len(Junks(4) \o v) = 8
        BY <1>8, <2>3, JunkBefore
      <4>3. Padded(v) \in Seq(Byte) /\ Len(Padded(v)) = 8
        BY <1>2, <2>3, PaddedType
      <4>4. y = Junks(4) \o v \/ y = Padded(v)
        OBVIOUS
      <4> HIDE DEF y
      <4>5. y \in Seq(Byte) /\ Len(y) = 8
        BY <4>2, <4>3, <4>4
      <4> QED BY <1>5, <3>1, <4>1, <4>5
    <3>3. CASE IsHardFloat(s.abi) /\ inReg
      <4>1. argFloat_n64(s, v) = InFloat(v)
        BY <3>3 DEF argFloat_n64, InFloat
      <4> QED BY <1>6, <1>7, <1>8, <2>3, <3>1, <3>3, <4>1
    <3>4. CASE IsHardFloat(s.abi) /\ ~inReg
      <4>1. argFloat_n64(s, v) = dcVecSkip(dcVecAppend(s, v), 4)
        BY <3>4 DEF argFloat_n64
      <4> QED BY <1>12, <2>3, <3>1, <4>1
    <3> QED BY <3>2, <3>3, <3>4
  <2> QED BY <2>1, <2>2, <2>3 DEF Floats
<1>16. s.abi = "mips_n32" => Stays(s, arg_mips_n32(s, t, v))
  <2> SUFFICES ASSUME s.abi = "mips_n32" PROVE Stays(s, arg_mips_n32(s, t, v))
    OBVIOUS
  <2>1. CASE t = "pointer"
    <3> DEFINE y == Joined(s.abi, v, Junks(4))
    <3>1. arg_mips_n32(s, t, v) = argLongLong_n(s, y)
      BY <2>1 DEF arg_mips_n32, Floats
    <3>2. y = Junks(4) \o v
      BY DEF Joined, BigEndian
    <3>3. v \in Seq(Byte) /\ Len(v) = 4
      BY <1>2, <2>1 DEF SizeOf, LP64
    <3>4. Junks(4) \o v \in Seq(Byte) /\ Len(Junks(4) \o v) = 8
      BY <3>3, JunkBefore
    <3> HIDE DEF y
    <3> QED BY <1>5, <3>1, <3>2, <3>4
  <2>2. CASE t \notin Floats \cup {"pointer"}
    <3>1. arg_mips_n32(s, t, v) = argLongLong_n(s, x)
      BY <2>2 DEF arg_mips_n32, Floats
    <3> HIDE DEF x
    <3> QED BY <1>3, <1>5, <3>1
  <2>3. CASE t = "double"
    <3>1. arg_mips_n32(s, t, v) = IF inReg THEN InDouble(v) ELSE dcVecAppend(s, v)
      BY <2>3 DEF arg_mips_n32, Floats, InDouble
    <3> QED BY <1>6, <1>7, <1>9, <1>11, <2>3, <3>1
  <2>4. CASE t = "float"
    <3>1. arg_mips_n32(s, t, v) = IF inReg THEN InFloat(v) ELSE dcVecSkip(dcVecAppend(s, v), 4)
      BY <2>4 DEF arg_mips_n32, Floats, InFloat
    <3> QED BY <1>6, <1>7, <1>8, <1>12, <2>4, <3>1
  <2> QED BY <2>1, <2>2, <2>3, <2>4 DEF Floats
<1>17. s.abi = "mips_n32" => Stays(s, arg_mips_n32_ellipsis(s, t, v))
  <2>1. CASE t = "float"
    <3>1. arg_mips_n32_ellipsis(s, t, v) = argLongLong_n(s, Widen(v))
      BY <2>1 DEF arg_mips_n32_ellipsis
    <3> QED BY <1>5, <1>10, <2>1, <3>1
  <2>2. CASE t = "double"
    <3>1. arg_mips_n32_ellipsis(s, t, v) = argLongLong_n(s, v)
      BY <2>2 DEF arg_mips_n32_ellipsis
    <3> QED BY <1>5, <1>9, <2>2, <3>1
  <2>3. CASE t # "float" /\ t # "double"
    <3>1. arg_mips_n32_ellipsis(s, t, v) = arg_mips_n32(s, t, v)
      BY <2>3 DEF arg_mips_n32_ellipsis
    <3> QED BY <1>16, <3>1
  <2> QED BY <2>1, <2>2, <2>3
<1> QED BY <1>13, <1>14, <1>15, <1>16, <1>17 DEF u, v

LEMMA StaysMips ==
  ASSUME NEW s, IsVM(s), Within(s), s.abi \in MipsABIs, NEW w \in Ways(s.abi),
         s.vt = ModeTable(s.abi, w), NEW t \in AllTypes, NEW n \in Nat, n > 0
  PROVE  Stays(s, BindArg(s, t, Value(n, SizeOf(s.abi, t))))
BY StaysO32, StaysEabi, StaysN64 DEF MipsABIs

-----------------------------------------------------------------------------
(* PowerPC.                                                                *)
Ppc32 == {"ppc32_darwin", "ppc32_sysv"}
Ppc64 == {"ppc64_v1", "ppc64_v2"}

LEMMA PpcTables ==
  ASSUME NEW abi \in PpcABIs, NEW w \in Ways(abi)
  PROVE  /\ abi = "ppc32_darwin" =>
              PpcMode(abi, w) = IF w = "SYS" THEN gVT_ppc32_syscall ELSE gVT_ppc32_darwin
         /\ abi = "ppc32_sysv" =>
              PpcMode(abi, w) = IF w = "SYS" THEN gVT_ppc32_syscall ELSE gVT_ppc32_sysv
         /\ abi \in Ppc64 =>
              PpcMode(abi, w) = IF w = "SYS" THEN gVT_ppc64_syscall
                                ELSE IF w = "VARARGS" /\ abi = "ppc64_v2" THEN gVT_ppc64_ellipsis
                                ELSE gVT_ppc64
<1>1. w \in {"DEFAULT", "ELLIPSIS", "THIS", "VARARGS"} \cup OwnModes(abi)
  BY DEF Ways, KnownModes
<1>2. CASE abi = "ppc32_darwin"
  <2>1. OwnModes(abi) = {"PPC32_OSX", "SYS"}
    BY <1>2 DEF OwnModes, Arm64, MipsO32, MipsN64
  <2>2. PpcMode(abi, w) = mode_ppc32(abi, w)
    BY <1>2 DEF PpcMode
  <2>3. CASE w = "SYS"
    BY <1>2, <2>2, <2>3 DEF mode_ppc32, CDefault, CEllipsis, Ppc64
  <2>4. CASE w # "SYS"
    BY <1>1, <1>2, <2>1, <2>2, <2>4 DEF mode_ppc32, CDefault, CEllipsis, Ppc64
  <2> QED BY <2>3, <2>4
<1>3. CASE abi = "ppc32_sysv"
  <2>1. OwnModes(abi) = {"PPC32_SYSV", "SYS"}
    BY <1>3 DEF OwnModes, Arm64, MipsO32, MipsN64
  <2>2. PpcMode(abi, w) = mode_ppc32(abi, w)
    BY <1>3 DEF PpcMode
  <2>3. CASE w = "SYS"
    BY <1>3, <2>2, <2>3 DEF mode_ppc32, CDefault, CEllipsis, Ppc64
  <2>4. CASE w # "SYS"
    BY <1>1, <1>3, <2>1, <2>2, <2>4 DEF mode_ppc32, CDefault, CEllipsis, Ppc64
  <2> QED BY <2>3, <2>4
<1>4. CASE abi \in Ppc64
  <2>1. OwnModes(abi) = {"PPC64", "SYS"}
    BY <1>4 DEF OwnModes, Arm64, MipsO32, MipsN64, Ppc64
  <2>2. PpcMode(abi, w) = mode_ppc64(abi, w) /\ abi # "ppc32_darwin" /\ abi # "ppc32_sysv"
    BY <1>4 DEF PpcMode, Ppc64
  <2>3. CASE w = "SYS"
    BY <1>4, <2>2, <2>3 DEF mode_ppc64, CDefault
  <2>4. CASE w = "VARARGS"
    BY <1>4, <2>2, <2>4 DEF mode_ppc64, CDefault
  <2>5. CASE w # "SYS" /\ w # "VARARGS"
    BY <1>1, <1>4, <2>1, <2>2, <2>5 DEF mode_ppc64, CDefault
  <2> QED BY <2>3, <2>4, <2>5
<1> QED BY <1>2, <1>3, <1>4 DEF PpcABIs, Ppc64

LEMMA PpcBinds ==
  ASSUME NEW s, s.abi \in PpcABIs, NEW w \in Ways(s.abi), s.vt = ModeTable(s.abi, w),
         NEW t, NEW v, NEW u, u = BindArg(s, t, v)
  PROVE  /\ s.abi = "ppc32_darwin" =>
              u = IF w = "SYS" THEN arg_ppc32_sysv(s, t, v) ELSE arg_ppc32_darwin(s, t, v)
         /\ s.abi = "ppc32_sysv" => u = arg_ppc32_sysv(s, t, v)
         /\ s.abi \in Ppc64 =>
              u = IF w = "VARARGS" /\ s.abi = "ppc64_v2" THEN arg_ppc64_ellipsis(s, t, v)
                  ELSE arg_ppc64(s, t, v)
<1>1. u = PpcArg(s, t, v) /\ s.vt = PpcMode(s.abi, w)
  BY PpcFamily
<1>2. CASE s.abi = "ppc32_darwin"
  <2>1. s.vt.arg = IF w = "SYS" THEN "sysv" ELSE "darwin"
    BY <1>1, <1>2, PpcTables DEF gVT_ppc32_darwin, gVT_ppc32_syscall
  <2> QED BY <1>1, <1>2, <2>1 DEF PpcArg, Ppc64
<1>3. CASE s.abi = "ppc32_sysv"
  <2>1. s.vt.arg = "sysv"
    BY <1>1, <1>3, PpcTables DEF gVT_ppc32_sysv, gVT_ppc32_syscall
  <2> QED BY <1>1, <1>3, <2>1 DEF PpcArg, Ppc64
<1>4. CASE s.abi \in Ppc64
  <2>1. s.vt.arg = IF w = "VARARGS" /\ s.abi = "ppc64_v2" THEN "ppc64_ellipsis" ELSE "ppc64"
    BY <1>1, <1>4, PpcTables DEF gVT_ppc64, gVT_ppc64_syscall, gVT_ppc64_ellipsis
  <2>2. s.abi # "ppc32_darwin" /\ s.abi # "ppc32_sysv"
    BY <1>4 DEF Ppc64
  <2> QED BY <1>1, <1>4, <2>1, <2>2 DEF PpcArg
<1> QED BY <1>2, <1>3, <1>4 DEF PpcABIs, Ppc64

-----------------------------------------------------------------------------
(* Registers are filled, and the parameter area begun, before the vector   *)
(* is appended to.                                                         *)
Prepared(s, r) ==
  /\ IsVM(r) /\ r.abi = s.abi /\ r.vt = s.vt /\ r.err = s.err /\ Within(r) /\ s.abi \notin WordABIs
  /\ Len(s.vec) <= Len(r.vec) /\ (Len(r.vec) = Len(s.vec) \/ Len(r.vec) <= 8 * IntRegs[s.abi])

LEMMA PreparedSelf ==
  ASSUME NEW s, IsVM(s), Within(s), s.abi \notin WordABIs
  PROVE  Prepared(s, s)
BY LenVec DEF Prepared

LEMMA PreparedVia ==
  ASSUME NEW s, NEW r, Prepared(s, r), NEW y, IsVM(y), SameVec(r, y), Counts(y.abi, y.i, y.f, y.d)
  PROVE  Prepared(s, y)
BY DEF Prepared, SameVec, Within

LEMMA PreparedFill ==
  ASSUME NEW s, NEW r, Prepared(s, r), NEW x \in Seq(Byte)
  PROVE  Prepared(s, FillInt(r, x)) /\ FillInt(r, x).f = r.f
<1>1. IsVM(r) /\ Within(r)
  BY DEF Prepared
<1>2. CASE r.i < IntRegs[r.abi]
  <2> DEFINE y == PutInt(r, x)
  <2>1. FillInt(r, x) = y
    BY <1>2 DEF FillInt
  <2>2. IsVM(y) /\ SameVec(r, y) /\ y.f = r.f
    BY <1>1, <1>2, TypedPutInt
  <2>3. Stays(r, y)
    BY <1>1, <1>2, StaysPutInt
  <2> HIDE DEF y
  <2>4. Prepared(s, y)
    BY <2>2, <2>3, PreparedVia DEF Stays, Within
  <2> QED BY <2>1, <2>2, <2>4
<1>3. CASE ~(r.i < IntRegs[r.abi])
  BY <1>3 DEF FillInt
<1> QED BY <1>2, <1>3

LEMMA PreparedFloat ==
  ASSUME NEW s, NEW r, Prepared(s, r), r.f < FloatRegs[r.abi], NEW x \in Seq(Byte)
  PROVE  Prepared(s, PutFloat(r, x))
<1>1. IsVM(r) /\ Within(r)
  BY DEF Prepared
<1> DEFINE y == PutFloat(r, x)
<1>2. IsVM(y) /\ SameVec(r, y)
  BY <1>1, TypedPutFloat
<1>3. Stays(r, y)
  BY <1>1, StaysPutFloat
<1> HIDE DEF y
<1>4. Prepared(s, y)
  BY <1>2, <1>3, PreparedVia DEF Stays, Within
<1> QED BY <1>4 DEF y

LEMMA PreparedSkip ==
  ASSUME NEW s, IsVM(s), NEW r, Prepared(s, r), NEW k \in Nat, k <= 8 * IntRegs[s.abi]
  PROVE  Prepared(s, SkipIfEmpty(r, k))
<1>1. IsVM(r) /\ Within(r) /\ Len(r.vec) \in Nat /\ Len(s.vec) \in Nat
  BY LenVec DEF Prepared
<1>2. CASE Len(r.vec) = 0
  <2> DEFINE y == dcVecSkip(r, k)
  <2>1. SkipIfEmpty(r, k) = y
    BY <1>2 DEF SkipIfEmpty, dcVecSize
  <2>2. IsVM(y) /\ OnlyVec(r, y) /\ Len(y.vec) = Len(r.vec) + k
    BY <1>1, Skipped
  <2> HIDE DEF y
  <2>3. Len(s.vec) = 0 /\ Len(y.vec) = k /\ Len(s.vec) <= Len(y.vec)
    BY <1>1, <1>2, <2>2 DEF Prepared
  <2>4. Prepared(s, y)
    BY <2>2, <2>3 DEF Prepared, OnlyVec, Within
  <2> QED BY <2>1, <2>4
<1>3. CASE Len(r.vec) # 0
  BY <1>3 DEF SkipIfEmpty, dcVecSize
<1> QED BY <1>2, <1>3

LEMMA StaysPrepared ==
  ASSUME NEW s, IsVM(s), NEW r, Prepared(s, r)
  PROVE  Stays(s, r)
<1> DEFINE n == Len(s.vec)
           m == Len(r.vec)
           z == 8 * IntRegs[s.abi]
<1>1. n \in Nat /\ m \in Nat /\ z \in Nat /\ n <= m /\ (m = n \/ m <= z)
  BY LenVec DEF Prepared
<1> HIDE DEF n, m, z
<1>2. RoundUp(n, 8) \in Nat /\ n <= RoundUp(n, 8)
  BY <1>1, RoundUpTo
<1>3. m <= RoundUp(n, 8) + 8 \/ m <= z + 8
  BY <1>1, <1>2
<1> QED BY <1>1, <1>3 DEF Prepared, Stays, Sized, n, m, z

LEMMA StaysParam ==
  ASSUME NEW s, IsVM(s), NEW r, Prepared(s, r), NEW x \in Seq(Byte), Len(x) <= 8
  PROVE  Stays(s, dcVecAppend(r, x))
<1> DEFINE u == dcVecAppend(r, x)
<1>1. IsVM(r) /\ Len(r.vec) \in Nat /\ Len(s.vec) \in Nat /\ Len(x) \in Nat /\ IntRegs[s.abi] \in Nat
  BY LenVec DEF Prepared
<1>2. IsVM(u) /\ OnlyVec(r, u) /\ (Len(u.vec) = Len(r.vec) \/ Len(u.vec) = Len(r.vec) + Len(x))
  BY <1>1, TypedAppend
<1> HIDE DEF u
<1> DEFINE n == Len(s.vec)
           k == Len(r.vec)
           m == Len(u.vec)
           z == Len(x)
           e == 8 * IntRegs[s.abi]
<1>3. n \in Nat /\ k \in Nat /\ z \in Nat /\ e \in Nat /\ (m = k \/ m = k + z) /\ n <= k
        /\ (k = n \/ k <= e) /\ z <= 8
  BY <1>1, <1>2 DEF Prepared
<1> HIDE DEF n, k, m, z, e
<1>4. RoundUp(n, 8) \in Nat /\ n <= RoundUp(n, 8)
  BY <1>3, RoundUpTo
<1>5. (m <= RoundUp(n, 8) + 8 \/ m <= e + 8) /\ n <= m
  BY <1>3, <1>4
<1> QED BY <1>2, <1>5 DEF Prepared, OnlyVec, Within, Stays, Sized, u, n, m, e

LEMMA StaysDarwin ==
  ASSUME NEW s, IsVM(s), Within(s), s.abi = "ppc32_darwin", NEW t \in AllTypes, NEW n \in Nat, n > 0
  PROVE  Stays(s, arg_ppc32_darwin(s, t, Value(n, SizeOf(s.abi, t))))
<1> DEFINE v == Value(n, SizeOf(s.abi, t))
           x == Extend(v, 4)
           w0 == WordOf(s.abi, v, 0)
           w1 == WordOf(s.abi, v, 1)
<1>1. s.abi \in ABIs /\ s.abi \notin WordABIs /\ Narrow4(s.abi)
  BY LenVec DEF WordABIs, Arm32, MipsO32, Narrow4, LP64
<1>2. /\ v \in Seq(Byte) /\ Len(v) <= 8 /\ (t = "float" => v = Value(n, 4))
      /\ t \in Wide => Solid(v, 8)
      /\ t \notin Wide => Solid(x, 4)
  BY <1>1, ArgValue, Sizes
<1>3. Prepared(s, s)
  BY <1>1, PreparedSelf
<1>4. t \in Wide => w0 \in Seq(Byte) /\ Len(w0) = 4 /\ w1 \in Seq(Byte) /\ Len(w1) = 4
  BY <1>2, WordType, SolidLen
<1> HIDE DEF v
<1>5. CASE t \in IntTypes
  <2> DEFINE r == FillInt(s, x)
  <2>1. arg_ppc32_darwin(s, t, v) = dcVecAppend(r, x) /\ t \notin Wide
    BY <1>5 DEF arg_ppc32_darwin, darwin_int, IntTypes, Wide
  <2> HIDE DEF x
  <2>2. x \in Seq(Byte) /\ Len(x) <= 8
    BY <1>2, <2>1, SolidLen
  <2>3. Prepared(s, r)
    BY <1>3, <2>2, PreparedFill
  <2> HIDE DEF r
  <2>4. Stays(s, dcVecAppend(r, x))
    BY <2>2, <2>3, StaysParam
  <2> QED BY <2>1, <2>4 DEF v
<1>6. CASE t = "longlong"
  <2> DEFINE r0 == FillInt(s, w0)
             y0 == dcVecAppend(r0, w0)
             r1 == FillInt(y0, w1)
             y1 == dcVecAppend(r1, w1)
  <2>1. arg_ppc32_darwin(s, t, v) = y1
    BY <1>6 DEF arg_ppc32_darwin, darwin_longlong, darwin_int, IntTypes
  <2>2. w0 \in Seq(Byte) /\ Len(w0) = 4 /\ w1 \in Seq(Byte) /\ Len(w1) = 4
    BY <1>4, <1>6 DEF Wide
  <2> HIDE DEF w0, w1
  <2>3. Prepared(s, r0)
    BY <1>3, <2>2, PreparedFill
  <2>4. r0.vec = s.vec
    <3>1. PutInt(s, w0).vec = s.vec
      BY DEF PutInt, IsVM, VMs
    <3> QED BY <3>1 DEF FillInt
  <2> HIDE DEF r0
  <2>5. IsVM(r0) /\ r0.abi = s.abi /\ r0.vt = s.vt /\ r0.err = s.err /\ Within(r0)
    BY <2>3 DEF Prepared
  <2>6. IsVM(y0) /\ OnlyVec(r0, y0) /\ (Len(y0.vec) = Len(s.vec) \/ Len(y0.vec) = Len(s.vec) + 4)
    BY <2>2, <2>4, <2>5, TypedAppend
  <2> HIDE DEF y0
  <2>7. Prepared(y0, y0) /\ y0.abi = s.abi /\ y0.vt = s.vt /\ y0.err = s.err
    <3>1. y0.abi = s.abi /\ y0.vt = s.vt /\ y0.err = s.err
      BY <2>5, <2>6 DEF OnlyVec
    <3>2. Within(y0)
      BY <1>1, <2>5, <2>6, <3>1 DEF OnlyVec, Within
    <3> QED BY <1>1, <2>6, <3>1, <3>2, PreparedSelf
  <2>8. Prepared(y0, r1)
    BY <2>2, <2>7, PreparedFill
  <2>9. r1.vec = y0.vec
    <3>1. PutInt(y0, w1).vec = y0.vec
      BY <2>6 DEF PutInt, IsVM, VMs
    <3> QED BY <3>1 DEF FillInt
  <2> HIDE DEF r1
  <2>10. IsVM(r1) /\ r1.abi = s.abi /\ r1.vt = s.vt /\ r1.err = s.err /\ Within(r1)
    BY <2>7, <2>8 DEF Prepared
  <2>11. IsVM(y1) /\ OnlyVec(r1, y1) /\ (Len(y1.vec) = Len(y0.vec) \/ Len(y1.vec) = Len(y0.vec) + 4)
    BY <2>2, <2>9, <2>10, TypedAppend
  <2> HIDE DEF y1
  <2> DEFINE l == Len(s.vec)
             m == Len(y1.vec)
  <2>12. l \in Nat /\ (m = l \/ m = l + 4 \/ m = l + 8)
    <3>1. l \in Nat
      BY LenVec
    <3> QED BY <2>6, <2>11, <3>1
  <2> HIDE DEF l, m
  <2>13. l <= m /\ m <= RoundUp(l, 8) + 8
    <3>1. RoundUp(l, 8) \in Nat /\ l <= RoundUp(l, 8)
      BY <2>12, RoundUpTo
    <3> QED BY <2>12, <3>1
  <2>14. Stays(s, y1)
    BY <1>1, <2>10, <2>11, <2>13 DEF OnlyVec, Within, Stays, Sized, l, m
  <2> QED BY <2>1, <2>14 DEF v
<1>7. CASE t = "double"
  <2> DEFINE f == PutFloat(s, v)
             g == FillInt(f, w0)
             h == FillInt(g, w1)
             r == IF s.f < FloatRegs[s.abi] THEN h ELSE s
  <2>1. arg_ppc32_darwin(s, t, v) = dcVecAppend(r, v)
    BY <1>7 DEF arg_ppc32_darwin, darwin_double, IntTypes
  <2>2. w0 \in Seq(Byte) /\ w1 \in Seq(Byte)
    BY <1>4, <1>7 DEF Wide
  <2> HIDE DEF w0, w1
  <2>3. s.f < FloatRegs[s.abi] => Prepared(s, h)
    <3> SUFFICES ASSUME s.f < FloatRegs[s.abi] PROVE Prepared(s, h)
      OBVIOUS
    <3>1. Prepared(s, f)
      BY <1>2, <1>3, PreparedFloat
    <3> HIDE DEF f
    <3>2. Prepared(s, g)
      BY <2>2, <3>1, PreparedFill
    <3> HIDE DEF g
    <3> QED BY <2>2, <3>2, PreparedFill
  <2> HIDE DEF h
  <2>4. Prepared(s, r)
    BY <1>3, <2>3
  <2> HIDE DEF r
  <2>5. Stays(s, dcVecAppend(r, v))
    BY <1>2, <2>4, StaysParam
  <2> QED BY <2>1, <2>5 DEF v
<1>8. CASE t = "float"
  <2> DEFINE f == PutFloat(s, Widen(v))
             r0 == IF s.f < FloatRegs[s.abi] THEN f ELSE s
             r == FillInt(r0, v)
  <2>1. arg_ppc32_darwin(s, t, v) = dcVecAppend(r, v)
    BY <1>8 DEF arg_ppc32_darwin, darwin_float, IntTypes
  <2>2. Widen(v) \in Seq(Byte)
    <3>1. Solid(Widen(v), 8)
      BY <1>2, <1>8, WidenType
    <3> QED BY <3>1, SolidLen
  <2>3. s.f < FloatRegs[s.abi] => Prepared(s, f)
    BY <1>3, <2>2, PreparedFloat
  <2> HIDE DEF f
  <2>4. Prepared(s, r0)
    BY <1>3, <2>3
  <2> HIDE DEF r0
  <2>5. Prepared(s, r)
    BY <1>2, <2>4, PreparedFill
  <2> HIDE DEF r
  <2>6. Stays(s, dcVecAppend(r, v))
    BY <1>2, <2>5, StaysParam
  <2> QED BY <2>1, <2>6 DEF v
<1> QED BY <1>5, <1>6, <1>7, <1>8 DEF AllTypes, Wide, Floats, v

(* As much as a system call binds, or System V. *)
LEMMA StaysSysv ==
  ASSUME NEW s, IsVM(s), Within(s), s.abi \in PpcABIs, Narrow4(s.abi), NEW t \in AllTypes,
         NEW n \in Nat, n > 0, t = "char" \/ s.abi = "ppc32_sysv"
  PROVE  Stays(s, arg_ppc32_sysv(s, t, Value(n, SizeOf(s.abi, t))))
<1> DEFINE v == Value(n, SizeOf(s.abi, t))
           x == Extend(v, 4)
           I == IntRegs[s.abi]
<1>1. s.abi \in ABIs /\ s.abi \notin WordABIs /\ I \in Nat
  BY LenVec DEF WordABIs, Arm32, MipsO32, PpcABIs
<1>2. /\ v \in Seq(Byte) /\ Len(v) <= 8 /\ (t = "float" => v = Value(n, 4))
      /\ t \in Wide => Solid(v, 8)
      /\ t \notin Wide => Solid(x, 4)
  BY <1>1, ArgValue, Sizes
<1>3. Ready(s, s)
  BY ReadySelf
<1>9. Ready(s, dcVecAlign(s, 8))
  BY <1>3, ReadyAlign8
<1>10. Stays(s, dcVecAppend(s, v)) /\ Stays(s, dcVecAppend(dcVecAlign(s, 8), v))
  BY <1>1, <1>2, <1>3, <1>9, StaysAppend
<1> HIDE DEF v
<1>5. CASE t \in IntTypes
  <2>1. arg_ppc32_sysv(s, t, v) = sysv_int(s, x) /\ t \notin Wide
    BY <1>5 DEF arg_ppc32_sysv, IntTypes, Wide
  <2> HIDE DEF x
  <2>2. x \in Seq(Byte) /\ Len(x) <= 8
    BY <1>2, <2>1, SolidLen
  <2>3. s.i < I => Stays(s, PutInt(s, x))
    BY <2>2, StaysPutInt
  <2>4. Stays(s, dcVecAppend(s, x))
    BY <1>1, <1>3, <2>2, StaysAppend
  <2> QED BY <2>1, <2>3, <2>4 DEF sysv_int, v
<1>6. CASE t = "longlong"
  <2> DEFINE r == [s EXCEPT !.i = I]
             z == dcVecAlign(r, 8)
  <2>1. arg_ppc32_sysv(s, t, v) = IF s.i < I - 1 THEN Pair(s, v) ELSE dcVecAppend(z, v)
    BY <1>6 DEF arg_ppc32_sysv, sysv_longlong, Pair, IntTypes
  <2>2. Solid(v, 8) /\ I % 2 = 0
    BY <1>1, <1>2, <1>6, RegistersAssumption DEF Wide
  <2>3. s.i < I - 1 => Stays(s, Pair(s, v))
    BY <2>2, StaysPair
  <2>4. IsVM(r) /\ SameVec(s, r) /\ r.i = I /\ r.f = s.f /\ r.d = s.d
    BY <1>1, SetInt DEF SameVec
  <2> HIDE DEF r
  <2>6. Counts(r.abi, r.i, r.f, r.d)
    BY <1>1, <2>4 DEF Within, Counts, SameVec
  <2>7. Ready(s, r)
    BY <2>4, <2>6, ReadySame
  <2>8. Ready(s, z)
    BY <2>7, ReadyAlign8
  <2> HIDE DEF z
  <2>10. Stays(s, dcVecAppend(z, v))
    BY <1>1, <1>2, <2>8, StaysAppend
  <2> QED BY <2>1, <2>3, <2>10 DEF v
<1>7. CASE t = "double"
  <2>1. arg_ppc32_sysv(s, t, v) = sysv_double(s, v)
    BY <1>7 DEF arg_ppc32_sysv, IntTypes
  <2>2. s.f < FloatRegs[s.abi] => Stays(s, PutFloat(s, v))
    BY <1>2, StaysPutFloat
  <2> QED BY <1>10, <2>1, <2>2 DEF sysv_double, v
<1>8. CASE t = "float"
  <2>1. arg_ppc32_sysv(s, t, v) = sysv_float(s, v)
    BY <1>8 DEF arg_ppc32_sysv, IntTypes
  <2>2. Widen(v) \in Seq(Byte)
    <3>1. Solid(Widen(v), 8)
      BY <1>2, <1>8, WidenType
    <3> QED BY <3>1, SolidLen
  <2>3. s.f < FloatRegs[s.abi] => Stays(s, PutFloat(s, Widen(v)))
    BY <2>2, StaysPutFloat
  <2> QED BY <1>10, <2>1, <2>3 DEF sysv_float, v
<1> QED BY <1>5, <1>6, <1>7, <1>8 DEF AllTypes, Wide, Floats, v

LEMMA StaysAppendParam ==
  ASSUME NEW s, IsVM(s), s.abi \in Ppc64, NEW r, Prepared(s, r), NEW inReg, NEW x \in Seq(Byte), Len(x) <= 8,
         inReg \in BOOLEAN
  PROVE  Stays(s, AppendParam(r, inReg, x))
<1>1. r.abi = s.abi
  BY DEF Prepared
<1>2. Stays(s, r) /\ Stays(s, dcVecAppend(r, x))
  BY StaysPrepared, StaysParam
<1> DEFINE k == 8 * IntRegs[s.abi]
           y == SkipIfEmpty(r, k)
<1>3. k \in Nat /\ k <= 8 * IntRegs[s.abi]
  BY LenVec
<1> HIDE DEF k
<1>4. Prepared(s, y)
  BY <1>3, PreparedSkip
<1> HIDE DEF y
<1>5. Stays(s, dcVecAppend(y, x))
  BY <1>4, StaysParam
<1> QED BY <1>1, <1>2, <1>5 DEF AppendParam, y, k

LEMMA StaysPpc64 ==
  ASSUME NEW s, IsVM(s), Within(s), s.abi \in Ppc64, NEW t \in AllTypes, NEW n \in Nat, n > 0
  PROVE  /\ Stays(s, arg_ppc64(s, t, Value(n, SizeOf(s.abi, t))))
         /\ Stays(s, arg_ppc64_ellipsis(s, t, Value(n, SizeOf(s.abi, t))))
<1> DEFINE v == Value(n, SizeOf(s.abi, t))
           x == Extend(v, 8)
           b == s.f < FloatRegs[s.abi]
           i == s.i < IntRegs[s.abi]
           k == 8 * s.i
           e == SkipIfEmpty(s, k)
<1>1. s.abi \in ABIs /\ s.abi \notin WordABIs
  BY LenVec DEF WordABIs, Arm32, MipsO32, Ppc64
<1>2. /\ v \in Seq(Byte) /\ Len(v) <= 8 /\ (t = "float" => v = Value(n, 4) /\ Solid(v, 4))
      /\ Solid(x, 8)
  BY <1>1, ArgValue, Sizes
<1>3. Prepared(s, s) /\ IsVM(s)
  BY <1>1, PreparedSelf
<1>4. x \in Seq(Byte) /\ Len(x) <= 8
  BY <1>2, SolidLen
<1>5. t = "float" => Widen(v) \in Seq(Byte) /\ Len(Widen(v)) <= 8
  <2>1. t = "float" => Solid(Widen(v), 8)
    BY <1>2, WidenType
  <2> QED BY <2>1, SolidLen
<1>6. t = "float" => Padded(v) \in Seq(Byte) /\ Len(Padded(v)) <= 8
  <2> SUFFICES ASSUME t = "float" PROVE Padded(v) \in Seq(Byte) /\ Len(Padded(v)) <= 8
    OBVIOUS
  <2>1. Padded(v) \in Seq(Byte) /\ Len(Padded(v)) = 8
    BY <1>2, PaddedType
  <2> DEFINE y == Padded(v)
  <2> HIDE DEF y
  <2>2. Len(y) = 8 => Len(y) <= 8
    OBVIOUS
  <2> QED BY <2>1, <2>2 DEF y
<1>7. Prepared(s, e)
  <2>1. k \in Nat /\ k <= 8 * IntRegs[s.abi]
    <3> DEFINE j == s.i
               m == IntRegs[s.abi]
    <3>1. j \in Nat /\ m \in Nat /\ j <= m
      BY LenVec DEF Within, Counts, Ppc64
    <3> HIDE DEF j, m
    <3>2. 8 * j \in Nat /\ 8 * j <= 8 * m
      BY <3>1
    <3> QED BY <3>2 DEF j, m
  <2> HIDE DEF k
  <2> QED BY <1>3, <2>1, PreparedSkip
<1> HIDE DEF v, x, e
(* A float in the registers of both banks. *)
<1>8. ASSUME NEW r, Prepared(s, r), NEW y \in Seq(Byte)
      PROVE  Prepared(s, IF r.f < FloatRegs[r.abi] THEN FillInt(PutFloat(r, y), y) ELSE r)
  <2>1. CASE r.f < FloatRegs[r.abi]
    <3> DEFINE g == PutFloat(r, y)
    <3>1. Prepared(s, g)
      BY <1>8, <2>1, PreparedFloat
    <3> HIDE DEF g
    <3>2. Prepared(s, FillInt(g, y))
      BY <1>8, <3>1, PreparedFill
    <3> QED BY <2>1, <3>2 DEF g
  <2>2. CASE ~(r.f < FloatRegs[r.abi])
    BY <1>8, <2>2
  <2> QED BY <2>1, <2>2
<1>9. b \in BOOLEAN /\ i \in BOOLEAN /\ (b /\ i) \in BOOLEAN
  OBVIOUS
<1>10. CASE t \notin Floats
  <2> DEFINE r == FillInt(s, x)
             q == FillInt(e, x)
  <2>1. arg_ppc64(s, t, v) = AppendParam(r, i, x)
    BY <1>10 DEF arg_ppc64, ppc64_longlong, Floats, x
  <2>2. arg_ppc64_ellipsis(s, t, v) = dcVecAppend(q, x)
    BY <1>10 DEF arg_ppc64_ellipsis, ellipsis_longlong, Floats, x, e
  <2>3. Prepared(s, r) /\ Prepared(s, q)
    BY <1>3, <1>4, <1>7, PreparedFill
  <2> HIDE DEF r, q, i
  <2>4. Stays(s, AppendParam(r, i, x))
    BY <1>4, <1>9, <2>3, StaysAppendParam
  <2>5. Stays(s, dcVecAppend(q, x))
    BY <1>4, <2>3, StaysParam
  <2> QED BY <2>1, <2>2, <2>4, <2>5 DEF v
<1>11. CASE t = "double"
  <2> DEFINE r == IF s.f < FloatRegs[s.abi] THEN FillInt(PutFloat(s, v), v) ELSE s
             q == IF e.f < FloatRegs[e.abi] THEN FillInt(PutFloat(e, v), v) ELSE e
             c == b /\ i
  <2>1. arg_ppc64(s, t, v) = AppendParam(r, c, v)
    BY <1>11 DEF arg_ppc64, ppc64_double, Floats
  <2>2. arg_ppc64_ellipsis(s, t, v) = dcVecAppend(q, v)
    BY <1>11 DEF arg_ppc64_ellipsis, ellipsis_double, Floats, e
  <2>3. Prepared(s, r)
    BY <1>2, <1>3, <1>8
  <2>4. Prepared(s, q)
    BY <1>2, <1>7, <1>8
  <2> HIDE DEF r, q, c
  <2>5. Stays(s, AppendParam(r, c, v))
    BY <1>2, <1>9, <2>3, StaysAppendParam DEF c
  <2>6. Stays(s, dcVecAppend(q, v))
    BY <1>2, <2>4, StaysParam
  <2> QED BY <2>1, <2>2, <2>5, <2>6 DEF v
<1>12. CASE t = "float"
  <2> DEFINE z == Widen(v)
             y == Padded(v)
             r == IF s.f < FloatRegs[s.abi] THEN FillInt(PutFloat(s, z), z) ELSE s
             q == IF e.f < FloatRegs[e.abi] THEN FillInt(PutFloat(e, z), z) ELSE e
             c == b /\ i
  <2>1. arg_ppc64(s, t, v) = AppendParam(r, c, y)
    BY <1>12 DEF arg_ppc64, ppc64_float, Floats
  <2>2. arg_ppc64_ellipsis(s, t, v) = dcVecAppend(q, z)
    BY <1>12 DEF arg_ppc64_ellipsis, ellipsis_double, Floats, e
  <2>3. Prepared(s, r)
    BY <1>3, <1>5, <1>8, <1>12
  <2>4. Prepared(s, q)
    BY <1>5, <1>7, <1>8, <1>12
  <2>7. z \in Seq(Byte) /\ Len(z) <= 8 /\ y \in Seq(Byte) /\ Len(y) <= 8
    BY <1>5, <1>6, <1>12
  <2> HIDE DEF r, q, c, y, z
  <2>5. Stays(s, AppendParam(r, c, y))
    BY <1>9, <2>3, <2>7, StaysAppendParam DEF c
  <2>6. Stays(s, dcVecAppend(q, z))
    BY <2>4, <2>7, StaysParam
  <2> QED BY <2>1, <2>2, <2>5, <2>6 DEF v
<1> QED BY <1>10, <1>11, <1>12 DEF Floats, v

LEMMA StaysPpc ==
  ASSUME NEW s, IsVM(s), Within(s), s.abi \in PpcABIs, NEW w \in Ways(s.abi),
         s.vt = ModeTable(s.abi, w), NEW t \in TypesOf(w), NEW n \in Nat, n > 0
  PROVE  Stays(s, BindArg(s, t, Value(n, SizeOf(s.abi, t))))
<1> DEFINE v == Value(n, SizeOf(s.abi, t))
           u == BindArg(s, t, v)
<1>1. t \in AllTypes /\ (w = "SYS" => t = "char")
  BY WaysTypes DEF TypesOf
<1>2. /\ s.abi = "ppc32_darwin" =>
           u = IF w = "SYS" THEN arg_ppc32_sysv(s, t, v) ELSE arg_ppc32_darwin(s, t, v)
      /\ s.abi = "ppc32_sysv" => u = arg_ppc32_sysv(s, t, v)
      /\ s.abi \in Ppc64 =>
           u = IF w = "VARARGS" /\ s.abi = "ppc64_v2" THEN arg_ppc64_ellipsis(s, t, v)
               ELSE arg_ppc64(s, t, v)
  BY PpcBinds
<1> HIDE DEF u
<1>3. CASE s.abi = "ppc32_darwin"
  <2>1. Narrow4(s.abi)
    BY <1>3 DEF Narrow4, LP64
  <2>2. w = "SYS" => Stays(s, arg_ppc32_sysv(s, t, v))
    BY <1>1, <2>1, StaysSysv
  <2>3. Stays(s, arg_ppc32_darwin(s, t, v))
    BY <1>1, <1>3, StaysDarwin
  <2> QED BY <1>2, <1>3, <2>2, <2>3 DEF u
<1>4. CASE s.abi = "ppc32_sysv"
  <2>1. Narrow4(s.abi)
    BY <1>4 DEF Narrow4, LP64
  <2>2. Stays(s, arg_ppc32_sysv(s, t, v))
    BY <1>1, <1>4, <2>1, StaysSysv
  <2> QED BY <1>2, <1>4, <2>2 DEF u
<1>5. CASE s.abi \in Ppc64
  BY <1>1, <1>2, <1>5, StaysPpc64 DEF u
<1> QED BY <1>3, <1>4, <1>5 DEF PpcABIs, Ppc64

-----------------------------------------------------------------------------
(* Binding an argument, whatever the family.                               *)
LEMMA StaysSparc ==
  ASSUME NEW s, IsVM(s), Within(s), s.abi \in SparcABIs, NEW w \in Ways(s.abi),
         s.vt = ModeTable(s.abi, w), NEW t \in TypesOf(w), NEW n \in Nat, n > 0
  PROVE  Stays(s, BindArg(s, t, Value(n, SizeOf(s.abi, t))))
<1> DEFINE v == Value(n, SizeOf(s.abi, t))
           x == SparcRaw(s.abi, w, t, v)
<1>1. t \in AllTypes /\ s.abi \in ABIs
  BY WaysTypes, LenVec
<1>2. v \in Seq(Byte) /\ Len(v) <= 8
  BY <1>1, ArgValue
<1>3. Ready(s, s) /\ s.abi \notin WordABIs
  BY ReadySelf DEF WordABIs, SparcABIs, Arm32, MipsO32
<1>4. BindArg(s, t, v) = IF s.abi = "sparc64" /\ t = "float" THEN dcVecAppend(s, Padded(v))
                         ELSE dcVecAppend(s, x)
  BY SparcAppends
<1>5. CASE s.abi = "sparc64" /\ t = "float"
  <2>0. Padded(v) \in Seq(Byte) /\ Len(Padded(v)) = 8
    BY <1>2, PaddedSeq
  <2>1. Len(Padded(v)) <= 8
    BY <2>0
  <2>2. Stays(s, dcVecAppend(s, Padded(v)))
    BY <1>3, <2>0, <2>1, StaysAppend
  <2> QED BY <1>4, <1>5, <2>2
<1>6. CASE ~(s.abi = "sparc64" /\ t = "float")
  <2> DEFINE k == SparcWidth(s.abi, t)
  <2>0. k \in {4, 8}
    BY DEF SparcWidth
  <2>1. Solid(x, k)
    BY <1>1, <1>6, SparcRawType
  <2> HIDE DEF x, k
  <2>2. x \in Seq(Byte) /\ Len(x) <= 8
    BY <2>0, <2>1, SolidLen
  <2>3. Stays(s, dcVecAppend(s, x))
    BY <1>3, <2>2, StaysAppend
  <2> QED BY <1>4, <1>6, <2>3 DEF x
<1> QED BY <1>5, <1>6

LEMMA StaysX86 ==
  ASSUME NEW s, IsVM(s), Within(s), s.abi \in X86ABIs, NEW w \in Ways(s.abi),
         s.vt = ModeTable(s.abi, w), NEW t \in TypesOf(w), NEW n \in Nat, n > 0
  PROVE  Stays(s, BindArg(s, t, Value(n, SizeOf(s.abi, t))))
<1> DEFINE v == Value(n, SizeOf(s.abi, t))
           x == Words4(t, v)
           u == BindArg(s, t, v)
<1>1. t \in AllTypes /\ s.abi \in ABIs /\ Narrow4(s.abi)
  BY WaysTypes, LenVec DEF Narrow4, LP64, X86ABIs
<1>2. x \in Seq(Byte) /\ Len(x) \in {4, 8} /\ Len(x) <= 8
  <2>1. Solid(x, Width4(t)) /\ Width4(t) \in {4, 8}
    BY <1>1, Raw4Type DEF Raw4
  <2> HIDE DEF x
  <2> QED BY <2>1, SolidLen
<1>3. Ready(s, s) /\ s.abi \notin WordABIs /\ \A k : Counts(s.abi, k, s.f, s.d)
  BY ReadySelf, CountsAfter DEF WordABIs, X86ABIs, Arm32, MipsO32
<1>4. X86Does(s, w, t, x, u) /\ w \in X86Ways
  BY <1>1, X86Binds, X86Tables
<1> HIDE DEF x, u
<1>5. Len(x) <= 8
  BY <1>2
<1>6. Stays(s, dcVecAppend(s, x))
  BY <1>2, <1>3, <1>5, StaysAppend
<1> DEFINE k == s.i
<1>7. k \in Nat /\ 4 * k \in Nat /\ k + 1 \in Nat
  BY LenVec
<1> DEFINE r == [s EXCEPT !.i = 2]
<1>8. IsVM(r) /\ SameVec(s, r) /\ r.f = s.f /\ r.d = s.d /\ r.i = 2 /\ r.abi = s.abi
  <2>1. 2 \in Nat
    OBVIOUS
  <2> QED BY <2>1, SetInt DEF SameVec
<1> HIDE DEF r
<1>9. Stays(s, dcVecAppend(r, x))
  <2>1. Ready(s, r)
    BY <1>3, <1>8, ReadySame
  <2> QED BY <2>1, <1>2, <1>3, <1>5, StaysAppend
<1>10. Stays(s, WriteInt(s, 4 * k, x, k + 1))
  <2>1. SameVec(s, s)
    BY DEF SameVec
  <2> DEFINE a == 4 * k
             b == k + 1
  <2>2. a \in Nat /\ b \in Nat
    BY <1>7
  <2> HIDE DEF a, b
  <2>3. Stays(s, WriteInt(s, a, x, b))
    BY <1>2, <1>3, <2>1, <2>2, StaysWrite
  <2> QED BY <2>3 DEF a, b
<1>11. X86Kind(w) \in {"stack", "this", "sys"} \/ X86Kind(w) \in Fast
  BY <1>4, X86Kinds DEF Fast
<1>12. Stays(s, u)
  BY <1>4, <1>6, <1>9, <1>10, <1>11 DEF X86Does, r, k
<1> QED BY <1>12 DEF u

LEMMA StaysAll ==
  ASSUME NEW s, IsVM(s), Within(s), NEW w \in Ways(s.abi),
         s.vt = ModeTable(s.abi, w), NEW t \in TypesOf(w), NEW n \in Nat, n > 0
  PROVE  Stays(s, BindArg(s, t, Value(n, SizeOf(s.abi, t))))
<1>1. s.abi \in ArmABIs \cup MipsABIs \cup PpcABIs \cup SparcABIs \cup X86ABIs
  BY ConventionAssumption, LenVec
<1>2. t \in AllTypes
  BY WaysTypes
<1> QED BY <1>1, <1>2, StaysArm, StaysMips, StaysPpc, StaysSparc, StaysX86

-----------------------------------------------------------------------------
(* The tables.                                                             *)

(* Which reset a convention has, where that is the platform's. *)
ResetOf(abi) ==
  CASE abi \in {"arm", "arm_eabi"}     -> "arm32"
    [] abi \in {"thumb", "thumb_eabi"} -> "thumb"
    [] abi = "armhf"                   -> "armhf"
    [] abi \in Arm64                   -> "arm64"
    [] abi \in MipsABIs                -> "mips"
    [] abi \in PpcABIs                 -> "ppc"
    [] abi \in SparcABIs               -> "sparc"

Calls64 == {"n64", "n32"}

TableOK(abi, vt) ==
  /\ vt \in VT /\ vt # NoVT
  /\ vt.call \in Calls64 <=> abi \in MipsN64 \cup {"mips_n32"}
  /\ abi \notin X86ABIs =>
       vt.reset = ResetOf(abi) /\ vt.call \notin {"fast", "this_ms"}
  /\ abi \in X86ABIs =>
       /\ vt.reset \in {"x86", "fast"} /\ (vt.call = "fast" <=> vt.reset = "fast")
       /\ (vt.call = "this_ms" => vt.arg = "x86")
  /\ vt.call = "ppc64" => abi \in Ppc64

LEMMA ArmTable ==
  ASSUME NEW abi \in ArmABIs, NEW w \in Ways(abi)
  PROVE  TableOK(abi, ArmMode(abi, w))
<1> DEFINE vt == ArmMode(abi, w)
<1>1. vt \in {gVT_arm32_arm, gVT_arm32_arm_eabi, gVT_arm32_thumb, gVT_arm32_thumb_eabi, vt_armhf,
              vt_armhf_ellipsis, vt_arm64, vt_arm64_win_varargs, vt_arm64_apple, vt_arm64_variadic}
  BY ArmTables DEF ArmABIs, Arm32, Arm64
<1>2. vt.reset = ResetOf(abi)
  BY ArmTables DEF ArmABIs, Arm32, Arm64, MipsABIs, MipsO32, MipsN64, PpcABIs, SparcABIs, ResetOf, gVT_arm32_arm, gVT_arm32_arm_eabi, gVT_arm32_thumb,
     gVT_arm32_thumb_eabi, vt_armhf, vt_armhf_ellipsis, vt_arm64, vt_arm64_win_varargs, vt_arm64_apple,
     vt_arm64_variadic
<1>3. abi \notin X86ABIs /\ abi \notin MipsN64 \cup {"mips_n32"}
  BY DEF ArmABIs, Arm32, Arm64, X86ABIs, MipsN64
<1> HIDE DEF vt
<1>4. /\ vt \in VT /\ vt # NoVT
      /\ vt.call \notin Calls64 /\ vt.call \notin {"fast", "this_ms", "ppc64"}
  <2>1. vt \in VT
    BY <1>1 DEF VT, gVT_arm32_arm, gVT_arm32_arm_eabi, gVT_arm32_thumb,
       gVT_arm32_thumb_eabi, vt_armhf, vt_armhf_ellipsis, vt_arm64, vt_arm64_win_varargs, vt_arm64_apple,
       vt_arm64_variadic
  <2>2. /\ vt.call \notin Calls64 /\ vt.call \notin {"fast", "this_ms", "ppc64"}
    BY <1>1 DEF Calls64, gVT_arm32_arm, gVT_arm32_arm_eabi, gVT_arm32_thumb,
       gVT_arm32_thumb_eabi, vt_armhf, vt_armhf_ellipsis, vt_arm64, vt_arm64_win_varargs, vt_arm64_apple,
       vt_arm64_variadic
  <2>3. vt.call # NoVT.call
    BY <1>1 DEF NoVT, gVT_arm32_arm, gVT_arm32_arm_eabi, gVT_arm32_thumb,
       gVT_arm32_thumb_eabi, vt_armhf, vt_armhf_ellipsis, vt_arm64, vt_arm64_win_varargs, vt_arm64_apple,
       vt_arm64_variadic
  <2> QED BY <2>1, <2>2, <2>3
<1>5. TableOK(abi, vt)
  BY <1>2, <1>3, <1>4 DEF TableOK
<1> QED BY <1>5 DEF vt

LEMMA MipsTable ==
  ASSUME NEW abi \in MipsABIs, NEW w \in Ways(abi)
  PROVE  TableOK(abi, MipsMode(abi, w))
<1> DEFINE vt == MipsMode(abi, w)
<1>1. /\ vt \in {gVT_mips_o32, gVT_mips_eabi, gVT_mips_n64, gVT_mips_n64_ellipsis, gVT_mips_n32,
                 gVT_mips_n32_ellipsis}
      /\ abi \in MipsN64 \cup {"mips_n32"} <=> vt \notin {gVT_mips_o32, gVT_mips_eabi}
  BY MipsTables DEF MipsABIs, MipsO32, MipsN64, gVT_mips_o32, gVT_mips_eabi, gVT_mips_n64,
     gVT_mips_n64_ellipsis, gVT_mips_n32, gVT_mips_n32_ellipsis
<1>2. ResetOf(abi) = "mips" /\ abi \notin X86ABIs
  BY DEF PpcABIs, SparcABIs, ResetOf, MipsABIs, MipsO32, MipsN64, Arm64, X86ABIs
<1> HIDE DEF vt
<1>4. /\ vt \in VT /\ vt # NoVT
      /\ vt.call \notin {"fast", "this_ms", "ppc64"} /\ vt.reset = "mips"
      /\ vt.call \in Calls64 <=> vt \notin {gVT_mips_o32, gVT_mips_eabi}
  <2>1. vt \in VT
    BY <1>1 DEF VT, gVT_mips_o32, gVT_mips_eabi, gVT_mips_n64,
       gVT_mips_n64_ellipsis, gVT_mips_n32, gVT_mips_n32_ellipsis
  <2>2. /\ vt.call \notin {"fast", "this_ms", "ppc64"} /\ vt.reset = "mips"
        /\ vt.call \in Calls64 <=> vt \notin {gVT_mips_o32, gVT_mips_eabi}
    BY <1>1 DEF Calls64, gVT_mips_o32, gVT_mips_eabi, gVT_mips_n64,
       gVT_mips_n64_ellipsis, gVT_mips_n32, gVT_mips_n32_ellipsis
  <2>3. vt.call # NoVT.call
    BY <1>1 DEF NoVT, gVT_mips_o32, gVT_mips_eabi, gVT_mips_n64,
       gVT_mips_n64_ellipsis, gVT_mips_n32, gVT_mips_n32_ellipsis
  <2> QED BY <2>1, <2>2, <2>3
<1>5. TableOK(abi, vt)
  BY <1>1, <1>2, <1>4 DEF TableOK
<1> QED BY <1>5 DEF vt

LEMMA PpcTable ==
  ASSUME NEW abi \in PpcABIs, NEW w \in Ways(abi)
  PROVE  TableOK(abi, PpcMode(abi, w))
<1> DEFINE vt == PpcMode(abi, w)
<1>1. /\ vt \in {gVT_ppc32_darwin, gVT_ppc32_sysv, gVT_ppc32_syscall, gVT_ppc64, gVT_ppc64_ellipsis,
                 gVT_ppc64_syscall}
      /\ vt \in {gVT_ppc64, gVT_ppc64_ellipsis} => abi \in Ppc64
  BY PpcTables DEF PpcABIs, Ppc64, gVT_ppc32_darwin, gVT_ppc32_sysv, gVT_ppc32_syscall, gVT_ppc64,
     gVT_ppc64_ellipsis, gVT_ppc64_syscall
<1>2. ResetOf(abi) = "ppc" /\ abi \notin X86ABIs /\ abi \notin MipsN64 \cup {"mips_n32"}
  BY DEF SparcABIs, Arm32, ResetOf, PpcABIs, MipsABIs, MipsO32, MipsN64, Arm64, X86ABIs
<1> HIDE DEF vt
<1>4. /\ vt \in VT /\ vt # NoVT
      /\ vt.call \notin {"fast", "this_ms"} /\ vt.reset = "ppc"
      /\ vt.call \notin Calls64 /\ (vt.call = "ppc64" => vt \in {gVT_ppc64, gVT_ppc64_ellipsis})
  <2>1. vt \in VT
    BY <1>1 DEF VT, gVT_ppc32_darwin, gVT_ppc32_sysv, gVT_ppc32_syscall, gVT_ppc64,
       gVT_ppc64_ellipsis, gVT_ppc64_syscall
  <2>2. /\ vt.call \notin {"fast", "this_ms"} /\ vt.reset = "ppc"
        /\ vt.call \notin Calls64 /\ (vt.call = "ppc64" => vt \in {gVT_ppc64, gVT_ppc64_ellipsis})
    BY <1>1 DEF Calls64, gVT_ppc32_darwin, gVT_ppc32_sysv, gVT_ppc32_syscall, gVT_ppc64,
       gVT_ppc64_ellipsis, gVT_ppc64_syscall
  <2>3. vt.call # NoVT.call
    BY <1>1 DEF NoVT, gVT_ppc32_darwin, gVT_ppc32_sysv, gVT_ppc32_syscall, gVT_ppc64,
       gVT_ppc64_ellipsis, gVT_ppc64_syscall
  <2> QED BY <2>1, <2>2, <2>3
<1>5. TableOK(abi, vt)
  BY <1>1, <1>2, <1>4 DEF TableOK
<1> QED BY <1>5 DEF vt

LEMMA SparcTable ==
  ASSUME NEW abi \in SparcABIs, NEW w \in Ways(abi)
  PROVE  TableOK(abi, SparcMode(abi, w))
<1> DEFINE vt == SparcMode(abi, w)
<1>1. vt \in {gVT_sparc, gVT_v9, gVT_v9_ellipsis}
  BY SparcTables DEF SparcABIs
<1>2. ResetOf(abi) = "sparc" /\ abi \notin X86ABIs /\ abi \notin MipsN64 \cup {"mips_n32"}
  BY DEF ResetOf, SparcABIs, PpcABIs, MipsABIs, MipsO32, MipsN64, Arm64, X86ABIs
<1> HIDE DEF vt
<1>4. /\ vt \in VT /\ vt # NoVT
      /\ vt.call \notin {"fast", "this_ms", "ppc64"} /\ vt.reset = "sparc"
      /\ vt.call \notin Calls64
  <2>1. vt \in VT
    BY <1>1 DEF VT, gVT_sparc, gVT_v9, gVT_v9_ellipsis
  <2>2. /\ vt.call \notin {"fast", "this_ms", "ppc64"} /\ vt.reset = "sparc"
        /\ vt.call \notin Calls64
    BY <1>1 DEF Calls64, gVT_sparc, gVT_v9, gVT_v9_ellipsis
  <2>3. vt.call # NoVT.call
    BY <1>1 DEF NoVT, gVT_sparc, gVT_v9, gVT_v9_ellipsis
  <2> QED BY <2>1, <2>2, <2>3
<1>5. TableOK(abi, vt)
  BY <1>2, <1>4 DEF TableOK
<1> QED BY <1>5 DEF vt

LEMMA X86Table ==
  ASSUME NEW abi \in X86ABIs, NEW w \in Ways(abi)
  PROVE  TableOK(abi, mode_x86(abi, w))
<1> DEFINE vt == mode_x86(abi, w)
<1>1. vt \in {gVT_x86_cdecl, gVT_x86_win32_std, gVT_x86_win32_fast_ms, gVT_x86_win32_fast_gnu,
              gVT_x86_win32_this_ms, gVT_x86_syscall_int80h_linux}
  BY X86Tables, X86Kinds
<1>2. abi \notin MipsN64 \cup {"mips_n32"}
  BY DEF MipsN64, X86ABIs
<1> HIDE DEF vt
<1>4. /\ vt \in VT /\ vt # NoVT
      /\ vt.reset \in {"x86", "fast"} /\ (vt.call = "fast" <=> vt.reset = "fast")
      /\ vt.call \notin Calls64 /\ vt.call # "ppc64" /\ (vt.call = "this_ms" => vt.arg = "x86")
  <2>1. vt \in VT
    BY <1>1 DEF VT, gVT_x86_cdecl, gVT_x86_win32_std, gVT_x86_win32_fast_ms,
       gVT_x86_win32_fast_gnu, gVT_x86_win32_this_ms, gVT_x86_syscall_int80h_linux
  <2>2. /\ vt.reset \in {"x86", "fast"} /\ (vt.call = "fast" <=> vt.reset = "fast")
        /\ vt.call \notin Calls64 /\ vt.call # "ppc64" /\ (vt.call = "this_ms" => vt.arg = "x86")
    BY <1>1 DEF Calls64, gVT_x86_cdecl, gVT_x86_win32_std, gVT_x86_win32_fast_ms,
       gVT_x86_win32_fast_gnu, gVT_x86_win32_this_ms, gVT_x86_syscall_int80h_linux
  <2>3. vt.call # NoVT.call
    BY <1>1 DEF NoVT, gVT_x86_cdecl, gVT_x86_win32_std, gVT_x86_win32_fast_ms,
       gVT_x86_win32_fast_gnu, gVT_x86_win32_this_ms, gVT_x86_syscall_int80h_linux
  <2> QED BY <2>1, <2>2, <2>3
<1>5. TableOK(abi, vt)
  BY <1>2, <1>4 DEF TableOK
<1> QED BY <1>5 DEF vt

LEMMA Family ==
  ASSUME NEW abi \in ABIs
  PROVE  abi \in ArmABIs \/ abi \in MipsABIs \/ abi \in PpcABIs \/ abi \in SparcABIs \/ abi \in X86ABIs
BY ConventionAssumption

LEMMA Tables ==
  ASSUME NEW abi \in ABIs, NEW w \in Ways(abi)
  PROVE  TableOK(abi, ModeTable(abi, w))
<1>1. CASE abi \in ArmABIs BY <1>1, ArmTable, ArmFamily
<1>2. CASE abi \in MipsABIs BY <1>2, MipsTable, MipsFamily
<1>3. CASE abi \in PpcABIs BY <1>3, PpcTable, PpcFamily
<1>4. CASE abi \in SparcABIs BY <1>4, SparcTable, SparcFamily
<1>5. CASE abi \in X86ABIs BY <1>5, X86Table, X86Family
<1> QED BY <1>1, <1>2, <1>3, <1>4, <1>5, Family

-----------------------------------------------------------------------------
(* Resetting.                                                              *)

(* A CallVM before its first reset may have any registers. *)
Loose(s) ==
  s \in [abi : ABIs, vt : VT, err : {"NONE", "UNSUPPORTED_MODE"}, vec : {s.vec}, i : {s.i}, f : {s.f},
         d : {s.d}, ireg : {s.ireg}, freg : {s.freg}]

Empty(s, u) ==
  /\ IsVM(u) /\ u.abi = s.abi /\ u.vt = s.vt /\ u.err = s.err
  /\ u.vec = <<>> /\ u.i = 0 /\ u.f = 0 /\ u.d = 0
  /\ u.ireg = Registers(IntRegs[s.abi]) /\ u.freg = Registers(FloatRegs[s.abi])

LEMMA RegistersType ==
  ASSUME NEW n \in Nat
  PROVE  Registers(n) \in RegFile(n) /\ Registers(n) \in RegFiles
<1>1. Junks(8) \in Seq(Byte)
  <2>1. Junk \in Byte
    BY DEF Junk, Byte
  <2> QED BY <2>1, FunctionIsSeq DEF Junks
<1>2. Registers(n) \in RegFile(n)
  BY <1>1 DEF Registers, RegFile
<1> QED BY <1>2 DEF RegFiles

LEMMA ZeroedVM ==
  ASSUME NEW s, Loose(s)
  PROVE  Empty(s, Zeroed(s))
<1> DEFINE x == Registers(IntRegs[s.abi])
           y == Registers(FloatRegs[s.abi])
           u == Zeroed(s)
<1>1. s.abi \in ABIs /\ s.vt \in VT /\ s.err \in {"NONE", "UNSUPPORTED_MODE"}
  BY DEF Loose
<1>2. IntRegs[s.abi] \in Nat /\ FloatRegs[s.abi] \in Nat
  BY <1>1, PlatformAssumption
<1>3. x \in RegFile(IntRegs[s.abi]) /\ x \in RegFiles /\ y \in RegFile(FloatRegs[s.abi]) /\ y \in RegFiles
  BY <1>2, RegistersType
<1>4. u = [s EXCEPT !.vec = <<>>, !.i = 0, !.f = 0, !.d = 0, !.ireg = x, !.freg = y]
  BY DEF Zeroed
<1> HIDE DEF x, y, u
<1>5. /\ u.abi = s.abi /\ u.vt = s.vt /\ u.err = s.err /\ u.vec = <<>> /\ u.i = 0 /\ u.f = 0 /\ u.d = 0
      /\ u.ireg = x /\ u.freg = y
  BY <1>4 DEF Loose
<1>6. u = [abi |-> s.abi, vt |-> s.vt, err |-> s.err, vec |-> <<>>, i |-> 0, f |-> 0, d |-> 0,
           ireg |-> x, freg |-> y]
  BY <1>4 DEF Loose
<1>7. <<>> \in Seq(Byte)
  OBVIOUS
<1>8. u \in VMs
  BY <1>1, <1>3, <1>6, <1>7 DEF VMs
<1>9. IsVM(u)
  BY <1>3, <1>5, <1>8 DEF IsVM
<1> QED BY <1>5, <1>9 DEF Empty, x, y, u

LEMMA LooseVM ==
  ASSUME NEW s, IsVM(s)
  PROVE  Loose(s)
BY DEF IsVM, VMs, Loose

LEMMA BlankVM ==
  ASSUME NEW abi \in ABIs, NEW vt \in VT
  PROVE  LET s == Blank(abi, vt) IN IsVM(s) /\ s.abi = abi /\ s.vt = vt /\ s.err = "NONE"
<1> DEFINE r == [abi |-> abi, vt |-> vt, err |-> "NONE", vec |-> <<>>, i |-> 0, f |-> 0, d |-> 0,
                 ireg |-> <<>>, freg |-> <<>>]
           s == Zeroed(r)
<1>1. Loose(r)
  BY DEF Loose
<1>2. r.abi = abi /\ r.vt = vt /\ r.err = "NONE"
  OBVIOUS
<1>3. Blank(abi, vt) = s
  BY DEF Blank
<1> HIDE DEF r
<1>4. Empty(r, s)
  BY <1>1, ZeroedVM
<1> HIDE DEF s
<1> QED BY <1>2, <1>3, <1>4 DEF Empty

LEMMA ResetVM ==
  ASSUME NEW s, IsVM(s), TableOK(s.abi, s.vt)
  PROVE  LET u == Reset(s) IN
           Fresh(u) /\ Within(u) /\ u.abi = s.abi /\ u.vt = s.vt /\ u.err = s.err /\ IsVM(u)
<1> DEFINE z == Zeroed(s)
           abi == s.abi
<1>0. abi \in ABIs /\ IntRegs[abi] \in Nat /\ FloatRegs[abi] \in Nat
  BY LenVec
<1>1. Empty(s, z)
  BY LooseVM, ZeroedVM
<1> HIDE DEF z
<1>2. IsVM(z) /\ z.vec = <<>> /\ Len(z.vec) = 0 /\ z.abi = s.abi /\ z.vt = s.vt
  BY <1>1 DEF Empty
<1>3. ASSUME NEW n \in {8, 16}, NEW u, u = dcVecResize(z, n)
      PROVE  /\ IsVM(u) /\ OnlyVec(z, u) /\ Len(u.vec) = n
             /\ \A k \in 1 .. Len(u.vec) : u.vec[k] = Junk
  <2>1. n \in Nat /\ n >= Len(z.vec)
    BY <1>2
  <2>2. IsVM(u) /\ OnlyVec(z, u) /\ Len(u.vec) = n
    BY <1>2, <1>3, <2>1, Resized
  <2>3. u.vec = Bytes(z.vec, 0, n)
    BY <1>2, <1>3 DEF dcVecResize, IsVM, VMs
  <2>4. ASSUME NEW k \in 1 .. n PROVE u.vec[k] = Junk
    <3>1. k > 0 /\ 0 + k = k
      BY <2>1
    <3> QED BY <1>2, <2>1, <2>3, <3>1, BytesAt DEF IsVM, VMs
  <2> QED BY <2>2, <2>4
<1>4. CASE (abi \in ArmABIs /\ s.vt.reset = "armhf") \/ (abi \in X86ABIs /\ s.vt.reset = "fast")
  <2> DEFINE n == IF abi \in X86ABIs THEN 8 ELSE 16
             u == dcVecResize(z, n)
  <2>0. abi \in ArmABIs => abi \notin X86ABIs
    BY FamiliesApart
  <2>1. Reset(s) = u
    BY <1>4, <2>0, ArmFamily, X86Family DEF ArmReset, X86Reset, reset_armhf, reset_x86_win32_fast, z
  <2>2. n \in {8, 16} /\ n = Reserved(s)
    BY <1>4, <2>0 DEF Reserved
  <2>9. u = dcVecResize(z, n)
    OBVIOUS
  <2> HIDE DEF u, n
  <2>3. IsVM(u) /\ OnlyVec(z, u) /\ Len(u.vec) = n /\ \A k \in 1 .. Len(u.vec) : u.vec[k] = Junk
    BY <1>3, <2>2, <2>9
  <2>4. s.vt.call \notin {"n64", "n32"} /\ abi \notin MipsN64 \cup {"mips_n32"}
    <3>1. abi \notin MipsN64 \cup {"mips_n32"}
      BY <1>4 DEF ArmABIs, Arm32, Arm64, X86ABIs, MipsN64
    <3> QED BY <3>1 DEF TableOK, Calls64
  <2>5. u.abi = s.abi /\ u.vt = s.vt /\ u.err = s.err /\ u.i = 0 /\ u.f = 0 /\ u.d = 0
          /\ u.ireg = Registers(IntRegs[s.abi]) /\ u.freg = Registers(FloatRegs[s.abi])
    BY <1>1, <2>3 DEF Empty, OnlyVec
  <2>6. Fresh(u)
    BY <2>2, <2>3, <2>4, <2>5 DEF Fresh, Reserved
  <2>7. Len(u.vec) % 4 = 0
    BY <2>2, <2>3
  <2>8. Within(u)
    <3>1. FloatRegs[abi] >= 0 /\ IntRegs[abi] >= 0 /\ u.abi = abi /\ 0 \in Nat /\ 0 % 2 = 0
      BY <1>0, <2>5
    <3>2. Counts(u.abi, u.i, u.f, u.d)
      BY <2>4, <2>5, <3>1 DEF Counts
    <3> QED BY <2>7, <3>2 DEF Within
  <2> QED BY <2>1, <2>3, <2>5, <2>6, <2>8
<1>5. CASE abi \in MipsABIs /\ s.vt.call \in {"n64", "n32"}
  <2> DEFINE u == [z EXCEPT !.d = {}]
  <2>1. Reset(s) = u
    BY <1>5, MipsFamily DEF MipsReset, z
  <2>2. IsVM(u) /\ SameVec(z, u) /\ u.d = {} /\ u.i = z.i /\ u.f = z.f /\ u.ireg = z.ireg /\ u.freg = z.freg
    <3>1. {} \in Nat \cup SUBSET Nat
      OBVIOUS
    <3> QED BY <1>2, <3>1, SetDouble
  <2> HIDE DEF u
  <2>3. abi \in MipsN64 \cup {"mips_n32"} /\ abi \notin WordABIs /\ abi \notin {"armhf", "ppc64_v1", "ppc64_v2"}
    <3>1. abi \in MipsN64 \cup {"mips_n32"}
      BY <1>5 DEF TableOK, Calls64
    <3> QED BY <3>1 DEF WordABIs, MipsN64, MipsO32, Arm32
  <2>4. s.vt.reset \notin {"armhf", "fast"}
    <3>1. abi \notin X86ABIs
      BY <2>3 DEF MipsN64, X86ABIs
    <3>2. ResetOf(abi) = "mips"
      BY <2>3 DEF ResetOf, MipsABIs, MipsN64, Arm64, PpcABIs, SparcABIs
    <3> QED BY <3>1, <3>2 DEF TableOK
  <2>5. Reserved(s) = 0
    BY <2>4 DEF Reserved
  <2>6. u.abi = s.abi /\ u.vt = s.vt /\ u.err = s.err /\ u.i = 0 /\ u.f = 0 /\ u.d = {} /\ Len(u.vec) = 0
          /\ u.ireg = Registers(IntRegs[s.abi]) /\ u.freg = Registers(FloatRegs[s.abi])
    BY <1>1, <1>2, <2>2 DEF Empty, SameVec
  <2>7. Fresh(u)
    BY <1>5, <2>2, <2>5, <2>6 DEF Fresh, Reserved
  <2>8. Within(u)
    BY <1>0, <2>3, <2>6 DEF Within, Counts
  <2> QED BY <2>1, <2>2, <2>6, <2>7, <2>8
<1>6. CASE /\ ~(abi \in ArmABIs /\ s.vt.reset = "armhf") /\ ~(abi \in X86ABIs /\ s.vt.reset = "fast")
           /\ ~(abi \in MipsABIs /\ s.vt.call \in {"n64", "n32"})
  <2>1. Reset(s) = z
    BY <1>0, <1>6, Family, ArmFamily, MipsFamily, PpcFamily, SparcFamily, X86Family
       DEF ArmReset, MipsReset, PpcReset, SparcReset, X86Reset, z
  <2>2. abi \notin MipsN64 \cup {"mips_n32"} /\ s.vt.call \notin {"n64", "n32"}
    BY <1>6 DEF TableOK, Calls64, MipsABIs
  <2>3. s.vt.reset \notin {"armhf", "fast"}
    <3>1. CASE abi \in X86ABIs
      BY <1>6, <3>1 DEF TableOK
    <3>2. CASE abi \notin X86ABIs
      <4>1. s.vt.reset = ResetOf(abi)
        BY <3>2 DEF TableOK
      <4>2. abi \in ArmABIs \/ abi \in MipsABIs \/ abi \in PpcABIs \/ abi \in SparcABIs
        BY <1>0, <3>2, Family
      <4>3. abi = "armhf" => s.vt.reset # "armhf"
        BY <1>6 DEF ArmABIs, Arm32
      <4>4. abi # "armhf" => ResetOf(abi) \notin {"armhf", "fast"}
        BY <4>2 DEF ResetOf, ArmABIs, Arm32, Arm64, MipsABIs, MipsO32, MipsN64, PpcABIs, SparcABIs
      <4>5. abi = "armhf" => ResetOf(abi) = "armhf"
        BY DEF ResetOf, Arm64, MipsABIs, MipsO32, MipsN64, PpcABIs, SparcABIs
      <4> QED BY <4>1, <4>3, <4>4, <4>5
    <3> QED BY <3>1, <3>2
  <2>5. Reserved(s) = 0
    BY <2>3 DEF Reserved
  <2>6. z.abi = s.abi /\ z.vt = s.vt /\ z.err = s.err /\ z.i = 0 /\ z.f = 0 /\ z.d = 0 /\ Len(z.vec) = 0
          /\ z.ireg = Registers(IntRegs[s.abi]) /\ z.freg = Registers(FloatRegs[s.abi])
    BY <1>1, <1>2 DEF Empty
  <2>7. Fresh(z)
    BY <1>2, <2>2, <2>5, <2>6 DEF Fresh, Reserved
  <2>8. Within(z)
    BY <1>0, <2>2, <2>6 DEF Within, Counts
  <2> QED BY <1>2, <2>1, <2>6, <2>7, <2>8
<1>7. \/ (abi \in ArmABIs /\ s.vt.reset = "armhf") \/ (abi \in X86ABIs /\ s.vt.reset = "fast")
      \/ (abi \in MipsABIs /\ s.vt.call \in {"n64", "n32"})
      \/ /\ ~(abi \in ArmABIs /\ s.vt.reset = "armhf") /\ ~(abi \in X86ABIs /\ s.vt.reset = "fast")
         /\ ~(abi \in MipsABIs /\ s.vt.call \in {"n64", "n32"})
  OBVIOUS
<1> QED BY <1>4, <1>5, <1>6, <1>7

-----------------------------------------------------------------------------
(* Setting a mode.                                                         *)
LEMMA SetTable ==
  ASSUME NEW s, IsVM(s), NEW vt, TableOK(s.abi, vt), NEW u, u = SetVT(s, vt)
  PROVE  /\ IsVM(u) /\ u.abi = s.abi /\ u.vt = vt /\ u.err = "NONE" /\ u.vec = s.vec
         /\ u.i = s.i /\ u.f = s.f /\ u.d = s.d /\ u.ireg = s.ireg /\ u.freg = s.freg
         /\ (Within(s) => Within(u)) /\ (Keeps(s, u))
<1>1. vt \in VT /\ u = [s EXCEPT !.vt = vt, !.err = "NONE"]
  BY DEF TableOK, SetVT
<1>2. /\ u \in VMs /\ u.abi = s.abi /\ u.vt = vt /\ u.err = "NONE" /\ u.vec = s.vec
      /\ u.i = s.i /\ u.f = s.f /\ u.d = s.d /\ u.ireg = s.ireg /\ u.freg = s.freg
  BY <1>1 DEF IsVM, VMs
<1>3. IsVM(u)
  BY <1>2 DEF IsVM
<1>4. Within(s) => Within(u)
  BY <1>2 DEF Within
<1>5. Keeps(s, u)
  BY <1>2 DEF Keeps, IsVM, VMs
<1> QED BY <1>2, <1>3, <1>4, <1>5

-----------------------------------------------------------------------------
(* The callback's counters stay within its registers.                      *)
LooseArgs(a) ==
  IF a.abi \in X86ABIs
  THEN a \in [abi : {a.abi}, vt : {a.vt}, ireg : {a.ireg}, freg : {a.freg}, stack : {a.stack},
              sp : {a.sp}, i : {a.i}, f : {a.f}, d : {a.d}]
  ELSE a \in [abi : {a.abi}, ireg : {a.ireg}, freg : {a.freg}, stack : {a.stack},
              sp : {a.sp}, i : {a.i}, f : {a.f}, d : {a.d}]

ArgsOK(a) ==
  /\ LooseArgs(a) /\ a.abi \in ABIs /\ a.i \in Nat
  /\ a.f \in Nat /\ a.f <= FloatRegs[a.abi]
  /\ a.abi = "armhf" => a.d \in Nat /\ a.d % 2 = 0 /\ a.d <= FloatRegs[a.abi]

Goes(a, b) == ArgsOK(b) /\ b.abi = a.abi /\ (a.abi \in X86ABIs => b.vt = a.vt)

LEMMA GoesOn ==
  ASSUME NEW a, ArgsOK(a), NEW b, Goes(a, b), NEW c, Goes(b, c)
  PROVE  Goes(a, c) /\ ArgsOK(b)
BY DEF Goes

LEMMA GoesSelf == ASSUME NEW a, ArgsOK(a) PROVE Goes(a, a)
BY DEF Goes

LEMMA GoesInt ==
  ASSUME NEW a, ArgsOK(a), NEW k \in Nat
  PROVE  Goes(a, [a EXCEPT !.i = k]) /\ [a EXCEPT !.i = k].f = a.f /\ [a EXCEPT !.i = k].abi = a.abi
<1> DEFINE b == [a EXCEPT !.i = k]
<1>1. LooseArgs(b) /\ b.abi = a.abi /\ (a.abi \in X86ABIs => b.vt = a.vt) /\ b.f = a.f /\ b.d = a.d /\ b.i = k
  BY DEF ArgsOK, LooseArgs
<1> QED BY <1>1 DEF Goes, ArgsOK

LEMMA GoesStack ==
  ASSUME NEW a, ArgsOK(a), NEW k
  PROVE  Goes(a, [a EXCEPT !.sp = k]) /\ [a EXCEPT !.sp = k].f = a.f /\ [a EXCEPT !.sp = k].abi = a.abi
           /\ [a EXCEPT !.sp = k].i = a.i
<1> DEFINE b == [a EXCEPT !.sp = k]
<1>1. LooseArgs(b) /\ b.abi = a.abi /\ (a.abi \in X86ABIs => b.vt = a.vt) /\ b.f = a.f /\ b.d = a.d /\ b.i = a.i
  BY DEF ArgsOK, LooseArgs
<1> QED BY <1>1 DEF Goes, ArgsOK

LEMMA GoesFloat ==
  ASSUME NEW a, ArgsOK(a), NEW k \in Nat, k <= FloatRegs[a.abi]
  PROVE  Goes(a, [a EXCEPT !.f = k]) /\ [a EXCEPT !.f = k].f = k /\ [a EXCEPT !.f = k].d = a.d
<1> DEFINE b == [a EXCEPT !.f = k]
<1>1. LooseArgs(b) /\ b.abi = a.abi /\ (a.abi \in X86ABIs => b.vt = a.vt) /\ b.f = k /\ b.d = a.d /\ b.i = a.i
  BY DEF ArgsOK, LooseArgs
<1> QED BY <1>1 DEF Goes, ArgsOK

LEMMA GoesDouble ==
  ASSUME NEW a, ArgsOK(a), a.abi = "armhf", NEW k \in Nat, k <= FloatRegs[a.abi], k % 2 = 0
  PROVE  Goes(a, [a EXCEPT !.d = k]) /\ [a EXCEPT !.d = k].f = a.f /\ [a EXCEPT !.d = k].d = k
           /\ [a EXCEPT !.d = k].abi = a.abi
<1> DEFINE b == [a EXCEPT !.d = k]
<1>1. LooseArgs(b) /\ b.abi = a.abi /\ (a.abi \in X86ABIs => b.vt = a.vt) /\ b.f = a.f /\ b.d = k /\ b.i = a.i
  BY DEF ArgsOK, LooseArgs
<1> QED BY <1>1 DEF Goes, ArgsOK

LEMMA GoesPrimitives ==
  ASSUME NEW a, ArgsOK(a)
  PROVE  /\ Goes(a, FromInt(a).args)
         /\ \A n, w : Goes(a, FromStack(a, n, w).args)
         /\ \A n : Goes(a, AlignSP(a, n)) /\ AlignSP(a, n).f = a.f
         /\ Goes(a, SkipSP(a)) /\ SkipSP(a).f = a.f
<1>1. Goes(a, FromInt(a).args)
  <2>1. FromInt(a).args = [a EXCEPT !.i = a.i + 1]
    BY DEF FromInt, Fetched, ArgsOK, LooseArgs
  <2>2. a.i + 1 \in Nat
    BY DEF ArgsOK
  <2> QED BY <2>1, <2>2, GoesInt
<1>2. ASSUME NEW n, NEW w PROVE Goes(a, FromStack(a, n, w).args)
  <2>1. FromStack(a, n, w).args = [a EXCEPT !.sp = a.sp + w]
    BY DEF FromStack, Fetched, ArgsOK, LooseArgs
  <2> QED BY <2>1, GoesStack
<1>3. ASSUME NEW n PROVE Goes(a, AlignSP(a, n)) /\ AlignSP(a, n).f = a.f
  <2>1. AlignSP(a, n) = [a EXCEPT !.sp = RoundUp(a.sp, n)]
    BY DEF AlignSP, ArgsOK, LooseArgs
  <2> QED BY SMTT(60), <2>1, GoesStack
<1>4. Goes(a, SkipSP(a)) /\ SkipSP(a).f = a.f
  <2>1. SkipSP(a) = [a EXCEPT !.sp = a.sp + And4(a.sp)]
    BY DEF SkipSP, ArgsOK, LooseArgs
  <2> QED BY <2>1, GoesStack
<1> QED BY <1>1, <1>2, <1>3, <1>4

LEMMA GoesFromFloat ==
  ASSUME NEW a, ArgsOK(a), a.f < FloatRegs[a.abi]
  PROVE  Goes(a, FromFloat(a).args) /\ FromFloat(a).args.f = a.f + 1 /\ FromFloat(a).args.d = a.d
<1> DEFINE k == a.f + 1
<1>1. FromFloat(a).args = [a EXCEPT !.f = k]
  BY DEF FromFloat, Fetched, ArgsOK, LooseArgs
<1>2. k \in Nat /\ k <= FloatRegs[a.abi]
  BY PlatformAssumption DEF ArgsOK
<1> HIDE DEF k
<1>3. Goes(a, [a EXCEPT !.f = k]) /\ [a EXCEPT !.f = k].f = k /\ [a EXCEPT !.f = k].d = a.d
  BY <1>2, GoesFloat
<1> QED BY <1>1, <1>3 DEF k

LEMMA GoesX86 ==
  ASSUME NEW a, ArgsOK(a), a.abi \in X86ABIs, NEW t \in AllTypes,
         a.vt \in {"default", "this_ms", "fast_ms", "fast_gnu"}
  PROVE  Goes(a, dcbArg_x86(a, t).args)
<1>1. ASSUME NEW k PROVE Goes(a, [a EXCEPT !.ireg[0] = k])
  <2> DEFINE b == [a EXCEPT !.ireg[0] = k]
  <2>1. LooseArgs(b) /\ b.abi = a.abi /\ b.vt = a.vt /\ b.f = a.f /\ b.d = a.d /\ b.i = a.i
    BY DEF ArgsOK, LooseArgs
  <2> QED BY <2>1 DEF Goes, ArgsOK
<1>2. Goes(a, default_i32(a).args) /\ Goes(a, default_i64(a).args)
  BY GoesPrimitives DEF default_i32, default_i64
<1>3. Goes(a, this_i32(a).args)
  BY <1>1, <1>2 DEF this_i32, Fetched
<1>4. Goes(a, fast_i32(a).args)
  BY <1>2, GoesPrimitives DEF fast_i32
<1>5. Goes(a, fast_gnu_i64(a).args)
  <2> DEFINE b == [a EXCEPT !.i = a.i + 2]
  <2>1. fast_gnu_i64(a) = default_i64(b)
    BY DEF fast_gnu_i64, ArgsOK, LooseArgs
  <2>2. Goes(a, b)
    <3>1. a.i + 2 \in Nat
      BY DEF ArgsOK
    <3> QED BY <3>1, GoesInt
  <2> HIDE DEF b
  <2>3. Goes(b, default_i64(b).args)
    BY <2>2, GoesPrimitives DEF default_i64, Goes
  <2> QED BY <2>1, <2>2, <2>3, GoesOn
<1> QED BY <1>2, <1>3, <1>4, <1>5 DEF dcbArg_x86, AllTypes, IntTypes, Wide, Floats

LEMMA GoesSparc ==
  ASSUME NEW a, ArgsOK(a), a.abi \in SparcABIs, NEW t \in AllTypes
  PROVE  Goes(a, SparcFetch(a, t).args)
<1>1. ASSUME NEW n, NEW w PROVE Goes(a, FromMemory(a, n, w).args)
  <2>1. FromMemory(a, n, w).args = [a EXCEPT !.sp = a.sp + w]
    BY DEF FromMemory, Fetched, ArgsOK, LooseArgs
  <2> QED BY <2>1, GoesStack
<1>2. Goes(a, dcbArg_sparc32(a, t).args)
  BY <1>1 DEF dcbArg_sparc32
<1>3. Goes(a, dcbArg_sparc64(a, t).args)
  <2>1. ASSUME NEW v PROVE Goes(a, Fetched([a EXCEPT !.sp = @ + 8], v).args)
    <3>1. Fetched([a EXCEPT !.sp = @ + 8], v).args = [a EXCEPT !.sp = a.sp + 8]
      BY DEF Fetched, ArgsOK, LooseArgs
    <3> QED BY <3>1, GoesStack
  <2> QED BY <1>1, <2>1 DEF dcbArg_sparc64
<1> QED BY <1>2, <1>3 DEF SparcFetch

LEMMA GoesArm32 ==
  ASSUME NEW a, ArgsOK(a), a.abi \in Arm32, NEW t \in AllTypes
  PROVE  Goes(a, dcbArg_arm32(a, t).args)
<1>1. ASSUME NEW b, ArgsOK(b) PROVE Goes(b, arm_word(b).args)
  BY <1>1, GoesPrimitives DEF arm_word
<1>2. ASSUME NEW b, ArgsOK(b) PROVE Goes(b, arm_align_64(b))
  <2> DEFINE r == IF b.i < 4 THEN [b EXCEPT !.i = RoundUp(@, 2)] ELSE b
  <2>1. Goes(b, r)
    <3>1. [b EXCEPT !.i = RoundUp(@, 2)] = [b EXCEPT !.i = RoundUp(b.i, 2)]
      BY <1>2 DEF ArgsOK, LooseArgs
    <3>2. RoundUp(b.i, 2) \in Nat
      BY <1>2, RoundUpTo DEF ArgsOK
    <3> QED BY <1>2, <3>1, <3>2, GoesInt, GoesSelf
  <2>2. arm_align_64(b) = IF IsATPCS(b) THEN b ELSE IF r.i >= 4 THEN SkipSP(r) ELSE r
    BY DEF arm_align_64
  <2> HIDE DEF r
  <2>3. Goes(b, SkipSP(r))
    <3>1. Goes(r, SkipSP(r))
      BY <2>1, GoesPrimitives DEF Goes
    <3> QED BY <1>2, <2>1, <3>1, GoesOn
  <2> QED BY <1>2, <2>1, <2>2, <2>3, GoesSelf
<1>3. ASSUME NEW b, ArgsOK(b) PROVE Goes(b, arm_longlong(b).args)
  <2>1. arm_longlong(b).args = arm_word(arm_word(arm_align_64(b)).args).args
    BY DEF arm_longlong, TwoWords, Fetched
  <2> DEFINE c == arm_align_64(b)
             e == arm_word(c).args
  <2>2. Goes(b, c)
    BY <1>2, <1>3
  <2>3. Goes(c, e)
    BY <1>1, <2>2 DEF Goes
  <2>4. Goes(b, e) /\ ArgsOK(e)
    BY <1>3, <2>2, <2>3, GoesOn DEF Goes
  <2>5. Goes(e, arm_word(e).args)
    BY <1>1, <2>4
  <2>6. Goes(b, arm_word(e).args)
    BY <1>3, <2>4, <2>5, GoesOn
  <2> QED BY <2>1, <2>6
<1>4. Goes(a, arm_float(a).args)
  <2>1. CASE IsHF(a) /\ a.f < FloatRegs[a.abi]
    <3> DEFINE r == FromFloat(a)
               b == r.args
    <3>1. Goes(a, b) /\ b.f = a.f + 1 /\ b.d = a.d
      BY <2>1, GoesFromFloat
    <3>2. r = [args |-> b, val |-> r.val]
      BY DEF FromFloat, Fetched
    <3>3. arm_float(a).args = IF b.f % 2 = 0 /\ b.f < b.d THEN [b EXCEPT !.f = b.d] ELSE b
      <4>1. arm_float(a) = IF b.f % 2 = 0 /\ b.f < b.d THEN [r EXCEPT !.args.f = b.d] ELSE r
        BY <2>1 DEF arm_float
      <4> HIDE DEF r
      <4> QED BY <3>2, <4>1
    <3>4. a.abi = "armhf" /\ b.abi = a.abi /\ ArgsOK(b)
      BY <2>1, <3>1 DEF IsHF, Goes
    <3> HIDE DEF b
    <3> DEFINE k == b.d
    <3>5. k \in Nat /\ k <= FloatRegs[b.abi]
      BY <3>4 DEF ArgsOK
    <3> HIDE DEF k
    <3>6. Goes(b, [b EXCEPT !.f = k])
      BY <3>4, <3>5, GoesFloat
    <3>7. Goes(a, [b EXCEPT !.f = k])
      BY <3>1, <3>6, GoesOn
    <3> QED BY <3>1, <3>3, <3>7 DEF k
  <2>2. CASE ~(IsHF(a) /\ a.f < FloatRegs[a.abi])
    BY <1>1, <2>2 DEF arm_float
  <2> QED BY <2>1, <2>2
<1>5. Goes(a, arm_double(a).args)
  <2>1. CASE ~IsHF(a)
    BY <1>3, <2>1 DEF arm_double
  <2>2. CASE IsHF(a)
    <3> DEFINE n == FloatRegs[a.abi]
               k == RoundUp(a.f, 2)
               b == IF a.d < a.f THEN [a EXCEPT !.d = k] ELSE a
    <3>1. a.abi = "armhf" /\ a.abi \in ABIs
      BY <2>2 DEF IsHF, ArgsOK
    <3>2. n \in Nat /\ n % 2 = 0 /\ a.f \in Nat /\ a.f <= n /\ a.d \in Nat
      BY <3>1, PlatformAssumption, RegistersAssumption DEF ArgsOK, Arm32
    <3>3. k \in Nat /\ k % 2 = 0 /\ k <= n
      BY <3>2, PairRoom
    <3>4. Goes(a, b)
      <4> HIDE DEF k
      <4>1. Goes(a, [a EXCEPT !.d = k])
        BY <3>1, <3>3, GoesDouble
      <4> QED BY <4>1, GoesSelf
    <3>5. /\ b.d < n => arm_double(a).args = [b EXCEPT !.d = b.d + 2, !.f = IF b.f % 2 = 0 THEN b.d + 2 ELSE b.f]
          /\ b.d >= n => arm_double(a) = arm_longlong([b EXCEPT !.f = n])
      <4>1. b = IF a.d < a.f THEN [a EXCEPT !.d = RoundUp(a.f, 2)] ELSE a
        OBVIOUS
      <4>3. b.d \in Nat
        BY <3>1, <3>4 DEF Goes, ArgsOK
      <4>8. b.d < n => ~(b.d >= n)
        BY <3>2, <4>3
      <4>9. b.d < n => arm_double(a) =
              Fetched([b EXCEPT !.d = @ + 2, !.f = IF @ % 2 = 0 THEN b.d + 2 ELSE @],
                      Joined(a.abi, b.freg[b.d], b.freg[b.d + 1]))
        BY <2>2, <4>8, Zenon DEF arm_double
      <4>2. b.d < n => arm_double(a).args = [b EXCEPT !.d = @ + 2, !.f = IF @ % 2 = 0 THEN b.d + 2 ELSE @]
        <5> HIDE DEF b, n, k
        <5> QED BY <4>9 DEF Fetched
      <4>4. b.d >= n => arm_double(a) = arm_longlong([b EXCEPT !.f = n])
        <5>1. b.d >= n => ~(b.d < n)
          BY <4>3, <3>2
        <5> QED BY <2>2, <5>1 DEF arm_double
      <4>5. LooseArgs(b) /\ b.abi \notin X86ABIs
        BY <3>1, <3>4 DEF Goes, ArgsOK, X86ABIs
      <4> HIDE DEF b, n, k
      <4>6. [b EXCEPT !.d = @ + 2, !.f = IF @ % 2 = 0 THEN b.d + 2 ELSE @]
              = [b EXCEPT !.d = b.d + 2, !.f = IF b.f % 2 = 0 THEN b.d + 2 ELSE b.f]
        BY <4>5 DEF LooseArgs
      <4>7. b.d < n => arm_double(a).args = [b EXCEPT !.d = b.d + 2, !.f = IF b.f % 2 = 0 THEN b.d + 2 ELSE b.f]
        BY <4>2, <4>6, Zenon
      <4> QED BY <4>7, <4>4, Zenon
    <3>6. ArgsOK(b) /\ b.abi = "armhf" /\ b.abi = a.abi
      BY <3>1, <3>4 DEF Goes
    <3> HIDE DEF b, k
    <3>7. CASE b.d < n
      <4> DEFINE x == b.d + 2
                 y == IF b.f % 2 = 0 THEN b.d + 2 ELSE b.f
                 c == [b EXCEPT !.d = x]
      <4>1. b.d \in Nat /\ b.d % 2 = 0 /\ b.f \in Nat /\ b.f <= n /\ FloatRegs[b.abi] = n
        BY <3>6 DEF ArgsOK
      <4>2. x \in Nat /\ x % 2 = 0 /\ x <= n
        BY <3>2, <3>7, <4>1
      <4>3. y \in Nat /\ y <= n
        BY <4>1, <4>2
      <4>4. arm_double(a).args = [c EXCEPT !.f = y]
        BY <3>5, <3>6, <3>7 DEF ArgsOK, LooseArgs
      <4> HIDE DEF x, y
      <4>5. Goes(b, c)
        BY <3>6, <4>1, <4>2, GoesDouble
      <4>6. FloatRegs[c.abi] = n
        BY <3>6, <4>1, <4>5 DEF Goes
      <4> HIDE DEF c
      <4>8. ArgsOK(c) /\ y <= FloatRegs[c.abi]
        BY <4>3, <4>5, <4>6 DEF Goes
      <4>7. Goes(c, [c EXCEPT !.f = y])
        BY <4>3, <4>8, GoesFloat
      <4> QED BY <3>4, <3>6, <4>4, <4>5, <4>7, GoesOn
    <3>8. CASE b.d >= n
      <4> DEFINE c == [b EXCEPT !.f = n]
      <4>1. Goes(b, c)
        <5>1. n <= FloatRegs[b.abi]
          BY <3>2, <3>6
        <5> HIDE DEF n
        <5> QED BY <3>2, <3>6, <5>1, GoesFloat
      <4>2. arm_double(a) = arm_longlong(c)
        BY <3>5, <3>8
      <4> HIDE DEF c
      <4>3. Goes(a, c) /\ ArgsOK(c)
        BY <3>4, <3>6, <4>1, GoesOn DEF Goes
      <4> QED BY <1>3, <4>2, <4>3, GoesOn
    <3>9. b.d \in Nat
      BY <3>6 DEF ArgsOK
    <3> QED BY <3>2, <3>7, <3>8, <3>9
  <2> QED BY <2>1, <2>2
<1> QED BY <1>1, <1>3, <1>4, <1>5 DEF dcbArg_arm32, AllTypes, IntTypes, Wide, Floats

LEMMA GoesArm ==
  ASSUME NEW a, ArgsOK(a), a.abi \in ArmABIs, NEW t \in AllTypes
  PROVE  Goes(a, ArmFetch(a, t).args)
<1>1. Goes(a, dcbArg_arm64(a, t).args)
  BY GoesPrimitives, GoesFromFloat DEF dcbArg_arm64
<1>2. Goes(a, dcbArg_arm64_apple(a, t).args)
  <2> DEFINE n == SizeOf(a.abi, t)
             b == AlignSP(a, n)
  <2>1. Goes(a, b)
    BY GoesPrimitives
  <2> HIDE DEF b, n
  <2>2. Goes(b, FromStack(b, n, n).args)
    BY <2>1, GoesPrimitives DEF Goes
  <2>3. Goes(a, AppleAtSP(a, t).args)
    BY <2>1, <2>2, GoesOn DEF AppleAtSP, b, n
  <2> QED BY <2>3, GoesPrimitives, GoesFromFloat DEF dcbArg_arm64_apple
<1>3. a.abi \in Arm32 => Goes(a, dcbArg_arm32(a, t).args)
  BY GoesArm32
<1> QED BY <1>1, <1>2, <1>3 DEF ArmFetch, ArmABIs, Arm32, Arm64

LEMMA GoesMips ==
  ASSUME NEW a, ArgsOK(a), a.abi \in MipsABIs, NEW t \in AllTypes
  PROVE  Goes(a, MipsFetch(a, t).args)
<1>0. a.abi \notin X86ABIs /\ a.abi # "armhf"
  BY DEF MipsABIs, MipsO32, MipsN64, X86ABIs
<1>1. ASSUME NEW b, Goes(a, b) PROVE Goes(b, o32_int(b).args)
  <2> DEFINE n == FloatRegs[b.abi]
             c == [b EXCEPT !.f = n]
  <2>1. n \in Nat /\ n <= FloatRegs[b.abi] /\ ArgsOK(b)
    BY <1>1, PlatformAssumption DEF Goes, ArgsOK
  <2>2. o32_int(b) = FromStack(c, 4, 4)
    BY DEF o32_int, NoFloats
  <2> HIDE DEF n
  <2>3. Goes(b, c)
    BY <2>1, GoesFloat
  <2> HIDE DEF c
  <2>4. Goes(c, FromStack(c, 4, 4).args)
    BY <2>3, GoesPrimitives DEF Goes
  <2> QED BY <2>1, <2>2, <2>3, <2>4, GoesOn
<1>2. ASSUME NEW b, Goes(a, b), b.f < FloatRegs[b.abi], NEW w PROVE Goes(b, o32_floatReg(b, w).args)
  <2> DEFINE k == b.f + 1
             c == [b EXCEPT !.f = k]
             x == [c EXCEPT !.sp = c.sp + w]
  <2>1. ArgsOK(b) /\ k \in Nat /\ k <= FloatRegs[b.abi]
    BY <1>2, PlatformAssumption DEF Goes, ArgsOK
  <2>2. o32_floatReg(b, w).args = x
    BY <1>0, <1>2 DEF o32_floatReg, Fetched, Goes, ArgsOK, LooseArgs
  <2> HIDE DEF k
  <2>3. Goes(b, c)
    BY <2>1, GoesFloat
  <2> HIDE DEF c
  <2>4. Goes(c, x)
    BY <2>3, GoesStack DEF Goes
  <2> QED BY <2>1, <2>2, <2>3, <2>4, GoesOn
<1>3. Goes(a, a) /\ Goes(a, SkipSP(a))
  BY GoesSelf, GoesPrimitives
<1>4. Goes(a, o32_longlong(a).args)
  <2> DEFINE b == SkipSP(a)
             c == o32_int(b).args
  <2>1. o32_longlong(a).args = o32_int(c).args
    BY DEF o32_longlong, TwoWords, Fetched
  <2>2. Goes(a, c)
    BY <1>1, <1>3, GoesOn
  <2> HIDE DEF c
  <2>3. Goes(a, o32_int(c).args)
    BY <1>1, <2>2, GoesOn
  <2> QED BY <2>1, <2>3
<1>5. Goes(a, o32_float(a).args)
  BY <1>2, <1>3, GoesPrimitives DEF o32_float
<1>6. Goes(a, o32_double(a).args)
  <2> DEFINE b == SkipSP(a)
  <2>1. Goes(a, b) /\ ArgsOK(b)
    BY <1>3 DEF Goes
  <2>2. o32_double(a) = IF b.f < FloatRegs[b.abi] THEN o32_floatReg(b, 8) ELSE FromStack(b, 8, 8)
    BY DEF o32_double
  <2> HIDE DEF b
  <2>3. Goes(b, FromStack(b, 8, 8).args)
    BY <2>1, GoesPrimitives
  <2>4. b.f < FloatRegs[b.abi] => Goes(b, o32_floatReg(b, 8).args)
    BY <1>2, <2>1
  <2> QED BY <2>1, <2>2, <2>3, <2>4, GoesOn
<1>7. Goes(a, dcbArg_mips_o32(a, t).args)
  BY <1>1, <1>3, <1>4, <1>5, <1>6 DEF dcbArg_mips_o32, AllTypes, IntTypes, Wide, Floats
<1>8. ASSUME NEW b, Goes(a, b) PROVE Goes(b, dcbArgInt_mips(b).args)
  BY <1>8, GoesPrimitives DEF dcbArgInt_mips, Goes
<1>9. Goes(a, dcbArgULongLong_mips(a).args)
  <2> DEFINE e == [a EXCEPT !.i = RoundUp(a.i, 2)]
             b == SkipSP(e)
             c == dcbArgInt_mips(b).args
  <2>1. dcbArgULongLong_mips(a).args = dcbArgInt_mips(c).args
    <3>1. [a EXCEPT !.i = RoundUp(@, 2)] = e
      BY <1>0 DEF ArgsOK, LooseArgs
    <3> QED BY <3>1 DEF dcbArgULongLong_mips, TwoWords, Fetched
  <2>2. Goes(a, e)
    <3>1. RoundUp(a.i, 2) \in Nat
      BY RoundUpTo DEF ArgsOK
    <3> QED BY <3>1, GoesInt
  <2> HIDE DEF e
  <2>3. Goes(a, b)
    BY <2>2, GoesPrimitives, GoesOn DEF Goes
  <2> HIDE DEF b
  <2>4. Goes(a, c)
    BY <1>8, <2>3, GoesOn
  <2> HIDE DEF c
  <2>5. Goes(a, dcbArgInt_mips(c).args)
    BY <1>8, <2>4, GoesOn
  <2> QED BY <2>1, <2>5
<1>10. Goes(a, dcbArg_mips_eabi(a, t).args)
  <2>1. Goes(a, dcbArgFloat_mips(a).args)
    BY GoesPrimitives, GoesFromFloat DEF dcbArgFloat_mips
  <2> QED BY <1>3, <1>8, <1>9, <2>1 DEF dcbArg_mips_eabi, AllTypes, IntTypes, Wide, Floats
<1>11. Goes(a, dcbArg_mips64(a, t).args)
  <2>1. ASSUME NEW n PROVE Goes(a, mips64_float(a, n).args)
    <3>1. ASSUME NEW v PROVE Goes(a, Fetched([a EXCEPT !.i = @ + 1], v).args)
      <4>1. Fetched([a EXCEPT !.i = @ + 1], v).args = [a EXCEPT !.i = a.i + 1]
        BY <1>0 DEF Fetched, ArgsOK, LooseArgs
      <4>2. a.i + 1 \in Nat
        BY DEF ArgsOK
      <4> QED BY <4>1, <4>2, GoesInt
    <3> QED BY <3>1, GoesPrimitives DEF mips64_float
  <2>2. t \notin Floats => (a.i < IntRegs[a.abi]) \/ ~(a.i < IntRegs[a.abi])
    OBVIOUS
  <2>3. CASE t \in Floats
    BY <2>1, <2>3 DEF dcbArg_mips64, Floats
  <2>4. CASE t \notin Floats
    <3>1. a.i < IntRegs[a.abi] \/ (a.i >= IntRegs[a.abi] /\ ~(a.i < IntRegs[a.abi]))
      BY PlatformAssumption DEF ArgsOK
    <3> QED BY <2>4, <3>1, GoesPrimitives DEF dcbArg_mips64, Floats
  <2> QED BY <2>3, <2>4
<1> QED BY <1>7, <1>10, <1>11 DEF MipsFetch

(* A value that is also on the stack, and a float behind other counts. *)
LEMMA GoesBeside ==
  ASSUME NEW a, ArgsOK(a), NEW w
  PROVE  /\ LET r == FromInt(a) IN Goes(a, [r EXCEPT !.args.sp = @ + w].args)
         /\ a.f < FloatRegs[a.abi] => Goes(a, [[a EXCEPT !.f = a.f + 1] EXCEPT !.sp = a.sp + w])
<1>1. LET r == FromInt(a) IN Goes(a, [r EXCEPT !.args.sp = @ + w].args)
  <2> DEFINE b == FromInt(a).args
             v == FromInt(a).val
  <2>1. Goes(a, b)
    BY GoesPrimitives
  <2>2. FromInt(a) = [args |-> b, val |-> v]
    BY DEF FromInt, Fetched
  <2> HIDE DEF b, v
  <2>3. LET r == FromInt(a) IN [r EXCEPT !.args.sp = @ + w].args = [b EXCEPT !.sp = b.sp + w]
    BY <2>2
  <2>4. Goes(b, [b EXCEPT !.sp = b.sp + w])
    BY <2>1, GoesStack DEF Goes
  <2> QED BY <2>1, <2>3, <2>4, GoesOn
<1>2. ASSUME a.f < FloatRegs[a.abi] PROVE Goes(a, [[a EXCEPT !.f = a.f + 1] EXCEPT !.sp = a.sp + w])
  <2> DEFINE k == a.f + 1
             b == [a EXCEPT !.f = k]
             z == a.sp + w
  <2>1. k \in Nat /\ k <= FloatRegs[a.abi]
    BY <1>2, PlatformAssumption DEF ArgsOK
  <2> HIDE DEF k
  <2>2. Goes(a, b)
    BY <2>1, GoesFloat
  <2> HIDE DEF b, z
  <2>3. Goes(b, [b EXCEPT !.sp = z])
    BY <2>2, GoesStack DEF Goes
  <2>4. Goes(a, [b EXCEPT !.sp = z])
    BY <2>2, <2>3, GoesOn
  <2> QED BY <2>4 DEF b, k, z
<1> QED BY <1>1, <1>2

LEMMA GoesPpc ==
  ASSUME NEW a, ArgsOK(a), a.abi \in PpcABIs, NEW t \in AllTypes
  PROVE  Goes(a, PpcFetch(a, t).args)
<1>0. a.abi \notin X86ABIs /\ a.abi # "armhf" /\ IntRegs[a.abi] \in Nat
  BY PlatformAssumption DEF PpcABIs, X86ABIs, ArgsOK
<1>1. ASSUME NEW b, Goes(a, b) PROVE Goes(b, darwin_argInt(b).args)
  <2>1. ArgsOK(b)
    BY <1>1 DEF Goes
  <2> QED BY <2>1, GoesBeside, GoesPrimitives DEF darwin_argInt
<1>2. Goes(a, TwoWords(darwin_argInt, a).args)
  <2> DEFINE b == darwin_argInt(a).args
  <2>1. TwoWords(darwin_argInt, a).args = darwin_argInt(b).args
    BY DEF TwoWords, Fetched
  <2>2. Goes(a, b)
    BY <1>1, GoesSelf
  <2> HIDE DEF b
  <2>3. Goes(b, darwin_argInt(b).args)
    BY <1>1, <2>2
  <2> QED BY <2>1, <2>2, <2>3, GoesOn
<1>3. ASSUME NEW ints \in {1, 2}, NEW w PROVE Goes(a, darwin_argFloat(a, ints, w).args)
  <2> DEFINE k == IF a.i + ints < IntRegs[a.abi] THEN a.i + ints ELSE IntRegs[a.abi]
             b == [a EXCEPT !.i = k]
  <2>1. k \in Nat
    BY <1>0 DEF ArgsOK
  <2>2. Goes(a, b) /\ b.f = a.f /\ b.abi = a.abi /\ ArgsOK(b)
    <3> HIDE DEF k
    <3> QED BY <2>1, GoesInt DEF Goes
  <2>3. [a EXCEPT !.i = IF @ + ints < IntRegs[a.abi] THEN @ + ints ELSE IntRegs[a.abi]] = b
    BY <1>0 DEF ArgsOK, LooseArgs
  <2>4. darwin_argFloat(a, ints, w).args =
          IF b.f < FloatRegs[b.abi] THEN [b EXCEPT !.f = @ + 1, !.sp = @ + w] ELSE FromStack(b, w, w).args
    BY <2>3 DEF darwin_argFloat, Fetched
  <2> HIDE DEF b
  <2>5. [b EXCEPT !.f = @ + 1, !.sp = @ + w] = [[b EXCEPT !.f = b.f + 1] EXCEPT !.sp = b.sp + w]
    BY <1>0, <2>2 DEF ArgsOK, LooseArgs
  <2>6. b.f < FloatRegs[b.abi] => Goes(b, [b EXCEPT !.f = @ + 1, !.sp = @ + w])
    BY <2>2, <2>5, GoesBeside
  <2>7. Goes(b, FromStack(b, w, w).args)
    BY <2>2, GoesPrimitives
  <2> QED BY <2>2, <2>4, <2>6, <2>7, GoesOn
<1>4. Goes(a, dcbArg_ppc32_darwin(a, t).args)
  BY <1>1, <1>2, <1>3, GoesSelf DEF dcbArg_ppc32_darwin, AllTypes, IntTypes, Wide, Floats
<1>5. Goes(a, sysv_argLongLong(a).args)
  <2>1. CASE a.i < IntRegs[a.abi] - 1
    <3> DEFINE k == RoundUp(a.i, 2)
               b == [a EXCEPT !.i = k]
               m == k + 2
    <3>1. k \in Nat /\ m \in Nat
      <4>1. k \in Nat
        BY RoundUpTo DEF ArgsOK
      <4> HIDE DEF k
      <4> QED BY <4>1
    <3>2. [a EXCEPT !.i = RoundUp(@, 2)] = b
      BY <1>0 DEF ArgsOK, LooseArgs
    <3>3. b.i = k
      BY <1>0 DEF ArgsOK, LooseArgs
    <3>4. sysv_argLongLong(a).args = [b EXCEPT !.i = m]
      BY <2>1, <3>2, <3>3 DEF sysv_argLongLong, Fetched
    <3> HIDE DEF k, m
    <3>5. Goes(a, b)
      BY <3>1, GoesInt
    <3> HIDE DEF b
    <3>6. Goes(b, [b EXCEPT !.i = m])
      BY <3>1, <3>5, GoesInt DEF Goes
    <3> QED BY <3>4, <3>5, <3>6, GoesOn
  <2>2. CASE ~(a.i < IntRegs[a.abi] - 1)
    <3> DEFINE k == IntRegs[a.abi]
               b == [a EXCEPT !.i = k]
               c == AlignSP(b, 8)
    <3>1. sysv_argLongLong(a) = FromStack(c, 8, 8)
      BY <2>2 DEF sysv_argLongLong
    <3> HIDE DEF k
    <3>2. Goes(a, b)
      BY <1>0, GoesInt DEF k
    <3> HIDE DEF b
    <3>3. Goes(b, c)
      BY <3>2, GoesPrimitives DEF Goes
    <3> HIDE DEF c
    <3>4. Goes(c, FromStack(c, 8, 8).args)
      BY <3>3, GoesPrimitives DEF Goes
    <3>5. Goes(a, c)
      BY <3>2, <3>3, GoesOn
    <3> QED BY <3>1, <3>4, <3>5, GoesOn
  <2> QED BY <2>1, <2>2
<1>6. Goes(a, FromStack(AlignSP(a, 8), 8, 8).args)
  <2> DEFINE c == AlignSP(a, 8)
  <2>1. Goes(a, c)
    BY GoesPrimitives
  <2> HIDE DEF c
  <2>2. Goes(c, FromStack(c, 8, 8).args)
    BY <2>1, GoesPrimitives DEF Goes
  <2> QED BY <2>1, <2>2, GoesOn DEF c
<1>7. Goes(a, dcbArg_ppc32_sysv(a, t).args)
  <2>1. a.f < FloatRegs[a.abi] => Goes(a, LET r == FromFloat(a) IN [r EXCEPT !.val = Narrow(@)].args)
    <3> DEFINE r == FromFloat(a)
    <3>1. [r EXCEPT !.val = Narrow(@)].args = r.args
      BY DEF FromFloat, Fetched
    <3> QED BY <3>1, GoesFromFloat
  <2>2. a.i < IntRegs[a.abi] \/ (a.i >= IntRegs[a.abi] /\ ~(a.i < IntRegs[a.abi]))
    BY <1>0 DEF ArgsOK
  <2>3. CASE t \in IntTypes
    BY <2>2, <2>3, GoesPrimitives DEF dcbArg_ppc32_sysv, IntTypes
  <2>4. CASE t = "longlong"
    BY <1>5, <2>4 DEF dcbArg_ppc32_sysv, IntTypes
  <2>5. CASE t = "double"
    BY <1>6, <2>5, GoesFromFloat DEF dcbArg_ppc32_sysv, IntTypes
  <2>6. CASE t = "float" /\ a.f < FloatRegs[a.abi]
    BY <2>1, <2>6 DEF dcbArg_ppc32_sysv, IntTypes
  <2>7. CASE t = "float" /\ ~(a.f < FloatRegs[a.abi])
    BY <2>7, GoesPrimitives DEF dcbArg_ppc32_sysv, IntTypes
  <2> QED BY <2>3, <2>4, <2>5, <2>6, <2>7 DEF AllTypes, Wide, Floats
<1>8. Goes(a, ppc64_argFloat(a).args)
  <2> DEFINE k == IF a.i < IntRegs[a.abi] THEN a.i + 1 ELSE a.i
             b == [a EXCEPT !.i = k]
             z == [[b EXCEPT !.f = b.f + 1] EXCEPT !.sp = b.sp + 8]
  <2>1. k \in Nat
    BY <1>0 DEF ArgsOK
  <2>2. Goes(a, b) /\ b.f = a.f /\ b.abi = a.abi /\ ArgsOK(b)
    <3> HIDE DEF k
    <3> QED BY <2>1, GoesInt DEF Goes
  <2>3. [a EXCEPT !.f = @ + 1, !.sp = @ + 8, !.i = IF @ < IntRegs[a.abi] THEN @ + 1 ELSE @] = z
    BY <1>0 DEF ArgsOK, LooseArgs
  <2>4. ppc64_argFloat(a).args =
          IF a.f < FloatRegs[a.abi]
          THEN [a EXCEPT !.f = @ + 1, !.sp = @ + 8, !.i = IF @ < IntRegs[a.abi] THEN @ + 1 ELSE @]
          ELSE FromStack(a, 8, 8).args
    BY DEF ppc64_argFloat, Fetched
  <2> HIDE DEF b
  <2>5. b.f < FloatRegs[b.abi] => Goes(b, z)
    BY <2>2, GoesBeside
  <2> HIDE DEF z
  <2>6. a.f < FloatRegs[a.abi] => Goes(a, z)
    BY <2>2, <2>5, GoesOn
  <2>7. Goes(a, FromStack(a, 8, 8).args)
    BY GoesPrimitives
  <2> QED BY <2>3, <2>4, <2>6, <2>7
<1>9. Goes(a, dcbArg_ppc64(a, t).args)
  <2>1. Goes(a, LET r == ppc64_argFloat(a) IN [r EXCEPT !.val = Narrow(@)].args)
    <3> DEFINE r == ppc64_argFloat(a)
    <3>1. [r EXCEPT !.val = Narrow(@)].args = r.args
      BY DEF ppc64_argFloat, FromStack, Fetched
    <3> QED BY <1>8, <3>1
  <2>2. Goes(a, ppc64_argLongLong(a).args)
    BY GoesBeside, GoesPrimitives DEF ppc64_argLongLong
  <2>3. a.f < FloatRegs[a.abi] \/ (a.f >= FloatRegs[a.abi] /\ ~(a.f < FloatRegs[a.abi]))
    BY PlatformAssumption DEF ArgsOK
  <2>4. CASE t \notin Floats
    BY <2>2, <2>4 DEF dcbArg_ppc64, Floats
  <2>5. CASE t = "double"
    BY <1>8, <2>5 DEF dcbArg_ppc64, Floats
  <2>6. CASE t = "float"
    BY <1>8, <2>1, <2>3, <2>6 DEF dcbArg_ppc64, Floats
  <2> QED BY <2>4, <2>5, <2>6 DEF Floats
<1> QED BY <1>4, <1>7, <1>9 DEF PpcFetch

LEMMA GoesAll ==
  ASSUME NEW a, ArgsOK(a), NEW t \in AllTypes,
         a.abi \in X86ABIs => a.vt \in {"default", "this_ms", "fast_ms", "fast_gnu"}
  PROVE  Goes(a, dcbArg(a, t).args)
<1>1. a.abi \in ABIs
  BY DEF ArgsOK
<1>2. CASE a.abi \in ArmABIs BY <1>2, ArmFamily, GoesArm
<1>3. CASE a.abi \in MipsABIs BY <1>3, MipsFamily, GoesMips
<1>4. CASE a.abi \in PpcABIs BY <1>4, PpcFamily, GoesPpc
<1>5. CASE a.abi \in SparcABIs BY <1>5, SparcFamily, GoesSparc
<1>6. CASE a.abi \in X86ABIs BY <1>6, X86Family, GoesX86
<1> QED BY <1>1, <1>2, <1>3, <1>4, <1>5, <1>6, Family

LEMMA FamilyMode ==
  ASSUME NEW abi \in X86ABIs, NEW w \in KnownModes(abi), w # "SYS"
  PROVE  CallbackOf(abi, w) \in {"default", "this_ms", "fast_ms", "fast_gnu"}
<1>1. w \in X86Ways
  BY X86Tables DEF Ways
<1> QED BY <1>1 DEF X86Ways, CallbackOf

(* The target stays within the registers, whatever the types. *)
LEMMA GoesTarget ==
  ASSUME NEW a, ArgsOK(a), NEW c, NEW k, c.bound[k] \in AllTypes,
         a.abi \in X86ABIs /\ c.mode # "SYS" => a.vt \in {"default", "this_ms", "fast_ms", "fast_gnu"}
  PROVE  Goes(a, TargetFetch(a, c, k).args)
<1> DEFINE t == c.bound[k]
<1>1. t \in AllTypes /\ AsInteger(t) \in AllTypes
  BY DEF AsInteger, AllTypes, IntTypes, Wide, Floats
<1>2. CASE c.mode = "SYS"
  BY <1>2, GoesPrimitives DEF TargetFetch, CEllipsis
<1>3. CASE c.mode # "SYS"
  <2>1. Goes(a, dcbArg(a, t).args) /\ Goes(a, dcbArg(a, AsInteger(t)).args)
    BY <1>1, <1>3, GoesAll
  <2>2. Goes(a, va_arg(a, t).args)
    <3>1. CASE a.abi = "arm64_apple"
      <4> DEFINE b == AlignSP(a, 8)
      <4>1. Goes(a, b)
        BY GoesPrimitives
      <4>2. va_arg(a, t) = FromStack(b, 8, 8)
        BY <3>1 DEF va_arg, VariadicAsIntegers, MipsABIs, MipsO32, MipsN64
      <4> HIDE DEF b
      <4>3. Goes(b, FromStack(b, 8, 8).args)
        BY <4>1, GoesPrimitives DEF Goes
      <4> QED BY <4>1, <4>2, <4>3, GoesOn
    <3>2. CASE a.abi # "arm64_apple"
      BY <2>1, <3>2 DEF va_arg
    <3> QED BY <3>1, <3>2
  <2> DEFINE e == c.mode \in CEllipsis
             i == a.abi \in AllAsIntegers
             y == IsVariadic(c, k)
  <2>3. TargetFetch(a, c, k) =
          CASE e /\ i -> dcbArg(a, AsInteger(t)) [] e /\ ~i /\ y -> va_arg(a, t) [] OTHER -> dcbArg(a, t)
    BY <1>3, Zenon DEF TargetFetch
  <2> HIDE DEF t, e, i, y
  <2> QED BY <2>1, <2>2, <2>3
<1> QED BY <1>2, <1>3

-----------------------------------------------------------------------------
(* The invariant of the CallVM's state.                                    *)

Phases == {"new", "binding", "running", "returned", "fault"}

(* The way in which the next argument is bound. *)
Now(c) == IF c.named = AllNamed THEN c.mode ELSE "VARARGS"

CallOK ==
  /\ call \in [phase : Phases, mode : KnownModes(ABI), reset : {call.reset}, bound : Seq(AllTypes),
               named : Nat]
  /\ call.named # AllNamed => call.mode = "ELLIPSIS" /\ call.named <= Len(call.bound)
  /\ call.named = AllNamed \/ call.phase # "new"
  /\ Len(call.bound) <= ArgsAllowed /\ (call.phase = "new" => call.bound = <<>>)
  /\ \A k \in 1 .. Len(call.bound) : call.bound[k] \in TypesOf(Way(call, k))

VMOK ==
  /\ IsVM(vm) /\ Within(vm) /\ vm.err = "NONE"
  /\ vm.vt = ModeTable(ABI, Now(call))
  /\ ABI \notin X86ABIs => call.reset = vm.vt.reset

(* Each argument takes eight bytes at most, behind what a convention may   *)
(* reserve.                                                                *)
Filled == Len(vm.vec) <= 16 + 8 * IntRegs[ABI] + 8 * Len(call.bound)

(* What the kernels of x86 take from the vector is in it. *)
Stocked ==
  ABI \in X86ABIs /\ call.phase = "binding" =>
    /\ call.reset = "fast" => Len(vm.vec) >= 8
    /\ vm.vt.call = "this_ms" /\ call.bound # <<>> => Len(vm.vec) >= 4

IsSeq(g) == \E S : g \in Seq(S)

CalleeOK ==
  /\ IsSeq(got) /\ Len(got) <= Len(call.bound) /\ (call.phase \in {"new", "binding"} => got = <<>>)
  /\ call.phase = "running" =>
       /\ ArgsOK(callee) /\ callee.abi = ABI
       /\ ABI \in X86ABIs => callee.vt = CallbackOf(ABI, call.mode)

Typed == CallOK /\ VMOK /\ Filled /\ CalleeOK

LEMMA RoomForArg ==
  ASSUME CallOK, VMOK, Filled
  PROVE  /\ Len(vm.vec) <= VecTotal /\ Len(vm.vec) \in Nat
         /\ Len(call.bound) < ArgsAllowed => Room(vm)
<1> DEFINE n == ArgsAllowed
           r == IntRegs[ABI]
           b == Len(call.bound)
           m == Len(vm.vec)
<1>1. n \in {MaxArgs, MaxVariadic, SysArgs} /\ n \in Nat
  BY ConventionAssumption DEF ArgsAllowed, SysArgs
<1>2. ABI \in ABIs /\ r \in Nat /\ m \in Nat /\ b \in Nat /\ b <= n
  BY LenVec DEF VMOK, CallOK, ABI
<1>3. 16 + 8 * r + 8 * n <= VecTotal
  BY <1>1, <1>2, RoomAssumption DEF ABI
<1>4. m <= 16 + 8 * r + 8 * b
  BY DEF Filled
<1>5. VecTotal \in Nat
  BY PlatformAssumption
<1>6. RoundUp(m, 8) <= 16 + 8 * r + 8 * b /\ RoundUp(m, 8) \in Nat
  <2> HIDE DEF m, r, b
  <2>1. /\ RoundUp(m, 8) \in Nat /\ RoundUp(m, 8) < m + 8 /\ RoundUp(m, 8) % 8 = 0
    BY <1>2, RoundUpTo
  <2> DEFINE q == RoundUp(m, 8)
  <2> HIDE DEF q
  <2>2. q \in Nat /\ q < m + 8 /\ q % 8 = 0
    BY <2>1 DEF q
  <2>3. q <= 16 + 8 * r + 8 * b
    BY <1>2, <1>4, <2>2
  <2> QED BY <2>2, <2>3 DEF q
<1>7. b < n => Room(vm)
  <2> DEFINE q == RoundUp(m, 8)
  <2>1. q <= 16 + 8 * r + 8 * b /\ q \in Nat
    BY <1>6
  <2> HIDE DEF n, r, b, q
  <2>2. b < n => q + 8 <= VecTotal /\ 8 * r + 8 <= VecTotal
    BY <1>1, <1>2, <1>3, <1>5, <2>1
  <2> QED BY <2>2 DEF Room, q, r, m, ABI
<1>8. m <= VecTotal
  <2> HIDE DEF n, r, b, m
  <2> QED BY <1>1, <1>2, <1>3, <1>4, <1>5
<1> QED BY <1>2, <1>7, <1>8

LEMMA NotVarargs ==
  ASSUME NEW abi \in ABIs
  PROVE  "VARARGS" \notin KnownModes(abi)
<1>1. abi \in ArmABIs => "VARARGS" \notin OwnModes(abi)
  BY DEF OwnModes, ArmABIs, Arm32, Arm64, MipsO32, MipsN64
<1>2. abi \in MipsABIs => "VARARGS" \notin OwnModes(abi)
  BY DEF OwnModes, MipsABIs, Arm64, MipsO32, MipsN64
<1>3. abi \in PpcABIs \cup SparcABIs \cup X86ABIs => "VARARGS" \notin OwnModes(abi)
  BY DEF OwnModes, PpcABIs, SparcABIs, X86ABIs, Arm64, MipsO32, MipsN64
<1> QED BY <1>1, <1>2, <1>3, Family DEF KnownModes

LEMMA NowWay ==
  ASSUME CallOK, ABI \in ABIs
  PROVE  Now(call) \in Ways(ABI) /\ call.mode \in Ways(ABI) /\ call.mode # "VARARGS"
<1>1. "VARARGS" \notin KnownModes(ABI)
  BY NotVarargs
<1> QED BY <1>1 DEF CallOK, Now, Ways

-----------------------------------------------------------------------------
(* The invariant is inductive.                                             *)
LEMMA NewCallFields ==
  ASSUME NEW mode, NEW reset
  PROVE  LET c == NewCall(mode, reset) IN
           /\ c.phase = "new" /\ c.mode = mode /\ c.reset = reset /\ c.bound = <<>> /\ c.named = AllNamed
           /\ c = [phase |-> "new", mode |-> mode, reset |-> reset, bound |-> <<>>, named |-> AllNamed]
BY DEF NewCall

LEMMA AllNamedNat == AllNamed \in Nat /\ MaxArgs < AllNamed /\ MaxVariadic < AllNamed
BY ConventionAssumption DEF AllNamed

LEMMA NoArguments ==
  <<>> \in Seq(AllTypes) /\ Len(<<>>) = 0 /\ IsSeq(<<>>)
<1>1. <<>> \in Seq(AllTypes)
  OBVIOUS
<1> QED BY <1>1 DEF IsSeq

LEMMA ArgsAllowedNat == ArgsAllowed \in Nat
BY ConventionAssumption DEF ArgsAllowed, SysArgs

(* A call that has not begun. *)
LEMMA CallBegins ==
  ASSUME ArgsAllowed' \in Nat, NEW mode \in KnownModes(ABI'), NEW phase \in {"new", "binding"}, NEW reset,
         call' = [NewCall(mode, reset) EXCEPT !.phase = phase]
  PROVE  /\ CallOK' /\ call'.phase = phase /\ call'.mode = mode /\ call'.bound = <<>> /\ call'.reset = reset
         /\ Now(call') = mode /\ call'.named = AllNamed
<1>1. call' = [phase |-> phase, mode |-> mode, reset |-> reset, bound |-> <<>>, named |-> AllNamed]
  BY DEF NewCall
<1>2. /\ call'.phase = phase /\ call'.mode = mode /\ call'.bound = <<>> /\ call'.reset = reset
      /\ call'.named = AllNamed
  BY <1>1
<1>3. call' \in [phase : Phases, mode : KnownModes(ABI'), reset : {call'.reset}, bound : Seq(AllTypes),
                 named : Nat]
  <2>1. phase \in Phases /\ AllNamed \in Nat /\ <<>> \in Seq(AllTypes)
    BY AllNamedNat, NoArguments DEF Phases
  <2> QED BY <1>1, <1>2, <2>1
<1>4. Len(call'.bound) <= ArgsAllowed'
  BY <1>2, NoArguments
<1>5. \A k \in 1 .. Len(call'.bound) : call'.bound[k] \in TypesOf(Way(call', k))
  BY <1>2, NoArguments
<1>6. CallOK'
  BY <1>2, <1>3, <1>4, <1>5 DEF CallOK
<1>7. Now(call') = mode
  BY <1>2 DEF Now
<1> QED BY <1>2, <1>6, <1>7

LEMMA RoomAtStart ==
  ASSUME NEW r \in Nat, NEW m \in {0, 8, 16}, NEW b, b = 0
  PROVE  m <= 16 + 8 * r + 8 * b
OBVIOUS

LEMMA TypedInit ==
  ASSUME Init
  PROVE  Typed /\ Stocked
<1>1. PICK abi \in ABIs : vm = dcNewCallVM(abi)
  BY DEF Init
<1> DEFINE vt == ModeTable(abi, "DEFAULT")
           s  == Blank(abi, vt)
<1>2. "DEFAULT" \in KnownModes(abi) /\ "DEFAULT" \in Ways(abi)
  BY DEF KnownModes, Ways
<1>3. TableOK(abi, vt) /\ vt \in VT
  BY <1>2, Tables DEF TableOK
<1> HIDE DEF vt
<1>4. IsVM(s) /\ s.abi = abi /\ s.vt = vt /\ s.err = "NONE"
  BY <1>3, BlankVM
<1>5. vm = Reset(s)
  BY <1>1 DEF dcNewCallVM, vt
<1> HIDE DEF s
<1>6. Fresh(vm) /\ Within(vm) /\ vm.abi = abi /\ vm.vt = vt /\ vm.err = "NONE" /\ IsVM(vm)
  BY <1>3, <1>4, <1>5, ResetVM
<1>7. call = NewCall("DEFAULT", vm.vt.reset)
  BY DEF Init
<1>8. /\ call.phase = "new" /\ call.mode = "DEFAULT" /\ call.reset = vm.vt.reset /\ call.bound = <<>>
      /\ call.named = AllNamed /\ call = [phase |-> "new", mode |-> "DEFAULT", reset |-> vm.vt.reset,
                                          bound |-> <<>>, named |-> AllNamed]
  BY <1>7, NewCallFields
<1>9. CallOK
  <2>1. call \in [phase : Phases, mode : KnownModes(ABI), reset : {call.reset}, bound : Seq(AllTypes),
                  named : Nat]
    BY <1>2, <1>6, <1>8, AllNamedNat, NoArguments DEF Phases, ABI
  <2>2. Len(call.bound) <= ArgsAllowed
    BY <1>8, NoArguments, ArgsAllowedNat
  <2>3. \A k \in 1 .. Len(call.bound) : call.bound[k] \in TypesOf(Way(call, k))
    BY <1>8, NoArguments
  <2> QED BY <1>8, <2>1, <2>2, <2>3 DEF CallOK
<1>10. VMOK
  BY <1>6, <1>8 DEF VMOK, Now, ABI, vt
<1>11. Filled
  <2>1. Len(vm.vec) \in {0, 8, 16}
    BY <1>6 DEF Fresh, Reserved
  <2>2. IntRegs[abi] \in Nat /\ Len(call.bound) = 0
    BY <1>8, PlatformAssumption, NoArguments
  <2> QED BY <1>6, <2>1, <2>2, RoomAtStart DEF Filled, ABI
<1>12. CalleeOK /\ Stocked
  BY <1>8, NoArguments DEF Init, CalleeOK, Stocked
<1> QED BY <1>9, <1>10, <1>11, <1>12 DEF Typed

LEMMA TypedMode ==
  ASSUME Typed, NEW mode \in Modes[ABI], dcMode(mode)
  PROVE  Typed' /\ Stocked'
<1> DEFINE vt == ModeTable(ABI, mode)
<1>1. ABI \in ABIs /\ mode \in KnownModes(ABI) /\ mode \in Ways(ABI)
  BY ConventionAssumption, LenVec DEF Typed, VMOK, ABI, Ways
<1>2. TableOK(ABI, vt) /\ TableOK(ABI, vm.vt)
  BY <1>1, Tables, NowWay DEF Typed, VMOK
<1> HIDE DEF vt
<1>3. vm' = SetVT(vm, vt)
  BY DEF dcMode, vt
<1>4. /\ IsVM(vm') /\ vm'.abi = vm.abi /\ vm'.vt = vt /\ vm'.err = "NONE" /\ vm'.vec = vm.vec /\ Within(vm')
  BY <1>2, <1>3, SetTable DEF Typed, VMOK, ABI
<1>5. ABI' = ABI
  BY <1>4 DEF ABI
<1>6. CallOK' /\ call'.phase = "new" /\ call'.bound = <<>> /\ call'.reset = call.reset /\ Now(call') = mode
  <2>1. call' = [NewCall(mode, call.reset) EXCEPT !.phase = "new"]
    BY DEF dcMode, NewCall
  <2>2. ArgsAllowed' \in Nat
    BY ConventionAssumption DEF ArgsAllowed, SysArgs
  <2> QED BY <1>1, <1>5, <2>1, <2>2, CallBegins
<1>7. VMOK'
  <2>1. ABI \notin X86ABIs => call.reset = vt.reset
    BY <1>2 DEF Typed, VMOK, TableOK
  <2> QED BY <1>4, <1>5, <1>6, <2>1 DEF VMOK, vt
<1>8. Filled'
  BY <1>4, <1>5, <1>6 DEF Typed, Filled, CallOK, dcMode
<1>9. CalleeOK' /\ Stocked'
  BY <1>6 DEF Typed, CalleeOK, dcMode, Stocked
<1> QED BY <1>6, <1>7, <1>8, <1>9 DEF Typed

LEMMA TypedReset ==
  ASSUME Typed, dcReset
  PROVE  Typed' /\ Stocked' /\ Fresh(vm') /\ image' = NoImage /\ call'.bound = <<>> /\ call'.phase = "binding"
           /\ call'.mode = call.mode /\ call'.named = AllNamed /\ call'.reset = vm'.vt.reset
<1>1. ABI \in ABIs /\ IsVM(vm)
  BY LenVec DEF Typed, VMOK, ABI
<1>2. TableOK(ABI, vm.vt)
  BY <1>1, Tables, NowWay DEF Typed, VMOK
<1>3. vm' = Reset(vm)
  BY DEF dcReset
<1>4. Fresh(vm') /\ Within(vm') /\ vm'.abi = vm.abi /\ vm'.vt = vm.vt /\ vm'.err = vm.err /\ IsVM(vm')
  BY <1>1, <1>2, <1>3, ResetVM DEF ABI
<1>5. ABI' = ABI
  BY <1>4 DEF ABI
<1>6. CallOK' /\ call'.phase = "binding" /\ call'.bound = <<>> /\ call'.reset = vm.vt.reset
        /\ Now(call') = call.mode /\ call'.mode = call.mode /\ call'.named = AllNamed
  <2>1. call' = [NewCall(call.mode, vm.vt.reset) EXCEPT !.phase = "binding"]
    BY DEF dcReset
  <2>2. ArgsAllowed' \in Nat
    BY ConventionAssumption DEF ArgsAllowed, SysArgs
  <2>3. call.mode \in KnownModes(ABI')
    BY <1>5 DEF Typed, CallOK
  <2> QED BY <2>1, <2>2, <2>3, CallBegins
<1>7. VMOK'
  BY <1>4, <1>5, <1>6 DEF VMOK, dcReset, Typed
<1>8. Filled' /\ Stocked'
  <2>1. Len(vm'.vec) \in {0, 8, 16} /\ (vm'.vt.reset = "fast" => Len(vm'.vec) = 8)
    BY <1>4 DEF Fresh, Reserved
  <2>2. IntRegs[ABI'] \in Nat /\ Len(call'.bound) = 0
    BY <1>1, <1>5, <1>6, PlatformAssumption, NoArguments
  <2>4. Filled'
    BY <2>1, <2>2, RoomAtStart DEF Filled
  <2>5. Stocked'
    <3> DEFINE m == Len(vm'.vec)
    <3>1. call'.reset = "fast" => m = 8
      BY <1>4, <1>6, <2>1
    <3> HIDE DEF m
    <3>2. call'.reset = "fast" => m >= 8
      BY <3>1
    <3> QED BY <1>6, <3>2 DEF Stocked, m
  <2> QED BY <2>4, <2>5
<1>9. CalleeOK'
  BY <1>6, NoArguments DEF CalleeOK, dcReset
<1> QED BY <1>4, <1>6, <1>7, <1>8, <1>9 DEF Typed, dcReset

-----------------------------------------------------------------------------
(* A thiscall table is a method's. *)
LEMMA ThisTable ==
  ASSUME NEW abi \in X86ABIs, NEW w \in Ways(abi), ModeTable(abi, w).call = "this_ms"
  PROVE  IsThisCall(w)
<1>1. w \in X86Ways /\ ModeTable(abi, w) = mode_x86(abi, w)
  BY X86Family, X86Tables
<1> QED BY <1>1 DEF X86Ways, IsThisCall, mode_x86, gVT_x86_cdecl, gVT_x86_win32_std,
     gVT_x86_win32_fast_ms, gVT_x86_win32_fast_gnu, gVT_x86_win32_this_ms,
     gVT_x86_syscall_int80h_linux, gVT_x86_syscall_int80h_bsd, NoVT, CEllipsis

LEMMA TypedHandleMode ==
  ASSUME Typed, Stocked, NEW mode \in Modes[ABI], handle_mode(mode)
  PROVE  Typed' /\ Stocked'
<1> DEFINE vt == ModeTable(ABI, mode)
<1>1. ABI \in ABIs /\ mode \in KnownModes(ABI) /\ mode \in Ways(ABI)
  BY ConventionAssumption, LenVec DEF Typed, VMOK, ABI, Ways
<1>2. TableOK(ABI, vt) /\ TableOK(ABI, vm.vt)
  BY <1>1, Tables, NowWay DEF Typed, VMOK
<1>3. vm' = SetVT(vm, vt)
  BY DEF handle_mode
<1> HIDE DEF vt
<1>4. /\ IsVM(vm') /\ vm'.abi = vm.abi /\ vm'.vt = vt /\ vm'.err = "NONE" /\ vm'.vec = vm.vec /\ Within(vm')
  BY <1>2, <1>3, SetTable DEF Typed, VMOK, ABI
<1>5. ABI' = ABI
  BY <1>4 DEF ABI
<1>6. /\ call.bound = <<>> /\ call.mode = "DEFAULT" /\ call.phase = "binding" /\ call.named = AllNamed
  BY DEF handle_mode, Typed, CallOK
<1>7. /\ call' = [phase |-> "binding", mode |-> mode, reset |-> call.reset, bound |-> <<>>, named |-> AllNamed]
  BY <1>6 DEF handle_mode, Typed, CallOK
<1>8. CallOK' /\ call'.phase = "binding" /\ call'.bound = <<>> /\ call'.reset = call.reset /\ Now(call') = mode
  <2>1. call' = [NewCall(mode, call.reset) EXCEPT !.phase = "binding"]
    BY <1>7 DEF NewCall
  <2>2. ArgsAllowed' \in Nat
    BY ConventionAssumption DEF ArgsAllowed, SysArgs
  <2> QED BY <1>1, <1>5, <2>1, <2>2, CallBegins
<1>9. VMOK'
  <2>1. ABI \notin X86ABIs => call.reset = vt.reset
    BY <1>2 DEF Typed, VMOK, TableOK
  <2> QED BY <1>4, <1>5, <1>8, <2>1 DEF VMOK, vt
<1>10. Filled'
  BY <1>4, <1>5, <1>6, <1>8 DEF Typed, Filled
<1>11. CalleeOK'
  BY <1>6, <1>8 DEF Typed, CalleeOK, handle_mode
<1>12. Stocked'
  BY <1>4, <1>5, <1>6, <1>8 DEF Stocked
<1> QED BY <1>8, <1>9, <1>10, <1>11, <1>12 DEF Typed

LEMMA CallSeq ==
  ASSUME CallOK
  PROVE  /\ call.bound \in Seq(AllTypes) /\ Len(call.bound) \in Nat /\ call.mode \in KnownModes(ABI)
         /\ call.named \in Nat /\ call.phase \in Phases
BY DEF CallOK

(* A call of a variadic function is bound as such from the switch on. *)
LEMMA NowIsWay ==
  ASSUME CallOK, NEW k \in Nat, k = Len(call.bound) + 1, k <= ArgsAllowed
  PROVE  Way(call, k) = Now(call)
<1>1. Len(call.bound) \in Nat /\ call.named \in Nat
  BY CallSeq
<1>2. CASE call.mode # "ELLIPSIS"
  BY <1>2 DEF Way, Now, CallOK
<1>3. CASE call.mode = "ELLIPSIS" /\ call.named = AllNamed
  <2>1. ArgsAllowed = MaxVariadic
    BY <1>3 DEF ArgsAllowed
  <2>2. ~(k > call.named)
    BY <1>1, <1>3, <2>1, AllNamedNat, ConventionAssumption
  <2> QED BY <1>3, <2>2 DEF Way, Now, IsVariadic
<1>4. CASE call.mode = "ELLIPSIS" /\ call.named # AllNamed
  <2>1. k > call.named
    BY <1>1, <1>4 DEF CallOK
  <2> QED BY <1>4, <2>1 DEF Way, Now, IsVariadic
<1> QED BY <1>2, <1>3, <1>4

LEMMA SwitchWays ==
  ASSUME CallOK, call.mode = "ELLIPSIS", call.named = AllNamed,
         call' = [call EXCEPT !.named = Len(call.bound)]
  PROVE  /\ call'.phase = call.phase /\ call'.mode = call.mode /\ call'.reset = call.reset
         /\ call'.bound = call.bound /\ call'.named = Len(call.bound) /\ call'.named # AllNamed
         /\ \A k \in 1 .. Len(call.bound) : Way(call', k) = "ELLIPSIS" /\ Way(call, k) = "ELLIPSIS"
<1>1. Len(call.bound) \in Nat /\ call.named \in Nat
  BY CallSeq
<1>2. /\ call'.phase = call.phase /\ call'.mode = call.mode /\ call'.reset = call.reset
      /\ call'.bound = call.bound /\ call'.named = Len(call.bound)
  BY DEF CallOK
<1>3. Len(call.bound) <= MaxVariadic
  BY DEF CallOK, ArgsAllowed
<1>4. call'.named # AllNamed
  BY <1>1, <1>2, <1>3, AllNamedNat, ConventionAssumption
<1>5. ASSUME NEW k \in 1 .. Len(call.bound)
      PROVE  Way(call', k) = "ELLIPSIS" /\ Way(call, k) = "ELLIPSIS"
  <2>1. ~(k > call'.named) /\ ~(k > call.named)
    BY <1>1, <1>2, <1>3, AllNamedNat, ConventionAssumption
  <2> QED BY <1>2, <2>1 DEF Way, IsVariadic
<1> QED BY <1>2, <1>4, <1>5

LEMMA TypedVarargs ==
  ASSUME Typed, Stocked, dcModeVarargs
  PROVE  Typed' /\ Stocked'
<1> DEFINE vt == ModeTable(ABI, "VARARGS")
<1>1. ABI \in ABIs /\ "VARARGS" \in Ways(ABI)
  BY LenVec DEF Typed, VMOK, ABI, Ways
<1>2. TableOK(ABI, vt) /\ TableOK(ABI, vm.vt)
  BY <1>1, Tables, NowWay DEF Typed, VMOK
<1>3. vm' = SetVT(vm, vt)
  BY DEF dcModeVarargs
<1>a. ABI \in X86ABIs => vt.call # "this_ms"
  BY <1>1, ThisTable DEF IsThisCall
<1> HIDE DEF vt
<1>4. /\ IsVM(vm') /\ vm'.abi = vm.abi /\ vm'.vt = vt /\ vm'.err = "NONE" /\ vm'.vec = vm.vec /\ Within(vm')
  BY <1>2, <1>3, SetTable DEF Typed, VMOK, ABI
<1>5. ABI' = ABI
  BY <1>4 DEF ABI
<1>6. /\ call'.phase = call.phase /\ call'.mode = call.mode /\ call'.reset = call.reset
      /\ call'.bound = call.bound /\ call'.named = Len(call.bound) /\ call'.named # AllNamed
      /\ \A k \in 1 .. Len(call.bound) : Way(call', k) = "ELLIPSIS" /\ Way(call, k) = "ELLIPSIS"
  <2>1. call' = [call EXCEPT !.named = Len(call.bound)]
    BY DEF dcModeVarargs
  <2> QED BY <2>1, SwitchWays DEF dcModeVarargs, Typed
<1>7. CallOK'
  <2>1. Len(call.bound) \in Nat
    BY CallSeq DEF Typed
  <2>2. call' \in [phase : Phases, mode : KnownModes(ABI'), reset : {call'.reset}, bound : Seq(AllTypes),
                   named : Nat]
    BY <1>5, <1>6, <2>1 DEF Typed, CallOK, dcModeVarargs
  <2>3. ArgsAllowed' = ArgsAllowed
    BY <1>6 DEF ArgsAllowed
  <2>4. \A k \in 1 .. Len(call'.bound) : call'.bound[k] \in TypesOf(Way(call', k))
    BY <1>6 DEF Typed, CallOK
  <2>5. call'.named <= Len(call'.bound) /\ call'.mode = "ELLIPSIS" /\ call'.phase = "binding"
    BY <1>6, <2>1 DEF dcModeVarargs
  <2>6. Len(call'.bound) <= ArgsAllowed'
    BY <1>6, <2>3 DEF Typed, CallOK
  <2> QED BY <2>2, <2>4, <2>5, <2>6 DEF CallOK
<1>8. VMOK'
  <2>1. ABI \notin X86ABIs => call.reset = vt.reset
    BY <1>2 DEF Typed, VMOK, TableOK
  <2>2. Now(call') = "VARARGS"
    BY <1>6 DEF Now
  <2> QED BY <1>4, <1>5, <1>6, <2>1, <2>2 DEF VMOK, vt
<1>9. Filled'
  BY <1>4, <1>5, <1>6 DEF Typed, Filled
<1>10. CalleeOK'
  BY <1>5, <1>6 DEF Typed, CalleeOK, dcModeVarargs
<1>11. Stocked'
  BY <1>a, <1>4, <1>5, <1>6 DEF Stocked
<1> QED BY <1>7, <1>8, <1>9, <1>10, <1>11 DEF Typed

LEMMA BindableIsOf ==
  ASSUME CallOK, ABI \in ABIs, NEW t \in BindableTypes
  PROVE  t \in TypesOf(Now(call))
<1>1. "pointer" \in AllTypes /\ Types \subseteq AllTypes /\ "char" \in {"char"}
  BY ConventionAssumption DEF AllTypes, IntTypes
<1>2. CASE call.named # AllNamed
  <2>1. call.mode = "ELLIPSIS" /\ Now(call) = "VARARGS"
    BY <1>2 DEF CallOK, Now
  <2>2. t \in Types \ {"float"}
    BY <1>2, <2>1 DEF BindableTypes, IsThisCall
  <2> QED BY <1>1, <2>1, <2>2 DEF TypesOf
<1>3. CASE call.named = AllNamed /\ call.mode = "SYS"
  BY <1>3 DEF BindableTypes, IsThisCall, TypesOf, Now
<1>4. CASE call.named = AllNamed /\ call.mode # "SYS"
  <2>1. t \in AllTypes
    BY <1>1, <1>4 DEF BindableTypes
  <2>2. Now(call) = call.mode /\ call.mode # "VARARGS"
    BY <1>4, NowWay DEF Now
  <2> QED BY <1>4, <2>1, <2>2 DEF TypesOf
<1> QED BY <1>2, <1>3, <1>4

LEMMA FilledMore ==
  ASSUME NEW r \in Nat, NEW b \in Nat, NEW m \in Nat, NEW n \in Nat,
         m <= 16 + 8 * r + 8 * b, n <= RoundUp(m, 8) + 8 \/ n <= 8 * r + 8
  PROVE  n <= 16 + 8 * r + 8 * (b + 1)
<1> DEFINE q == RoundUp(m, 8)
<1>1. q \in Nat /\ q < m + 8 /\ q % 8 = 0
  BY RoundUpTo
<1>2. n <= q + 8 \/ n <= 8 * r + 8
  OBVIOUS
<1> HIDE DEF q
<1>3. q <= 16 + 8 * r + 8 * b
  BY <1>1
<1> QED BY <1>1, <1>2, <1>3

LEMMA OneMore ==
  ASSUME CallOK, NEW t \in AllTypes, call' = [call EXCEPT !.bound = Append(@, t)],
         call.phase = "binding"
  PROVE  LET n == Len(call.bound) IN
         /\ call'.phase = "binding" /\ call'.mode = call.mode /\ call'.reset = call.reset
         /\ call'.named = call.named /\ call'.bound \in Seq(AllTypes) /\ Len(call'.bound) = n + 1
         /\ \A k \in 1 .. n : call'.bound[k] = call.bound[k]
         /\ call'.bound[n + 1] = t /\ call'.bound # <<>> /\ n \in Nat
         /\ 1 .. n + 1 = 1 .. n \cup {n + 1}
         /\ \A k : Way(call', k) = Way(call, k)
         /\ call' \in [phase : Phases, mode : KnownModes(ABI), reset : {call.reset}, bound : Seq(AllTypes),
                       named : Nat]
<1> DEFINE n == Len(call.bound)
<1>1. call.bound \in Seq(AllTypes) /\ n \in Nat
  BY CallSeq
<1>2. /\ call'.phase = "binding" /\ call'.mode = call.mode /\ call'.reset = call.reset
      /\ call'.named = call.named /\ call'.bound = Append(call.bound, t)
  BY DEF CallOK
<1>3. /\ call'.bound \in Seq(AllTypes) /\ Len(call'.bound) = n + 1 /\ call'.bound[n + 1] = t
      /\ \A k \in 1 .. n : call'.bound[k] = call.bound[k]
  BY <1>1, <1>2
<1>4. 1 .. n + 1 = 1 .. n \cup {n + 1}
  <2> HIDE DEF n
  <2> QED BY <1>1
<1>5. \A k : Way(call', k) = Way(call, k)
  BY <1>2 DEF Way, IsVariadic
<1>6. call' \in [phase : Phases, mode : KnownModes(ABI), reset : {call.reset}, bound : Seq(AllTypes),
                 named : Nat]
  BY <1>2, <1>3 DEF CallOK
<1>7. call'.bound # <<>>
  <2>1. Len(call'.bound) # 0
    <3>1. n + 1 # 0
      BY <1>1
    <3> QED BY <1>3, <3>1
  <2> QED BY <2>1, NoArguments
<1> QED BY <1>1, <1>2, <1>3, <1>4, <1>5, <1>6, <1>7

LEMMA TypedArg ==
  ASSUME Typed, Stocked, NEW t, dcArg(t)
  PROVE  /\ Typed' /\ Stocked' /\ ABI' = ABI /\ vm'.vt = vm.vt /\ Stays(vm, vm')
<1> DEFINE n == Len(call.bound)
           w == Now(call)
<1>1. /\ ABI \in ABIs /\ IsVM(vm) /\ Within(vm) /\ vm.vt = ModeTable(ABI, w) /\ vm.err = "NONE"
      /\ w \in Ways(ABI) /\ TableOK(ABI, vm.vt)
  BY LenVec, NowWay, Tables DEF Typed, VMOK, ABI
<1>2. /\ t \in BindableTypes /\ n < ArgsAllowed /\ call.phase = "binding"
      /\ vm' = BindArg(vm, t, Value(n + 1, SizeOf(ABI, t)))
      /\ call' = [call EXCEPT !.bound = Append(@, t)]
  BY DEF dcArg
<1>3. t \in TypesOf(w) /\ t \in AllTypes
  BY <1>1, <1>2, BindableIsOf, WaysTypes DEF Typed
<1>4. n \in Nat /\ n + 1 \in Nat /\ n + 1 > 0 /\ n + 1 <= ArgsAllowed
  <2>1. n \in Nat /\ ArgsAllowed \in Nat
    BY CallSeq, ArgsAllowedNat DEF Typed
  <2> HIDE DEF n
  <2> QED BY <1>2, <2>1
<1>5. Way(call, n + 1) = w
  BY <1>4, NowIsWay DEF Typed
<1>6. /\ call'.phase = "binding" /\ call'.mode = call.mode /\ call'.reset = call.reset
      /\ call'.named = call.named /\ call'.bound \in Seq(AllTypes) /\ Len(call'.bound) = n + 1
      /\ \A k \in 1 .. n : call'.bound[k] = call.bound[k]
      /\ call'.bound[n + 1] = t /\ call'.bound # <<>>
      /\ 1 .. n + 1 = 1 .. n \cup {n + 1}
      /\ \A k : Way(call', k) = Way(call, k)
      /\ call' \in [phase : Phases, mode : KnownModes(ABI), reset : {call.reset}, bound : Seq(AllTypes),
                    named : Nat]
  BY <1>2, <1>3, OneMore DEF Typed
<1>7. Stays(vm, vm')
  BY <1>1, <1>2, <1>3, <1>4, StaysAll DEF ABI
<1>8. ABI' = ABI /\ vm'.vt = vm.vt /\ IsVM(vm') /\ Within(vm') /\ vm'.err = "NONE"
  BY <1>1, <1>7 DEF Stays, ABI
<1>9. Room(vm)
  BY <1>2, RoomForArg DEF Typed
<1>10. Stocked'
  <2> SUFFICES ASSUME ABI \in X86ABIs
               PROVE  Stocked'
    BY <1>8 DEF Stocked
  <2>1. Len(vm.vec) \in Nat /\ Len(vm'.vec) \in Nat /\ Len(vm.vec) <= Len(vm'.vec)
    BY <1>1, <1>7, <1>8, LenVec DEF Stays, Sized
  <2>2. call'.reset = "fast" => Len(vm'.vec) >= 8
    <3>1. call.reset = "fast" => Len(vm.vec) >= 8
      BY <1>2 DEF Stocked
    <3> DEFINE x == Len(vm.vec)
               y == Len(vm'.vec)
    <3>2. x \in Nat /\ y \in Nat /\ x <= y /\ (call.reset = "fast" => x >= 8)
      BY <2>1, <3>1
    <3> HIDE DEF x, y
    <3>3. call.reset = "fast" => y >= 8
      BY <3>2
    <3> QED BY <1>6, <3>3 DEF y
  <2>3. ASSUME vm.vt.call = "this_ms"
        PROVE  Len(vm'.vec) >= 4
    <3> DEFINE x == Raw4(ABI, t, n + 1)
    <3>1. vm.vt.arg = "x86"
      BY <1>1, <2>3 DEF TableOK
    <3>2. vm' = dcVecAppend(vm, x)
      BY <1>2, <3>1, X86Family DEF X86Arg, arg_x86, Raw4, Words4, ABI
    <3> HIDE DEF x
    <3>3. Len(vm'.vec) = Len(vm.vec) + Width4(t)
      BY <1>1, <1>3, <1>4, <1>9, <3>2, X86AppendsArg DEF x, ABI
    <3> DEFINE a == Len(vm.vec)
               b == Len(vm'.vec)
    <3>4. a \in Nat /\ b = a + Width4(t) /\ Width4(t) \in {4, 8}
      BY <2>1, <3>3 DEF Width4
    <3> HIDE DEF a, b
    <3>5. b >= 4
      BY <3>4
    <3> QED BY <3>5 DEF b
  <2> QED BY <1>8, <2>2, <2>3 DEF Stocked
<1>11. Filled'
  <2> DEFINE r == IntRegs[ABI]
             m == Len(vm.vec)
             q == Len(vm'.vec)
  <2>1. r \in Nat /\ m \in Nat /\ q \in Nat
    BY <1>1, <1>8, LenVec DEF ABI
  <2>2. m <= 16 + 8 * r + 8 * n
    BY DEF Typed, Filled
  <2>3. q <= RoundUp(m, 8) + 8 \/ q <= 8 * r + 8
    BY <1>7 DEF Stays, Sized, ABI
  <2> HIDE DEF r, m, q, n
  <2>4. q <= 16 + 8 * r + 8 * (n + 1)
    BY <1>4, <2>1, <2>2, <2>3, FilledMore
  <2> QED BY <1>6, <1>8, <2>4 DEF Filled, r, m, q, n
<1>12. CallOK'
  <2>1. \A k \in 1 .. Len(call'.bound) : call'.bound[k] \in TypesOf(Way(call', k))
    <3> SUFFICES ASSUME NEW k \in 1 .. n \cup {n + 1}
                 PROVE  call'.bound[k] \in TypesOf(Way(call, k))
      BY <1>6
    <3>1. CASE k \in 1 .. n
      BY <1>6, <3>1 DEF Typed, CallOK
    <3>2. CASE k = n + 1
      BY <1>3, <1>5, <1>6, <3>2
    <3> QED BY <3>1, <3>2
  <2>2. ArgsAllowed' = ArgsAllowed
    BY <1>6 DEF ArgsAllowed
  <2>3. call'.named # AllNamed => call'.mode = "ELLIPSIS" /\ call'.named <= Len(call'.bound)
    <3> DEFINE c == call.named
    <3>1. c # AllNamed => call.mode = "ELLIPSIS" /\ c <= n
      BY DEF Typed, CallOK
    <3>2. c \in Nat
      BY CallSeq DEF Typed
    <3> HIDE DEF c, n
    <3>3. c # AllNamed => c <= n + 1
      BY <1>4, <3>1, <3>2
    <3> QED BY <1>6, <3>1, <3>3 DEF c
  <2>4. call' \in [phase : Phases, mode : KnownModes(ABI'), reset : {call'.reset}, bound : Seq(AllTypes),
                   named : Nat]
    BY <1>6, <1>8
  <2> QED BY <1>4, <1>6, <2>1, <2>2, <2>3, <2>4 DEF CallOK
<1>13. VMOK'
  <2>1. Now(call') = w
    BY <1>6 DEF Now
  <2> QED BY <1>1, <1>6, <1>8, <2>1 DEF Typed, VMOK
<1>14. CalleeOK'
  <2>1. got = <<>> /\ got' = got
    BY <1>2 DEF Typed, CalleeOK, dcArg
  <2>2. Len(got') <= Len(call'.bound)
    BY <1>4, <1>6, <2>1, NoArguments
  <2> QED BY <1>6, <2>1, <2>2, NoArguments DEF CalleeOK
<1> QED BY <1>7, <1>8, <1>10, <1>11, <1>12, <1>13, <1>14 DEF Typed

-----------------------------------------------------------------------------
(* The call.                                                               *)

LEMMA MoreBytes ==
  ASSUME NEW b \in Seq(Byte), NEW n \in Nat
  PROVE  Bytes(Bytes(b, 0, n), 0, n) = Bytes(b, 0, n)
<1> DEFINE c == Bytes(b, 0, n)
<1>1. c \in Seq(Byte) /\ Len(c) = n
  BY BytesAt
<1>2. \A k \in 1 .. n : Bytes(c, 0, n)[k] = c[k]
  <2> HIDE DEF c
  <2>1. ASSUME NEW k \in 1 .. n
        PROVE  Bytes(c, 0, n)[k] = c[0 + k] /\ 0 + k = k
    <3>1. 0 + k = k /\ k <= n /\ 0 \in Nat
      OBVIOUS
    <3>2. 0 + k <= Len(c)
      BY <1>1, <3>1
    <3>3. Bytes(c, 0, n)[k] = IF 0 + k <= Len(c) THEN c[0 + k] ELSE Junk
      BY DEF Bytes
    <3> QED BY <3>1, <3>2, <3>3
  <2> QED BY <2>1
<1>3. c = [k \in 1 .. n |-> c[k]]
  BY DEF Bytes
<1>4. Bytes(c, 0, n) = [k \in 1 .. n |-> Bytes(c, 0, n)[k]]
  BY DEF Bytes
<1> HIDE DEF c
<1>5. [k \in 1 .. n |-> Bytes(c, 0, n)[k]] = [k \in 1 .. n |-> c[k]]
  BY <1>2
<1>6. Bytes(c, 0, n) = c
  BY <1>3, <1>4, <1>5
<1> QED BY <1>6 DEF c

(* The kernel of ELF ppc64 sees the same before and after it has padded    *)
(* the vector.                                                             *)
LEMMA Padding ==
  ASSUME NEW s, IsVM(s), s.abi \in PpcABIs, s.vt.call = "ppc64", NEW u, u = PadVec(s)
  PROVE  /\ IsVM(u) /\ OnlyVec(s, u) /\ Keeps(s, u) /\ Kernel(u) = Kernel(s)
         /\ Len(u.vec) = Len(s.vec) \/ Len(u.vec) = 8 * IntRegs[s.abi]
<1> DEFINE z == 8 * IntRegs[s.abi]
           m == Len(s.vec)
           n == IF m < z THEN z ELSE m
<1>1. s.vec \in Seq(Byte) /\ m \in Nat /\ z \in Nat
  BY LenVec
<1>2. n \in Nat /\ n >= m /\ n >= z /\ (n = m \/ n = z) /\ ~(n < z)
  <2> HIDE DEF m, z
  <2> QED BY <1>1
<1>3. AtLeast(s, z) = Bytes(s.vec, 0, n)
  BY DEF AtLeast, dcVecSize
<1>4. Kernel(s) = Image(s.ireg, s.freg, Bytes(s.vec, 0, n))
  BY <1>3, PpcFamily DEF PpcCall, call_ppc64
<1>5. Len(Bytes(s.vec, 0, n)) = n
  <2> HIDE DEF n
  <2> QED BY <1>1, <1>2, BytesAt
<1>6. u = dcVecResize(s, n)
  BY <1>3, <1>5 DEF PadVec
<1>7. IsVM(u) /\ OnlyVec(s, u) /\ Keeps(s, u) /\ Len(u.vec) = n
  <2> HIDE DEF n, m
  <2>1. n >= Len(s.vec)
    BY <1>2 DEF m
  <2> QED BY <1>2, <1>6, <2>1, Resized
<1>8. u.vec = Bytes(s.vec, 0, n)
  BY <1>6 DEF dcVecResize, IsVM, VMs
<1>9. AtLeast(u, z) = Bytes(u.vec, 0, n)
  <2> HIDE DEF n, z
  <2> QED BY <1>2, <1>7 DEF AtLeast, dcVecSize
<1>10. Bytes(u.vec, 0, n) = Bytes(s.vec, 0, n)
  <2> HIDE DEF n
  <2> QED BY <1>1, <1>2, <1>8, MoreBytes
<1>11. u.abi = s.abi /\ u.vt = s.vt /\ u.ireg = s.ireg /\ u.freg = s.freg
  BY <1>7 DEF OnlyVec
<1>12. Kernel(u) = Image(u.ireg, u.freg, AtLeast(u, z))
  BY <1>11, PpcFamily DEF PpcCall, call_ppc64
<1>13. Kernel(u) = Kernel(s)
  BY <1>4, <1>9, <1>10, <1>11, <1>12
<1> QED BY <1>2, <1>7, <1>13

(* A callback starts at the first place of all. *)
LEMMA ThunkStarts ==
  ASSUME NEW abi \in ABIs, NEW w \in KnownModes(abi), NEW m, NEW types
  PROVE  ThunkEntry(abi, m, InitCallback(abi, w, types)) = At(abi, w, m, Start)
<1>1. CASE abi \notin X86ABIs
  BY <1>1 DEF ThunkEntry, Spilled, At, Start
<1>2. CASE abi \in X86ABIs
  <2> DEFINE x == IF w \in {"DEFAULT", "ELLIPSIS"} THEN "none" ELSE w
  <2>1. w \in X86Ways /\ (abi = "x86" => w # "THIS") /\ w # "VARARGS"
    BY <1>2, X86Tables, NotVarargs DEF Ways
  <2>2. InitCallback(abi, w, types).vt = CallbackOf(abi, w)
    <3>1. InitCallback(abi, w, types) = InitCallback_x86(abi, x, types)
      BY <1>2 DEF InitCallback
    <3>2. w \in {"DEFAULT", "ELLIPSIS"} => InitCallback_x86(abi, x, types).vt = "default"
      BY DEF InitCallback_x86
    <3>3. w = "X86_CDECL" => InitCallback_x86(abi, x, types).vt = "default"
      BY DEF InitCallback_x86
    <3>4. w = "X86_STD" => InitCallback_x86(abi, x, types).vt = "default"
      BY DEF InitCallback_x86
    <3>5. w = "X86_FAST_MS" => InitCallback_x86(abi, x, types).vt = "fast_ms"
      BY DEF InitCallback_x86
    <3>6. w = "X86_FAST_GNU" => InitCallback_x86(abi, x, types).vt = "fast_gnu"
      BY DEF InitCallback_x86
    <3>7. w \in {"X86_THIS_MS", "THIS"} => InitCallback_x86(abi, x, types).vt = "this_ms"
      BY <1>2, <2>1 DEF InitCallback_x86, X86ABIs
    <3>8. w = "SYS" => InitCallback_x86(abi, x, types).vt = "unset"
      BY DEF InitCallback_x86
    <3> QED BY <2>1, <3>1, <3>2, <3>3, <3>4, <3>5, <3>6, <3>7, <3>8 DEF X86Ways, CallbackOf
  <2>3. ThunkEntry(abi, m, InitCallback(abi, w, types))
          = Spilled_x86(abi, m, InitCallback(abi, w, types))
    BY <1>2 DEF ThunkEntry
  <2> QED BY <1>2, <2>2, <2>3 DEF Spilled_x86, At, Start
<1> QED BY <1>1, <1>2

LEMMA StartIsOK ==
  ASSUME NEW abi \in ABIs, NEW w, NEW m, NEW a, a = At(abi, w, m, Start)
  PROVE  ArgsOK(a) /\ a.abi = abi /\ (abi \in X86ABIs => a.vt = CallbackOf(abi, w))
<1>1. 0 <= FloatRegs[abi] /\ 0 % 2 = 0
  BY PlatformAssumption
<1>2. CASE abi \in X86ABIs
  BY <1>1, <1>2 DEF At, Start, ArgsOK, LooseArgs
<1>3. CASE abi \notin X86ABIs
  BY <1>1, <1>3 DEF At, Start, ArgsOK, LooseArgs
<1> QED BY <1>2, <1>3

LEMMA PhaseOnly ==
  ASSUME CallOK, NEW phase \in Phases, call' = [call EXCEPT !.phase = phase], ABI' = ABI,
         phase # "new", call.phase # "new"
  PROVE  /\ CallOK' /\ call'.phase = phase /\ call'.mode = call.mode /\ call'.reset = call.reset
         /\ call'.bound = call.bound /\ call'.named = call.named /\ Now(call') = Now(call)
         /\ \A k : Way(call', k) = Way(call, k)
<1>1. /\ call'.phase = phase /\ call'.mode = call.mode /\ call'.reset = call.reset
      /\ call'.bound = call.bound /\ call'.named = call.named
  BY DEF CallOK
<1>2. \A k : Way(call', k) = Way(call, k)
  BY <1>1 DEF Way, IsVariadic
<1>3. call' \in [phase : Phases, mode : KnownModes(ABI'), reset : {call'.reset}, bound : Seq(AllTypes),
                 named : Nat]
  BY <1>1 DEF CallOK
<1>4. ArgsAllowed' = ArgsAllowed
  BY <1>1 DEF ArgsAllowed
<1>5. CallOK'
  BY <1>1, <1>2, <1>3, <1>4 DEF CallOK
<1> QED BY <1>1, <1>2, <1>5 DEF Now

LEMMA TypedCall ==
  ASSUME Typed, dcCall
  PROVE  /\ Typed' /\ Stocked' /\ ABI' = ABI /\ vm'.vt = vm.vt /\ IsVM(vm') /\ Keeps(vm, vm')
         /\ Kernel(vm') = Kernel(vm) /\ image' = Kernel(vm)
         /\ callee' = At(ABI, call.mode, image', Start) /\ got' = <<>>
         /\ call'.phase = "running" /\ call'.bound = call.bound /\ call'.mode = call.mode
         /\ call'.named = call.named /\ call'.reset = call.reset
         /\ \A k : Way(call', k) = Way(call, k)
<1> DEFINE w == Now(call)
<1>1. /\ ABI \in ABIs /\ IsVM(vm) /\ Within(vm) /\ vm.vt = ModeTable(ABI, w) /\ vm.err = "NONE"
      /\ w \in Ways(ABI) /\ TableOK(ABI, vm.vt) /\ call.mode \in KnownModes(ABI)
  BY LenVec, NowWay, Tables, CallSeq DEF Typed, VMOK, ABI
<1>2. /\ IsVM(vm') /\ OnlyVec(vm, vm') /\ Keeps(vm, vm') /\ Kernel(vm') = Kernel(vm)
      /\ Len(vm'.vec) = Len(vm.vec) \/ Len(vm'.vec) = 8 * IntRegs[ABI]
      /\ Within(vm')
  <2>1. CASE vm.vt.call = "ppc64"
    <3>1. vm' = PadVec(vm) /\ vm.abi \in Ppc64 /\ vm.abi \in PpcABIs /\ vm.abi \notin WordABIs
      BY <1>1, <2>1, FamiliesApart DEF dcCall, TableOK, ABI, Ppc64, PpcABIs, WordABIs, Arm32, MipsO32
    <3>2. /\ IsVM(vm') /\ OnlyVec(vm, vm') /\ Keeps(vm, vm') /\ Kernel(vm') = Kernel(vm)
          /\ Len(vm'.vec) = Len(vm.vec) \/ Len(vm'.vec) = 8 * IntRegs[vm.abi]
      BY <1>1, <2>1, <3>1, Padding
    <3>3. Within(vm')
      BY <1>1, <3>1, <3>2 DEF Within, OnlyVec
    <3> QED BY <3>2, <3>3 DEF ABI
  <2>2. CASE vm.vt.call # "ppc64"
    <3>1. vm' = vm
      BY <2>2 DEF dcCall
    <3> QED BY <1>1, <3>1, KeepsReflexive DEF OnlyVec
  <2> QED BY <2>1, <2>2
<1>3. ABI' = ABI /\ vm'.vt = vm.vt /\ vm'.err = "NONE"
  BY <1>1, <1>2 DEF OnlyVec, ABI
<1>4. call.phase = "binding" /\ call' = [call EXCEPT !.phase = "running"] /\ got' = got
        /\ image' = Kernel(vm) /\ callee' = ThunkEntry(ABI, image', InitCallback(ABI, call.mode, call.bound))
  BY DEF dcCall
<1>5. /\ CallOK' /\ call'.phase = "running" /\ call'.mode = call.mode /\ call'.reset = call.reset
      /\ call'.bound = call.bound /\ call'.named = call.named /\ Now(call') = Now(call)
      /\ \A k : Way(call', k) = Way(call, k)
  BY <1>3, <1>4, PhaseOnly DEF Typed, Phases
<1>6. VMOK'
  BY <1>1, <1>2, <1>3, <1>5 DEF Typed, VMOK
<1>7. Filled'
  <2> DEFINE r == IntRegs[ABI]
             m == Len(vm.vec)
             q == Len(vm'.vec)
             n == Len(call.bound)
  <2>1. r \in Nat /\ m \in Nat /\ n \in Nat
    BY <1>1, LenVec, CallSeq DEF ABI, Typed
  <2>2. m <= 16 + 8 * r + 8 * n /\ (q = m \/ q = 8 * r)
    BY <1>2 DEF Typed, Filled
  <2> HIDE DEF r, m, q, n
  <2>3. q <= 16 + 8 * r + 8 * n
    BY <2>1, <2>2
  <2> QED BY <1>3, <1>5, <2>3 DEF Filled, r, q, n
<1>8. callee' = At(ABI, call.mode, image', Start)
  BY <1>1, <1>4, ThunkStarts
<1>9. ArgsOK(callee') /\ callee'.abi = ABI /\ (ABI \in X86ABIs => callee'.vt = CallbackOf(ABI, call.mode))
  BY <1>1, <1>8, StartIsOK
<1>10. got' = <<>>
  BY <1>4 DEF Typed, CalleeOK
<1>11. CalleeOK'
  <2>1. Len(got') <= Len(call'.bound)
    BY <1>4, <1>5 DEF Typed, CalleeOK
  <2> QED BY <1>3, <1>5, <1>9, <1>10, <2>1, NoArguments DEF CalleeOK
<1>12. Stocked'
  BY <1>5 DEF Stocked
<1> QED BY <1>2, <1>3, <1>4, <1>5, <1>6, <1>7, <1>8, <1>10, <1>11, <1>12 DEF Typed

LEMMA Underflowing ==
  ASSUME Typed, Stocked, KernelFault
  PROVE  Unreserved
<1>1. /\ ABI \in ABIs /\ ABI \in X86ABIs /\ call.phase = "binding" /\ HasThis /\ Underflows(vm)
      /\ TableOK(ABI, vm.vt) /\ Now(call) \in Ways(ABI) /\ vm.vt = ModeTable(ABI, Now(call))
      /\ Len(vm.vec) \in Nat
  BY LenVec, NowWay, Tables DEF KernelFault, Underflow, Typed, VMOK, ABI
<1>2. SUFFICES ASSUME call.reset = vm.vt.reset
               PROVE  FALSE
  BY DEF Unreserved
<1> DEFINE m == Len(vm.vec)
<1>3. m \in Nat
  BY <1>1
<1>4. CASE vm.vt.call = "fast"
  <2>1. call.reset = "fast"
    BY <1>1, <1>2, <1>4 DEF TableOK
  <2>2. m >= 8
    BY <1>1, <2>1 DEF Stocked
  <2>3. m < 8
    BY <1>1, <1>4 DEF Underflows, dcVecSize
  <2> HIDE DEF m
  <2> QED BY <1>3, <2>2, <2>3
<1>5. CASE vm.vt.call = "this_ms"
  <2>1. IsThisCall(Now(call))
    BY <1>1, <1>5, ThisTable
  <2>2. IsThisCall(call.mode)
    BY <2>1 DEF Now, IsThisCall
  <2>3. call.bound # <<>>
    BY <1>1, <2>2 DEF HasThis
  <2>4. m >= 4
    BY <1>1, <1>5, <2>3 DEF Stocked
  <2>5. m < 4
    BY <1>1, <1>5 DEF Underflows, dcVecSize
  <2> HIDE DEF m
  <2> QED BY <1>3, <2>4, <2>5
<1>6. CASE vm.vt.call \notin {"fast", "this_ms"}
  <2>1. m < 0
    BY <1>1, <1>6 DEF Underflows, dcVecSize
  <2> HIDE DEF m
  <2> QED BY <1>3, <2>1
<1> QED BY <1>4, <1>5, <1>6

LEMMA TypedPhase ==
  ASSUME Typed, NEW phase \in {"returned", "fault"}, call' = [call EXCEPT !.phase = phase],
         call.phase # "new", UNCHANGED <<vm, image, callee, got>>
  PROVE  Typed' /\ Stocked' /\ call'.phase = phase /\ call'.reset = call.reset /\ ABI' = ABI
<1>1. ABI' = ABI
  BY DEF ABI
<1>2. /\ CallOK' /\ call'.phase = phase /\ call'.mode = call.mode /\ call'.reset = call.reset
      /\ call'.bound = call.bound /\ call'.named = call.named /\ Now(call') = Now(call)
  BY <1>1, PhaseOnly DEF Typed, Phases
<1>3. VMOK' /\ Filled'
  BY <1>1, <1>2 DEF Typed, VMOK, Filled
<1>4. CalleeOK' /\ Stocked'
  BY <1>2 DEF Typed, CalleeOK, Stocked
<1> QED BY <1>1, <1>2, <1>3, <1>4 DEF Typed

LEMMA OneGot ==
  ASSUME IsSeq(got), NEW x, got' = Append(got, x)
  PROVE  /\ IsSeq(got') /\ Len(got') = Len(got) + 1 /\ Len(got) \in Nat /\ got'[Len(got) + 1] = x
         /\ DOMAIN got = 1 .. Len(got) /\ DOMAIN got' = 1 .. Len(got) \cup {Len(got) + 1}
         /\ \A k \in 1 .. Len(got) : got'[k] = got[k]
<1>1. PICK S : got \in Seq(S)
  BY DEF IsSeq
<1>2. got \in Seq(S \cup {x})
  BY <1>1
<1>3. got' \in Seq(S \cup {x}) /\ Len(got') = Len(got) + 1
  BY <1>2
<1>4. Len(got) \in Nat /\ DOMAIN got = 1 .. Len(got) /\ DOMAIN got' = 1 .. Len(got')
  BY <1>2, <1>3
<1>5. \A k \in 1 .. Len(got) : got'[k] = got[k]
  BY <1>2
<1>6. got'[Len(got) + 1] = x
  BY <1>2
<1>7. 1 .. Len(got) + 1 = 1 .. Len(got) \cup {Len(got) + 1}
  <2> DEFINE n == Len(got)
  <2>1. n \in Nat
    BY <1>4
  <2> HIDE DEF n
  <2>2. 1 .. n + 1 = 1 .. n \cup {n + 1}
    BY <2>1
  <2> QED BY <2>2 DEF n
<1> QED BY <1>3, <1>4, <1>5, <1>6, <1>7 DEF IsSeq

LEMMA TypedFetch ==
  ASSUME Typed, Fetch
  PROVE  Typed' /\ Stocked'
<1> DEFINE k == Len(got) + 1
           r == TargetFetch(callee, call, k)
<1>1. call.phase = "running" /\ Len(got) < Len(call.bound) /\ callee' = r.args
        /\ got' = Append(got, Trunc(r.val, SizeOf(ABI, call.bound[k]))) /\ UNCHANGED <<vm, call, image>>
  BY DEF Fetch
<1>2. IsSeq(got) /\ ArgsOK(callee) /\ callee.abi = ABI /\ call.bound \in Seq(AllTypes)
        /\ (ABI \in X86ABIs => callee.vt = CallbackOf(ABI, call.mode)) /\ call.mode \in KnownModes(ABI)
  BY <1>1, CallSeq DEF Typed, CalleeOK
<1>3. /\ IsSeq(got') /\ Len(got') = k /\ Len(got) \in Nat
  BY <1>1, <1>2, OneGot
<1>4. Len(call.bound) \in Nat
  BY <1>2
<1>5. k \in 1 .. Len(call.bound)
  <2> DEFINE a == Len(got)
             b == Len(call.bound)
  <2>1. a \in Nat /\ b \in Nat /\ a < b
    BY <1>1, <1>3, <1>4
  <2> HIDE DEF a, b
  <2>2. a + 1 \in 1 .. b
    BY <2>1
  <2> QED BY <2>2 DEF a, b
<1>6. call.bound[k] \in AllTypes
  <2> HIDE DEF k
  <2> QED BY <1>2, <1>5
<1>7. ABI \in X86ABIs /\ call.mode # "SYS" => callee.vt \in {"default", "this_ms", "fast_ms", "fast_gnu"}
  BY <1>2, FamilyMode
<1>8. Goes(callee, r.args)
  <2> HIDE DEF k
  <2> QED BY <1>2, <1>6, <1>7, GoesTarget
<1> HIDE DEF r
<1>9. CalleeOK'
  <2>1. ArgsOK(callee') /\ callee'.abi = callee.abi /\ (ABI \in X86ABIs => callee'.vt = callee.vt)
    BY <1>1, <1>2, <1>8 DEF Goes
  <2>2. Len(got') <= Len(call.bound)
    <3> HIDE DEF k
    <3>1. k <= Len(call.bound)
      BY <1>4, <1>5
    <3> QED BY <1>3, <3>1
  <2>3. ABI' = ABI
    BY <1>1 DEF ABI
  <2> QED BY <1>1, <1>2, <1>3, <2>1, <2>2, <2>3 DEF CalleeOK
<1>10. CallOK' /\ VMOK' /\ Filled' /\ Stocked'
  <2>1. ABI' = ABI /\ call' = call /\ vm' = vm
    BY <1>1 DEF ABI
  <2>2. ArgsAllowed' = ArgsAllowed
    BY <2>1 DEF ArgsAllowed
  <2>3. CallOK'
    BY <2>1, <2>2 DEF Typed, CallOK
  <2> QED BY <1>1, <2>1, <2>3 DEF Typed, VMOK, Filled, Stocked
<1> QED BY <1>9, <1>10 DEF Typed

Repeats == call.phase = "running" => Kernel(vm) = image

(* The inductive invariant of the CallVM's and the callback's state.       *)
Running == Typed /\ Stocked /\ Repeats /\ FaultOnlyUnreserved

LEMMA RunningInit == ASSUME Init PROVE Running
<1>1. call.phase = "new"
  BY NewCallFields DEF Init
<1> QED BY <1>1, TypedInit DEF Running, Repeats, FaultOnlyUnreserved

LEMMA RunningNext ==
  ASSUME Running, [Next]_vars
  PROVE  Running'
<1> USE DEF Running
<1>1. CASE \E mode \in Modes[ABI] : dcMode(mode)
  <2>1. PICK mode \in Modes[ABI] : dcMode(mode)
    BY <1>1
  <2>2. call'.phase = "new"
    BY <2>1 DEF dcMode, NewCall
  <2> QED BY <2>1, <2>2, TypedMode DEF Repeats, FaultOnlyUnreserved
<1>2. CASE \E mode \in Modes[ABI] : handle_mode(mode)
  <2>1. PICK mode \in Modes[ABI] : handle_mode(mode)
    BY <1>2
  <2>2. call'.phase = "binding"
    BY <2>1 DEF handle_mode, Typed, CallOK
  <2> QED BY <2>1, <2>2, TypedHandleMode DEF Repeats, FaultOnlyUnreserved
<1>3. CASE dcReset
  BY <1>3, TypedReset DEF Repeats, FaultOnlyUnreserved
<1>4. CASE dcModeVarargs
  <2>1. call'.phase = "binding"
    BY <1>4 DEF dcModeVarargs, Typed, CallOK
  <2> QED BY <1>4, <2>1, TypedVarargs DEF Repeats, FaultOnlyUnreserved
<1>5. CASE \E t \in Types \cup {"pointer"} : dcArg(t)
  <2>1. PICK t \in Types \cup {"pointer"} : dcArg(t)
    BY <1>5
  <2>2. call'.phase = "binding"
    BY <2>1 DEF dcArg, Typed, CallOK
  <2> QED BY <2>1, <2>2, TypedArg DEF Repeats, FaultOnlyUnreserved
<1>6. CASE dcCall
  BY <1>6, TypedCall DEF Repeats, FaultOnlyUnreserved
<1>7. CASE KernelFault
  <2>1. Unreserved /\ call.phase = "binding"
    BY <1>7, Underflowing DEF KernelFault, Underflow
  <2>2. Typed' /\ Stocked' /\ call'.phase = "fault" /\ call'.reset = call.reset /\ vm' = vm
    BY <1>7, <2>1, TypedPhase DEF KernelFault
  <2> QED BY <2>1, <2>2 DEF Repeats, FaultOnlyUnreserved, Unreserved
<1>8. CASE Fetch
  <2>1. call.phase = "running" /\ UNCHANGED <<vm, call, image>>
    BY <1>8 DEF Fetch
  <2> QED BY <1>8, <2>1, TypedFetch DEF Repeats, FaultOnlyUnreserved, Unreserved
<1>9. CASE Return
  <2>1. Typed' /\ Stocked' /\ call'.phase = "returned"
    BY <1>9, TypedPhase DEF Return
  <2> QED BY <2>1 DEF Repeats, FaultOnlyUnreserved
<1>10. CASE UNCHANGED vars
  <2>1. ABI' = ABI /\ call' = call /\ vm' = vm /\ image' = image /\ callee' = callee /\ got' = got
    BY <1>10 DEF vars, ABI
  <2>2. ArgsAllowed' = ArgsAllowed
    BY <2>1 DEF ArgsAllowed
  <2>3. CallOK' /\ VMOK'
    BY <2>1, <2>2 DEF Typed, CallOK, VMOK
  <2> QED BY <2>1, <2>3 DEF Typed, Filled, CalleeOK, Stocked, Repeats, FaultOnlyUnreserved, Unreserved
<1> QED BY <1>1, <1>2, <1>3, <1>4, <1>5, <1>6, <1>7, <1>8, <1>9, <1>10 DEF Next

(* Every state of every call, on every platform and in every convention,   *)
(* has the invariant.                                                      *)
THEOREM Invariant == Spec => []Running
<1>1. Init => Running
  BY RunningInit
<1>2. Running /\ [Next]_vars => Running'
  BY RunningNext
<1> QED BY <1>1, <1>2, PTL DEF Spec

(* TypeOK: the CallVM stays within its vector and its registers, and the   *)
(* callback within the registers it was given, for every platform's        *)
(* register counts, arguments and modes.                                   *)
THEOREM TypeCorrect == Spec => []TypeOK
<1>1. ASSUME Running
      PROVE  TypeOK
  <2>1. Typed /\ CallOK /\ VMOK /\ Filled /\ CalleeOK
    BY <1>1 DEF Running, Typed
  <2>2. ABI \in ABIs /\ vm.err = "NONE" /\ IsVM(vm) /\ Within(vm)
    BY <2>1, LenVec DEF VMOK, ABI
  <2>3. dcVecSize(vm) <= VecTotal
    BY <2>1, RoomForArg DEF dcVecSize
  <2>4. DOMAIN vm.ireg = 0 .. IntRegs[ABI] - 1 /\ DOMAIN vm.freg = 0 .. FloatRegs[ABI] - 1
    BY <2>2 DEF IsVM, RegFile, ABI
  <2>5. vm.f <= FloatRegs[ABI]
    BY <2>2 DEF Within, Counts, ABI
  <2>6. call.phase = "running" => callee.f <= FloatRegs[ABI]
    BY <2>1 DEF CalleeOK, ArgsOK
  <2>7. call.phase \in {"new", "binding", "running", "returned", "fault"} /\ Len(got) <= Len(call.bound)
    BY <2>1, CallSeq DEF CalleeOK, Phases
  <2> QED BY <2>2, <2>3, <2>4, <2>5, <2>6, <2>7 DEF TypeOK
<1> QED BY <1>1, Invariant, PTL

(* CallRepeatable: calling changes nothing that a further call would be    *)
(* made of, although the ppc64 kernel pads the vector in place.            *)
THEOREM Repeatable == Spec => []CallRepeatable
<1>1. Running => CallRepeatable
  BY DEF Running, Repeats, CallRepeatable
<1> QED BY <1>1, Invariant, PTL

(* FaultOnlyUnreserved: the kernels of fastcall and thiscall run short of  *)
(* arguments only if the reset was another convention's.                   *)
THEOREM FaultsOnlyUnreserved == Spec => []FaultOnlyUnreserved
<1>1. Running => FaultOnlyUnreserved
  BY DEF Running
<1> QED BY <1>1, Invariant, PTL
=============================================================================
