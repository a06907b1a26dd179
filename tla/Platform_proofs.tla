--------------------------- MODULE Platform_proofs --------------------------
(***************************************************************************)
(* What binding an argument does to a CallVM and what fetching finds, as   *)
(* far as the conventions share it: values are at places, a register or    *)
(* the bytes of the vector behind an offset, and nothing that is done      *)
(* later takes them away from there.                                       *)
(***************************************************************************)
EXTENDS Platform, TLAPS

Byte == Nat \X Nat

VT ==
  [reset : {"arm32", "thumb", "armhf", "arm64", "mips", "ppc", "sparc", "x86", "fast"},
   arg   : {"atpcs", "eabi", "thumb_atpcs", "thumb_eabi", "armhf", "armhf_ellipsis", "arm64",
            "win_varargs", "apple", "variadic", "o32", "mips_eabi", "n64", "n64_ellipsis", "n32",
            "n32_ellipsis", "darwin", "sysv", "ppc64", "ppc64_ellipsis", "sparc32", "v9",
            "v9_ellipsis", "x86", "fast_ms", "fast_gnu"},
   call  : {"arm32", "thumb", "armhf", "arm64", "apple", "o32", "mips_eabi", "n64", "n32", "darwin",
            "sysv", "syscall32", "ppc64", "syscall64", "sparc32", "v9", "cdecl", "std", "fast",
            "this_ms", "int80h_linux", "int80h_bsd"}]

RegFile(n) == [0 .. n - 1 -> Seq(Byte)]
RegFiles   == UNION {RegFile(n) : n \in Nat}

VMs == [abi : ABIs, vt : VT, err : {"NONE", "UNSUPPORTED_MODE"}, vec : Seq(Byte), i : Nat, f : Nat,
        d : Nat \cup SUBSET Nat, ireg : RegFiles, freg : RegFiles]

(* A CallVM with the registers of its platform. *)
IsVM(s) ==
  /\ s \in VMs
  /\ s.ireg \in RegFile(IntRegs[s.abi]) /\ s.freg \in RegFile(FloatRegs[s.abi])

(* A value of n bytes none of which is junk. *)
Solid(v, n) == v \in Seq(Byte) /\ Len(v) = n /\ \A j \in 1 .. n : v[j] # Junk

(* The value is at the offset. *)
VecAt(s, off, v) ==
  /\ off \in Nat /\ off + Len(v) <= Len(s.vec)
  /\ \A j \in 1 .. Len(v) : s.vec[off + j] = InMemory(s.abi, v)[j]

IntAt(s, r, v)   == r \in 0 .. IntRegs[s.abi] - 1 /\ s.ireg[r] = v
FloatAt(s, r, v) == r \in 0 .. FloatRegs[s.abi] - 1 /\ s.freg[r] = v

(* Registers behind the counters are free. *)
IntsFree(s)   == \A r \in 0 .. IntRegs[s.abi] - 1 : r >= s.i => s.ireg[r] = Junks(8)
FloatsFree(s) == \A r \in 0 .. FloatRegs[s.abi] - 1 : r >= s.f => s.freg[r] = Junks(8)

(* From s to t nothing is lost: what was not junk is where it was. *)
Keeps(s, t) ==
  /\ t.abi = s.abi
  /\ Len(s.vec) <= Len(t.vec)
  /\ \A p \in 1 .. Len(s.vec) : s.vec[p] # Junk => t.vec[p] = s.vec[p]
  /\ \A r \in 0 .. IntRegs[s.abi] - 1 : s.ireg[r] # Junks(8) => t.ireg[r] = s.ireg[r]
  /\ \A r \in 0 .. FloatRegs[s.abi] - 1 : s.freg[r] # Junks(8) => t.freg[r] = s.freg[r]

-----------------------------------------------------------------------------
(* Values.                                                                 *)

(* A function on 1 .. n is a sequence. *)
LEMMA FunctionIsSeq ==
  ASSUME NEW S, NEW n \in Nat, NEW x \in [1 .. n -> S]
  PROVE  x \in Seq(S) /\ Len(x) = n
OBVIOUS

(* Memory holds as many bytes as a value has. *)
LEMMA InMemoryType ==
  ASSUME NEW abi, NEW v \in Seq(Byte)
  PROVE  InMemory(abi, v) \in Seq(Byte) /\ Len(InMemory(abi, v)) = Len(v)
<1>1. CASE abi \in BigEndian
  <2>1. [k \in 1 .. Len(v) |-> v[Len(v) - k + 1]] \in [1 .. Len(v) -> Byte]
    OBVIOUS
  <2> QED BY <1>1, <2>1 DEF InMemory
<1>2. CASE abi \notin BigEndian
  BY <1>2 DEF InMemory
<1> QED BY <1>1, <1>2

(* The k-th byte of a value in memory. *)
LEMMA InMemoryAt ==
  ASSUME NEW abi, NEW v \in Seq(Byte), NEW j \in 1 .. Len(v)
  PROVE  /\ abi \in BigEndian => InMemory(abi, v)[j] = v[Len(v) - j + 1]
         /\ abi \notin BigEndian => InMemory(abi, v)[j] = v[j]
BY DEF InMemory

(* What is read from memory is what was written. *)
LEMMA InMemoryTwice ==
  ASSUME NEW abi, NEW v \in Seq(Byte), NEW b \in Seq(Byte), Len(b) = Len(v),
         \A j \in 1 .. Len(v) : b[j] = InMemory(abi, v)[j]
  PROVE  InMemory(abi, b) = v
<1>1. CASE abi \notin BigEndian
  <2>1. \A j \in 1 .. Len(v) : b[j] = v[j]
    BY <1>1, InMemoryAt
  <2>2. b = v
    BY <2>1
  <2> QED BY <1>1, <2>2 DEF InMemory
<1>2. CASE abi \in BigEndian
  <2> DEFINE c == InMemory(abi, b)
  <2>1. c \in Seq(Byte) /\ Len(c) = Len(v)
    BY InMemoryType
  <2>2. ASSUME NEW j \in 1 .. Len(v) PROVE c[j] = v[j]
    <3>1. Len(v) - j + 1 \in 1 .. Len(v)
      OBVIOUS
    <3>2. c[j] = b[Len(v) - j + 1]
      BY <1>2, InMemoryAt
    <3>3. b[Len(v) - j + 1] = v[Len(v) - (Len(v) - j + 1) + 1]
      BY <1>2, <3>1, InMemoryAt
    <3> QED BY <3>2, <3>3
  <2> HIDE DEF c
  <2>3. c = v
    BY <2>1, <2>2
  <2> QED BY <2>3 DEF c
<1> QED BY <1>1, <1>2

(* A value of an argument, its extension and a float's widening. *)
LEMMA ValueType ==
  ASSUME NEW n \in Nat, n > 0, NEW w \in Nat
  PROVE  Solid(Value(n, w), w)
<1>1. Value(n, w) \in [1 .. w -> Byte]
  BY DEF Value, Byte
<1>2. \A j \in 1 .. w : Value(n, w)[j] = <<n, j>>
  BY DEF Value
<1> QED BY <1>1, <1>2 DEF Solid, Junk

LEMMA ExtendType ==
  ASSUME NEW n \in Nat, n > 0, NEW w \in Nat, w > 0, NEW z \in Nat, w <= z
  PROVE  Solid(Extend(Value(n, w), z), z) /\ Trunc(Extend(Value(n, w), z), w) = Value(n, w)
<1> DEFINE v == Value(n, w)
           e == Extend(v, z)
<1>1. v \in Seq(Byte) /\ Len(v) = w /\ \A j \in 1 .. w : v[j] = <<n, j>>
  BY ValueType DEF Solid, Value
<1>2. v[1][1] = n
  BY <1>1
<1> HIDE DEF v
<1>3. e = [k \in 1 .. z |-> IF k <= w THEN v[k] ELSE <<n, 0>>]
  BY <1>1, <1>2 DEF Extend
<1> HIDE DEF e
<1>4. ASSUME NEW k \in 1 .. z PROVE e[k] = IF k <= w THEN <<n, k>> ELSE <<n, 0>>
  <2>1. e[k] = IF k <= w THEN v[k] ELSE <<n, 0>>
    BY <1>3
  <2>2. k <= w => k \in 1 .. w
    OBVIOUS
  <2> QED BY <1>1, <2>1, <2>2, Zenon
<1>5. e \in [1 .. z -> Byte]
  <2>1. ASSUME NEW k \in 1 .. z PROVE (IF k <= w THEN v[k] ELSE <<n, 0>>) \in Byte
    <3>1. k <= w => v[k] \in Byte
      BY <1>1
    <3> QED BY <3>1 DEF Byte
  <2> QED BY <1>3, <2>1
<1>6. e \in Seq(Byte) /\ Len(e) = z
  BY <1>5
<1>7. Solid(e, z)
  BY <1>4, <1>6 DEF Solid, Junk
<1>8. SubSeq(e, 1, w) = v
  <2>1. SubSeq(e, 1, w) \in Seq(Byte) /\ Len(SubSeq(e, 1, w)) = w
    BY <1>6
  <2>2. ASSUME NEW j \in 1 .. w PROVE SubSeq(e, 1, w)[j] = v[j]
    <3>1. SubSeq(e, 1, w)[j] = e[j]
      BY <1>6
    <3>2. j \in 1 .. z /\ j <= w
      OBVIOUS
    <3>3. e[j] = <<n, j>>
      BY <1>4, <3>2, Zenon
    <3> QED BY <1>1, <3>1, <3>3, Zenon
  <2> QED BY <1>1, <2>1, <2>2
<1> QED BY <1>7, <1>8 DEF Trunc, e, v

LEMMA WidenType ==
  ASSUME NEW n \in Nat, n > 0
  PROVE  Solid(Widen(Value(n, 4)), 8) /\ Narrow(Widen(Value(n, 4))) = Value(n, 4)
<1> DEFINE v == Value(n, 4)
           x == Widen(v)
<1>1. v[1][1] = n
  BY DEF Value
<1> HIDE DEF v
<1>2. x = [k \in 1 .. 8 |-> <<n, 10 + k>>]
  BY <1>1 DEF Widen
<1> HIDE DEF x
<1>3. x \in [1 .. 8 -> Byte]
  BY <1>2 DEF Byte
<1>4. x \in Seq(Byte) /\ Len(x) = 8
  BY <1>3, FunctionIsSeq
<1>5. \A j \in 1 .. 8 : x[j] = <<n, 10 + j>>
  BY <1>2
<1>6. x[1][1] = n
  BY <1>5
<1>7. Solid(x, 8)
  BY <1>4, <1>5 DEF Solid, Junk
<1>8. Narrow(x) = v
  <2>1. Widen(x) = x
    BY <1>2, <1>6 DEF Widen
  <2> QED BY <1>6, <2>1 DEF Narrow, v
<1> QED BY <1>7, <1>8 DEF x, v

(* The two words of eight bytes.                                           *)
LEMMA WordType ==
  ASSUME NEW abi, NEW v, Solid(v, 8), NEW j \in {0, 1}
  PROVE  Solid(WordOf(abi, v, j), 4)
<1>1. Solid(SubSeq(v, 1, 4), 4) /\ Solid(SubSeq(v, 5, 8), 4)
  BY DEF Solid
<1> QED BY <1>1 DEF WordOf

LEMMA JoinedWords ==
  ASSUME NEW abi, NEW v, Solid(v, 8)
  PROVE  Joined(abi, WordOf(abi, v, 0), WordOf(abi, v, 1)) = v
<1>1. SubSeq(v, 1, 4) \o SubSeq(v, 5, 8) = v
  BY DEF Solid
<1> QED BY <1>1 DEF Joined, WordOf

(* The words of a value are in memory one after the other.                 *)
LEMMA WordsInMemory ==
  ASSUME NEW abi, NEW v, Solid(v, 8), NEW j \in 1 .. 4
  PROVE  /\ InMemory(abi, WordOf(abi, v, 0))[j] = InMemory(abi, v)[j]
         /\ InMemory(abi, WordOf(abi, v, 1))[j] = InMemory(abi, v)[4 + j]
<1>1. /\ v \in Seq(Byte) /\ Len(v) = 8
      /\ SubSeq(v, 1, 4) \in Seq(Byte) /\ Len(SubSeq(v, 1, 4)) = 4
      /\ SubSeq(v, 5, 8) \in Seq(Byte) /\ Len(SubSeq(v, 5, 8)) = 4
  BY DEF Solid
<1>2. \A k \in 1 .. 4 : SubSeq(v, 1, 4)[k] = v[k] /\ SubSeq(v, 5, 8)[k] = v[4 + k]
  BY <1>1
<1>3. CASE abi \in BigEndian
  <2>1. WordOf(abi, v, 0) = SubSeq(v, 5, 8) /\ WordOf(abi, v, 1) = SubSeq(v, 1, 4)
    BY <1>3 DEF WordOf
  <2>2. /\ InMemory(abi, SubSeq(v, 5, 8))[j] = SubSeq(v, 5, 8)[5 - j]
        /\ InMemory(abi, SubSeq(v, 1, 4))[j] = SubSeq(v, 1, 4)[5 - j]
        /\ InMemory(abi, v)[j] = v[9 - j]
        /\ InMemory(abi, v)[4 + j] = v[5 - j]
    BY <1>1, <1>3 DEF InMemory
  <2>3. SubSeq(v, 5, 8)[5 - j] = v[9 - j] /\ SubSeq(v, 1, 4)[5 - j] = v[5 - j]
    BY <1>2
  <2> QED BY <2>1, <2>2, <2>3
<1>4. CASE abi \notin BigEndian
  <2>1. WordOf(abi, v, 0) = SubSeq(v, 1, 4) /\ WordOf(abi, v, 1) = SubSeq(v, 5, 8)
    BY <1>4 DEF WordOf
  <2> QED BY <1>1, <1>2, <1>4, <2>1 DEF InMemory
<1> QED BY <1>3, <1>4

-----------------------------------------------------------------------------
(* Places.                                                                 *)

LEMMA WordsAt ==
  ASSUME NEW s, IsVM(s), NEW off, NEW v, Solid(v, 8), VecAt(s, off, v)
  PROVE  VecAt(s, off, WordOf(s.abi, v, 0)) /\ VecAt(s, off + 4, WordOf(s.abi, v, 1))
<1>1. Len(v) = 8 /\ Len(WordOf(s.abi, v, 0)) = 4 /\ Len(WordOf(s.abi, v, 1)) = 4
  BY WordType DEF Solid
<1>2. \A j \in 1 .. 8 : s.vec[off + j] = InMemory(s.abi, v)[j]
  BY <1>1 DEF VecAt
<1>3. ASSUME NEW j \in 1 .. 4
      PROVE  /\ s.vec[off + j] = InMemory(s.abi, WordOf(s.abi, v, 0))[j]
             /\ s.vec[off + 4 + j] = InMemory(s.abi, WordOf(s.abi, v, 1))[j]
  <2>1. off \in Nat /\ off + 4 + j = off + (4 + j) /\ j \in 1 .. 8 /\ 4 + j \in 1 .. 8
    BY DEF VecAt
  <2> QED BY <1>2, <2>1, WordsInMemory
<1>4. off \in Nat /\ off + 8 <= Len(s.vec) /\ Len(s.vec) \in Nat
  BY <1>1 DEF VecAt, IsVM, VMs
<1>5. off + 4 \in Nat /\ off + 4 <= Len(s.vec) /\ (off + 4) + 4 <= Len(s.vec)
  BY <1>4
<1> QED BY <1>1, <1>3, <1>4, <1>5 DEF VecAt

LEMMA KeepsReflexive == ASSUME NEW s PROVE Keeps(s, s)
BY DEF Keeps

LEMMA KeepsTransitive ==
  ASSUME NEW s, NEW t, NEW u, IsVM(s), IsVM(t), IsVM(u), Keeps(s, t), Keeps(t, u)
  PROVE  Keeps(s, u)
<1>1. Len(s.vec) \in Nat /\ Len(t.vec) \in Nat /\ Len(u.vec) \in Nat
  BY DEF IsVM, VMs
<1>2. ASSUME NEW p \in 1 .. Len(s.vec), s.vec[p] # Junk PROVE u.vec[p] = s.vec[p]
  <2>1. t.vec[p] = s.vec[p] /\ p \in 1 .. Len(t.vec)
    BY <1>1, <1>2 DEF Keeps
  <2> QED BY <1>2, <2>1 DEF Keeps
<1> QED BY <1>1, <1>2 DEF Keeps

(* A value stays at its place.                                             *)
LEMMA VecAtKept ==
  ASSUME NEW s, NEW t, IsVM(s), IsVM(t), Keeps(s, t), NEW n, NEW v, Solid(v, n), NEW off,
         VecAt(s, off, v)
  PROVE  VecAt(t, off, v)
<1>1. Len(s.vec) \in Nat /\ Len(t.vec) \in Nat /\ t.abi = s.abi /\ Len(s.vec) <= Len(t.vec)
  BY DEF IsVM, VMs, Keeps
<1>2. v \in Seq(Byte) /\ Len(v) = n
  BY DEF Solid
<1>3. ASSUME NEW j \in 1 .. Len(v) PROVE t.vec[off + j] = InMemory(s.abi, v)[j]
  <2>1. s.vec[off + j] = InMemory(s.abi, v)[j]
    BY DEF VecAt
  <2>2. InMemory(s.abi, v)[j] # Junk
    <3>1. Len(v) - j + 1 \in 1 .. n /\ j \in 1 .. n
      BY <1>2
    <3>2. v[Len(v) - j + 1] # Junk /\ v[j] # Junk
      BY <3>1 DEF Solid
    <3> QED BY <1>2, <3>2, InMemoryAt
  <2>3. off + j \in 1 .. Len(s.vec)
    BY <1>1, <1>2 DEF VecAt
  <2> QED BY <2>1, <2>2, <2>3 DEF Keeps
<1>4. off \in Nat /\ off + Len(v) <= Len(t.vec)
  BY <1>1, <1>2 DEF VecAt
<1> QED BY <1>1, <1>3, <1>4 DEF VecAt

LEMMA NotJunks ==
  ASSUME NEW n \in Nat, n > 0, NEW v, Solid(v, n)
  PROVE  v # Junks(8)
<1>1. v[1] # Junk
  BY DEF Solid
<1>2. Junks(8)[1] = Junk
  BY DEF Junks
<1> QED BY <1>1, <1>2

LEMMA RegistersKept ==
  ASSUME NEW s, NEW t, Keeps(s, t), NEW v, v # Junks(8), NEW r
  PROVE  /\ IntAt(s, r, v) => IntAt(t, r, v)
         /\ FloatAt(s, r, v) => FloatAt(t, r, v)
BY DEF Keeps, IntAt, FloatAt

-----------------------------------------------------------------------------
(* The operations on a CallVM.                                             *)

(* What an operation on the vector leaves alone.                           *)
OnlyVec(s, t) ==
  /\ t.abi = s.abi /\ t.vt = s.vt /\ t.err = s.err
  /\ t.i = s.i /\ t.f = s.f /\ t.d = s.d /\ t.ireg = s.ireg /\ t.freg = s.freg

LEMMA NewVec ==
  ASSUME NEW s, IsVM(s), NEW w \in Seq(Byte), NEW t, t = [s EXCEPT !.vec = w]
  PROVE  IsVM(t) /\ OnlyVec(s, t) /\ t.vec = w
<1>1. t \in VMs /\ OnlyVec(s, t) /\ t.vec = w
  BY DEF IsVM, VMs, OnlyVec
<1> QED BY <1>1 DEF IsVM, OnlyVec

LEMMA Appended ==
  ASSUME NEW s, IsVM(s), NEW v \in Seq(Byte), Len(s.vec) + Len(v) <= VecTotal,
         NEW t, t = dcVecAppend(s, v)
  PROVE  /\ IsVM(t) /\ OnlyVec(s, t) /\ Keeps(s, t)
         /\ Len(t.vec) = Len(s.vec) + Len(v) /\ VecAt(t, Len(s.vec), v)
         /\ \A p \in 1 .. Len(s.vec) : t.vec[p] = s.vec[p]
<1> DEFINE x == s.vec
           y == InMemory(s.abi, v)
           w == x \o y
<1>1. x \in Seq(Byte) /\ y \in Seq(Byte) /\ Len(y) = Len(v)
  BY InMemoryType DEF IsVM, VMs
<1> HIDE DEF x, y
<1>2. /\ w \in Seq(Byte) /\ Len(w) = Len(x) + Len(y)
      /\ \A p \in 1 .. Len(x) : w[p] = x[p]
      /\ \A j \in 1 .. Len(y) : w[Len(x) + j] = y[j]
  <2>1. x \in Seq(Byte) /\ y \in Seq(Byte)
    BY <1>1
  <2> QED BY <2>1
<1>3. t = [s EXCEPT !.vec = w]
  BY DEF dcVecAppend, dcVecSize, x, y
<1> HIDE DEF w
<1>4. IsVM(t) /\ OnlyVec(s, t) /\ t.vec = w
  BY <1>2, <1>3, NewVec
<1>5. Keeps(s, t)
  BY <1>1, <1>2, <1>4 DEF Keeps, OnlyVec, x
<1>6. VecAt(t, Len(s.vec), v)
  BY <1>1, <1>2, <1>4 DEF VecAt, OnlyVec, x, y
<1> QED BY <1>1, <1>2, <1>4, <1>5, <1>6 DEF x

LEMMA BytesAt ==
  ASSUME NEW b \in Seq(Byte), NEW off \in Nat, NEW n \in Nat
  PROVE  /\ Bytes(b, off, n) \in Seq(Byte) /\ Len(Bytes(b, off, n)) = n
         /\ \A k \in 1 .. n : off + k <= Len(b) => Bytes(b, off, n)[k] = b[off + k]
         /\ \A k \in 1 .. n : off + k > Len(b) => Bytes(b, off, n)[k] = Junk
<1>1. Junk \in Byte
  BY DEF Junk, Byte
<1>2. \A k \in 1 .. n : off + k <= Len(b) => b[off + k] \in Byte
  OBVIOUS
<1>3. Bytes(b, off, n) \in [1 .. n -> Byte]
  BY <1>1, <1>2 DEF Bytes
<1> QED BY <1>3, FunctionIsSeq DEF Bytes

LEMMA Resized ==
  ASSUME NEW s, IsVM(s), NEW n \in Nat, n >= Len(s.vec), NEW t, t = dcVecResize(s, n)
  PROVE  IsVM(t) /\ OnlyVec(s, t) /\ Keeps(s, t) /\ Len(t.vec) = n
         /\ \A p \in 1 .. Len(s.vec) : t.vec[p] = s.vec[p]
<1> DEFINE w == Bytes(s.vec, 0, n)
<1>1. s.vec \in Seq(Byte) /\ Len(s.vec) \in Nat
  BY DEF IsVM, VMs
<1>2. w \in Seq(Byte) /\ Len(w) = n /\ \A p \in 1 .. Len(s.vec) : w[p] = s.vec[p]
  <2>1. w \in Seq(Byte) /\ Len(w) = n
    BY <1>1, BytesAt
  <2>2. ASSUME NEW p \in 1 .. Len(s.vec) PROVE w[p] = s.vec[p]
    <3>1. p \in 1 .. n /\ 0 + p <= Len(s.vec) /\ 0 + p = p
      BY <1>1
    <3> HIDE DEF w
    <3>2. w[p] = IF 0 + p <= Len(s.vec) THEN s.vec[0 + p] ELSE Junk
      BY <3>1 DEF w, Bytes
    <3>3. w[p] = s.vec[0 + p]
      BY <3>1, <3>2
    <3> QED BY <3>1, <3>3
  <2> QED BY <2>1, <2>2
<1>3. t = [s EXCEPT !.vec = w]
  BY DEF dcVecResize
<1> HIDE DEF w
<1>4. IsVM(t) /\ OnlyVec(s, t) /\ t.vec = w
  BY <1>2, <1>3, NewVec
<1>5. Keeps(s, t)
  BY <1>1, <1>2, <1>4 DEF Keeps, OnlyVec
<1> QED BY <1>2, <1>4, <1>5

(* Rounding.                                                               *)
LEMMA RoundUpTo ==
  ASSUME NEW n \in Nat
  PROVE  /\ RoundUp(n, 8) \in Nat /\ n <= RoundUp(n, 8) /\ RoundUp(n, 8) < n + 8
         /\ RoundUp(n, 8) % 8 = 0 /\ (n % 8 = 0 => RoundUp(n, 8) = n)
         /\ RoundUp(n, 2) \in Nat /\ n <= RoundUp(n, 2) /\ RoundUp(n, 2) <= n + 1
         /\ RoundUp(n, 2) % 2 = 0 /\ (n % 2 = 0 => RoundUp(n, 2) = n)
         /\ RoundUp(n, 16) \in Nat /\ n <= RoundUp(n, 16)
         /\ RoundUp(n, 1) = n
         /\ RoundUp(n, 4) \in Nat /\ n <= RoundUp(n, 4) /\ RoundUp(n, 4) < n + 4
BY DEF RoundUp

(* Where the size is a multiple of four, dcVecSkip4 aligns eight bytes.    *)
LEMMA And4Rounds ==
  ASSUME NEW n \in Nat, n % 4 = 0
  PROVE  And4(n) \in {0, 4} /\ (n + And4(n)) % 8 = 0 /\ n + And4(n) = RoundUp(n, 8)
<1>1. PICK m \in Nat : n = 4 * m
  BY DEF RoundUp
<1>2. n \div 4 = m
  BY <1>1
<1>3. CASE m % 2 = 0
  BY <1>1, <1>2, <1>3 DEF And4, RoundUp
<1>4. CASE m % 2 = 1
  BY <1>1, <1>2, <1>4 DEF And4, RoundUp
<1> QED BY <1>3, <1>4

LEMMA Aligned8 ==
  ASSUME NEW s, IsVM(s), NEW t, t = dcVecAlign(s, 8)
  PROVE  IsVM(t) /\ OnlyVec(s, t) /\ Keeps(s, t) /\ Len(t.vec) = RoundUp(Len(s.vec), 8)
<1>1. Len(s.vec) \in Nat
  BY DEF IsVM, VMs
<1>2. RoundUp(Len(s.vec), 8) \in Nat /\ RoundUp(Len(s.vec), 8) >= Len(s.vec)
  BY <1>1, RoundUpTo
<1> QED BY <1>2, Resized DEF dcVecAlign, dcVecSize

LEMMA Skipped ==
  ASSUME NEW s, IsVM(s), NEW n \in Nat, NEW t, t = dcVecSkip(s, n)
  PROVE  IsVM(t) /\ OnlyVec(s, t) /\ Keeps(s, t) /\ Len(t.vec) = Len(s.vec) + n
         /\ \A p \in 1 .. Len(s.vec) : t.vec[p] = s.vec[p]
<1> DEFINE m == Len(s.vec) + n
<1>1. Len(s.vec) \in Nat /\ m \in Nat /\ m >= Len(s.vec) /\ t = dcVecResize(s, m)
  BY DEF IsVM, VMs, dcVecSkip, dcVecSize
<1> HIDE DEF m
<1>2. IsVM(t) /\ OnlyVec(s, t) /\ Keeps(s, t) /\ Len(t.vec) = m
         /\ \A p \in 1 .. Len(s.vec) : t.vec[p] = s.vec[p]
  BY <1>1, Resized
<1> QED BY <1>2 DEF m

LEMMA Skipped4 ==
  ASSUME NEW s, IsVM(s), Len(s.vec) % 4 = 0, NEW t, t = dcVecSkip4(s)
  PROVE  /\ IsVM(t) /\ OnlyVec(s, t) /\ Keeps(s, t)
         /\ Len(t.vec) = RoundUp(Len(s.vec), 8) /\ Len(t.vec) = Len(s.vec) + And4(Len(s.vec))
<1> DEFINE n == Len(s.vec)
           z == And4(n)
<1>1. n \in Nat /\ n % 4 = 0 /\ t = dcVecSkip(s, z)
  BY DEF IsVM, VMs, dcVecSkip4, dcVecSize
<1> HIDE DEF n
<1>2. z \in {0, 4} /\ n + z = RoundUp(n, 8)
  BY <1>1, And4Rounds
<1> HIDE DEF z
<1>3. IsVM(t) /\ OnlyVec(s, t) /\ Keeps(s, t) /\ Len(t.vec) = Len(s.vec) + z
  BY <1>1, <1>2, Skipped
<1> QED BY <1>2, <1>3 DEF n, z

(* Registers.                                                              *)
LEMMA PutInInt ==
  ASSUME NEW s, IsVM(s), IntsFree(s), s.i < IntRegs[s.abi], NEW v \in Seq(Byte),
         NEW t, t = PutInt(s, v)
  PROVE  /\ IsVM(t) /\ Keeps(s, t) /\ IntAt(t, s.i, v) /\ IntsFree(t) /\ t.i = s.i + 1
         /\ t.abi = s.abi /\ t.vt = s.vt /\ t.err = s.err /\ t.vec = s.vec
         /\ t.f = s.f /\ t.d = s.d /\ t.freg = s.freg
<1>1. s.abi \in ABIs /\ IntRegs[s.abi] \in Nat /\ s.i \in Nat /\ s \in VMs
  BY PlatformAssumption DEF IsVM, VMs
<1>2. s.i \in 0 .. IntRegs[s.abi] - 1
  BY <1>1
<1>3. /\ t.i = s.i + 1 /\ t.ireg = [s.ireg EXCEPT ![s.i] = v] /\ t.abi = s.abi /\ t.vt = s.vt
      /\ t.err = s.err /\ t.vec = s.vec /\ t.f = s.f /\ t.d = s.d /\ t.freg = s.freg
  BY <1>1 DEF PutInt, VMs
<1>4. t.ireg \in RegFile(IntRegs[s.abi])
  BY ZenonT(60), <1>3 DEF IsVM, RegFile
<1>5. t.ireg \in RegFiles
  BY <1>1, <1>4 DEF RegFiles
<1>6. t \in VMs
  <2> DEFINE x == t.ireg
             n == s.i + 1
  <2>1. t = [s EXCEPT !.ireg = x, !.i = n] /\ n \in Nat /\ x \in RegFiles
    BY <1>1, <1>3, <1>5 DEF PutInt
  <2> HIDE DEF x, n
  <2> QED BY <1>1, <2>1 DEF VMs
<1>7. IsVM(t)
  BY <1>3, <1>4, <1>6 DEF IsVM
<1>8. /\ t.ireg[s.i] = v
      /\ \A r \in 0 .. IntRegs[s.abi] - 1 : r # s.i => t.ireg[r] = s.ireg[r]
  BY <1>2, <1>3 DEF IsVM, RegFile
<1>9. Keeps(s, t)
  BY <1>1, <1>2, <1>3, <1>8 DEF Keeps, IntsFree
<1>10. IntsFree(t)
  BY <1>1, <1>3, <1>8 DEF IntsFree
<1> QED BY <1>2, <1>3, <1>7, <1>8, <1>9, <1>10 DEF IntAt

LEMMA PutInFloat ==
  ASSUME NEW s, IsVM(s), FloatsFree(s), s.f < FloatRegs[s.abi], NEW v \in Seq(Byte),
         NEW t, t = PutFloat(s, v)
  PROVE  /\ IsVM(t) /\ Keeps(s, t) /\ FloatAt(t, s.f, v) /\ FloatsFree(t) /\ t.f = s.f + 1
         /\ t.abi = s.abi /\ t.vt = s.vt /\ t.err = s.err /\ t.vec = s.vec
         /\ t.i = s.i /\ t.d = s.d /\ t.ireg = s.ireg
<1>1. s.abi \in ABIs /\ FloatRegs[s.abi] \in Nat /\ s.f \in Nat /\ s \in VMs
  BY PlatformAssumption DEF IsVM, VMs
<1>2. s.f \in 0 .. FloatRegs[s.abi] - 1
  BY <1>1
<1>3. /\ t.f = s.f + 1 /\ t.freg = [s.freg EXCEPT ![s.f] = v] /\ t.abi = s.abi /\ t.vt = s.vt
      /\ t.err = s.err /\ t.vec = s.vec /\ t.i = s.i /\ t.d = s.d /\ t.ireg = s.ireg
  BY <1>1 DEF PutFloat, VMs
<1>4. t.freg \in RegFile(FloatRegs[s.abi])
  BY ZenonT(60), <1>3 DEF IsVM, RegFile
<1>5. t.freg \in RegFiles
  BY <1>1, <1>4 DEF RegFiles
<1>6. t \in VMs
  <2> DEFINE x == t.freg
             n == s.f + 1
  <2>1. t = [s EXCEPT !.freg = x, !.f = n] /\ n \in Nat /\ x \in RegFiles
    BY <1>1, <1>3, <1>5 DEF PutFloat
  <2> HIDE DEF x, n
  <2> QED BY <1>1, <2>1 DEF VMs
<1>7. IsVM(t)
  BY <1>3, <1>4, <1>6 DEF IsVM
<1>8. /\ t.freg[s.f] = v
      /\ \A r \in 0 .. FloatRegs[s.abi] - 1 : r # s.f => t.freg[r] = s.freg[r]
  BY <1>2, <1>3 DEF IsVM, RegFile
<1>9. Keeps(s, t)
  BY <1>1, <1>2, <1>3, <1>8 DEF Keeps, FloatsFree
<1>10. FloatsFree(t)
  BY <1>1, <1>3, <1>8 DEF FloatsFree
<1> QED BY <1>2, <1>3, <1>7, <1>8, <1>9, <1>10 DEF FloatAt

(* Setting a counter.                                                      *)
LEMMA SetInt ==
  ASSUME NEW s, IsVM(s), NEW n \in Nat, NEW t, t = [s EXCEPT !.i = n]
  PROVE  /\ IsVM(t) /\ Keeps(s, t) /\ t.i = n
         /\ t.abi = s.abi /\ t.vt = s.vt /\ t.err = s.err /\ t.vec = s.vec
         /\ t.f = s.f /\ t.d = s.d /\ t.ireg = s.ireg /\ t.freg = s.freg
<1>1. /\ t \in VMs /\ t.i = n
      /\ t.abi = s.abi /\ t.vt = s.vt /\ t.err = s.err /\ t.vec = s.vec
      /\ t.f = s.f /\ t.d = s.d /\ t.ireg = s.ireg /\ t.freg = s.freg
  BY DEF IsVM, VMs
<1>2. Len(s.vec) \in Nat
  BY DEF IsVM, VMs
<1> QED BY <1>1, <1>2 DEF IsVM, Keeps

(* A word written into the room at the vector's beginning.                 *)
LEMMA Written ==
  ASSUME NEW s, IsVM(s), NEW v \in Seq(Byte), NEW off \in Nat, off + Len(v) <= Len(s.vec),
         \A p \in off + 1 .. off + Len(v) : s.vec[p] = Junk,
         NEW t, t = VecWrite(s, off, v)
  PROVE  /\ IsVM(t) /\ OnlyVec(s, t) /\ Keeps(s, t) /\ Len(t.vec) = Len(s.vec) /\ VecAt(t, off, v)
         /\ \A p \in 1 .. Len(s.vec) : p \notin off + 1 .. off + Len(v) => t.vec[p] = s.vec[p]
<1> DEFINE x == s.vec
           y == InMemory(s.abi, v)
           w == [k \in DOMAIN x |-> IF k \in off + 1 .. off + Len(v) THEN y[k - off] ELSE x[k]]
<1>1. x \in Seq(Byte) /\ y \in Seq(Byte) /\ Len(y) = Len(v) /\ Len(x) \in Nat /\ Len(v) \in Nat
  BY InMemoryType DEF IsVM, VMs
<1>2. t = [s EXCEPT !.vec = w]
  BY DEF VecWrite
<1>3. off + Len(v) <= Len(x)
  BY DEF x
<1> HIDE DEF x, y
<1>4. DOMAIN x = 1 .. Len(x)
  BY <1>1
<1>5. \A k \in 1 .. Len(x) : k \in off + 1 .. off + Len(v) => k - off \in 1 .. Len(y)
  BY <1>1
<1>6. \A k \in 1 .. Len(x) : k \in off + 1 .. off + Len(v) => y[k - off] \in Byte
  BY <1>1, <1>5
<1>7. w \in [1 .. Len(x) -> Byte]
  BY <1>1, <1>4, <1>6
<1>8. \A k \in 1 .. Len(x) :
        w[k] = IF k \in off + 1 .. off + Len(v) THEN y[k - off] ELSE x[k]
  BY <1>4
<1> HIDE DEF w
<1>9. w \in Seq(Byte) /\ Len(w) = Len(x)
  BY <1>1, <1>7, FunctionIsSeq
<1>10. IsVM(t) /\ OnlyVec(s, t) /\ t.vec = w
  BY <1>2, <1>9, NewVec
<1>11. \A p \in 1 .. Len(x) : p \notin off + 1 .. off + Len(v) => w[p] = x[p]
  BY <1>8
<1>12. Keeps(s, t)
  BY <1>1, <1>9, <1>10, <1>11 DEF Keeps, OnlyVec, x
<1>13. ASSUME NEW j \in 1 .. Len(v) PROVE w[off + j] = y[j]
  <2>1. off + j \in 1 .. Len(x) /\ off + j \in off + 1 .. off + Len(v) /\ off + j - off = j
    BY <1>1, <1>3
  <2> QED BY <1>8, <2>1
<1>14. VecAt(t, off, v)
  BY <1>3, <1>9, <1>10, <1>13 DEF VecAt, OnlyVec, y
<1> QED BY <1>9, <1>10, <1>11, <1>12, <1>14 DEF x

-----------------------------------------------------------------------------
(* Finding an argument.                                                    *)

(* The stack that a kernel makes of the vector behind its first bytes.     *)
StackIs(stack, s, base) ==
  /\ stack \in Seq(Byte)
  /\ \A p \in 1 .. Len(s.vec) : p > base => p - base <= Len(stack) /\ stack[p - base] = s.vec[p]

LEMMA StackWhole ==
  ASSUME NEW s, IsVM(s), NEW n \in Nat, n >= Len(s.vec)
  PROVE  StackIs(Bytes(s.vec, 0, n), s, 0) /\ StackIs(s.vec, s, 0)
<1> DEFINE b == Bytes(s.vec, 0, n)
<1>1. s.vec \in Seq(Byte) /\ Len(s.vec) \in Nat
  BY DEF IsVM, VMs
<1>2. b \in Seq(Byte) /\ Len(b) = n
  BY <1>1, BytesAt
<1>3. ASSUME NEW p \in 1 .. Len(s.vec) PROVE b[p] = s.vec[p]
  <2>1. p \in 1 .. n /\ 0 + p <= Len(s.vec) /\ 0 + p = p
    BY <1>1
  <2>2. b[p] = IF 0 + p <= Len(s.vec) THEN s.vec[0 + p] ELSE Junk
    BY <2>1 DEF Bytes
  <2> QED BY <2>1, <2>2
<1> HIDE DEF b
<1>4. \A p \in 1 .. Len(s.vec) : p - 0 = p /\ p <= n
  BY <1>1
<1>5. StackIs(b, s, 0)
  BY <1>1, <1>2, <1>3, <1>4 DEF StackIs
<1>6. StackIs(s.vec, s, 0)
  BY <1>1, <1>4 DEF StackIs
<1> QED BY <1>5, <1>6 DEF b

LEMMA StackRest ==
  ASSUME NEW s, IsVM(s), NEW base \in Nat
  PROVE  StackIs(VecRest(s, base), s, base)
<1> DEFINE x == s.vec
           b == SubSeq(x, base + 1, Len(x))
<1>1. x \in Seq(Byte) /\ Len(x) \in Nat
  BY DEF IsVM, VMs
<1>2. VecRest(s, base) = b
  BY DEF VecRest, dcVecSize
<1> HIDE DEF x
<1>3. b \in Seq(Byte)
  BY <1>1
<1>4. ASSUME NEW p \in 1 .. Len(x), p > base PROVE p - base <= Len(b) /\ b[p - base] = x[p]
  <2>1. Len(b) = Len(x) - base
    BY <1>1, <1>4
  <2>2. b[p - base] = x[(p - base) + (base + 1) - 1]
    BY <1>1, <1>4
  <2>3. (p - base) + (base + 1) - 1 = p /\ p - base <= Len(x) - base
    BY <1>1
  <2> HIDE DEF b
  <2> QED BY <2>1, <2>2, <2>3
<1> QED BY <1>2, <1>3, <1>4 DEF StackIs, x

LEMMA ReadBytes ==
  ASSUME NEW s, IsVM(s), NEW off, NEW v \in Seq(Byte), VecAt(s, off, v),
         NEW b \in Seq(Byte), NEW at \in Nat,
         \A j \in 1 .. Len(v) : at + j <= Len(b) /\ b[at + j] = s.vec[off + j]
  PROVE  InMemory(s.abi, Bytes(b, at, Len(v))) = v
<1> DEFINE c == Bytes(b, at, Len(v))
<1>1. c \in Seq(Byte) /\ Len(c) = Len(v)
  <2> DEFINE n == Len(v)
  <2>1. n \in Nat
    OBVIOUS
  <2> HIDE DEF n
  <2>2. Bytes(b, at, n) \in Seq(Byte) /\ Len(Bytes(b, at, n)) = n
    BY <2>1, BytesAt
  <2> QED BY <2>2 DEF n
<1>2. ASSUME NEW j \in 1 .. Len(v) PROVE c[j] = InMemory(s.abi, v)[j]
  <2>1. c[j] = IF at + j <= Len(b) THEN b[at + j] ELSE Junk
    BY DEF Bytes
  <2>2. c[j] = s.vec[off + j]
    BY <2>1
  <2> QED BY <2>2 DEF VecAt
<1> HIDE DEF c
<1>3. InMemory(s.abi, c) = v
  BY <1>1, <1>2, InMemoryTwice
<1> QED BY <1>3 DEF c

LEMMA ReadStack ==
  ASSUME NEW s, IsVM(s), NEW stack, NEW base \in Nat, StackIs(stack, s, base), NEW sp \in Nat,
         NEW v \in Seq(Byte), VecAt(s, base + sp, v)
  PROVE  InMemory(s.abi, Bytes(stack, sp, Len(v))) = v
<1>1. /\ stack \in Seq(Byte) /\ Len(s.vec) \in Nat /\ Len(v) \in Nat
      /\ base + sp + Len(v) <= Len(s.vec)
  BY DEF IsVM, VMs, StackIs, VecAt
<1>2. ASSUME NEW j \in 1 .. Len(v)
      PROVE  sp + j <= Len(stack) /\ stack[sp + j] = s.vec[(base + sp) + j]
  <2> DEFINE p == base + sp + j
  <2>1. p \in 1 .. Len(s.vec) /\ p > base /\ p - base = sp + j
    BY <1>1
  <2> QED BY <2>1 DEF StackIs
<1> DEFINE off == base + sp
<1> HIDE DEF off
<1>3. VecAt(s, off, v) /\ \A j \in 1 .. Len(v) : sp + j <= Len(stack) /\ stack[sp + j] = s.vec[off + j]
  BY <1>2 DEF off
<1> QED BY <1>1, <1>3, ReadBytes

(* A register that a kernel loads from the vector.                         *)
LEMMA ReadWord ==
  ASSUME NEW s, IsVM(s), NEW n \in Nat, NEW w \in {4, 8}, NEW r \in 0 .. n - 1,
         NEW v \in Seq(Byte), Len(v) = w, VecAt(s, w * r, v)
  PROVE  FirstWords(s, n, w)[r] = v
<1>1. s.vec \in Seq(Byte) /\ Len(s.vec) \in Nat /\ w * r \in Nat
  BY DEF IsVM, VMs
<1>2. FirstWords(s, n, w)[r] = InMemory(s.abi, Bytes(s.vec, w * r, w))
  BY DEF FirstWords
<1> DEFINE o == w * r
<1> HIDE DEF o
<1>3. o \in Nat /\ VecAt(s, o, v)
  BY <1>1 DEF o
<1>4. \A j \in 1 .. Len(v) : o + j <= Len(s.vec) /\ s.vec[o + j] = s.vec[o + j]
  BY <1>1, <1>3 DEF VecAt
<1>5. InMemory(s.abi, Bytes(s.vec, o, Len(v))) = v
  BY <1>1, <1>3, <1>4, ReadBytes
<1> QED BY <1>2, <1>5 DEF o

(* Four bytes in a slot of eight: the last four in memory, or the first.   *)
Part(abi) == IF abi \in BigEndian THEN 4 ELSE 0

LEMMA PaddedType ==
  ASSUME NEW v, Solid(v, 4)
  PROVE  /\ Padded(v) \in Seq(Byte) /\ Len(Padded(v)) = 8
         /\ \A j \in 1 .. 4 : Padded(v)[j] = v[j]
         /\ Trunc(Padded(v), 4) = v
<1>1. v \in Seq(Byte) /\ Len(v) = 4 /\ Junk \in Byte
  BY DEF Solid, Junk, Byte
<1>2. Junks(4) \in [1 .. 4 -> Byte]
  BY <1>1 DEF Junks
<1> DEFINE y == Junks(4)
<1>3. y \in Seq(Byte) /\ Len(y) = 4
  BY <1>2, FunctionIsSeq
<1> HIDE DEF y
<1>4. Padded(v) = v \o y
  BY <1>1 DEF Padded, y
<1> DEFINE x == v \o y
<1>5. v \in Seq(Byte) /\ y \in Seq(Byte)
  BY <1>1, <1>3
<1>6. x \in Seq(Byte) /\ Len(x) = Len(v) + Len(y) /\ \A k \in 1 .. Len(v) : x[k] = v[k]
  BY <1>5
<1> HIDE DEF x
<1>8. Len(x) = 8 /\ \A j \in 1 .. 4 : x[j] = v[j]
  BY <1>1, <1>3, <1>6
<1>7. SubSeq(x, 1, 4) = v
  BY <1>1, <1>6, <1>8
<1> QED BY <1>4, <1>6, <1>7, <1>8 DEF Trunc, x

LEMMA PartRoom ==
  ASSUME NEW abi, NEW off \in Nat, NEW m \in Nat, off + 8 <= m
  PROVE  off + Part(abi) \in Nat /\ off + Part(abi) + 4 <= m
BY DEF Part

LEMMA PaddedAt ==
  ASSUME NEW s, IsVM(s), NEW off \in Nat, NEW v, Solid(v, 4), VecAt(s, off, Padded(v))
  PROVE  VecAt(s, off + Part(s.abi), v)
<1> DEFINE x == Padded(v)
           b == s.vec
           o == off + Part(s.abi)
<1>1. x \in Seq(Byte) /\ Len(x) = 8 /\ v \in Seq(Byte) /\ Len(v) = 4 /\ Len(b) \in Nat
      /\ \A j \in 1 .. 4 : x[j] = v[j]
  BY PaddedType DEF Solid, IsVM, VMs
<1>2. off + 8 <= Len(b) /\ \A j \in 1 .. 8 : b[off + j] = InMemory(s.abi, x)[j]
  BY <1>1 DEF VecAt
<1> HIDE DEF x, b
<1>3. o \in Nat /\ o + 4 <= Len(b)
  <2> DEFINE m == Len(b)
  <2>1. m \in Nat /\ off + 8 <= m
    BY <1>1, <1>2
  <2> HIDE DEF m
  <2>2. o \in Nat /\ o + 4 <= m
    BY <2>1, PartRoom
  <2> QED BY <2>2 DEF m
<1>4. ASSUME NEW j \in 1 .. 4 PROVE b[o + j] = InMemory(s.abi, v)[j]
  <2> DEFINE k == Part(s.abi) + j
             h == IF s.abi \in BigEndian THEN 5 - j ELSE j
  <2>1. k \in 1 .. 8 /\ off + k = o + j /\ h \in 1 .. 4
    BY DEF Part
  <2>2. InMemory(s.abi, x)[k] = x[h] /\ InMemory(s.abi, v)[j] = v[h]
    BY SMTT(60), <1>1, <2>1 DEF InMemory, Part
  <2> HIDE DEF k, h, o
  <2>3. b[off + k] = InMemory(s.abi, x)[k] /\ x[h] = v[h]
    BY <1>1, <1>2, <2>1
  <2> QED BY <2>1, <2>2, <2>3
<1> HIDE DEF o
<1>5. VecAt(s, o, v)
  BY <1>1, <1>3, <1>4 DEF VecAt, b
<1> QED BY <1>5 DEF o

(* The bytes of a narrow value in its slot, seen from either end.          *)
LEMMA Mirrored ==
  ASSUME NEW abi, NEW c \in Seq(Byte), NEW v \in Seq(Byte), NEW j \in 1 .. Len(v), Len(v) <= Len(c)
  PROVE  /\ abi \in BigEndian => /\ InMemory(abi, c)[j] = c[Len(c) - j + 1]
                                 /\ InMemory(abi, v)[Len(v) - j + 1] = v[j]
         /\ abi \notin BigEndian => InMemory(abi, c)[j] = c[j] /\ InMemory(abi, v)[j] = v[j]
<1>1. j \in 1 .. Len(c) /\ Len(v) - j + 1 \in 1 .. Len(v) /\ Len(v) - (Len(v) - j + 1) + 1 = j
  OBVIOUS
<1>2. abi \in BigEndian => InMemory(abi, c)[j] = c[Len(c) - j + 1]
  BY <1>1, InMemoryAt
<1>3. abi \in BigEndian => InMemory(abi, v)[Len(v) - j + 1] = v[Len(v) - (Len(v) - j + 1) + 1]
  BY <1>1, InMemoryAt
<1>4. abi \notin BigEndian => InMemory(abi, c) = c /\ InMemory(abi, v) = v
  BY DEF InMemory
<1> QED BY <1>1, <1>2, <1>3, <1>4

(* The eight bytes of b behind at are those of the vector behind off,      *)
(* as far as the vector goes.                                              *)
Shows(b, at, s, off) ==
  \A j \in 1 .. 8 : off + j <= Len(s.vec) => at + j <= Len(b) /\ b[at + j] = s.vec[off + j]

(* Reading the slot finds them as the value's first.                       *)
LEMMA ReadSlot ==
  ASSUME NEW s, IsVM(s), NEW off \in Nat, NEW v, Solid(v, 4), VecAt(s, off + Part(s.abi), v),
         NEW b \in Seq(Byte), NEW at \in Nat, Shows(b, at, s, off)
  PROVE  Trunc(InMemory(s.abi, Bytes(b, at, 8)), 4) = v
<1> DEFINE c == Bytes(b, at, 8)
           z == InMemory(s.abi, c)
           o == off + Part(s.abi)
           m == s.vec
<1>1. c \in Seq(Byte) /\ Len(c) = 8
  <2> DEFINE n == 8
  <2>1. n \in Nat
    OBVIOUS
  <2> HIDE DEF n
  <2>2. Bytes(b, at, n) \in Seq(Byte) /\ Len(Bytes(b, at, n)) = n
    BY <2>1, BytesAt
  <2> QED BY <2>2 DEF n
<1>2. v \in Seq(Byte) /\ Len(v) = 4 /\ Len(m) \in Nat
  BY DEF Solid, IsVM, VMs
<1>3. \A j \in 1 .. 8 : c[j] = IF at + j <= Len(b) THEN b[at + j] ELSE Junk
  BY DEF Bytes
<1>4. o + 4 <= Len(m) /\ \A j \in 1 .. 4 : m[o + j] = InMemory(s.abi, v)[j]
  BY <1>2 DEF VecAt
<1>5. \A j \in 1 .. 8 : off + j <= Len(m) => at + j <= Len(b) /\ b[at + j] = m[off + j]
  BY DEF Shows
<1> HIDE DEF c, m
<1>6. z \in Seq(Byte) /\ Len(z) = 8
  BY <1>1, InMemoryType
<1>7. ASSUME NEW j \in 1 .. 4 PROVE z[j] = v[j]
  <2> DEFINE h == IF s.abi \in BigEndian THEN 5 - j ELSE j
             k == Part(s.abi) + h
  <2>1. k \in 1 .. 8 /\ off + k = o + h /\ h \in 1 .. 4
    BY DEF Part
  <2>0. c \in Seq(Byte) /\ v \in Seq(Byte) /\ j \in 1 .. Len(v) /\ Len(v) <= Len(c)
    BY <1>1, <1>2
  <2>2. z[j] = c[k] /\ InMemory(s.abi, v)[h] = v[j]
    <3>1. CASE s.abi \in BigEndian
      <4>1. k = Len(c) - j + 1 /\ h = Len(v) - j + 1
        BY <1>1, <1>2, <3>1 DEF Part
      <4>2. z[j] = c[Len(c) - j + 1] /\ InMemory(s.abi, v)[Len(v) - j + 1] = v[j]
        BY <2>0, <3>1, Mirrored
      <4> QED BY <4>1, <4>2
    <3>2. CASE s.abi \notin BigEndian
      <4>1. k = j /\ h = j
        BY <3>2 DEF Part
      <4>2. z[j] = c[j] /\ InMemory(s.abi, v)[j] = v[j]
        BY SMTT(60), <2>0, <3>2, Mirrored
      <4> QED BY <4>1, <4>2
    <3> QED BY <3>1, <3>2
  <2>7. o \in Nat
    BY DEF Part
  <2> HIDE DEF h, k, o
  <2>3. m[o + h] = InMemory(s.abi, v)[h]
    BY <1>4, <2>1
  <2>4. off + k <= Len(m)
    <3>1. o + 4 <= Len(m)
      BY <1>4
    <3> QED BY <1>2, <2>1, <2>7, <3>1
  <2>5. at + k <= Len(b) /\ b[at + k] = m[off + k]
    BY <1>5, <2>1, <2>4
  <2>6. c[k] = b[at + k]
    BY <1>3, <2>1, <2>5
  <2> QED BY <2>1, <2>2, <2>3, <2>5, <2>6
<1> HIDE DEF z
<1>8. SubSeq(z, 1, 4) = v
  BY <1>2, <1>6, <1>7
<1> QED BY <1>8 DEF Trunc, z, c

LEMMA ReadStackSlot ==
  ASSUME NEW s, IsVM(s), NEW stack, NEW base \in Nat, StackIs(stack, s, base), NEW sp \in Nat,
         NEW v, Solid(v, 4), VecAt(s, base + sp + Part(s.abi), v)
  PROVE  Trunc(InMemory(s.abi, Bytes(stack, sp, 8)), 4) = v
<1>1. stack \in Seq(Byte) /\ Len(s.vec) \in Nat
  BY DEF IsVM, VMs, StackIs
<1> DEFINE off == base + sp
<1>2. ASSUME NEW j \in 1 .. 8, off + j <= Len(s.vec)
      PROVE  sp + j <= Len(stack) /\ stack[sp + j] = s.vec[off + j]
  <2> DEFINE p == off + j
  <2>1. p \in 1 .. Len(s.vec) /\ p > base /\ p - base = sp + j
    BY <1>1, <1>2
  <2> QED BY <2>1 DEF StackIs
<1>3. off \in Nat /\ VecAt(s, off + Part(s.abi), v)
  OBVIOUS
<1> HIDE DEF off
<1>4. Shows(stack, sp, s, off)
  BY <1>2 DEF Shows
<1> QED BY <1>1, <1>3, <1>4, ReadSlot

LEMMA ReadWordSlot ==
  ASSUME NEW s, IsVM(s), NEW n \in Nat, NEW r \in 0 .. n - 1, NEW v, Solid(v, 4),
         VecAt(s, 8 * r + Part(s.abi), v)
  PROVE  Trunc(FirstWords(s, n, 8)[r], 4) = v
<1>1. s.vec \in Seq(Byte) /\ 8 * r \in Nat
  BY DEF IsVM, VMs
<1>2. FirstWords(s, n, 8)[r] = InMemory(s.abi, Bytes(s.vec, 8 * r, 8))
  BY DEF FirstWords
<1> DEFINE o == 8 * r
           b == s.vec
<1>3. o \in Nat /\ VecAt(s, o + Part(s.abi), v) /\ b \in Seq(Byte)
  BY <1>1
<1> HIDE DEF o
<1>4. Shows(b, o, s, o)
  BY DEF Shows
<1> HIDE DEF b
<1>5. Trunc(InMemory(s.abi, Bytes(b, o, 8)), 4) = v
  BY <1>3, <1>4, ReadSlot
<1> QED BY <1>2, <1>5 DEF o, b
=============================================================================
