--------------------------- MODULE Passing_proofs ---------------------------
(***************************************************************************)
(* Proofs about Convention on SPARC, x86, 64-bit ARM and 64-bit MIPS: that *)
(* the called function finds every argument that is not among the known    *)
(* errors.                                                                 *)
(*                                                                         *)
(* The argument: a cursor counts what a convention has used up.  Binding   *)
(* an argument puts its bytes where the cursor says, behind which          *)
(* everything is still free, and moves it; the callback, whose registers   *)
(* and stack pointer are a cursor too, reads there and moves it likewise.  *)
(***************************************************************************)
EXTENDS Convention_proofs

-----------------------------------------------------------------------------
(* Conventions with registers of their own: what is bound is in the next   *)
(* register or behind the vector, and is fetched from there.               *)

Level(s, p) ==
  p.i = s.i /\ p.f = s.f /\ p.sp = Len(s.vec) /\ IntsFree(s) /\ FloatsFree(s)

(* The cursor behind a register, and at a byte of the vector. *)
NextI(p) == [p EXCEPT !.i = p.i + 1]
NextF(p) == [p EXCEPT !.f = p.f + 1]
To(p, k) == [p EXCEPT !.sp = k]

LEMMA CursorFields ==
  ASSUME NEW p \in Cursors
  PROVE  /\ p.i \in Nat /\ p.f \in Nat /\ p.d \in Nat /\ p.sp \in Nat
         /\ \A k \in Nat : LET q == [p EXCEPT !.i = k] IN
              q \in Cursors /\ q.i = k /\ q.f = p.f /\ q.d = p.d /\ q.sp = p.sp /\ q.gone = p.gone
         /\ \A k \in Nat : LET q == [p EXCEPT !.f = k] IN
              q \in Cursors /\ q.i = p.i /\ q.f = k /\ q.d = p.d /\ q.sp = p.sp /\ q.gone = p.gone
         /\ \A k \in Nat : LET q == [p EXCEPT !.sp = k] IN
              q \in Cursors /\ q.i = p.i /\ q.f = p.f /\ q.d = p.d /\ q.sp = k /\ q.gone = p.gone
BY DEF Cursors

LEMMA Moves ==
  ASSUME NEW p \in Cursors
  PROVE  /\ NextI(p) \in Cursors /\ NextI(p).i = p.i + 1 /\ NextI(p).f = p.f /\ NextI(p).d = p.d
         /\ NextI(p).sp = p.sp /\ NextI(p).gone = p.gone
         /\ NextF(p) \in Cursors /\ NextF(p).f = p.f + 1 /\ NextF(p).i = p.i /\ NextF(p).d = p.d
         /\ NextF(p).sp = p.sp /\ NextF(p).gone = p.gone
         /\ \A k \in Nat : To(p, k) \in Cursors /\ To(p, k).sp = k /\ To(p, k).i = p.i
              /\ To(p, k).f = p.f /\ To(p, k).d = p.d /\ To(p, k).gone = p.gone
         /\ \A k, h \in Nat : To(To(p, h), k) = To(p, k)
<1>1. /\ NextI(p) \in Cursors /\ NextI(p).i = p.i + 1 /\ NextI(p).f = p.f /\ NextI(p).d = p.d
      /\ NextI(p).sp = p.sp /\ NextI(p).gone = p.gone
  <2>1. p.i + 1 \in Nat
    BY CursorFields
  <2> DEFINE k == p.i + 1
  <2> HIDE DEF k
  <2>2. NextI(p) = [p EXCEPT !.i = k]
    BY DEF NextI, k
  <2> QED BY <2>1, <2>2, CursorFields DEF k
<1>2. /\ NextF(p) \in Cursors /\ NextF(p).f = p.f + 1 /\ NextF(p).i = p.i /\ NextF(p).d = p.d
      /\ NextF(p).sp = p.sp /\ NextF(p).gone = p.gone
  <2>1. p.f + 1 \in Nat
    BY CursorFields
  <2> DEFINE k == p.f + 1
  <2> HIDE DEF k
  <2>2. NextF(p) = [p EXCEPT !.f = k]
    BY DEF NextF, k
  <2> QED BY <2>1, <2>2, CursorFields DEF k
<1>3. ASSUME NEW k \in Nat
      PROVE  To(p, k) \in Cursors /\ To(p, k).sp = k /\ To(p, k).i = p.i
               /\ To(p, k).f = p.f /\ To(p, k).d = p.d /\ To(p, k).gone = p.gone
  <2>1. To(p, k) = [p EXCEPT !.sp = k]
    BY DEF To
  <2> QED BY <2>1, CursorFields
<1>4. ASSUME NEW k \in Nat, NEW h \in Nat
      PROVE  To(To(p, h), k) = To(p, k)
  <2> DEFINE c == To(p, h)
             e == To(p, k)
             g == To(c, k)
  <2>1. c \in Cursors /\ c.i = p.i /\ c.f = p.f /\ c.d = p.d /\ c.gone = p.gone
    BY <1>3
  <2>2. e \in Cursors /\ e.sp = k /\ e.i = p.i /\ e.f = p.f /\ e.d = p.d /\ e.gone = p.gone
    BY <1>3
  <2> HIDE DEF c, e
  <2>3. g = [c EXCEPT !.sp = k]
    BY DEF To
  <2>4. g \in Cursors /\ g.sp = k /\ g.i = c.i /\ g.f = c.f /\ g.d = c.d /\ g.gone = c.gone
    BY <2>1, <2>3, CursorFields
  <2> HIDE DEF g
  <2>5. g = e
    BY <2>1, <2>2, <2>4 DEF Cursors
  <2> QED BY <2>5 DEF g, e, c
<1> QED BY <1>1, <1>2, <1>3, <1>4


LEMMA LevelStart ==
  ASSUME NEW s, Fresh(s), Reserved(s) = 0
  PROVE  Level(s, Start)
BY FreshRegisters DEF Fresh, Level, Start

LEMMA SameBinds ==
  ASSUME NEW s, IsVM(s), NEW u, IsVM(u), Keeps(s, u), u.vt = s.vt, u.err = s.err, u.vec = s.vec
  PROVE  Binds(s, u)
<1>1. Len(u.vec) \in Nat /\ Len(s.vec) \in Nat /\ Len(u.vec) = Len(s.vec)
  BY LenVec
<1> DEFINE m == Len(s.vec)
<1>2. m <= RoundUp(m, 8) + 8
  <2>1. m \in Nat
    BY <1>1
  <2> HIDE DEF m
  <2> QED BY <2>1, RoundUpTo
<1> QED BY <1>1, <1>2 DEF Binds

LEMMA NewInt ==
  ASSUME NEW s, IsVM(s), NEW p \in Cursors, Level(s, p), s.i < IntRegs[s.abi], NEW x \in Seq(Byte),
         NEW u, u = PutInt(s, x)
  PROVE  LET q == NextI(p) IN
           q \in Cursors /\ q.i = p.i + 1 /\ q.f = p.f /\ q.sp = p.sp
             /\ Level(u, q) /\ IntAt(u, p.i, x) /\ Binds(s, u) /\ u.d = s.d /\ u.abi = s.abi
<1>1. /\ IsVM(u) /\ Keeps(s, u) /\ IntAt(u, s.i, x) /\ IntsFree(u) /\ u.i = s.i + 1
      /\ u.abi = s.abi /\ u.vt = s.vt /\ u.err = s.err /\ u.vec = s.vec
      /\ u.f = s.f /\ u.d = s.d /\ u.freg = s.freg
  BY PutInInt DEF Level
<1>2. Binds(s, u)
  BY <1>1, SameBinds
<1>3. FloatsFree(u)
  BY <1>1 DEF Level, FloatsFree
<1>4. p.i + 1 \in Nat
  BY CursorFields
<1> DEFINE q == NextI(p)
<1>5. q \in Cursors /\ q.i = p.i + 1 /\ q.f = p.f /\ q.sp = p.sp
  BY <1>4, Moves
<1> HIDE DEF q
<1>6. Level(u, q)
  BY <1>1, <1>3, <1>5 DEF Level
<1>7. IntAt(u, p.i, x)
  BY <1>1 DEF Level
<1> QED BY <1>1, <1>2, <1>5, <1>6, <1>7 DEF q

LEMMA NewFloat ==
  ASSUME NEW s, IsVM(s), NEW p \in Cursors, Level(s, p), s.f < FloatRegs[s.abi], NEW x \in Seq(Byte),
         NEW u, u = PutFloat(s, x)
  PROVE  LET q == NextF(p) IN
           q \in Cursors /\ q.f = p.f + 1 /\ q.i = p.i /\ q.sp = p.sp
             /\ Level(u, q) /\ FloatAt(u, p.f, x) /\ Binds(s, u) /\ u.d = s.d /\ u.abi = s.abi
<1>1. /\ IsVM(u) /\ Keeps(s, u) /\ FloatAt(u, s.f, x) /\ FloatsFree(u) /\ u.f = s.f + 1
      /\ u.abi = s.abi /\ u.vt = s.vt /\ u.err = s.err /\ u.vec = s.vec
      /\ u.i = s.i /\ u.d = s.d /\ u.ireg = s.ireg
  BY PutInFloat DEF Level
<1>2. Binds(s, u)
  BY <1>1, SameBinds
<1>3. IntsFree(u)
  BY <1>1 DEF Level, IntsFree
<1>4. p.f + 1 \in Nat
  BY CursorFields
<1> DEFINE q == NextF(p)
<1>5. q \in Cursors /\ q.f = p.f + 1 /\ q.i = p.i /\ q.sp = p.sp
  BY <1>4, Moves
<1> HIDE DEF q
<1>6. Level(u, q)
  BY <1>1, <1>3, <1>5 DEF Level
<1>7. FloatAt(u, p.f, x)
  BY <1>1 DEF Level
<1> QED BY <1>1, <1>2, <1>5, <1>6, <1>7 DEF q

(* Where only the vector changes, the registers are as free as before. *)
LEMMA LevelVec ==
  ASSUME NEW s, NEW p \in Cursors, Level(s, p), NEW u, OnlyVec(s, u), NEW k \in Nat, Len(u.vec) = k
  PROVE  LET q == To(p, k) IN
           q \in Cursors /\ q.sp = k /\ q.i = p.i /\ q.f = p.f /\ Level(u, q)
<1> DEFINE q == To(p, k)
<1>1. q \in Cursors /\ q.i = p.i /\ q.f = p.f /\ q.sp = k
  BY Moves
<1> HIDE DEF q
<1>2. Level(u, q)
  BY <1>1 DEF Level, OnlyVec, IntsFree, FloatsFree
<1> QED BY <1>1, <1>2 DEF q

LEMMA NewStack ==
  ASSUME NEW s, IsVM(s), Room(s), NEW p \in Cursors, Level(s, p), NEW x \in Seq(Byte), Len(x) <= 8,
         NEW u, u = dcVecAppend(s, x), NEW k, k = p.sp + Len(x)
  PROVE  LET q == To(p, k) IN
           q \in Cursors /\ q.sp = k /\ q.i = p.i /\ q.f = p.f
             /\ Level(u, q) /\ VecAt(u, p.sp, x) /\ Binds(s, u) /\ u.d = s.d /\ u.abi = s.abi
<1>1. /\ Binds(s, u) /\ OnlyVec(s, u) /\ Len(u.vec) = Len(s.vec) + Len(x) /\ VecAt(u, Len(s.vec), x)
  BY AppendArg
<1>2. p.sp = Len(s.vec) /\ p.sp \in Nat /\ Len(x) \in Nat
  BY CursorFields DEF Level
<1>3. k \in Nat /\ Len(u.vec) = k
  <2>1. Len(u.vec) = Len(s.vec) + Len(x) /\ Len(u.vec) \in Nat
    BY <1>1, LenVec DEF Binds
  <2> DEFINE m == Len(u.vec)
             h == Len(x)
  <2>2. m = p.sp + h /\ k = p.sp + h /\ m \in Nat
    BY <1>2, <2>1
  <2> HIDE DEF m, h
  <2> QED BY <2>2 DEF m
<1>4. VecAt(u, p.sp, x)
  BY <1>1, <1>2
<1> DEFINE q == To(p, k)
<1>5. q \in Cursors /\ q.sp = k /\ q.i = p.i /\ q.f = p.f /\ Level(u, q)
  BY <1>1, <1>3, LevelVec
<1> HIDE DEF q
<1>6. u.d = s.d /\ u.abi = s.abi
  BY <1>1 DEF OnlyVec
<1> QED BY <1>1, <1>4, <1>5, <1>6 DEF q

(* A float in the first four bytes of a slot. *)
LEMMA NewSlot ==
  ASSUME NEW s, IsVM(s), Room(s), NEW p \in Cursors, Level(s, p), NEW x, Solid(x, 4),
         NEW u, u = dcVecSkip(dcVecAppend(s, x), 4), NEW k, k = p.sp + 8
  PROVE  LET q == To(p, k) IN
           q \in Cursors /\ q.sp = k /\ q.i = p.i /\ q.f = p.f
             /\ Level(u, q) /\ VecAt(u, p.sp, x) /\ Binds(s, u) /\ u.d = s.d /\ u.abi = s.abi
<1> DEFINE r == dcVecAppend(s, x)
<1>0. x \in Seq(Byte) /\ Len(x) = 4 /\ Len(x) <= 8
  BY SolidLen
<1>1. Binds(s, r) /\ OnlyVec(s, r) /\ Len(r.vec) = Len(s.vec) + 4 /\ VecAt(r, Len(s.vec), x)
  BY ZenonT(60), <1>0, AppendArg
<1> HIDE DEF r
<1>2. u = dcVecSkip(r, 4) /\ IsVM(r) /\ Keeps(s, r)
  BY <1>1 DEF r, Binds
<1>3. IsVM(u) /\ OnlyVec(r, u) /\ Keeps(r, u) /\ Len(u.vec) = Len(r.vec) + 4
  BY <1>2, Skipped
<1>4. p.sp = Len(s.vec) /\ p.sp \in Nat /\ Len(s.vec) \in Nat /\ Len(r.vec) \in Nat /\ Len(u.vec) \in Nat
  BY <1>2, <1>3, CursorFields, LenVec DEF Level
<1>5. OnlyVec(s, u)
  BY <1>1, <1>3 DEF OnlyVec
<1>6. k \in Nat /\ Len(u.vec) = k /\ Len(u.vec) = Len(s.vec) + 8
  BY <1>1, <1>3, <1>4
<1>7. VecAt(u, p.sp, x)
  BY <1>1, <1>2, <1>3, <1>4, VecAtKept
<1>8. Keeps(s, u)
  BY <1>2, <1>3, KeepsTransitive
<1>9. Binds(s, u)
  <2> DEFINE m == Len(s.vec)
  <2>1. Len(u.vec) <= RoundUp(m, 8) + 8
    <3>1. m \in Nat /\ Len(u.vec) = m + 8
      BY <1>4, <1>6
    <3> HIDE DEF m
    <3>2. m <= RoundUp(m, 8) /\ RoundUp(m, 8) \in Nat
      BY <3>1, RoundUpTo
    <3> QED BY <3>1, <3>2
  <2> QED BY <1>3, <1>5, <1>8, <2>1 DEF Binds, OnlyVec
<1> QED BY <1>5, <1>6, <1>7, <1>9, LevelVec DEF OnlyVec

(* Kept in its register. *)
LEMMA PaddedNotJunks ==
  ASSUME NEW v, Solid(v, 4)
  PROVE  Padded(v) # Junks(8)
<1>1. Padded(v)[1] = v[1] /\ v[1] # Junk
  BY PaddedType DEF Solid
<1>2. Junks(8)[1] = Junk
  BY DEF Junks
<1> QED BY <1>1, <1>2

-----------------------------------------------------------------------------
(* The target's side, where the kernel loads the registers as they are.    *)

(* What the kernel has loaded and copied. *)
Copied(m, s) == StackIs(m.stack, s, 0)
Loads(m, s) == m.ireg = s.ireg /\ m.freg = s.freg /\ Copied(m, s)

LEMMA GotInt ==
  ASSUME NEW abi, abi \notin X86ABIs, NEW w, NEW m, NEW p \in Cursors, NEW x, m.ireg[p.i] = x,
         NEW q, q = NextI(p)
  PROVE  FromInt(At(abi, w, m, p)) = Fetched(At(abi, w, m, q), x)
<1> DEFINE a == At(abi, w, m, p)
           k == p.i + 1
<1>1. a.ireg = m.ireg /\ a.i = p.i /\ k \in Nat
  BY AtFields, CursorFields
<1>2. q = [p EXCEPT !.i = k]
  BY DEF NextI
<1> HIDE DEF k
<1>3. At(abi, w, m, q) = [a EXCEPT !.i = k]
  BY <1>1, <1>2, AtInt
<1> HIDE DEF a
<1> QED BY <1>1, <1>3 DEF FromInt, k, a

LEMMA GotFloat ==
  ASSUME NEW abi, abi \notin X86ABIs, NEW w, NEW m, NEW p \in Cursors, NEW x, m.freg[p.f] = x,
         NEW q, q = NextF(p)
  PROVE  FromFloat(At(abi, w, m, p)) = Fetched(At(abi, w, m, q), x)
<1> DEFINE a == At(abi, w, m, p)
           k == p.f + 1
<1>1. a.freg = m.freg /\ a.f = p.f /\ k \in Nat
  BY AtFields, CursorFields
<1>2. q = [p EXCEPT !.f = k]
  BY DEF NextF
<1> HIDE DEF k
<1>3. At(abi, w, m, q) = [a EXCEPT !.f = k]
  BY <1>1, <1>2, AtFloat
<1> HIDE DEF a
<1> QED BY <1>1, <1>3 DEF FromFloat, k, a

(* The cursor behind what is read. *)
Behind(p, z) == To(p, p.sp + z)
NextSlot(p)  == To(p, p.sp + 8)
(* What is read of a slot. *)
Slot(a) == FromStack(a, 8, 8)

LEMMA GotStackAt == ASSUME NEW s, IsVM(s), s.abi \notin X86ABIs, NEW w, NEW m, Copied(m, s), NEW p \in Cursors,
   NEW x \in Seq(Byte), VecAt(s, p.sp, x), NEW z \in Nat
   PROVE FromStack(At(s.abi, w, m, p), Len(x), z) = Fetched(At(s.abi, w, m, Behind(p, z)), x)
<1> DEFINE a == At(s.abi, w, m, p)
           k == p.sp + z
           q == To(p, k)
           base == 0
<1>0. base \in Nat /\ StackIs(m.stack, s, base)
  BY DEF Copied
<1> HIDE DEF base
<1>1. a.abi = s.abi /\ a.stack = m.stack /\ a.sp = p.sp /\ k \in Nat /\ p.sp \in Nat
  BY AtFields, CursorFields
<1>2. q = [p EXCEPT !.sp = k]
  BY DEF To
<1> HIDE DEF k, q
<1>3. At(s.abi, w, m, q) = [a EXCEPT !.sp = k]
  BY <1>1, <1>2, AtStack
<1> HIDE DEF a
<1>4. VecAt(s, base + a.sp, x) /\ a.sp \in Nat
  BY <1>1 DEF base
<1>5. InMemory(s.abi, Bytes(m.stack, a.sp, Len(x))) = x
  BY <1>0, <1>4, ReadStack
<1>6. FromStack(a, Len(x), z) = Fetched([a EXCEPT !.sp = k], InMemory(s.abi, Bytes(m.stack, a.sp, Len(x))))
  BY <1>1 DEF FromStack, AtSP, k
<1> QED BY <1>3, <1>5, <1>6 DEF k, q, a, Behind

LEMMA GotEight == ASSUME NEW s, IsVM(s), s.abi \notin X86ABIs, NEW w, NEW m, Copied(m, s), NEW p \in Cursors,
   NEW x \in Seq(Byte), VecAt(s, p.sp, x), Len(x) = 8
   PROVE FromStack(At(s.abi, w, m, p), 8, 8) = Fetched(At(s.abi, w, m, Behind(p, 8)), x)
<1> DEFINE e == 8
<1>1. e \in Nat /\ Len(x) = e
  OBVIOUS
<1> HIDE DEF e
<1> DEFINE h == Len(x)
<1>3. h = e
  BY <1>1
<1>2. FromStack(At(s.abi, w, m, p), h, e) = Fetched(At(s.abi, w, m, Behind(p, e)), x)
  <2>1. e \in Nat
    BY <1>1
  <2> QED BY ZenonT(60), <2>1, GotStackAt
<1> QED BY <1>2, <1>3 DEF e

LEMMA GotSlot ==
  ASSUME NEW s, IsVM(s), s.abi \notin X86ABIs, NEW w, NEW m, Copied(m, s), NEW p \in Cursors,
         NEW x, Solid(x, 4), VecAt(s, p.sp + Part(s.abi), x), NEW q, q = NextSlot(p)
  PROVE  Slot(At(s.abi, w, m, p)).args = At(s.abi, w, m, q) /\ Trunc(Slot(At(s.abi, w, m, p)).val, 4) = x
<1> DEFINE a == At(s.abi, w, m, p)
           k == p.sp + 8
           base == 0
<1>0. base \in Nat /\ StackIs(m.stack, s, base)
  BY DEF Copied
<1>1. a.abi = s.abi /\ a.stack = m.stack /\ a.sp = p.sp /\ k \in Nat /\ p.sp \in Nat
  BY AtFields, CursorFields
<1>2. q = [p EXCEPT !.sp = k]
  BY DEF To, NextSlot
<1> HIDE DEF k
<1>3. At(s.abi, w, m, q) = [a EXCEPT !.sp = k]
  BY <1>1, <1>2, AtStack
<1> HIDE DEF a
<1>4. VecAt(s, base + a.sp + Part(s.abi), x) /\ a.sp \in Nat
  BY <1>1
<1> HIDE DEF base
<1>5. Trunc(InMemory(s.abi, Bytes(m.stack, a.sp, 8)), 4) = x
  BY <1>0, <1>4, ReadStackSlot
<1>6. Slot(a) = Fetched([a EXCEPT !.sp = k], InMemory(s.abi, Bytes(m.stack, a.sp, 8)))
  BY <1>1 DEF Slot, FromStack, AtSP, k
<1> QED BY <1>3, <1>5, <1>6 DEF Fetched, a

LEMMA GotStack ==
  ASSUME NEW s, IsVM(s), s.abi \notin X86ABIs, NEW w, NEW m, Copied(m, s), NEW p \in Cursors,
         NEW x, Solid(x, 8), VecAt(s, p.sp, x), NEW q, q = NextSlot(p)
  PROVE  Slot(At(s.abi, w, m, p)) = Fetched(At(s.abi, w, m, q), x)
<1>1. x \in Seq(Byte) /\ Len(x) = 8
  BY SolidLen
<1>2. FromStack(At(s.abi, w, m, p), 8, 8) = Fetched(At(s.abi, w, m, Behind(p, 8)), x)
  BY <1>1, GotEight
<1>3. q = Behind(p, 8)
  BY DEF Behind, NextSlot
<1> QED BY <1>2, <1>3 DEF Slot

(* Behind what an alignment leaves free. *)
LEMMA AlignedTo ==
  ASSUME NEW s, IsVM(s), NEW k \in {1, 2, 4, 8}, NEW r, r = dcVecAlign(s, k)
  PROVE  /\ IsVM(r) /\ OnlyVec(s, r) /\ Keeps(s, r) /\ Len(r.vec) = RoundUp(Len(s.vec), k)
         /\ RoundUp(Len(s.vec), k) \in Nat /\ Len(s.vec) <= RoundUp(Len(s.vec), k)
         /\ RoundUp(Len(s.vec), k) <= RoundUp(Len(s.vec), 8)
<1> DEFINE m == Len(s.vec)
           h == RoundUp(m, k)
<1>1. m \in Nat
  BY LenVec
<1>2. h \in Nat /\ m <= h /\ h <= RoundUp(m, 8)
  <2> HIDE DEF m
  <2> QED BY <1>1 DEF RoundUp
<1>3. r = dcVecResize(s, h)
  BY DEF dcVecAlign, dcVecSize
<1> HIDE DEF h
<1>4. IsVM(r) /\ OnlyVec(s, r) /\ Keeps(s, r) /\ Len(r.vec) = h
  BY <1>2, <1>3, Resized
<1> QED BY <1>2, <1>4 DEF h

LEMMA NewBehind ==
  ASSUME NEW s, IsVM(s), Room(s), NEW p \in Cursors, Level(s, p), NEW r, IsVM(r), OnlyVec(s, r), Keeps(s, r),
         NEW h \in Nat, Len(r.vec) = h, h <= RoundUp(Len(s.vec), 8), NEW x \in Seq(Byte), Len(x) <= 8,
         NEW u, u = dcVecAppend(r, x), NEW k, k = h + Len(x)
  PROVE  LET q == To(p, k) IN
           q \in Cursors /\ q.sp = k /\ q.i = p.i /\ q.f = p.f
             /\ Level(u, q) /\ VecAt(u, h, x) /\ Binds(s, u) /\ u.d = s.d /\ u.abi = s.abi
<1> DEFINE m == Len(s.vec)
           e == To(p, h)
           q == To(e, k)
<1>1. m \in Nat /\ m <= h /\ h <= RoundUp(m, 8) /\ r.abi = s.abi
  BY LenVec DEF OnlyVec, Keeps
<1>2. e \in Cursors /\ e.sp = h /\ e.i = p.i /\ e.f = p.f /\ Level(r, e)
  BY LevelVec
<1>3. RoundUp(h, 8) <= RoundUp(m, 8) /\ RoundUp(h, 8) \in Nat /\ RoundUp(m, 8) \in Nat /\ m <= RoundUp(m, 8)
  <2> HIDE DEF m
  <2> QED BY <1>1, RoundUpLeast, RoundUpTo
<1>4. Room(r)
  <2> DEFINE c == RoundUp(m, 8)
             d == RoundUp(h, 8)
  <2>1. c + 8 <= VecTotal /\ d <= c /\ d \in Nat /\ c \in Nat /\ VecTotal \in Nat
    BY <1>3, PlatformAssumption DEF Room
  <2> HIDE DEF c, d
  <2>2. d + 8 <= VecTotal
    BY <2>1
  <2> QED BY <1>1, <2>2 DEF Room, d
<1> HIDE DEF e
<1>5. /\ q \in Cursors /\ q.sp = k /\ q.i = e.i /\ q.f = e.f
      /\ Level(u, q) /\ VecAt(u, h, x) /\ Binds(r, u) /\ u.d = r.d /\ u.abi = r.abi
  BY <1>2, <1>4, NewStack
<1>6. q = To(p, k)
  <2>1. Len(x) \in Nat /\ k \in Nat
    OBVIOUS
  <2> QED BY <2>1, Moves DEF e
<1> HIDE DEF q
<1>7. Binds(s, u)
  <2>1. IsVM(u) /\ Keeps(r, u) /\ u.vt = s.vt /\ u.err = s.err
    BY <1>5 DEF Binds, OnlyVec
  <2>2. Keeps(s, u)
    BY <2>1, KeepsTransitive
  <2>3. Len(u.vec) <= RoundUp(m, 8) + 8 \/ Len(u.vec) <= 8 * IntRegs[s.abi] + 8
    <3>1. CASE Len(u.vec) <= 8 * IntRegs[r.abi] + 8
      BY <1>1, <3>1
    <3>2. CASE Len(u.vec) <= RoundUp(h, 8) + 8
      <4>1. Len(u.vec) \in Nat
        BY <2>1, LenVec
      <4> DEFINE c == RoundUp(m, 8)
                 d == RoundUp(h, 8)
                 z == Len(u.vec)
      <4>2. z \in Nat /\ z <= d + 8 /\ d <= c /\ d \in Nat /\ c \in Nat
        BY <1>3, <3>2, <4>1
      <4> HIDE DEF c, d, z
      <4>3. z <= c + 8
        BY <4>2
      <4> QED BY <4>3 DEF z, c
    <3> QED BY <1>5, <3>1, <3>2 DEF Binds
  <2> QED BY <2>1, <2>2, <2>3 DEF Binds
<1> QED BY <1>2, <1>5, <1>6, <1>7 DEF OnlyVec

LEMMA NewAligned ==
  ASSUME NEW s, IsVM(s), Room(s), NEW p \in Cursors, Level(s, p), NEW z \in {1, 2, 4, 8},
         NEW x \in Seq(Byte), Len(x) <= 8, NEW u, u = dcVecAppend(dcVecAlign(s, z), x),
         NEW h, h = RoundUp(p.sp, z), NEW k, k = h + Len(x)
  PROVE  LET q == To(p, k) IN
           q \in Cursors /\ q.sp = k /\ q.i = p.i /\ q.f = p.f /\ h \in Nat
             /\ Level(u, q) /\ VecAt(u, h, x) /\ Binds(s, u) /\ u.d = s.d /\ u.abi = s.abi
<1> DEFINE r == dcVecAlign(s, z)
<1>1. /\ IsVM(r) /\ OnlyVec(s, r) /\ Keeps(s, r) /\ Len(r.vec) = RoundUp(Len(s.vec), z)
      /\ RoundUp(Len(s.vec), z) \in Nat
      /\ RoundUp(Len(s.vec), z) <= RoundUp(Len(s.vec), 8)
  BY AlignedTo
<1>2. h = RoundUp(Len(s.vec), z)
  BY DEF Level
<1> HIDE DEF r
<1>3. h \in Nat /\ Len(r.vec) = h /\ h <= RoundUp(Len(s.vec), 8) /\ u = dcVecAppend(r, x)
  BY <1>1, <1>2 DEF r
<1> QED BY <1>1, <1>3, NewBehind

(* Where an argument is: in the next register of either kind, or in the   *)
(* vector, behind which the next one is.                                   *)
InInt(s, p, q, x)   == IntAt(s, p.i, x) /\ q = NextI(p)
InFloat(s, p, q, x) == FloatAt(s, p.f, x) /\ q = NextF(p)
InVec(s, p, q, off, x, k) == VecAt(s, off, x) /\ q = To(p, k)

LEMMA SpotKept ==
  ASSUME NEW s, NEW u, IsVM(s), IsVM(u), Keeps(s, u), NEW p, NEW q
  PROVE  /\ \A x : x # Junks(8) /\ InInt(s, p, q, x) => InInt(u, p, q, x)
         /\ \A x : x # Junks(8) /\ InFloat(s, p, q, x) => InFloat(u, p, q, x)
         /\ \A x, off, k, n : Solid(x, n) /\ InVec(s, p, q, off, x, k) => InVec(u, p, q, off, x, k)
<1>1. ASSUME NEW x, x # Junks(8) PROVE InInt(s, p, q, x) => InInt(u, p, q, x)
  BY <1>1, RegistersKept DEF InInt
<1>2. ASSUME NEW x, x # Junks(8) PROVE InFloat(s, p, q, x) => InFloat(u, p, q, x)
  BY <1>2, RegistersKept DEF InFloat
<1>3. ASSUME NEW x, NEW off, NEW k, NEW n, Solid(x, n) PROVE InVec(s, p, q, off, x, k) => InVec(u, p, q, off, x, k)
  BY <1>3, VecAtKept DEF InVec
<1> QED BY <1>1, <1>2, <1>3

-----------------------------------------------------------------------------
(* ARM in 64 bit.                                                          *)

AsFloat(abi, w, t)  == t \in Floats /\ ~AsInts(abi, w)
FloatIn(s, w, p, t) == AsFloat(s.abi, w, t) /\ p.f < FloatRegs[s.abi]
IntIn(s, w, p, t)   == ~AsFloat(s.abi, w, t) /\ p.i < IntRegs[s.abi]
Half(abi, w, t)     == AsFloat(abi, w, t) /\ t = "float"

(* What a float register is given. *)
FloatRaw(abi, t, n) == Padded(Value(n, SizeOf(abi, t)))

LEMMA FloatRawType ==
  ASSUME NEW abi \in ABIs, NEW t \in Floats, NEW n \in Nat, n > 0
  PROVE  LET x == FloatRaw(abi, t, n)
             v == Value(n, SizeOf(abi, t)) IN
           /\ x \in Seq(Byte) /\ Len(x) = 8 /\ x # Junks(8)
           /\ Trunc(x, SizeOf(abi, t)) = v
           /\ t = "double" => x = v /\ Raw8(abi, t, n) = v /\ SizeOf(abi, t) = 8 /\ Solid(v, 8)
           /\ t = "float" => SizeOf(abi, t) = 4 /\ Solid(v, 4)
<1> DEFINE v == Value(n, SizeOf(abi, t))
<1>1. t \in AllTypes
  BY DEF AllTypes
<1>2. CASE t = "float"
  <2>1. SizeOf(abi, t) = 4 /\ Solid(v, 4)
    BY <1>1, <1>2, Sizes, Whole
  <2> HIDE DEF v
  <2>2. Padded(v) \in Seq(Byte) /\ Len(Padded(v)) = 8 /\ Trunc(Padded(v), 4) = v
    BY <2>1, PaddedType
  <2>3. Padded(v) # Junks(8)
    BY <2>1, PaddedNotJunks
  <2> QED BY <1>2, <2>1, <2>2, <2>3 DEF FloatRaw, v
<1>3. CASE t = "double"
  <2>1. SizeOf(abi, t) = 8 /\ Solid(v, 8) /\ v \in Seq(Byte) /\ Len(v) = 8 /\ Len(v) <= 8
    BY <1>1, <1>3, Sizes, Whole, SolidLen DEF Wide
  <2>2. Trunc(v, SizeOf(abi, t)) = v
    BY <1>1, <1>3, Whole, Sizes
  <2>3. Extend(v, 8) = v
    BY <2>1 DEF Extend, Value
  <2> HIDE DEF v
  <2>4. Padded(v) = v
    BY <2>1, PaddedSeq
  <2>5. v # Junks(8)
    BY <2>1, NotJunks
  <2>6. FloatRaw(abi, t, n) = Padded(v) /\ Raw8(abi, t, n) = Extend(v, 8)
    BY DEF FloatRaw, Raw8, v
  <2> HIDE DEF v
  <2> QED BY <1>3, <2>1, <2>2, <2>3, <2>4, <2>5, <2>6 DEF v
<1> QED BY <1>2, <1>3 DEF Floats

ViaArm64(s, w, p, q, n, t) ==
  /\ FloatIn(s, w, p, t) => InFloat(s, p, q, FloatRaw(s.abi, t, n))
  /\ IntIn(s, w, p, t) => InInt(s, p, q, Raw8(s.abi, t, n))
  /\ ~FloatIn(s, w, p, t) /\ ~IntIn(s, w, p, t) =>
       InVec(s, p, q, p.sp, IF Half(s.abi, w, t) THEN Value(n, SizeOf(s.abi, t)) ELSE Raw8(s.abi, t, n),
             p.sp + 8)

LEMMA NewArm64 ==
  ASSUME NEW s, IsVM(s), s.abi \in {"arm64", "arm64_win"}, NEW w \in Ways(s.abi), s.vt = ModeTable(s.abi, w),
         Room(s), NEW p \in Cursors, Level(s, p), NEW t \in TypesOf(w), NEW n \in Nat, n > 0,
         NEW u, u = BindArg(s, t, Value(n, SizeOf(s.abi, t)))
  PROVE  \E q \in Cursors : ViaArm64(u, w, p, q, n, t) /\ Level(u, q) /\ Binds(s, u)
<1> DEFINE v == Value(n, SizeOf(s.abi, t))
           x == Raw8(s.abi, t, n)
           y == FloatRaw(s.abi, t, n)
           fl == AsFloat(s.abi, w, t)
<1>1. t \in AllTypes /\ s.abi \in ABIs /\ s.abi \in ArmABIs /\ p.i = s.i /\ p.f = s.f
  BY WaysTypes, LenVec DEF ArmABIs, Arm64, Level
<1>2. u = IF AsInts(s.abi, w) THEN a_i64(s, Extend(v, 8)) ELSE arg_arm64(s, t, v)
  BY <1>1, ArmBinds
<1>3. x \in Seq(Byte) /\ Len(x) = 8 /\ x = Extend(v, 8) /\ Len(x) <= 8
  <2>1. x = Extend(v, 8)
    BY DEF Raw8
  <2>2. Solid(x, 8)
    BY <1>1, Raw8Type
  <2> HIDE DEF x
  <2> QED BY <2>1, <2>2, SolidLen
<1>4. t \in Floats => y \in Seq(Byte) /\ y = Padded(v)
  BY <1>1, FloatRawType DEF FloatRaw
<1>5. t = "double" => y = v /\ x = v
  BY <1>1, FloatRawType DEF Floats
<1>6. t = "float" => Solid(v, 4)
  BY <1>1, FloatRawType DEF Floats
<1> HIDE DEF v, x, y
<1>7. fl \/ u = a_i64(s, x)
  BY <1>1, <1>2, <1>3 DEF AsFloat, arg_arm64, AllTypes, Floats, Wide
<1>8. fl => u = arg_arm64(s, t, v) /\ t \in Floats
  BY <1>2 DEF AsFloat
<1> HIDE DEF fl
<1>9. /\ FloatIn(s, w, p, t) <=> fl /\ s.f < FloatRegs[s.abi]
      /\ IntIn(s, w, p, t) <=> ~fl /\ s.i < IntRegs[s.abi]
      /\ Half(s.abi, w, t) <=> fl /\ t = "float"
  BY <1>1 DEF FloatIn, IntIn, Half, fl
<1>10. ASSUME u.abi = s.abi
       PROVE  \A q : ViaArm64(u, w, p, q, n, t) <=>
                /\ fl /\ s.f < FloatRegs[s.abi] => InFloat(u, p, q, y)
                /\ ~fl /\ s.i < IntRegs[s.abi] => InInt(u, p, q, x)
                /\ ~(fl /\ s.f < FloatRegs[s.abi]) /\ ~(~fl /\ s.i < IntRegs[s.abi]) =>
                     InVec(u, p, q, p.sp, IF fl /\ t = "float" THEN v ELSE x, p.sp + 8)
  BY <1>1, <1>10 DEF ViaArm64, FloatIn, IntIn, Half, fl, x, y, v
<1>11. CASE fl /\ s.f < FloatRegs[s.abi]
  <2>1. u = PutFloat(s, y)
    BY <1>4, <1>5, <1>8, <1>11 DEF arg_arm64, Floats, IntTypes
  <2> DEFINE q == NextF(p)
  <2>2. q \in Cursors /\ Level(u, q) /\ FloatAt(u, p.f, y) /\ Binds(s, u) /\ u.abi = s.abi
    BY <1>4, <1>8, <1>11, <2>1, NewFloat
  <2>3. InFloat(u, p, q, y)
    BY <2>2 DEF InFloat
  <2> HIDE DEF q
  <2>4. ViaArm64(u, w, p, q, n, t)
    BY <1>10, <1>11, <2>2, <2>3
  <2> QED BY <2>2, <2>4
<1>12. CASE ~fl /\ s.i < IntRegs[s.abi]
  <2>1. u = PutInt(s, x)
    BY <1>7, <1>12 DEF a_i64
  <2> DEFINE q == NextI(p)
  <2>2. q \in Cursors /\ Level(u, q) /\ IntAt(u, p.i, x) /\ Binds(s, u) /\ u.abi = s.abi
    BY <1>3, <1>12, <2>1, NewInt
  <2>3. InInt(u, p, q, x)
    BY <2>2 DEF InInt
  <2> HIDE DEF q
  <2>4. ViaArm64(u, w, p, q, n, t)
    BY <1>10, <1>12, <2>2, <2>3
  <2> QED BY <2>2, <2>4
<1> DEFINE k == p.sp + 8
           q == To(p, k)
<1>13. CASE fl /\ ~(s.f < FloatRegs[s.abi]) /\ t = "float"
  <2>1. u = dcVecSkip(dcVecAppend(s, v), 4)
    BY <1>8, <1>13 DEF arg_arm64, Floats, IntTypes
  <2>2. Solid(v, 4)
    BY <1>6, <1>13
  <2>3. q \in Cursors /\ Level(u, q) /\ VecAt(u, p.sp, v) /\ Binds(s, u) /\ u.abi = s.abi
    BY <2>1, <2>2, NewSlot
  <2>4. InVec(u, p, q, p.sp, v, k)
    BY <2>3 DEF InVec
  <2> HIDE DEF q
  <2>5. ViaArm64(u, w, p, q, n, t)
    BY <1>10, <1>13, <2>3, <2>4
  <2> QED BY <2>3, <2>5
<1>14. CASE ~(fl /\ s.f < FloatRegs[s.abi]) /\ ~(~fl /\ s.i < IntRegs[s.abi]) /\ ~(fl /\ t = "float")
  <2>1. u = dcVecAppend(s, x)
    <3>1. CASE ~fl
      BY <1>7, <1>14, <3>1 DEF a_i64
    <3>2. CASE fl
      BY <1>5, <1>8, <1>14, <3>2 DEF arg_arm64, Floats, IntTypes
    <3> QED BY <3>1, <3>2
  <2>2. LET e == To(p, p.sp + Len(x)) IN
          e \in Cursors /\ Level(u, e) /\ VecAt(u, p.sp, x) /\ Binds(s, u) /\ u.abi = s.abi
    <3>1. x \in Seq(Byte) /\ Len(x) <= 8
      BY <1>3
    <3> QED BY <2>1, <3>1, NewStack
  <2> HIDE DEF k
  <2>3. q \in Cursors /\ Level(u, q) /\ VecAt(u, p.sp, x) /\ Binds(s, u) /\ u.abi = s.abi
    BY <1>3, <2>2 DEF k
  <2>4. InVec(u, p, q, p.sp, x, k)
    BY <2>3 DEF InVec
  <2> HIDE DEF q
  <2>5. ViaArm64(u, w, p, q, n, t)
    BY <1>10, <1>14, <2>3, <2>4 DEF k
  <2> QED BY <2>3, <2>5
<1> QED BY <1>11, <1>12, <1>13, <1>14

LEMMA KeptArm64 ==
  ASSUME NEW s, NEW u, IsVM(s), IsVM(u), Keeps(s, u), NEW w, NEW p, NEW q,
         NEW t \in TypesOf(w), NEW n \in Nat, n > 0, ViaArm64(s, w, p, q, n, t)
  PROVE  ViaArm64(u, w, p, q, n, t)
<1> DEFINE v == Value(n, SizeOf(s.abi, t))
           x == Raw8(s.abi, t, n)
           y == FloatRaw(s.abi, t, n)
           z == IF Half(s.abi, w, t) THEN v ELSE x
           k == p.sp + 8
<1>1. t \in AllTypes /\ s.abi \in ABIs /\ u.abi = s.abi
  BY WaysTypes, LenVec DEF Keeps
<1>2. Solid(x, 8) /\ x # Junks(8)
  BY <1>1, Raw8Type, NotJunks
<1>3. t \in Floats => y # Junks(8)
  BY <1>1, FloatRawType
<1>4. Half(s.abi, w, t) => Solid(v, 4)
  BY <1>1, FloatRawType DEF Half, Floats
<1>5. \E m : Solid(z, m)
  <2> HIDE DEF v, x
  <2> QED BY <1>2, <1>4
<1> HIDE DEF x, y, z, k
<1>6. /\ InInt(s, p, q, x) => InInt(u, p, q, x)
      /\ t \in Floats /\ InFloat(s, p, q, y) => InFloat(u, p, q, y)
      /\ InVec(s, p, q, p.sp, z, k) => InVec(u, p, q, p.sp, z, k)
  BY <1>2, <1>3, <1>5, SpotKept
<1>7. FloatIn(s, w, p, t) => t \in Floats
  BY DEF FloatIn, AsFloat
<1>8. FloatIn(u, w, p, t) = FloatIn(s, w, p, t) /\ IntIn(u, w, p, t) = IntIn(s, w, p, t)
  BY <1>1 DEF FloatIn, IntIn
<1> QED BY <1>1, <1>6, <1>7, <1>8 DEF ViaArm64, x, y, z, k

(* The kernel loads the registers as they are and copies the vector. *)
LEMMA LoadsVec ==
  ASSUME NEW s, IsVM(s), NEW k \in Nat, k >= Len(s.vec), NEW m, m = Image(s.ireg, s.freg, Bytes(s.vec, 0, k))
  PROVE  Loads(m, s)
BY StackWhole DEF Loads, Image, Copied

LEMMA LoadsArm64 ==
  ASSUME NEW s, IsVM(s), s.abi \in Arm64, NEW x \in Ways(s.abi), s.vt = ModeTable(s.abi, x)
  PROVE  Loads(Kernel(s), s)
<1>1. s.abi \in ArmABIs
  BY DEF ArmABIs
<1>2. s.vt.call = IF s.abi = "arm64_apple" THEN "apple" ELSE "arm64"
  <2>1. s.vt = ArmMode(s.abi, x)
    BY <1>1, ArmFamily
  <2> QED BY <1>1, <2>1, ArmTables DEF Arm64, vt_arm64, vt_arm64_win_varargs, vt_arm64_apple, vt_arm64_variadic
<1> DEFINE k == RoundUp(dcVecSize(s), 16)
<1>3. Kernel(s) = Image(s.ireg, s.freg, Bytes(s.vec, 0, k))
  BY <1>1, <1>2, ArmFamily DEF ArmCall, call_arm64, call_arm64_apple
<1>4. k \in Nat /\ k >= Len(s.vec)
  BY LenVec, RoundUpTo DEF dcVecSize
<1> HIDE DEF k
<1> QED BY <1>3, <1>4, LoadsVec

(* The type the target reads. *)
Read(abi, w, t) == IF AsInts(abi, w) THEN AsInteger(t) ELSE t

LEMMA ReadArm64 ==
  ASSUME NEW abi \in {"arm64", "arm64_win"}, NEW w \in Ways(abi), NEW t \in AllTypes, NEW a, a.abi = abi
  PROVE  /\ FetchAs(a, w, t) = dcbArg_arm64(a, Read(abi, w, t))
         /\ Read(abi, w, t) \in Floats <=> AsFloat(abi, w, t)
<1>1. abi \in ArmABIs /\ abi \notin Arm32 /\ abi \notin VariadicAsIntegers /\ abi # "arm64_apple"
  BY DEF ArmABIs, Arm64, Arm32, VariadicAsIntegers, MipsABIs, MipsO32, MipsN64
<1>2. w # "SYS"
  <2>1. OwnModes(abi) = {"ARM64"}
    BY DEF OwnModes, Arm64, MipsO32, MipsN64
  <2> QED BY <2>1 DEF Ways, KnownModes
<1>3. FetchAs(a, w, t) = dcbArg(a, Read(abi, w, t))
  <2>1. CASE AsInts(abi, w)
    BY <1>2, <2>1 DEF FetchAs, Read, AsInts
  <2>2. CASE ~AsInts(abi, w) /\ w = "VARARGS"
    <3>1. abi \notin AllAsIntegers
      BY <2>2 DEF AsInts, CEllipsis
    <3>2. FetchAs(a, w, t) = va_arg(a, t)
      BY <2>2, <3>1 DEF FetchAs
    <3> QED BY <1>1, <2>2, <3>2 DEF va_arg, Read
  <2>3. CASE ~AsInts(abi, w) /\ w # "VARARGS"
    BY <1>2, <2>3 DEF FetchAs, Read, AsInts
  <2> QED BY <2>1, <2>2, <2>3
<1>4. \A z : dcbArg(a, z) = dcbArg_arm64(a, z)
  BY <1>1, ArmFamily DEF ArmFetch
<1>5. Read(abi, w, t) \in Floats <=> AsFloat(abi, w, t)
  BY DEF Read, AsFloat, AsInteger, Floats
<1> QED BY <1>3, <1>4, <1>5

LEMMA FetchArm64 ==
  ASSUME NEW s, IsVM(s), s.abi \in {"arm64", "arm64_win"}, NEW x \in Ways(s.abi), s.vt = ModeTable(s.abi, x),
         NEW w \in Ways(s.abi), NEW p \in Cursors, NEW q \in Cursors, NEW t \in TypesOf(w),
         NEW n \in Nat, n > 0, ViaArm64(s, w, p, q, n, t)
  PROVE  Finds(s.abi, w, Kernel(s), p, q, n, t)
<1> DEFINE v == Value(n, SizeOf(s.abi, t))
           z == Raw8(s.abi, t, n)
           y == FloatRaw(s.abi, t, n)
           m == Kernel(s)
           a == At(s.abi, w, m, p)
           e == At(s.abi, w, m, q)
           g == Read(s.abi, w, t)
           r == FetchAs(a, w, t)
           fl == AsFloat(s.abi, w, t)
<1>1. s.abi \in ABIs /\ t \in AllTypes /\ s.abi \notin X86ABIs
  BY WaysTypes, LenVec DEF X86ABIs
<1>2. m.ireg = s.ireg /\ m.freg = s.freg /\ Copied(m, s)
  BY LoadsArm64 DEF Loads, Arm64
<1> HIDE DEF m
<1>3. a.abi = s.abi /\ a.i = p.i /\ a.f = p.f
  BY <1>1, AtFields
<1>4. r = dcbArg_arm64(a, g) /\ (g \in Floats <=> fl)
  <2> HIDE DEF a
  <2> QED BY <1>1, <1>3, ReadArm64
<1>5. z \in Seq(Byte) /\ Len(z) = 8 /\ Trunc(z, SizeOf(s.abi, t)) = v
  BY <1>1, Raw8Type
<1>6. fl => Trunc(y, SizeOf(s.abi, t)) = v
  BY <1>1, FloatRawType DEF AsFloat
<1>7. Half(s.abi, w, t) => Solid(v, 4) /\ SizeOf(s.abi, t) = 4
  BY <1>1, FloatRawType DEF Half, Floats
<1>8. /\ FloatIn(s, w, p, t) <=> fl /\ p.f < FloatRegs[s.abi]
      /\ IntIn(s, w, p, t) <=> ~fl /\ p.i < IntRegs[s.abi]
  BY DEF FloatIn, IntIn
<1> HIDE DEF v, z, y, g, r, fl
<1>9. /\ fl /\ p.f < FloatRegs[s.abi] => InFloat(s, p, q, y)
      /\ ~fl /\ p.i < IntRegs[s.abi] => InInt(s, p, q, z)
      /\ ~(fl /\ p.f < FloatRegs[s.abi]) /\ ~(~fl /\ p.i < IntRegs[s.abi]) =>
           InVec(s, p, q, p.sp, IF Half(s.abi, w, t) THEN v ELSE z, p.sp + 8)
  BY <1>8 DEF ViaArm64, v, z, y
<1>10. r.args = e /\ Trunc(r.val, SizeOf(s.abi, t)) = v
  <2>1. CASE fl /\ p.f < FloatRegs[s.abi]
    <3>1. m.freg[p.f] = y /\ q = NextF(p)
      BY <1>2, <1>9, <2>1 DEF InFloat, FloatAt
    <3>2. FromFloat(a) = Fetched(e, y)
      BY <1>1, <3>1, GotFloat
    <3>3. r = FromFloat(a)
      BY <1>3, <1>4, <2>1 DEF dcbArg_arm64
    <3> HIDE DEF a, e
    <3> QED BY <1>6, <2>1, <3>2, <3>3 DEF Fetched
  <2>2. CASE ~fl /\ p.i < IntRegs[s.abi]
    <3>1. m.ireg[p.i] = z /\ q = NextI(p)
      BY <1>2, <1>9, <2>2 DEF InInt, IntAt
    <3>2. FromInt(a) = Fetched(e, z)
      BY <1>1, <3>1, GotInt
    <3>3. r = FromInt(a)
      BY <1>3, <1>4, <2>2 DEF dcbArg_arm64
    <3> HIDE DEF a, e
    <3> QED BY <1>5, <3>2, <3>3 DEF Fetched
  <2>3. CASE ~(fl /\ p.f < FloatRegs[s.abi]) /\ ~(~fl /\ p.i < IntRegs[s.abi])
    <3>0. IsVM(s) /\ s.abi \notin X86ABIs /\ Copied(m, s)
      BY <1>1, <1>2
    <3>1. r = Slot(a)
      <4> HIDE DEF a
      <4>1. CASE fl
        BY <1>3, <1>4, <2>3, <4>1 DEF dcbArg_arm64, Slot
      <4>2. CASE ~fl
        BY <1>3, <1>4, <2>3, <4>2 DEF dcbArg_arm64, Slot
      <4> QED BY <4>1, <4>2
    <3>2. CASE Half(s.abi, w, t)
      <4>1. VecAt(s, p.sp, v) /\ q = NextSlot(p)
        BY <1>9, <2>3, <3>2 DEF InVec, NextSlot
      <4>2. Part(s.abi) = 0 /\ p.sp \in Nat
        BY CursorFields DEF Part, BigEndian
      <4>3. VecAt(s, p.sp + Part(s.abi), v) /\ Solid(v, 4)
        BY <1>7, <3>2, <4>1, <4>2
      <4>4. Slot(a).args = e /\ Trunc(Slot(a).val, 4) = v
        BY <3>0, <4>1, <4>3, GotSlot
      <4> HIDE DEF a, e
      <4> QED BY <1>7, <3>1, <3>2, <4>4
    <3>3. CASE ~Half(s.abi, w, t)
      <4>1. VecAt(s, p.sp, z) /\ q = NextSlot(p)
        BY <1>9, <2>3, <3>3 DEF InVec, NextSlot
      <4>2. Solid(z, 8)
        BY <1>1, Raw8Type DEF z
      <4>3. Slot(a) = Fetched(e, z)
        BY <3>0, <4>1, <4>2, GotStack
      <4> HIDE DEF a, e
      <4> QED BY <1>5, <3>1, <4>3 DEF Fetched
    <3> QED BY <3>2, <3>3
  <2> QED BY <2>1, <2>2, <2>3
<1> HIDE DEF a, e
<1> QED BY <1>10 DEF Finds, r, a, e, m, v

LEMMA StartArm64 ==
  ASSUME NEW s, s.abi \in Arm64, NEW w \in Ways(s.abi), s.vt = ModeTable(s.abi, w), Fresh(s)
  PROVE  Level(s, Start)
<1>1. s.abi \in ArmABIs
  BY DEF ArmABIs
<1>2. s.vt = ArmMode(s.abi, w)
  BY <1>1, ArmFamily
<1>3. s.vt.reset = "arm64"
  BY <1>1, <1>2, ArmTables DEF Arm64, vt_arm64, vt_arm64_win_varargs, vt_arm64_apple, vt_arm64_variadic
<1>4. Reserved(s) = 0
  BY <1>3 DEF Reserved
<1> QED BY <1>4, LevelStart

(* Where another table changes nothing else. *)
LEMMA LevelSwitched ==
  ASSUME NEW s, NEW u, u.abi = s.abi, u.vec = s.vec, u.i = s.i, u.f = s.f,
         u.ireg = s.ireg, u.freg = s.freg, NEW p, Level(s, p)
  PROVE  Level(u, p)
BY DEF Level, IntsFree, FloatsFree

-----------------------------------------------------------------------------
(* ARM in 64 bit of Apple: on the stack values are aligned to their size.  *)

NextAligned(p, z) == To(p, RoundUp(p.sp, z) + z)
Aligned(a, z)     == FromStack(AlignSP(a, z), z, z)
Widths == {1, 2, 4, 8}
Fits(x, z) == x \in Seq(Byte) /\ Len(x) = z
InAligned(s, p, q, z, x) == VecAt(s, RoundUp(p.sp, z), x) /\ q = NextAligned(p, z)

LEMMA NewInAligned ==
  ASSUME NEW s, IsVM(s), Room(s), NEW p \in Cursors, Level(s, p), NEW z \in Widths,
         NEW x \in Seq(Byte), Len(x) = z, NEW u, u = dcVecAppend(dcVecAlign(s, z), x)
  PROVE  \E q \in Cursors : InAligned(u, p, q, z, x) /\ Level(u, q) /\ Binds(s, u)
<1> DEFINE h == RoundUp(p.sp, z)
           k == h + Len(x)
           q == To(p, k)
<1>1. Len(x) <= 8 /\ z \in {1, 2, 4, 8}
  BY DEF Widths
<1>2. q \in Cursors /\ Level(u, q) /\ VecAt(u, h, x) /\ Binds(s, u)
  BY <1>1, NewAligned
<1>3. q = NextAligned(p, z)
  BY DEF NextAligned
<1> HIDE DEF q
<1> QED BY <1>2, <1>3 DEF InAligned

LEMMA AlignedKept ==
  ASSUME NEW s, NEW u, IsVM(s), IsVM(u), Keeps(s, u), NEW p, NEW q, NEW z, NEW x, NEW n, Solid(x, n),
         InAligned(s, p, q, z, x)
  PROVE  InAligned(u, p, q, z, x)
BY VecAtKept DEF InAligned

(* What is in the copied vector where a cursor is. *)
Stacked(s, m, e, x) ==
  IsVM(s) /\ s.abi \notin X86ABIs /\ Copied(m, s) /\ e \in Cursors /\ VecAt(s, e.sp, x)

LEMMA GotStacked ==
  ASSUME NEW s, NEW w, NEW m, NEW e, NEW x, NEW z, z \in Nat, Stacked(s, m, e, x), Fits(x, z)
  PROVE  FromStack(At(s.abi, w, m, e), z, z) = Fetched(At(s.abi, w, m, Behind(e, z)), x)
<1> DEFINE l == Len(x)
<1>1. l = z /\ x \in Seq(Byte)
  BY DEF Fits
<1>2. FromStack(At(s.abi, w, m, e), l, z) = Fetched(At(s.abi, w, m, Behind(e, z)), x)
  <2>1. IsVM(s) /\ s.abi \notin X86ABIs /\ Copied(m, s) /\ e \in Cursors /\ VecAt(s, e.sp, x)
    BY DEF Stacked
  <2>2. x \in Seq(Byte)
    BY DEF Fits
  <2> QED BY ZenonT(60), <2>1, <2>2, GotStackAt
<1> HIDE DEF l
<1> QED BY <1>1, <1>2

StackedAligned(s, m, p, q, z, x) ==
  /\ IsVM(s) /\ s.abi \notin X86ABIs /\ Copied(m, s) /\ p \in Cursors
  /\ z \in Widths /\ Fits(x, z) /\ InAligned(s, p, q, z, x)

LEMMA GotAligned ==
  ASSUME NEW s, NEW w, NEW m, NEW p, NEW q, NEW z, NEW x, StackedAligned(s, m, p, q, z, x)
  PROVE  Aligned(At(s.abi, w, m, p), z) = Fetched(At(s.abi, w, m, q), x)
<1> DEFINE a == At(s.abi, w, m, p)
           h == RoundUp(p.sp, z)
           e == To(p, h)
           b == At(s.abi, w, m, e)
<1>0. /\ IsVM(s) /\ s.abi \notin X86ABIs /\ Copied(m, s) /\ p \in Cursors
      /\ z \in Widths /\ Fits(x, z) /\ InAligned(s, p, q, z, x)
  BY DEF StackedAligned
<1>1. p.sp \in Nat /\ h \in Nat /\ z \in Nat
  <2>0. z \in {1, 2, 4, 8}
    BY <1>0 DEF Widths
  <2> DEFINE k == p.sp
  <2>1. k \in Nat
    BY <1>0, CursorFields
  <2> HIDE DEF k
  <2>2. RoundUp(k, z) \in Nat
    BY <2>0, <2>1 DEF RoundUp
  <2> QED BY <2>0, <2>1, <2>2 DEF k
<1>2. VecAt(s, h, x) /\ q = To(p, h + z)
  BY <1>0 DEF InAligned, NextAligned
<1>3. a.sp = p.sp
  BY <1>0, AtFields
<1>4. AlignSP(a, z) = [a EXCEPT !.sp = h]
  BY <1>3 DEF AlignSP
<1>5. e = [p EXCEPT !.sp = h]
  BY DEF To
<1> HIDE DEF h
<1>6. e \in Cursors /\ e.sp = h
  BY <1>0, <1>1, Moves
<1>7. b = [a EXCEPT !.sp = h]
  BY <1>0, <1>1, <1>5, AtStack
<1>8. Behind(e, z) = q
  <2>1. h + z \in Nat
    BY <1>1
  <2>2. Behind(e, z) = To(e, h + z)
    BY <1>6 DEF Behind
  <2> QED BY <1>1, <1>2, <1>0, <2>1, <2>2, Moves DEF e
<1> HIDE DEF e
<1>9. FromStack(b, z, z) = Fetched(At(s.abi, w, m, Behind(e, z)), x)
  <2>1. Stacked(s, m, e, x)
    BY <1>0, <1>2, <1>6 DEF Stacked
  <2> QED BY <1>0, <1>1, <2>1, GotStacked
<1> HIDE DEF b, a
<1> QED BY <1>4, <1>7, <1>8, <1>9 DEF Aligned, a


-----------------------------------------------------------------------------
AppleFloat(s, w, p, t) == w # "VARARGS" /\ t \in Floats /\ p.f < FloatRegs[s.abi]
AppleInt(s, w, p, t)   == w # "VARARGS" /\ t \notin Floats /\ p.i < IntRegs[s.abi]
AppleWidth(abi, w, t)  == IF w = "VARARGS" THEN 8 ELSE SizeOf(abi, t)
AppleRaw(abi, w, t, n) == IF w = "VARARGS" THEN Raw8(abi, t, n) ELSE Value(n, SizeOf(abi, t))

ViaApple(s, w, p, q, n, t) ==
  /\ AppleFloat(s, w, p, t) => InFloat(s, p, q, FloatRaw(s.abi, t, n))
  /\ AppleInt(s, w, p, t) => InInt(s, p, q, Raw8(s.abi, t, n))
  /\ ~AppleFloat(s, w, p, t) /\ ~AppleInt(s, w, p, t) =>
       InAligned(s, p, q, AppleWidth(s.abi, w, t), AppleRaw(s.abi, w, t, n))

LEMMA AppleRawType ==
  ASSUME NEW abi \in ABIs, NEW w, NEW t \in AllTypes, NEW n \in Nat, n > 0
  PROVE  LET z == AppleWidth(abi, w, t)
             x == AppleRaw(abi, w, t, n) IN
           /\ z \in Widths /\ x \in Seq(Byte) /\ Len(x) = z /\ Solid(x, z)
           /\ Trunc(x, SizeOf(abi, t)) = Value(n, SizeOf(abi, t))
<1>1. CASE w = "VARARGS"
  BY <1>1, Raw8Type DEF AppleWidth, AppleRaw, Widths
<1>2. CASE w # "VARARGS"
  <2> DEFINE z == SizeOf(abi, t)
             x == Value(n, z)
  <2>1. z \in Widths /\ z \in Nat
    BY Sizes DEF Widths
  <2> HIDE DEF z
  <2>2. Solid(x, z) /\ Trunc(x, z) = x
    BY <2>1, Whole
  <2> HIDE DEF x
  <2>3. x \in Seq(Byte) /\ Len(x) = z
    BY <2>2 DEF Solid
  <2> QED BY <1>2, <2>1, <2>2, <2>3 DEF AppleWidth, AppleRaw, z, x
<1> QED BY <1>1, <1>2

LEMMA NewApple ==
  ASSUME NEW s, IsVM(s), s.abi = "arm64_apple", NEW w \in Ways(s.abi), s.vt = ModeTable(s.abi, w),
         Room(s), NEW p \in Cursors, Level(s, p), NEW t \in TypesOf(w), NEW n \in Nat, n > 0,
         NEW u, u = BindArg(s, t, Value(n, SizeOf(s.abi, t)))
  PROVE  \E q \in Cursors : ViaApple(u, w, p, q, n, t) /\ Level(u, q) /\ Binds(s, u)
<1> DEFINE v == Value(n, SizeOf(s.abi, t))
           x == Raw8(s.abi, t, n)
           y == FloatRaw(s.abi, t, n)
           z == AppleWidth(s.abi, w, t)
           g == AppleRaw(s.abi, w, t, n)
           fl == AppleFloat(s, w, p, t)
           il == AppleInt(s, w, p, t)
<1>1. t \in AllTypes /\ s.abi \in ABIs /\ s.abi \in ArmABIs /\ p.i = s.i /\ p.f = s.f
  BY WaysTypes, LenVec DEF ArmABIs, Arm64, Level
<1>2. u = IF w = "VARARGS" THEN arg_arm64_variadic(s, t, v) ELSE arg_arm64_apple(s, t, v)
  BY <1>1, ArmBinds
<1>3. x = Extend(v, 8) /\ y = Padded(v)
  BY DEF Raw8, FloatRaw
<1>4. x \in Seq(Byte)
  BY <1>1, Raw8Type
<1>5. t \in Floats => y \in Seq(Byte)
  BY <1>1, FloatRawType
<1>6. z \in Widths /\ g \in Seq(Byte) /\ Len(g) = z
  BY <1>1, AppleRawType
<1>7. w = "VARARGS" => t # "float" /\ z = 8 /\ g = x
  BY WaysTypes DEF TypesOf, AppleWidth, AppleRaw
<1>8. w # "VARARGS" => z = SizeOf(s.abi, t) /\ g = v
  BY DEF AppleWidth, AppleRaw
<1>9. /\ fl <=> w # "VARARGS" /\ t \in Floats /\ s.f < FloatRegs[s.abi]
      /\ il <=> w # "VARARGS" /\ t \notin Floats /\ s.i < IntRegs[s.abi]
  BY <1>1 DEF AppleFloat, AppleInt
<1> HIDE DEF v, x, y, z, g
<1>10. ASSUME u.abi = s.abi
       PROVE  \A q : ViaApple(u, w, p, q, n, t) <=>
                /\ fl => InFloat(u, p, q, y)
                /\ il => InInt(u, p, q, x)
                /\ ~fl /\ ~il => InAligned(u, p, q, z, g)
  BY <1>10 DEF ViaApple, AppleFloat, AppleInt, x, y, z, g
<1> HIDE DEF fl, il
<1>11. CASE fl
  <2>1. u = PutFloat(s, y)
    BY <1>2, <1>3, <1>9, <1>11 DEF arg_arm64_apple
  <2> DEFINE q == NextF(p)
  <2>2. q \in Cursors /\ Level(u, q) /\ FloatAt(u, p.f, y) /\ Binds(s, u) /\ u.abi = s.abi
    BY <1>5, <1>9, <1>11, <2>1, NewFloat
  <2>3. InFloat(u, p, q, y)
    BY <2>2 DEF InFloat
  <2>4. ~il
    BY <1>9, <1>11
  <2> HIDE DEF q
  <2>5. ViaApple(u, w, p, q, n, t)
    BY <1>10, <1>11, <2>2, <2>3, <2>4
  <2> QED BY <2>2, <2>5
<1>12. CASE il
  <2>1. u = PutInt(s, x)
    BY <1>2, <1>3, <1>9, <1>12 DEF arg_arm64_apple
  <2> DEFINE q == NextI(p)
  <2>2. q \in Cursors /\ Level(u, q) /\ IntAt(u, p.i, x) /\ Binds(s, u) /\ u.abi = s.abi
    BY <1>4, <1>9, <1>12, <2>1, NewInt
  <2>3. InInt(u, p, q, x)
    BY <2>2 DEF InInt
  <2>4. ~fl
    BY <1>9, <1>12
  <2> HIDE DEF q
  <2>5. ViaApple(u, w, p, q, n, t)
    BY <1>10, <1>12, <2>2, <2>3, <2>4
  <2> QED BY <2>2, <2>5
<1>13. CASE ~fl /\ ~il
  <2>1. u = dcVecAppend(dcVecAlign(s, z), g)
    <3>1. CASE w = "VARARGS"
      BY <1>2, <1>3, <1>7, <3>1 DEF arg_arm64_variadic
    <3>2. CASE w # "VARARGS"
      BY <1>2, <1>8, <1>9, <1>13, <3>2 DEF arg_arm64_apple, AppleStack
    <3> QED BY <3>1, <3>2
  <2>2. PICK q \in Cursors : InAligned(u, p, q, z, g) /\ Level(u, q) /\ Binds(s, u)
    BY <1>6, <2>1, NewInAligned
  <2>3. u.abi = s.abi
    BY <2>2 DEF Binds, Keeps
  <2>4. ViaApple(u, w, p, q, n, t)
    BY <1>10, <1>13, <2>2, <2>3
  <2> QED BY <2>2, <2>4
<1> QED BY <1>11, <1>12, <1>13

LEMMA KeptApple ==
  ASSUME NEW s, NEW u, IsVM(s), IsVM(u), Keeps(s, u), NEW w, NEW p, NEW q,
         NEW t \in TypesOf(w), NEW n \in Nat, n > 0, ViaApple(s, w, p, q, n, t)
  PROVE  ViaApple(u, w, p, q, n, t)
<1> DEFINE x == Raw8(s.abi, t, n)
           y == FloatRaw(s.abi, t, n)
           z == AppleWidth(s.abi, w, t)
           g == AppleRaw(s.abi, w, t, n)
<1>1. t \in AllTypes /\ s.abi \in ABIs /\ u.abi = s.abi
  BY WaysTypes, LenVec DEF Keeps
<1>2. x # Junks(8)
  BY <1>1, Raw8Type, NotJunks
<1>3. t \in Floats => y # Junks(8)
  BY <1>1, FloatRawType
<1>4. Solid(g, z)
  BY <1>1, AppleRawType
<1> HIDE DEF x, y, z, g
<1>5. /\ InInt(s, p, q, x) => InInt(u, p, q, x)
      /\ t \in Floats /\ InFloat(s, p, q, y) => InFloat(u, p, q, y)
  BY <1>2, <1>3, SpotKept
<1>6. InAligned(s, p, q, z, g) => InAligned(u, p, q, z, g)
  BY <1>4, AlignedKept
<1>7. AppleFloat(s, w, p, t) => t \in Floats
  BY DEF AppleFloat
<1>8. /\ AppleFloat(u, w, p, t) <=> AppleFloat(s, w, p, t)
      /\ AppleInt(u, w, p, t) <=> AppleInt(s, w, p, t)
  BY <1>1 DEF AppleFloat, AppleInt
<1> QED BY <1>1, <1>5, <1>6, <1>7, <1>8 DEF ViaApple, x, y, z, g

LEMMA ReadApple ==
  ASSUME NEW abi, abi = "arm64_apple", NEW w \in Ways(abi), NEW t \in AllTypes, NEW a, a.abi = abi
  PROVE  /\ w = "VARARGS" => FetchAs(a, w, t) = Aligned(a, 8)
         /\ w # "VARARGS" => FetchAs(a, w, t) = dcbArg_arm64_apple(a, t)
<1>1. abi \in ArmABIs /\ abi \notin Arm32 /\ abi \notin AllAsIntegers /\ abi \notin {"arm64", "arm64_win"}
  BY DEF ArmABIs, Arm64, Arm32, AllAsIntegers
<1>2. w # "SYS"
  <2>1. OwnModes(abi) = {"ARM64"}
    BY DEF OwnModes, Arm64, MipsO32, MipsN64
  <2> QED BY <2>1 DEF Ways, KnownModes
<1>3. CASE w = "VARARGS"
  <2>1. FetchAs(a, w, t) = va_arg(a, t)
    BY <1>1, <1>2, <1>3 DEF FetchAs
  <2>2. va_arg(a, t) = FromStack(AlignSP(a, 8), 8, 8)
    <3>1. a.abi = "arm64_apple" /\ a.abi \notin VariadicAsIntegers
      BY DEF VariadicAsIntegers, MipsABIs, MipsO32, MipsN64
    <3> QED BY <3>1 DEF va_arg
  <2> QED BY <1>3, <2>1, <2>2 DEF Aligned
<1>4. CASE w # "VARARGS"
  <2>1. FetchAs(a, w, t) = dcbArg(a, t)
    BY <1>1, <1>2, <1>4 DEF FetchAs
  <2>2. dcbArg(a, t) = dcbArg_arm64_apple(a, t)
    BY <1>1, ArmFamily DEF ArmFetch
  <2> QED BY <1>4, <2>1, <2>2
<1> QED BY <1>3, <1>4

LEMMA FetchApple ==
  ASSUME NEW s, IsVM(s), s.abi = "arm64_apple", NEW x \in Ways(s.abi), s.vt = ModeTable(s.abi, x),
         NEW w \in Ways(s.abi), NEW p \in Cursors, NEW q \in Cursors, NEW t \in TypesOf(w),
         NEW n \in Nat, n > 0, ViaApple(s, w, p, q, n, t)
  PROVE  Finds(s.abi, w, Kernel(s), p, q, n, t)
<1> DEFINE v == Value(n, SizeOf(s.abi, t))
           k == Raw8(s.abi, t, n)
           y == FloatRaw(s.abi, t, n)
           z == AppleWidth(s.abi, w, t)
           g == AppleRaw(s.abi, w, t, n)
           m == Kernel(s)
           a == At(s.abi, w, m, p)
           e == At(s.abi, w, m, q)
           r == FetchAs(a, w, t)
           fl == AppleFloat(s, w, p, t)
           il == AppleInt(s, w, p, t)
<1>1. s.abi \in ABIs /\ t \in AllTypes /\ s.abi \notin X86ABIs
  BY WaysTypes, LenVec DEF X86ABIs
<1>2. m.ireg = s.ireg /\ m.freg = s.freg /\ Copied(m, s)
  BY LoadsArm64 DEF Loads, Arm64
<1> HIDE DEF m
<1>3. a.abi = s.abi /\ a.i = p.i /\ a.f = p.f
  BY <1>1, AtFields
<1>4. (w = "VARARGS" => r = Aligned(a, 8)) /\ (w # "VARARGS" => r = dcbArg_arm64_apple(a, t))
  <2> HIDE DEF a
  <2> QED BY <1>1, <1>3, ReadApple
<1>5. Trunc(k, SizeOf(s.abi, t)) = v
  BY <1>1, Raw8Type
<1>6. fl => Trunc(y, SizeOf(s.abi, t)) = v
  BY <1>1, FloatRawType DEF AppleFloat
<1>7. z \in Widths /\ g \in Seq(Byte) /\ Len(g) = z /\ Trunc(g, SizeOf(s.abi, t)) = v
  BY <1>1, AppleRawType
<1>8. /\ fl <=> w # "VARARGS" /\ t \in Floats /\ p.f < FloatRegs[s.abi]
      /\ il <=> w # "VARARGS" /\ t \notin Floats /\ p.i < IntRegs[s.abi]
  BY DEF AppleFloat, AppleInt
<1>9. z = IF w = "VARARGS" THEN 8 ELSE SizeOf(s.abi, t)
  BY DEF AppleWidth
<1>10. /\ fl => InFloat(s, p, q, y)
       /\ il => InInt(s, p, q, k)
       /\ ~fl /\ ~il => InAligned(s, p, q, z, g)
  BY DEF ViaApple
<1> HIDE DEF v, k, y, z, g, r, fl, il
<1>11. r.args = e /\ Trunc(r.val, SizeOf(s.abi, t)) = v
  <2>1. CASE fl
    <3>1. m.freg[p.f] = y /\ q = NextF(p)
      BY <1>2, <1>10, <2>1 DEF InFloat, FloatAt
    <3>2. FromFloat(a) = Fetched(e, y)
      BY <1>1, <3>1, GotFloat
    <3>3. r = FromFloat(a)
      BY <1>3, <1>4, <1>8, <2>1 DEF dcbArg_arm64_apple
    <3> HIDE DEF a, e
    <3> QED BY <1>6, <2>1, <3>2, <3>3 DEF Fetched
  <2>2. CASE il
    <3>1. m.ireg[p.i] = k /\ q = NextI(p)
      BY <1>2, <1>10, <2>2 DEF InInt, IntAt
    <3>2. FromInt(a) = Fetched(e, k)
      BY <1>1, <3>1, GotInt
    <3>3. r = FromInt(a)
      BY <1>3, <1>4, <1>8, <2>2 DEF dcbArg_arm64_apple
    <3> HIDE DEF a, e
    <3> QED BY <1>5, <3>2, <3>3 DEF Fetched
  <2>3. CASE ~fl /\ ~il
    <3>0. z \in Widths /\ Fits(g, z)
      BY <1>7 DEF Fits
    <3>1. r = Aligned(a, z)
      <4> HIDE DEF a
      <4>1. CASE w = "VARARGS"
        BY <1>4, <1>9, <4>1
      <4>2. CASE w # "VARARGS"
        BY <1>3, <1>4, <1>8, <1>9, <2>3, <4>2 DEF dcbArg_arm64_apple, AppleAtSP, Aligned
      <4> QED BY <4>1, <4>2
    <3>2. InAligned(s, p, q, z, g)
      BY <1>10, <2>3
    <3>3. Aligned(a, z) = Fetched(e, g)
      <4>1. StackedAligned(s, m, p, q, z, g)
        BY <1>1, <1>2, <3>0, <3>2 DEF StackedAligned
      <4> QED BY <4>1, GotAligned
    <3> HIDE DEF a, e
    <3> QED BY <1>7, <3>1, <3>3 DEF Fetched
  <2> QED BY <2>1, <2>2, <2>3
<1> HIDE DEF a, e
<1> QED BY <1>11 DEF Finds, r, a, e, m, v

-----------------------------------------------------------------------------
(* All of 64 bit.                                                          *)

ViaArm(s, w, p, q, n, t) ==
  IF s.abi = "arm64_apple" THEN ViaApple(s, w, p, q, n, t) ELSE ViaArm64(s, w, p, q, n, t)

LEMMA NewArm ==
  ASSUME NEW s, IsVM(s), s.abi \in Arm64, NEW w \in Ways(s.abi), s.vt = ModeTable(s.abi, w),
         Room(s), NEW p \in Cursors, Level(s, p), NEW t \in TypesOf(w), NEW n \in Nat, n > 0,
         NEW u, u = BindArg(s, t, Value(n, SizeOf(s.abi, t)))
  PROVE  \E q \in Cursors : ViaArm(u, w, p, q, n, t) /\ Level(u, q) /\ Binds(s, u)
<1>1. CASE s.abi = "arm64_apple"
  <2>1. PICK q \in Cursors : ViaApple(u, w, p, q, n, t) /\ Level(u, q) /\ Binds(s, u)
    BY <1>1, NewApple
  <2>2. u.abi = "arm64_apple"
    BY <1>1, <2>1 DEF Binds, Keeps
  <2> QED BY <2>1, <2>2 DEF ViaArm
<1>2. CASE s.abi \in {"arm64", "arm64_win"}
  <2>1. PICK q \in Cursors : ViaArm64(u, w, p, q, n, t) /\ Level(u, q) /\ Binds(s, u)
    BY <1>2, NewArm64
  <2>2. u.abi # "arm64_apple"
    BY <1>2, <2>1 DEF Binds, Keeps
  <2> QED BY <2>1, <2>2 DEF ViaArm
<1> QED BY <1>1, <1>2 DEF Arm64

LEMMA KeptArm ==
  ASSUME NEW s, NEW u, IsVM(s), IsVM(u), Keeps(s, u), NEW w, NEW p, NEW q,
         NEW t \in TypesOf(w), NEW n \in Nat, n > 0, ViaArm(s, w, p, q, n, t)
  PROVE  ViaArm(u, w, p, q, n, t)
<1>1. u.abi = s.abi
  BY DEF Keeps
<1>2. CASE s.abi = "arm64_apple"
  BY <1>1, <1>2, KeptApple DEF ViaArm
<1>3. CASE s.abi # "arm64_apple"
  BY <1>1, <1>3, KeptArm64 DEF ViaArm
<1> QED BY <1>2, <1>3

LEMMA FetchArm ==
  ASSUME NEW s, IsVM(s), s.abi \in Arm64, NEW x \in Ways(s.abi), s.vt = ModeTable(s.abi, x),
         NEW w \in Ways(s.abi), NEW p \in Cursors, NEW q \in Cursors, NEW t \in TypesOf(w),
         NEW n \in Nat, n > 0, ViaArm(s, w, p, q, n, t)
  PROVE  Finds(s.abi, w, Kernel(s), p, q, n, t)
<1>1. CASE s.abi = "arm64_apple"
  BY <1>1, FetchApple DEF ViaArm
<1>2. CASE s.abi \in {"arm64", "arm64_win"}
  <2>1. ViaArm64(s, w, p, q, n, t)
    BY <1>2 DEF ViaArm
  <2> QED BY <1>2, <2>1, FetchArm64
<1> QED BY <1>1, <1>2 DEF Arm64

-----------------------------------------------------------------------------
(* MIPS in 64 bit: the n-th argument is in the n-th register, of one bank  *)
(* or the other, or in the slot of eight bytes behind those before it.     *)
Mips64 == MipsN64 \cup {"mips_n32"}

NumbersFree(s) == \A r \in 0 .. FloatRegs[s.abi] - 1 : r >= s.i => s.freg[r] = Junks(8)

Numbered(s, p) ==
  p.i = s.i /\ p.sp = Len(s.vec) /\ IntsFree(s) /\ NumbersFree(s) /\ s.d \in SUBSET Nat

Hard(abi, w, t) == t \in Floats /\ w # "VARARGS" /\ IsHardFloat(abi)
Single(w, t)    == t = "float" /\ w # "VARARGS"

(* What an integer register is given, and what a slot holds. *)
IntRaw(abi, w, t, n)  == IF Single(w, t) THEN Padded(Value(n, SizeOf(abi, t))) ELSE Raw8(abi, t, n)
SlotRaw(abi, w, t, n) == IF Single(w, t) THEN Value(n, SizeOf(abi, t)) ELSE Raw8(abi, t, n)

(* In the float register of the cursor's number. *)
InNumber(s, p, q, t, v) == FloatAt(s, p.i, v) /\ (t = "double" => p.i \in s.d) /\ q = NextI(p)

Reg64(s, p) == p.i < IntRegs[s.abi]

ViaMips64(s, w, p, q, n, t) ==
  /\ Reg64(s, p) /\ Hard(s.abi, w, t) => InNumber(s, p, q, t, Value(n, SizeOf(s.abi, t)))
  /\ Reg64(s, p) /\ ~Hard(s.abi, w, t) => InInt(s, p, q, IntRaw(s.abi, w, t, n))
  /\ ~Reg64(s, p) => InVec(s, p, q, p.sp, SlotRaw(s.abi, w, t, n), p.sp + 8)

LEMMA Raws64 ==
  ASSUME NEW abi \in ABIs, NEW w, NEW t \in AllTypes, NEW n \in Nat, n > 0
  PROVE  LET v == Value(n, SizeOf(abi, t))
             y == IntRaw(abi, w, t, n)
             z == SlotRaw(abi, w, t, n) IN
           /\ y \in Seq(Byte) /\ Len(y) = 8 /\ y # Junks(8) /\ Trunc(y, SizeOf(abi, t)) = v
           /\ v \in Seq(Byte) /\ v # Junks(8) /\ Trunc(v, SizeOf(abi, t)) = v
           /\ Single(w, t) => z = v /\ Solid(v, 4) /\ SizeOf(abi, t) = 4 /\ y = Padded(v)
           /\ ~Single(w, t) => z = y /\ Solid(z, 8)
           /\ t = "float" => Solid(v, 4) /\ SizeOf(abi, t) = 4
           /\ t = "double" => v = Raw8(abi, t, n) /\ Len(v) = 8 /\ y = v
           /\ \E m : Solid(z, m)
<1> DEFINE v == Value(n, SizeOf(abi, t))
           y == IntRaw(abi, w, t, n)
           z == SlotRaw(abi, w, t, n)
           x == Raw8(abi, t, n)
<1>1. x \in Seq(Byte) /\ Solid(x, 8) /\ Len(x) = 8 /\ Trunc(x, SizeOf(abi, t)) = v
  BY Raw8Type
<1>2. SizeOf(abi, t) \in {1, 2, 4, 8} /\ SizeOf(abi, t) \in Nat /\ SizeOf(abi, t) > 0
  BY Sizes
<1>3. Solid(v, SizeOf(abi, t)) /\ Trunc(v, SizeOf(abi, t)) = v
  BY <1>2, Whole
<1>4. t = "float" => Solid(v, 4) /\ SizeOf(abi, t) = 4
  BY FloatRawType DEF Floats
<1>5. t = "double" => v = x
  BY FloatRawType DEF Floats
<1>6. Single(w, t) => y = Padded(v) /\ z = v /\ t = "float"
  BY DEF IntRaw, SlotRaw, Single
<1>7. ~Single(w, t) => y = x /\ z = x
  BY DEF IntRaw, SlotRaw
<1>8. t = "double" => ~Single(w, t)
  BY DEF Single
<1> HIDE DEF v, y, z, x
<1>9. v \in Seq(Byte) /\ v # Junks(8)
  BY <1>2, <1>3, NotJunks DEF Solid
<1>10. x # Junks(8)
  BY <1>1, NotJunks
<1>11. CASE Single(w, t)
  <2>1. Padded(v) \in Seq(Byte) /\ Len(Padded(v)) = 8 /\ Trunc(Padded(v), 4) = v /\ Padded(v) # Junks(8)
    BY <1>4, <1>6, <1>11, PaddedType, PaddedNotJunks
  <2>2. t # "double" /\ Solid(v, 4) /\ SizeOf(abi, t) = 4 /\ y = Padded(v) /\ z = v
    BY <1>4, <1>6, <1>8, <1>11
  <2> QED BY <1>3, <1>9, <1>11, <2>1, <2>2 DEF v, y, z
<1>12. CASE ~Single(w, t)
  <2>1. y = x /\ z = x
    BY <1>7, <1>12
  <2> QED BY <1>1, <1>3, <1>4, <1>5, <1>9, <1>10, <1>12, <2>1 DEF v, y, z, x
<1> QED BY <1>11, <1>12

-----------------------------------------------------------------------------
(* Binding.                                                                *)
LEMMA NumberInt ==
  ASSUME NEW s, IsVM(s), NEW p \in Cursors, Numbered(s, p), s.i < IntRegs[s.abi], NEW x \in Seq(Byte),
         NEW u, u = PutInt(s, x)
  PROVE  LET q == NextI(p) IN
           q \in Cursors /\ Numbered(u, q) /\ InInt(u, p, q, x) /\ Binds(s, u) /\ u.d = s.d
<1>1. /\ IsVM(u) /\ Keeps(s, u) /\ IntAt(u, s.i, x) /\ IntsFree(u) /\ u.i = s.i + 1
      /\ u.abi = s.abi /\ u.vt = s.vt /\ u.err = s.err /\ u.vec = s.vec
      /\ u.f = s.f /\ u.d = s.d /\ u.freg = s.freg
  BY PutInInt DEF Numbered
<1>2. Binds(s, u)
  BY <1>1, SameBinds
<1>3. NumbersFree(u)
  <2>1. s.i \in Nat /\ FloatRegs[s.abi] \in Nat
    BY LenVec
  <2> QED BY <1>1, <2>1 DEF Numbered, NumbersFree
<1> DEFINE q == NextI(p)
<1>4. q \in Cursors /\ q.i = p.i + 1 /\ q.sp = p.sp
  BY CursorFields, Moves
<1> HIDE DEF q
<1>5. Numbered(u, q)
  BY <1>1, <1>3, <1>4 DEF Numbered
<1>6. IntAt(u, p.i, x)
  BY <1>1 DEF Numbered
<1> QED BY <1>1, <1>2, <1>4, <1>5, <1>6 DEF q, InInt

(* The float registers that a single and a double go to.                   *)
PutSingle(s, v) == [s EXCEPT !.freg[s.i] = v, !.i = @ + 1]
PutDouble(s, v) == [s EXCEPT !.freg[s.i] = v, !.d = @ \cup {s.i}, !.i = @ + 1]

PutsNumber(s, u, x, e) ==
  /\ e \in SUBSET Nat /\ s.d \subseteq e
  /\ (u = PutSingle(s, x) /\ e = s.d) \/ (u = PutDouble(s, x) /\ e = s.d \cup {s.i})

LEMMA NumberFloat ==
  ASSUME NEW s, IsVM(s), NEW p \in Cursors, Numbered(s, p), s.i < FloatRegs[s.abi], s.i < IntRegs[s.abi],
         NEW x \in Seq(Byte), NEW u, NEW e, PutsNumber(s, u, x, e)
  PROVE  LET q == NextI(p) IN
           q \in Cursors /\ Numbered(u, q) /\ FloatAt(u, p.i, x) /\ Binds(s, u) /\ u.d = e /\ u.abi = s.abi
<1> DEFINE k == s.i
           m == k + 1
           r == [s EXCEPT !.freg[k] = x]
           y == [r EXCEPT !.d = e]
           g == [y EXCEPT !.i = m]
<1>0. /\ e \in SUBSET Nat /\ s.d \subseteq e
      /\ (u = PutSingle(s, x) /\ e = s.d) \/ (u = PutDouble(s, x) /\ e = s.d \cup {s.i})
  BY DEF PutsNumber
<1>1. k \in Nat /\ m \in Nat /\ k \in 0 .. FloatRegs[s.abi] - 1 /\ FloatRegs[s.abi] \in Nat
  BY LenVec
<1>2. u = g
  <2>1. s = [s EXCEPT !.d = s.d]
    BY DEF IsVM, VMs
  <2> QED BY <1>0, <2>1 DEF PutSingle, PutDouble, IsVM, VMs
<1>3. m = s.i + 1 /\ k = s.i
  OBVIOUS
<1> HIDE DEF k, m
<1>4. /\ IsVM(r) /\ SameVec(s, r) /\ r.f = s.f /\ r.d = s.d /\ r.ireg = s.ireg /\ r.i = s.i
      /\ r.freg = [s.freg EXCEPT ![k] = x]
  BY <1>1, TypedFloat
<1> HIDE DEF r
<1>5. IsVM(y) /\ SameVec(r, y) /\ y.f = r.f /\ y.d = e /\ y.ireg = r.ireg /\ y.freg = r.freg
  <2>1. e \in Nat \cup SUBSET Nat
    BY <1>0
  <2> QED BY <1>4, <2>1, SetDouble
<1> HIDE DEF y
<1>6. IsVM(g) /\ SameVec(y, g) /\ g.i = m /\ g.d = y.d /\ g.ireg = y.ireg /\ g.freg = y.freg
  BY <1>1, <1>5, SetInt DEF SameVec
<1> HIDE DEF g
<1>7. /\ IsVM(u) /\ u.abi = s.abi /\ u.vt = s.vt /\ u.err = s.err /\ u.vec = s.vec /\ u.i = s.i + 1 /\ u.d = e
      /\ u.ireg = s.ireg /\ u.freg = [s.freg EXCEPT ![s.i] = x]
  BY <1>2, <1>3, <1>4, <1>5, <1>6 DEF SameVec
<1>8. s.freg \in RegFile(FloatRegs[s.abi]) /\ s.i \in Nat /\ s.i \in 0 .. FloatRegs[s.abi] - 1
  BY <1>1, <1>3 DEF IsVM
<1>9. /\ u.freg[s.i] = x
      /\ \A h \in 0 .. FloatRegs[s.abi] - 1 : h # s.i => u.freg[h] = s.freg[h]
  BY <1>7, <1>8 DEF RegFile
<1>10. Len(s.vec) \in Nat /\ IntRegs[s.abi] \in Nat
  BY LenVec
<1>11. s.freg[s.i] = Junks(8)
  BY <1>8 DEF Numbered, NumbersFree
<1>12. Keeps(s, u)
  BY <1>7, <1>9, <1>10, <1>11 DEF Keeps
<1>13. Binds(s, u)
  BY <1>7, <1>12, SameBinds
<1>14. NumbersFree(u)
  BY <1>1, <1>7, <1>8, <1>9 DEF Numbered, NumbersFree
<1>15. IntsFree(u)
  BY <1>7, <1>8, <1>10 DEF Numbered, IntsFree
<1> DEFINE q == NextI(p)
<1>16. q \in Cursors /\ q.i = p.i + 1 /\ q.sp = p.sp
  BY CursorFields, Moves
<1> HIDE DEF q
<1>17. Numbered(u, q) /\ FloatAt(u, p.i, x)
  BY <1>0, <1>7, <1>8, <1>9, <1>14, <1>15, <1>16 DEF Numbered, FloatAt
<1> QED BY <1>7, <1>13, <1>16, <1>17 DEF q

LEMMA NumberVec ==
  ASSUME NEW s, NEW p \in Cursors, Numbered(s, p), NEW u, OnlyVec(s, u), NEW k \in Nat, Len(u.vec) = k
  PROVE  LET q == To(p, k) IN q \in Cursors /\ Numbered(u, q)
<1> DEFINE q == To(p, k)
<1>1. q \in Cursors /\ q.i = p.i /\ q.sp = k
  BY Moves
<1> HIDE DEF q
<1>2. Numbered(u, q)
  BY <1>1 DEF Numbered, OnlyVec, IntsFree, NumbersFree
<1> QED BY <1>1, <1>2 DEF q

LEMMA NumberStack ==
  ASSUME NEW s, IsVM(s), Room(s), NEW p \in Cursors, Numbered(s, p), NEW x \in Seq(Byte), Len(x) = 8,
         NEW u, u = dcVecAppend(s, x), NEW k, k = p.sp + 8
  PROVE  LET q == To(p, k) IN
           q \in Cursors /\ Numbered(u, q) /\ VecAt(u, p.sp, x) /\ Binds(s, u) /\ u.d = s.d
<1>1. /\ Binds(s, u) /\ OnlyVec(s, u) /\ Len(u.vec) = Len(s.vec) + Len(x) /\ VecAt(u, Len(s.vec), x)
  <2>1. Len(x) <= 8
    OBVIOUS
  <2> QED BY <2>1, AppendArg
<1>2. p.sp = Len(s.vec) /\ p.sp \in Nat
  BY CursorFields DEF Numbered
<1>3. k \in Nat /\ Len(u.vec) = k
  BY <1>1, <1>2
<1> QED BY <1>1, <1>2, <1>3, NumberVec DEF OnlyVec

LEMMA NumberSlot ==
  ASSUME NEW s, IsVM(s), Room(s), NEW p \in Cursors, Numbered(s, p), NEW x, Solid(x, 4),
         NEW u, u = dcVecSkip(dcVecAppend(s, x), 4), NEW k, k = p.sp + 8
  PROVE  LET q == To(p, k) IN
           q \in Cursors /\ Numbered(u, q) /\ VecAt(u, p.sp, x) /\ Binds(s, u) /\ u.d = s.d
<1> DEFINE r == dcVecAppend(s, x)
<1>0. x \in Seq(Byte) /\ Len(x) = 4 /\ Len(x) <= 8
  BY SolidLen
<1>2. Binds(s, r) /\ OnlyVec(s, r) /\ Len(r.vec) = Len(s.vec) + 4 /\ VecAt(r, Len(s.vec), x)
  BY ZenonT(60), <1>0, AppendArg
<1> HIDE DEF r
<1>3. u = dcVecSkip(r, 4) /\ IsVM(r) /\ Keeps(s, r)
  BY <1>2 DEF r, Binds
<1>4. IsVM(u) /\ OnlyVec(r, u) /\ Keeps(r, u) /\ Len(u.vec) = Len(r.vec) + 4
  BY <1>3, Skipped
<1>5. p.sp = Len(s.vec) /\ p.sp \in Nat /\ Len(s.vec) \in Nat /\ Len(r.vec) \in Nat /\ Len(u.vec) \in Nat
  BY <1>3, <1>4, CursorFields, LenVec DEF Numbered
<1>6. OnlyVec(s, u)
  BY <1>2, <1>4 DEF OnlyVec
<1>7. k \in Nat /\ Len(u.vec) = k /\ Len(u.vec) = Len(s.vec) + 8
  BY <1>2, <1>4, <1>5
<1>8. VecAt(u, p.sp, x)
  BY <1>2, <1>3, <1>4, <1>5, VecAtKept
<1>9. Keeps(s, u)
  BY <1>3, <1>4, KeepsTransitive
<1>10. Binds(s, u)
  <2> DEFINE m == Len(s.vec)
  <2>1. Len(u.vec) <= RoundUp(m, 8) + 8
    <3>1. m \in Nat /\ Len(u.vec) = m + 8
      BY <1>5, <1>7
    <3> HIDE DEF m
    <3>2. m <= RoundUp(m, 8) /\ RoundUp(m, 8) \in Nat
      BY <3>1, RoundUpTo
    <3> QED BY <3>1, <3>2
  <2> QED BY <1>4, <1>6, <1>9, <2>1 DEF Binds, OnlyVec
<1> QED BY <1>6, <1>7, <1>8, <1>10, NumberVec DEF OnlyVec

(* The second of two sequences. *)
LEMMA BehindAt ==
  ASSUME NEW a \in Seq(Byte), NEW b \in Seq(Byte), NEW i \in 1 .. Len(b)
  PROVE  (a \o b)[Len(a) + i] = b[i]
OBVIOUS

(* A single in its slot with soft float: its bytes come first in memory.   *)
SoftSlot(abi, v) == IF abi \in BigEndian THEN Junks(4) \o v ELSE Padded(v)

LEMMA SoftSlotAt ==
  ASSUME NEW v, Solid(v, 4), NEW abi
  PROVE  LET y == SoftSlot(abi, v) IN
           /\ y \in Seq(Byte) /\ Len(y) = 8
           /\ \A j \in 1 .. 4 : InMemory(abi, y)[j] = InMemory(abi, v)[j]
<1> DEFINE y == SoftSlot(abi, v)
           h == Junks(4)
<1>1. v \in Seq(Byte) /\ Len(v) = 4
  BY SolidLen
<1>2. CASE abi \in BigEndian
  <2>1. y = h \o v
    BY <1>2 DEF SoftSlot
  <2>2. y \in Seq(Byte) /\ Len(y) = 8
    BY <1>1, <2>1, JunkBefore
  <2>3. h \in [1 .. 4 -> Byte]
    BY DEF Junks, Junk, Byte
  <2>4. h \in Seq(Byte) /\ Len(h) = 4
    BY <2>3, FunctionIsSeq
  <2> HIDE DEF h
  <2>5. \A i \in 5 .. 8 : y[i] = v[i - 4]
    <3>1. ASSUME NEW i \in 5 .. 8 PROVE y[i] = v[i - 4]
      <4> DEFINE k == i - 4
      <4>1. k \in 1 .. Len(v)
        BY <1>1
      <4>3. Len(h) + k = i
        BY <2>4
      <4> HIDE DEF k
      <4>2. (h \o v)[Len(h) + k] = v[k]
        BY <1>1, <2>4, <4>1, BehindAt
      <4>4. y[i] = v[k]
        BY <2>1, <4>2, <4>3
      <4> QED BY <4>4 DEF k
    <3> QED BY <3>1
  <2> HIDE DEF y
  <2>6. ASSUME NEW j \in 1 .. 4 PROVE InMemory(abi, y)[j] = InMemory(abi, v)[j]
    <3>1. InMemory(abi, y)[j] = y[Len(y) - j + 1]
      <4>1. j \in 1 .. Len(y)
        BY <2>2
      <4> QED BY <1>2, <2>2, <4>1, InMemoryAt
    <3>2. InMemory(abi, v)[j] = v[Len(v) - j + 1]
      <4>1. j \in 1 .. Len(v)
        BY <1>1
      <4> QED BY <1>1, <1>2, <4>1, InMemoryAt
    <3>3. Len(y) - j + 1 = 9 - j /\ Len(v) - j + 1 = 5 - j /\ 9 - j \in 5 .. 8 /\ (9 - j) - 4 = 5 - j
      BY <1>1, <2>2
    <3>4. y[9 - j] = v[(9 - j) - 4]
      BY <2>5, <3>3
    <3> QED BY <3>1, <3>2, <3>3, <3>4
  <2> QED BY <2>2, <2>6 DEF y
<1>3. CASE abi \notin BigEndian
  <2>1. y = Padded(v)
    BY <1>3 DEF SoftSlot
  <2>2. y \in Seq(Byte) /\ Len(y) = 8 /\ \A j \in 1 .. 4 : y[j] = v[j]
    BY <2>1, PaddedType
  <2> HIDE DEF y
  <2>3. InMemory(abi, y) = y /\ InMemory(abi, v) = v
    BY <1>3 DEF InMemory
  <2> QED BY <2>2, <2>3 DEF y
<1> QED BY <1>2, <1>3

LEMMA NumberSoft ==
  ASSUME NEW s, IsVM(s), Room(s), NEW p \in Cursors, Numbered(s, p), NEW x, Solid(x, 4),
         NEW u, u = dcVecAppend(s, SoftSlot(s.abi, x)), NEW k, k = p.sp + 8
  PROVE  LET q == To(p, k) IN
           q \in Cursors /\ Numbered(u, q) /\ VecAt(u, p.sp, x) /\ Binds(s, u) /\ u.d = s.d
<1> DEFINE y == SoftSlot(s.abi, x)
<1>1. y \in Seq(Byte) /\ Len(y) = 8 /\ \A j \in 1 .. 4 : InMemory(s.abi, y)[j] = InMemory(s.abi, x)[j]
  BY SoftSlotAt
<1> HIDE DEF y
<1>2. LET q == To(p, k) IN
        q \in Cursors /\ Numbered(u, q) /\ VecAt(u, p.sp, y) /\ Binds(s, u) /\ u.d = s.d
  BY <1>1, NumberStack DEF y
<1>3. u.abi = s.abi /\ Len(u.vec) \in Nat /\ x \in Seq(Byte) /\ Len(x) = 4
  BY <1>2, LenVec, SolidLen DEF Binds, Keeps
<1>4. VecAt(u, p.sp, x)
  <2> DEFINE o == p.sp
             l == Len(u.vec)
  <2>1. o \in Nat /\ o + 8 <= l /\ l \in Nat /\ \A j \in 1 .. 8 : u.vec[o + j] = InMemory(s.abi, y)[j]
    BY <1>1, <1>2, <1>3 DEF VecAt
  <2> HIDE DEF o, l
  <2>2. \A j \in 1 .. 4 : j \in 1 .. 8
    OBVIOUS
  <2>3. \A j \in 1 .. 4 : u.vec[o + j] = InMemory(s.abi, x)[j]
    BY <1>1, <2>1, <2>2
  <2>4. o + 4 <= l
    BY <2>1
  <2> QED BY <1>3, <2>1, <2>3, <2>4 DEF VecAt, o, l
<1> QED BY <1>2, <1>4

(* What binding does, by where the argument goes. *)
LEMMA BindsMips64 ==
  ASSUME NEW s, IsVM(s), s.abi \in Mips64, NEW w \in Ways(s.abi), s.vt = ModeTable(s.abi, w),
         NEW t \in TypesOf(w), s.abi = "mips_n32" => t # "pointer", NEW n \in Nat, n > 0,
         NEW u, u = BindArg(s, t, Value(n, SizeOf(s.abi, t)))
  PROVE  LET v == Value(n, SizeOf(s.abi, t))
             y == IntRaw(s.abi, w, t, n)
             z == SlotRaw(s.abi, w, t, n)
             h == Hard(s.abi, w, t)
             r == s.i < IntRegs[s.abi] IN
           /\ r /\ h => s.i < FloatRegs[s.abi]
           /\ r /\ h /\ t = "float" => u = PutSingle(s, v)
           /\ r /\ h /\ t = "double" => u = PutDouble(s, v)
           /\ r /\ ~h => u = PutInt(s, y)
           /\ ~r /\ ~Single(w, t) => u = dcVecAppend(s, z)
           /\ ~r /\ Single(w, t) => \/ u = dcVecSkip(dcVecAppend(s, v), 4)
                                    \/ u = dcVecAppend(s, SoftSlot(s.abi, v))
<1> DEFINE v == Value(n, SizeOf(s.abi, t))
           x == Extend(v, 8)
           y == IntRaw(s.abi, w, t, n)
           z == SlotRaw(s.abi, w, t, n)
           h == Hard(s.abi, w, t)
           r == s.i < IntRegs[s.abi]
           d == Single(w, t)
<1>1. t \in AllTypes /\ s.abi \in ABIs /\ s.abi \in MipsABIs /\ s.i \in Nat
  BY WaysTypes, LenVec DEF Mips64, MipsABIs
<1>2. /\ s.abi \in MipsN64 =>
           u = IF w = "VARARGS" THEN arg_mips_n64_ellipsis(s, t, v) ELSE arg_mips_n64(s, t, v)
      /\ s.abi = "mips_n32" =>
           u = IF w = "VARARGS" THEN arg_mips_n32_ellipsis(s, t, v) ELSE arg_mips_n32(s, t, v)
  <2>1. u = BindArg(s, t, v)
    OBVIOUS
  <2> HIDE DEF v
  <2> QED BY ZenonT(60), <1>1, <2>1, MipsBinds
<1>3. w = "VARARGS" => t # "float"
  BY DEF TypesOf
<1>4. t = "double" => x = v
  BY <1>1, FloatRawType DEF Floats, Raw8
<1>5. (d => y = Padded(v) /\ z = v) /\ (~d => y = x /\ z = x)
  BY DEF IntRaw, SlotRaw, Raw8, Single
<1>6. d <=> t = "float"
  BY <1>3 DEF Single
<1>7. h <=> t \in Floats /\ w # "VARARGS" /\ IsHardFloat(s.abi)
  BY DEF Hard
<1>8. /\ FloatRegs[s.abi] \in Nat /\ IntRegs[s.abi] \in Nat
      /\ s.abi \in MipsN64 => FloatRegs[s.abi] \in {0, IntRegs[s.abi]}
      /\ s.abi = "mips_n32" => FloatRegs[s.abi] = IntRegs[s.abi]
  BY <1>1, LenVec, RegistersAssumption
<1>9. r /\ h => s.i < FloatRegs[s.abi]
  BY <1>7, <1>8 DEF IsHardFloat, Mips64
<1>10. s.abi = "mips_n32" /\ r => IsHardFloat(s.abi)
  BY <1>1, <1>8 DEF IsHardFloat
<1>11. t \in Floats <=> t \in {"float", "double"}
  BY DEF Floats
<1>12. s.abi = "mips_n32" => t # "pointer"
  OBVIOUS
<1> HIDE DEF v, x, y, z, d, h, r
<1> DEFINE g(b) == argLongLong_n(s, b)
<1>13. \A b : (r => g(b) = PutInt(s, b)) /\ (~r => g(b) = dcVecAppend(s, b))
  BY DEF argLongLong_n, r
<1> HIDE DEF g
<1>14. CASE s.abi \in MipsN64
  <2>0. u = IF w = "VARARGS" THEN arg_mips_n64_ellipsis(s, t, v) ELSE arg_mips_n64(s, t, v)
    BY <1>2, <1>14
  <2>1. CASE w = "VARARGS"
    <3>0. u = arg_mips_n64_ellipsis(s, t, v) /\ t # "float"
      BY <1>3, <2>0, <2>1
    <3>1. u = g(x)
      <4> DEFINE e == IF t = "float" THEN Widen(v) ELSE x
      <4>1. e = x
        BY <3>0
      <4>2. u = g(e)
        BY Zenon, <3>0 DEF arg_mips_n64_ellipsis, g, x
      <4> HIDE DEF e, x
      <4> QED BY <4>1, <4>2
    <3> QED BY <1>3, <1>5, <1>6, <1>7, <1>13, <2>1, <3>1 DEF v, y, z, d, h, r
  <2>2. CASE w # "VARARGS" /\ t \notin Floats
    <3>2. t # "float" /\ t # "double" /\ u = arg_mips_n64(s, t, v)
      BY <1>11, <2>0, <2>2
    <3>1. u = g(x)
      BY <2>2, <3>2 DEF arg_mips_n64, g, x
    <3> QED BY <1>5, <1>6, <1>7, <1>13, <2>2, <3>1, <3>2 DEF v, y, z, d, h, r
  <2>3. CASE w # "VARARGS" /\ t = "double"
    <3>1. u = argDouble_n64(s, v) /\ t # "float"
      BY <1>11, <2>0, <2>3 DEF arg_mips_n64
    <3>2. ~h => u = g(x)
      BY <1>4, <1>7, <1>11, <2>3, <3>1 DEF argDouble_n64, g
    <3>3. h /\ r => u = PutDouble(s, v)
      BY <1>7, <3>1 DEF argDouble_n64, PutDouble, r
    <3>4. h /\ ~r => u = dcVecAppend(s, x)
      BY <1>4, <1>7, <2>3, <3>1 DEF argDouble_n64, r
    <3> QED BY <1>5, <1>6, <1>9, <1>13, <2>3, <3>1, <3>2, <3>3, <3>4 DEF v, y, z, d, h, r
  <2>4. CASE w # "VARARGS" /\ t = "float"
    <3>1. u = argFloat_n64(s, v) /\ t # "double"
      BY <1>11, <2>0, <2>4 DEF arg_mips_n64
    <3>2. ~h /\ r => u = g(Padded(v))
      <4>1. h <=> IsHardFloat(s.abi)
        BY <1>7, <1>11, <2>4
      <4>2. r => ~(s.i >= IntRegs[s.abi])
        BY <1>1, <1>8 DEF r
      <4> QED BY <3>1, <4>1, <4>2 DEF argFloat_n64, g
    <3>3. ~h /\ ~r => u = g(SoftSlot(s.abi, v))
      BY <1>1, <1>7, <1>8, <1>11, <2>4, <3>1 DEF argFloat_n64, g, r, SoftSlot
    <3>4. h /\ r => u = PutSingle(s, v)
      BY <1>7, <3>1 DEF argFloat_n64, PutSingle, r
    <3>5. h /\ ~r => u = dcVecSkip(dcVecAppend(s, v), 4)
      BY <1>7, <3>1 DEF argFloat_n64, r
    <3> QED BY <1>5, <1>6, <1>9, <1>13, <2>4, <3>1, <3>2, <3>3, <3>4, <3>5 DEF v, y, z, d, h, r
  <2> QED BY <1>11, <2>1, <2>2, <2>3, <2>4
<1>15. CASE s.abi = "mips_n32"
  <2>0. u = (IF w = "VARARGS" THEN arg_mips_n32_ellipsis(s, t, v) ELSE arg_mips_n32(s, t, v)) /\ t # "pointer"
    BY <1>2, <1>12, <1>15
  <2>1. CASE w = "VARARGS" \/ t \notin Floats
    <3>1. t # "float" /\ ~h
      BY <1>3, <1>7, <1>11, <2>1
    <3>2. u = g(x)
      <4>1. CASE w = "VARARGS" /\ t = "double"
        BY <1>4, <2>0, <4>1 DEF arg_mips_n32_ellipsis, g
      <4>2. CASE w = "VARARGS" /\ t # "double"
        BY <2>0, <3>1, <4>2 DEF arg_mips_n32_ellipsis, arg_mips_n32, g, x, Floats
      <4>3. CASE w # "VARARGS"
        BY <1>11, <2>0, <2>1, <4>3 DEF arg_mips_n32, g, x
      <4> QED BY <4>1, <4>2, <4>3
    <3> QED BY <1>5, <1>6, <1>13, <3>1, <3>2 DEF v, y, z, d, h, r
  <2>2. CASE w # "VARARGS" /\ t = "double"
    <3>1. u = arg_mips_n32(s, t, v) /\ t # "float"
      BY <2>0, <2>2
    <3>2. r => h /\ u = PutDouble(s, v)
      BY <1>7, <1>10, <1>11, <1>15, <2>2, <3>1 DEF arg_mips_n32, PutDouble, r
    <3>3. ~r => u = dcVecAppend(s, x)
      BY <1>4, <1>11, <2>2, <3>1 DEF arg_mips_n32, r
    <3> QED BY <1>5, <1>6, <1>9, <2>2, <3>1, <3>2, <3>3 DEF v, y, z, d, h, r
  <2>3. CASE w # "VARARGS" /\ t = "float"
    <3>1. u = arg_mips_n32(s, t, v) /\ t # "double"
      BY <2>0, <2>3
    <3>2. r => h /\ u = PutSingle(s, v)
      BY <1>7, <1>10, <1>11, <1>15, <2>3, <3>1 DEF arg_mips_n32, PutSingle, r
    <3>3. ~r => u = dcVecSkip(dcVecAppend(s, v), 4)
      BY <1>11, <2>3, <3>1 DEF arg_mips_n32, r
    <3> QED BY <1>5, <1>6, <1>9, <2>3, <3>1, <3>2, <3>3 DEF v, y, z, d, h, r
  <2> QED BY <1>11, <2>1, <2>2, <2>3
<1> QED BY <1>14, <1>15 DEF Mips64

LEMMA NewMips64 ==
  ASSUME NEW s, IsVM(s), s.abi \in Mips64, NEW w \in Ways(s.abi), s.vt = ModeTable(s.abi, w),
         Room(s), NEW p \in Cursors, Numbered(s, p), NEW t \in TypesOf(w),
         s.abi = "mips_n32" => t # "pointer", NEW n \in Nat, n > 0,
         NEW u, u = BindArg(s, t, Value(n, SizeOf(s.abi, t)))
  PROVE  \E q \in Cursors : /\ ViaMips64(u, w, p, q, n, t) /\ Numbered(u, q) /\ Binds(s, u)
                            /\ s.d \subseteq u.d
<1> DEFINE v == Value(n, SizeOf(s.abi, t))
           y == IntRaw(s.abi, w, t, n)
           z == SlotRaw(s.abi, w, t, n)
           h == Hard(s.abi, w, t)
           r == s.i < IntRegs[s.abi]
           k == p.sp + 8
<1>1. t \in AllTypes /\ s.abi \in ABIs /\ p.i = s.i /\ s.d \in SUBSET Nat /\ s.i \in Nat
  BY WaysTypes, LenVec DEF Numbered
<1>2. /\ r /\ h => s.i < FloatRegs[s.abi]
      /\ r /\ h /\ t = "float" => u = PutSingle(s, v)
      /\ r /\ h /\ t = "double" => u = PutDouble(s, v)
      /\ r /\ ~h => u = PutInt(s, y)
      /\ ~r /\ ~Single(w, t) => u = dcVecAppend(s, z)
      /\ ~r /\ Single(w, t) => \/ u = dcVecSkip(dcVecAppend(s, v), 4)
                               \/ u = dcVecAppend(s, SoftSlot(s.abi, v))
  BY BindsMips64
<1>3. /\ y \in Seq(Byte) /\ v \in Seq(Byte)
      /\ Single(w, t) => z = v /\ Solid(v, 4)
      /\ ~Single(w, t) => Solid(z, 8)
  BY <1>1, Raws64
<1>4. h => t = "float" \/ t = "double"
  BY DEF Hard, Floats
<1> HIDE DEF v, y, z, h, k, r
<1>5. ASSUME u.abi = s.abi
      PROVE  \A q : ViaMips64(u, w, p, q, n, t) <=>
               /\ r /\ h => InNumber(u, p, q, t, v)
               /\ r /\ ~h => InInt(u, p, q, y)
               /\ ~r => InVec(u, p, q, p.sp, z, k)
  BY <1>1, <1>5 DEF ViaMips64, Reg64, r, h, v, y, z, k
<1>6. CASE r /\ h
  <2> DEFINE q == NextI(p)
             e == IF t = "double" THEN s.d \cup {s.i} ELSE s.d
  <2>1. /\ e \in SUBSET Nat /\ s.d \subseteq e /\ (t = "double" => s.i \in e)
        /\ (u = PutSingle(s, v) /\ e = s.d) \/ (u = PutDouble(s, v) /\ e = s.d \cup {s.i})
    BY <1>1, <1>2, <1>4, <1>6
  <2>2. s.i < FloatRegs[s.abi] /\ s.i < IntRegs[s.abi]
    BY <1>2, <1>6 DEF r
  <2> HIDE DEF e
  <2>3. q \in Cursors /\ Numbered(u, q) /\ FloatAt(u, p.i, v) /\ Binds(s, u) /\ u.d = e /\ u.abi = s.abi
    <3>1. v \in Seq(Byte) /\ PutsNumber(s, u, v, e)
      BY <1>3, <2>1 DEF PutsNumber
    <3> QED BY <2>2, <3>1, NumberFloat
  <2>4. InNumber(u, p, q, t, v)
    BY <1>1, <2>1, <2>3 DEF InNumber
  <2> HIDE DEF q
  <2>5. ViaMips64(u, w, p, q, n, t)
    BY <1>5, <1>6, <2>3, <2>4
  <2> QED BY <2>1, <2>3, <2>5
<1>7. CASE r /\ ~h
  <2> DEFINE q == NextI(p)
  <2>1. u = PutInt(s, y) /\ s.i < IntRegs[s.abi]
    BY <1>2, <1>7 DEF r
  <2>2. q \in Cursors /\ Numbered(u, q) /\ InInt(u, p, q, y) /\ Binds(s, u) /\ u.d = s.d
    BY <1>3, <2>1, NumberInt
  <2> HIDE DEF q
  <2>3. ViaMips64(u, w, p, q, n, t)
    BY <1>5, <1>7, <2>2 DEF Binds, Keeps
  <2> QED BY <2>2, <2>3
<1>8. CASE ~r
  <2> DEFINE q == To(p, k)
  <2>1. q \in Cursors /\ Numbered(u, q) /\ VecAt(u, p.sp, z) /\ Binds(s, u) /\ u.d = s.d
    <3>1. CASE ~Single(w, t)
      <4>1. u = dcVecAppend(s, z) /\ z \in Seq(Byte) /\ Len(z) = 8
        BY <1>2, <1>3, <1>8, <3>1, SolidLen
      <4> QED BY <4>1, NumberStack DEF k
    <3>2. CASE Single(w, t) /\ u = dcVecSkip(dcVecAppend(s, v), 4)
      <4>1. Solid(v, 4) /\ z = v
        BY <1>3, <3>2
      <4> QED BY <3>2, <4>1, NumberSlot DEF k
    <3>3. CASE Single(w, t) /\ u = dcVecAppend(s, SoftSlot(s.abi, v))
      <4>1. Solid(v, 4) /\ z = v
        BY <1>3, <3>3
      <4> QED BY <3>3, <4>1, NumberSoft DEF k
    <3> QED BY <1>2, <1>8, <3>1, <3>2, <3>3
  <2>2. InVec(u, p, q, p.sp, z, k)
    BY <2>1 DEF InVec
  <2> HIDE DEF q
  <2>3. ViaMips64(u, w, p, q, n, t)
    BY <1>5, <1>8, <2>1, <2>2 DEF Binds, Keeps
  <2> QED BY <2>1, <2>3
<1> QED BY <1>6, <1>7, <1>8

LEMMA KeptMips64 ==
  ASSUME NEW s, NEW u, IsVM(s), IsVM(u), Keeps(s, u), s.d \subseteq u.d, NEW w, NEW p, NEW q,
         NEW t \in TypesOf(w), NEW n \in Nat, n > 0, ViaMips64(s, w, p, q, n, t)
  PROVE  ViaMips64(u, w, p, q, n, t)
<1> DEFINE v == Value(n, SizeOf(s.abi, t))
           y == IntRaw(s.abi, w, t, n)
           z == SlotRaw(s.abi, w, t, n)
           k == p.sp + 8
<1>1. t \in AllTypes /\ s.abi \in ABIs /\ u.abi = s.abi
  BY WaysTypes, LenVec DEF Keeps
<1>2. y # Junks(8) /\ v # Junks(8) /\ \E m : Solid(z, m)
  BY <1>1, Raws64
<1> HIDE DEF v, y, z, k
<1>3. /\ InInt(s, p, q, y) => InInt(u, p, q, y)
      /\ InVec(s, p, q, p.sp, z, k) => InVec(u, p, q, p.sp, z, k)
  BY <1>2, SpotKept
<1>4. InNumber(s, p, q, t, v) => InNumber(u, p, q, t, v)
  BY <1>2, RegistersKept DEF InNumber
<1>5. Reg64(u, p) <=> Reg64(s, p)
  BY <1>1 DEF Reg64
<1> QED BY <1>1, <1>3, <1>4, <1>5 DEF ViaMips64, v, y, z, k

LEMMA StartMips64 ==
  ASSUME NEW s, s.abi \in Mips64, NEW w \in Ways(s.abi), s.vt = ModeTable(s.abi, w), Fresh(s)
  PROVE  Numbered(s, Start)
<1>1. s.abi \in MipsABIs
  BY DEF Mips64, MipsABIs
<1>2. s.vt = MipsMode(s.abi, w)
  BY <1>1, MipsFamily
<1>3. s.vt.reset = "mips" /\ s.vt.call \in {"n64", "n32"}
  <2>1. s.vt \in {gVT_mips_n64, gVT_mips_n64_ellipsis, gVT_mips_n32, gVT_mips_n32_ellipsis}
    BY <1>1, <1>2, MipsTables DEF Mips64
  <2> QED BY <2>1 DEF gVT_mips_n64, gVT_mips_n64_ellipsis, gVT_mips_n32, gVT_mips_n32_ellipsis
<1>4. Reserved(s) = 0 /\ s.d = {}
  BY <1>3 DEF Reserved, Fresh
<1>5. Len(s.vec) = 0 /\ s.i = 0 /\ IsVM(s) /\ s.freg = Registers(FloatRegs[s.abi])
  BY <1>4 DEF Fresh
<1>6. FloatRegs[s.abi] \in Nat
  BY <1>5, LenVec
<1>7. NumbersFree(s)
  BY <1>5, <1>6 DEF NumbersFree, Registers
<1> QED BY <1>4, <1>5, <1>7, FreshRegisters DEF Numbered, Start

LEMMA SwitchMips64 ==
  ASSUME NEW s, NEW u, u.abi = s.abi, u.vec = s.vec, u.i = s.i, u.d = s.d,
         u.ireg = s.ireg, u.freg = s.freg, NEW p, Numbered(s, p)
  PROVE  Numbered(u, p)
BY DEF Numbered, IntsFree, NumbersFree

-----------------------------------------------------------------------------
(* Fetching.                                                               *)

LEMMA LoadsMips64 ==
  ASSUME NEW s, IsVM(s), s.abi \in Mips64, NEW x \in Ways(s.abi), s.vt = ModeTable(s.abi, x)
  PROVE  Kernel(s).ireg = s.ireg /\ Kernel(s).freg = LoadedFloats(s) /\ Copied(Kernel(s), s)
<1>1. s.abi \in MipsABIs
  BY DEF Mips64, MipsABIs
<1>2. s.vt = MipsMode(s.abi, x)
  BY <1>1, MipsFamily
<1>3. s.vt.call \in {"n64", "n32"}
  <2>1. s.vt \in {gVT_mips_n64, gVT_mips_n64_ellipsis, gVT_mips_n32, gVT_mips_n32_ellipsis}
    BY <1>1, <1>2, MipsTables DEF Mips64
  <2> QED BY <2>1 DEF gVT_mips_n64, gVT_mips_n64_ellipsis, gVT_mips_n32, gVT_mips_n32_ellipsis
<1> DEFINE k == StackSize(s)
<1>4. Kernel(s) = Image(s.ireg, LoadedFloats(s), Bytes(s.vec, 0, k))
  <2>1. Kernel(s) = MipsCall(s)
    BY <1>1, MipsFamily
  <2> QED BY <1>3, <2>1 DEF MipsCall, call_mips_n64, call_mips_n32
<1>5. k \in Nat /\ k >= Len(s.vec)
  <2> DEFINE h == Len(s.vec)
             e == RoundUp(h, 8)
  <2>1. h \in Nat
    BY LenVec
  <2>2. k = IF e < 16 THEN 16 ELSE e
    BY DEF StackSize, dcVecSize
  <2> HIDE DEF k, h
  <2>3. e \in Nat /\ h <= e
    BY <2>1, RoundUpTo
  <2> HIDE DEF e
  <2>4. k \in Nat /\ k >= h
    BY <2>1, <2>2, <2>3
  <2> QED BY <2>4 DEF h
<1> HIDE DEF k
<1>6. StackIs(Bytes(s.vec, 0, k), s, 0)
  BY <1>5, StackWhole
<1> QED BY <1>4, <1>6 DEF Image, Copied

(* What the kernel loads into the float registers. *)
LEMMA LoadedAt ==
  ASSUME NEW s, IsVM(s), NEW r, NEW v, FloatAt(s, r, v)
  PROVE  LoadedFloats(s)[r] = IF r \in s.d THEN v ELSE Padded(Trunc(v, 4))
<1>1. r \in DOMAIN s.freg
  BY DEF FloatAt, IsVM, RegFile
<1> QED BY <1>1 DEF LoadedFloats, FloatAt

GetNumber(a) == Fetched([a EXCEPT !.i = @ + 1], a.freg[a.i])

LEMMA GotNumber ==
  ASSUME NEW abi, abi \notin X86ABIs, NEW w, NEW m, NEW p \in Cursors, NEW x, m.freg[p.i] = x,
         NEW q, q = NextI(p)
  PROVE  GetNumber(At(abi, w, m, p)) = Fetched(At(abi, w, m, q), x)
<1> DEFINE a == At(abi, w, m, p)
           k == p.i + 1
<1>1. a.freg = m.freg /\ a.i = p.i /\ k \in Nat
  BY AtFields, CursorFields
<1>2. q = [p EXCEPT !.i = k]
  BY DEF NextI
<1> HIDE DEF k
<1>3. At(abi, w, m, q) = [a EXCEPT !.i = k]
  BY <1>1, <1>2, AtInt
<1> HIDE DEF a
<1> QED BY <1>1, <1>3 DEF GetNumber, k, a

(* A single in the first four bytes of its slot. *)
HalfSlot(a) == FromStack(a, 4, 8)

LEMMA GotHalf ==
  ASSUME NEW s, IsVM(s), s.abi \notin X86ABIs, NEW w, NEW m, Copied(m, s), NEW p \in Cursors,
         NEW x, Solid(x, 4), VecAt(s, p.sp, x), NEW q, q = NextSlot(p)
  PROVE  HalfSlot(At(s.abi, w, m, p)) = Fetched(At(s.abi, w, m, q), x)
<1> DEFINE e == 8
           h == Len(x)
<1>1. x \in Seq(Byte) /\ h = 4 /\ e \in Nat
  BY SolidLen
<1> HIDE DEF e, h
<1>2. FromStack(At(s.abi, w, m, p), h, e) = Fetched(At(s.abi, w, m, Behind(p, e)), x)
  BY ZenonT(60), <1>1, GotStackAt DEF h
<1>3. q = Behind(p, e)
  BY DEF Behind, NextSlot, e
<1> QED BY <1>1, <1>2, <1>3 DEF HalfSlot, e

(* The type the target reads. *)
Read64(w, t) == IF w = "VARARGS" THEN AsInteger(t) ELSE t

LEMMA ReadMips64 ==
  ASSUME NEW abi \in Mips64, NEW w \in Ways(abi), NEW t \in TypesOf(w), NEW a, a.abi = abi
  PROVE  /\ FetchAs(a, w, t) = dcbArg_mips64(a, Read64(w, t))
         /\ Read64(w, t) = "float" <=> Single(w, t)
         /\ Read64(w, t) = "double" <=> t = "double" /\ w # "VARARGS"
<1>1. abi \in MipsABIs /\ abi \in VariadicAsIntegers /\ abi \notin AllAsIntegers /\ abi # "arm64_apple"
      /\ abi \notin MipsO32 /\ abi # "mips_eabi"
  BY DEF Mips64, MipsABIs, MipsO32, MipsN64, VariadicAsIntegers, AllAsIntegers
<1>2. w # "SYS"
  <2>1. OwnModes(abi) \subseteq {"MIPS64_N64", "MIPS64_N32"}
    BY DEF OwnModes, Mips64, Arm64, MipsO32, MipsN64
  <2> QED BY <2>1 DEF Ways, KnownModes
<1>3. FetchAs(a, w, t) = dcbArg(a, Read64(w, t))
  <2>1. CASE w = "VARARGS"
    <3>1. FetchAs(a, w, t) = va_arg(a, t)
      BY <1>1, <1>2, <2>1 DEF FetchAs
    <3>2. va_arg(a, t) = dcbArg(a, AsInteger(t))
      BY <1>1 DEF va_arg
    <3> QED BY <2>1, <3>1, <3>2 DEF Read64
  <2>2. CASE w # "VARARGS"
    BY <1>1, <1>2, <2>2 DEF FetchAs, Read64
  <2> QED BY <2>1, <2>2
<1>4. \A z : dcbArg(a, z) = dcbArg_mips64(a, z)
  BY <1>1, MipsFamily DEF MipsFetch
<1>5. /\ Read64(w, t) = "float" <=> Single(w, t)
      /\ Read64(w, t) = "double" <=> t = "double" /\ w # "VARARGS"
  BY DEF Read64, Single, AsInteger
<1> QED BY <1>3, <1>4, <1>5

(* Where the callback looks for an argument of the type it reads. *)
LEMMA LooksMips64 ==
  ASSUME NEW a, NEW g, NEW x \in Nat, a.i = x, IntRegs[a.abi] \in Nat
  PROVE  LET r == x < IntRegs[a.abi]
             h == g \in Floats /\ IsHardFloat(a.abi) IN
           /\ r /\ h => dcbArg_mips64(a, g) = GetNumber(a)
           /\ r /\ ~h => dcbArg_mips64(a, g) = FromInt(a)
           /\ ~r /\ g = "float" => dcbArg_mips64(a, g) = HalfSlot(a)
           /\ ~r /\ g # "float" => dcbArg_mips64(a, g) = Slot(a)
<1> DEFINE r == x < IntRegs[a.abi]
           h == g \in Floats /\ IsHardFloat(a.abi)
<1>1. g \in Floats <=> g = "float" \/ g = "double"
  BY DEF Floats
<1>2. /\ r <=> a.i < IntRegs[a.abi]
      /\ ~r <=> a.i >= IntRegs[a.abi]
  OBVIOUS
<1> HIDE DEF r
<1>3. CASE g \notin Floats
  <2>1. g # "float" /\ g # "double" /\ ~h
    BY <1>1, <1>3
  <2>2. r => dcbArg_mips64(a, g) = FromInt(a)
    BY <1>2, <1>3, <2>1 DEF dcbArg_mips64
  <2>3. ~r => dcbArg_mips64(a, g) = Slot(a)
    BY <1>2, <1>3, <2>1 DEF dcbArg_mips64, Slot
  <2> QED BY <2>1, <2>2, <2>3 DEF r
<1>4. CASE g = "double"
  <2>1. dcbArg_mips64(a, g) = mips64_float(a, 8) /\ g # "float" /\ (h <=> IsHardFloat(a.abi))
    BY <1>1, <1>4 DEF dcbArg_mips64
  <2>2. r /\ h => mips64_float(a, 8) = GetNumber(a)
    BY <1>2, <2>1 DEF mips64_float, GetNumber
  <2>3. r /\ ~h => mips64_float(a, 8) = FromInt(a)
    BY <1>2, <2>1 DEF mips64_float
  <2>4. ~r => mips64_float(a, 8) = Slot(a)
    BY <1>2 DEF mips64_float, Slot
  <2> QED BY <2>1, <2>2, <2>3, <2>4 DEF r
<1>5. CASE g = "float"
  <2>1. dcbArg_mips64(a, g) = mips64_float(a, 4) /\ (h <=> IsHardFloat(a.abi))
    BY <1>1, <1>5 DEF dcbArg_mips64
  <2>2. r /\ h => mips64_float(a, 4) = GetNumber(a)
    BY <1>2, <2>1 DEF mips64_float, GetNumber
  <2>3. r /\ ~h => mips64_float(a, 4) = FromInt(a)
    BY <1>2, <2>1 DEF mips64_float
  <2>4. ~r => mips64_float(a, 4) = HalfSlot(a)
    BY <1>2 DEF mips64_float, HalfSlot
  <2> QED BY <1>5, <2>1, <2>2, <2>3, <2>4 DEF r
<1> QED BY <1>1, <1>3, <1>4, <1>5

LEMMA FetchMips64 ==
  ASSUME NEW s, IsVM(s), s.abi \in Mips64, NEW x \in Ways(s.abi), s.vt = ModeTable(s.abi, x),
         NEW w \in Ways(s.abi), NEW p \in Cursors, NEW q \in Cursors, NEW t \in TypesOf(w),
         NEW n \in Nat, n > 0, ViaMips64(s, w, p, q, n, t)
  PROVE  Finds(s.abi, w, Kernel(s), p, q, n, t)
<1> DEFINE v == Value(n, SizeOf(s.abi, t))
           y == IntRaw(s.abi, w, t, n)
           z == SlotRaw(s.abi, w, t, n)
           m == Kernel(s)
           a == At(s.abi, w, m, p)
           e == At(s.abi, w, m, q)
           g == Read64(w, t)
           r == FetchAs(a, w, t)
           in == p.i < IntRegs[s.abi]
           hard == Hard(s.abi, w, t)
<1>1. s.abi \in ABIs /\ t \in AllTypes /\ s.abi \notin X86ABIs /\ p.i \in Nat /\ IntRegs[s.abi] \in Nat
  BY WaysTypes, LenVec, CursorFields DEF X86ABIs, Mips64, MipsN64
<1>2. m.ireg = s.ireg /\ m.freg = LoadedFloats(s) /\ Copied(m, s)
  BY LoadsMips64
<1> HIDE DEF m
<1>3. a.abi = s.abi /\ a.i = p.i
  BY <1>1, AtFields
<1>4. /\ r = dcbArg_mips64(a, g)
      /\ g = "float" <=> Single(w, t)
      /\ g = "double" <=> t = "double" /\ w # "VARARGS"
  <2> HIDE DEF a
  <2> QED BY <1>3, ReadMips64
<1>5. /\ Trunc(y, SizeOf(s.abi, t)) = v /\ Trunc(v, SizeOf(s.abi, t)) = v
      /\ Single(w, t) => z = v /\ Solid(v, 4) /\ SizeOf(s.abi, t) = 4 /\ y = Padded(v)
      /\ ~Single(w, t) => z = y /\ Solid(z, 8)
      /\ t = "float" => Solid(v, 4) /\ SizeOf(s.abi, t) = 4
  BY SMTT(60), <1>1, Raws64
<1>6. g \in Floats /\ IsHardFloat(s.abi) <=> hard
  BY <1>4 DEF Hard, Single, Floats
<1>7. /\ in /\ hard => r = GetNumber(a)
      /\ in /\ ~hard => r = FromInt(a)
      /\ ~in /\ Single(w, t) => r = HalfSlot(a)
      /\ ~in /\ ~Single(w, t) => r = Slot(a)
  <2> HIDE DEF a, g, r, hard
  <2> QED BY <1>1, <1>3, <1>4, <1>6, LooksMips64
<1>8. /\ in /\ hard => InNumber(s, p, q, t, v)
      /\ in /\ ~hard => InInt(s, p, q, y)
      /\ ~in => InVec(s, p, q, p.sp, z, p.sp + 8)
  BY DEF ViaMips64, Reg64
<1>9. hard => t \in {"float", "double"}
  BY DEF Hard, Floats
<1> HIDE DEF v, y, z, g, r, in, hard
<1>10. r.args = e /\ Trunc(r.val, SizeOf(s.abi, t)) = v
  <2>1. CASE in /\ hard
    <3> DEFINE k == m.freg[p.i]
    <3>1. FloatAt(s, p.i, v) /\ (t = "double" => p.i \in s.d) /\ q = NextI(p)
      BY <1>8, <2>1 DEF InNumber
    <3>2. k = IF p.i \in s.d THEN v ELSE Padded(Trunc(v, 4))
      BY <1>2, <3>1, LoadedAt
    <3>3. GetNumber(a) = Fetched(e, k)
      BY <1>1, <3>1, GotNumber
    <3> HIDE DEF a, e, k
    <3>4. Trunc(k, SizeOf(s.abi, t)) = v
      <4>1. CASE p.i \in s.d
        BY <1>5, <3>2, <4>1
      <4>2. CASE p.i \notin s.d
        <5>1. t = "float" /\ k = Padded(Trunc(v, 4)) /\ Trunc(v, 4) = v /\ Solid(v, 4) /\ SizeOf(s.abi, t) = 4
          BY <1>5, <1>9, <2>1, <3>1, <3>2, <4>2
        <5>2. Trunc(Padded(v), 4) = v
          BY <5>1, PaddedType
        <5> QED BY <5>1, <5>2
      <4> QED BY <4>1, <4>2
    <3> QED BY <1>7, <2>1, <3>3, <3>4 DEF Fetched
  <2>2. CASE in /\ ~hard
    <3>1. m.ireg[p.i] = y /\ q = NextI(p)
      BY <1>2, <1>8, <2>2 DEF InInt, IntAt
    <3>2. FromInt(a) = Fetched(e, y)
      BY <1>1, <3>1, GotInt
    <3> HIDE DEF a, e
    <3> QED BY <1>5, <1>7, <2>2, <3>2 DEF Fetched
  <2>3. CASE ~in
    <3>0. IsVM(s) /\ s.abi \notin X86ABIs /\ Copied(m, s)
      BY <1>1, <1>2
    <3>1. VecAt(s, p.sp, z) /\ q = NextSlot(p)
      BY <1>8, <2>3 DEF InVec, NextSlot
    <3>2. CASE Single(w, t)
      <4>1. Solid(z, 4) /\ z = v
        BY <1>5, <3>2
      <4>2. HalfSlot(a) = Fetched(e, z)
        BY <3>0, <3>1, <4>1, GotHalf
      <4> HIDE DEF a, e
      <4> QED BY <1>5, <1>7, <2>3, <3>2, <4>1, <4>2 DEF Fetched
    <3>3. CASE ~Single(w, t)
      <4>1. Solid(z, 8) /\ z = y
        BY <1>5, <3>3
      <4>2. Slot(a) = Fetched(e, z)
        BY <3>0, <3>1, <4>1, GotStack
      <4> HIDE DEF a, e
      <4> QED BY <1>5, <1>7, <2>3, <3>3, <4>1, <4>2 DEF Fetched
    <3> QED BY <3>2, <3>3
  <2> QED BY <2>1, <2>2, <2>3
<1> HIDE DEF a, e
<1> QED BY <1>10 DEF Finds, r, a, e, m, v

-----------------------------------------------------------------------------
(* The families together.                                                  *)

Done == SparcABIs \cup X86ABIs \cup Arm64 \cup Mips64

(* In the convention w the n-th argument, of type t, is in the vector and  *)
(* the registers where a cursor p says, and the next one is where q says.  *)
Via(s, w, p, q, n, t) ==
  CASE s.abi \in SparcABIs -> ViaSparc(s, w, p, q, n, t)
    [] s.abi \in X86ABIs   -> ViaX86(s, w, p, q, n, t)
    [] s.abi \in Arm64     -> ViaArm(s, w, p, q, n, t)
    [] s.abi \in Mips64    -> ViaMips64(s, w, p, q, n, t)

(* The cursor of the argument that is bound next. *)
Agree(s, w, p) ==
  CASE s.abi \in SparcABIs -> AgreeSparc(s, w, p)
    [] s.abi \in X86ABIs   -> AgreeX86(s, w, p)
    [] s.abi \in Arm64     -> Level(s, p)
    [] s.abi \in Mips64    -> Numbered(s, p)

LEMMA DoneApart ==
  ASSUME NEW abi
  PROVE  /\ abi \in SparcABIs => abi \notin X86ABIs /\ abi \notin Arm64 /\ abi \notin Mips64
         /\ abi \in X86ABIs => abi \notin SparcABIs /\ abi \notin Arm64 /\ abi \notin Mips64
         /\ abi \in Arm64 => abi \notin SparcABIs /\ abi \notin X86ABIs /\ abi \notin Mips64
         /\ abi \in Mips64 => abi \notin SparcABIs /\ abi \notin X86ABIs /\ abi \notin Arm64
BY DEF SparcABIs, X86ABIs, Arm64, Mips64, MipsN64

(* Each family's places are its own. *)
LEMMA ViaOf ==
  ASSUME NEW s, NEW w, NEW p, NEW q, NEW n, NEW t
  PROVE  /\ s.abi \in SparcABIs => (Via(s, w, p, q, n, t) <=> ViaSparc(s, w, p, q, n, t))
         /\ s.abi \in X86ABIs => (Via(s, w, p, q, n, t) <=> ViaX86(s, w, p, q, n, t))
         /\ s.abi \in Arm64 => (Via(s, w, p, q, n, t) <=> ViaArm(s, w, p, q, n, t))
         /\ s.abi \in Mips64 => (Via(s, w, p, q, n, t) <=> ViaMips64(s, w, p, q, n, t))
<1>1. s.abi \in SparcABIs => (Via(s, w, p, q, n, t) <=> ViaSparc(s, w, p, q, n, t))
  BY DoneApart DEF Via
<1>2. s.abi \in X86ABIs => (Via(s, w, p, q, n, t) <=> ViaX86(s, w, p, q, n, t))
  BY DoneApart DEF Via
<1>3. s.abi \in Arm64 => (Via(s, w, p, q, n, t) <=> ViaArm(s, w, p, q, n, t))
  BY DoneApart DEF Via
<1>4. s.abi \in Mips64 => (Via(s, w, p, q, n, t) <=> ViaMips64(s, w, p, q, n, t))
  BY DoneApart DEF Via
<1> QED BY <1>1, <1>2, <1>3, <1>4

LEMMA AgreeOf ==
  ASSUME NEW s, NEW w, NEW p
  PROVE  /\ s.abi \in SparcABIs => (Agree(s, w, p) <=> AgreeSparc(s, w, p))
         /\ s.abi \in X86ABIs => (Agree(s, w, p) <=> AgreeX86(s, w, p))
         /\ s.abi \in Arm64 => (Agree(s, w, p) <=> Level(s, p))
         /\ s.abi \in Mips64 => (Agree(s, w, p) <=> Numbered(s, p))
<1>1. s.abi \in SparcABIs => (Agree(s, w, p) <=> AgreeSparc(s, w, p))
  BY DoneApart DEF Agree
<1>2. s.abi \in X86ABIs => (Agree(s, w, p) <=> AgreeX86(s, w, p))
  BY DoneApart DEF Agree
<1>3. s.abi \in Arm64 => (Agree(s, w, p) <=> Level(s, p))
  BY DoneApart DEF Agree
<1>4. s.abi \in Mips64 => (Agree(s, w, p) <=> Numbered(s, p))
  BY DoneApart DEF Agree
<1> QED BY <1>1, <1>2, <1>3, <1>4

(* What a program that binds t may do, and what no known error prevents. *)
ThisX86(abi, w) == abi \in X86ABIs /\ X86Kind(w) = "this"

Allowed(s, w, p, t) ==
  /\ ThisX86(s.abi, w) /\ ~p.gone => t \in IntTypes
  /\ w = "SYS" => p.i < SysArgs /\ (s.abi \in PpcABIs => IntRegs[s.abi] >= SysArgs)
  /\ s.abi = "mips_eabi" /\ t = "float" => p.f < FloatRegs[s.abi]
  /\ s.abi = "mips_n32" => t # "pointer"

(* What MIPS knows of the float registers stays known. *)
KeepsDoubles(s, u) == s.abi \in Mips64 => s.d \subseteq u.d

Singles(t) == IF t = "float" THEN 1 ELSE 0

LEMMA GoneX86 ==
  ASSUME NEW s, NEW w, NEW p \in Cursors, NEW q \in Cursors, NEW n, NEW t, ViaX86(s, w, p, q, n, t)
  PROVE  (w = "SYS" => q.i = p.i + 1) /\ (X86Kind(w) = "this" => q.gone)
<1>1. CASE w = "SYS"
  <2>1. X86Kind(w) = "sys"
    BY <1>1 DEF X86Kind
  <2>2. q = [p EXCEPT !.i = p.i + 1]
    BY <2>1 DEF ViaX86
  <2> QED BY <2>1, <2>2 DEF Cursors
<1>2. CASE X86Kind(w) = "this"
  <2>1. w # "SYS"
    BY <1>2 DEF X86Kind
  <2>2. CASE ~p.gone
    <3>1. X86Kind(w) # "sys" /\ ~X86InReg(w, p, t)
      BY <1>2 DEF X86InReg, Fast
    <3>2. q = [p EXCEPT !.gone = TRUE]
      BY <1>2, <2>2, <3>1, Zenon DEF ViaX86
    <3>3. q.gone = TRUE
      BY <3>2 DEF Cursors
    <3> QED BY <2>1, <3>3
  <2>3. CASE p.gone
    <3>1. ~X86InReg(w, p, t) /\ X86Kind(w) # "fast_gnu" /\ X86Kind(w) # "sys"
      BY <1>2 DEF X86InReg, Fast
    <3>2. q = [p EXCEPT !.sp = p.sp + Width4(t)]
      BY <1>2, <2>3, <3>1 DEF ViaX86
    <3>3. q.gone = p.gone
      BY <3>2 DEF Cursors
    <3> QED BY <2>1, <2>3, <3>3
  <2> QED BY <2>2, <2>3
<1> QED BY <1>1, <1>2

LEMMA NewAll ==
  ASSUME NEW s, IsVM(s), s.abi \in Done, NEW w \in Ways(s.abi), s.vt = ModeTable(s.abi, w),
         Room(s), NEW p \in Cursors, Agree(s, w, p), NEW t \in TypesOf(w), NEW n \in Nat, n > 0,
         Allowed(s, w, p, t), NEW u, u = BindArg(s, t, Value(n, SizeOf(s.abi, t)))
  PROVE  \E q \in Cursors : /\ Via(u, w, p, q, n, t) /\ Agree(u, w, q) /\ Binds(s, u)
                            /\ w = "SYS" => q.i = p.i + 1
                            /\ ThisX86(s.abi, w) => q.gone
                            /\ s.abi = "mips_eabi" => q.f = p.f + Singles(t)
                            /\ KeepsDoubles(s, u)
<1>1. ASSUME Binds(s, u) PROVE u.abi = s.abi
  BY <1>1 DEF Binds, Keeps
<1>2. s.abi # "mips_eabi"
  BY DEF Done, SparcABIs, X86ABIs, Arm64, Mips64, MipsN64
<1>3. s.abi \in SparcABIs \cup Arm64 \cup Mips64 => w # "SYS" /\ ~ThisX86(s.abi, w)
  <2>1. CASE s.abi \in SparcABIs
    BY <2>1, DoneApart DEF ThisX86, SparcABIs, Ways, KnownModes, OwnModes, Arm64, MipsO32, MipsN64
  <2>2. CASE s.abi \in Arm64
    <3>1. OwnModes(s.abi) = {"ARM64"}
      BY <2>2 DEF OwnModes, Arm64, MipsO32, MipsN64
    <3> QED BY <2>2, <3>1, DoneApart DEF ThisX86, Ways, KnownModes
  <2>3. CASE s.abi \in Mips64
    <3>1. OwnModes(s.abi) \subseteq {"MIPS64_N64", "MIPS64_N32"}
      BY <2>3 DEF OwnModes, Mips64, Arm64, MipsO32, MipsN64
    <3> QED BY <2>3, <3>1, DoneApart DEF ThisX86, Ways, KnownModes
  <2> QED BY <2>1, <2>2, <2>3
<1>7. s.abi \notin Mips64 => KeepsDoubles(s, u)
  BY DEF KeepsDoubles
<1>8. s.abi = "mips_n32" => t # "pointer"
  BY DEF Allowed
<1>4. CASE s.abi \in SparcABIs
  <2>1. AgreeSparc(s, w, p)
    BY <1>4, AgreeOf
  <2>2. PICK q \in Cursors : ViaSparc(u, w, p, q, n, t) /\ AgreeSparc(u, w, q) /\ Binds(s, u)
    BY <1>4, <2>1, NewSparc
  <2>3. Via(u, w, p, q, n, t) /\ Agree(u, w, q)
    BY <1>1, <1>4, <2>2, ViaOf, AgreeOf
  <2> QED BY <1>2, <1>3, <1>4, <1>7, <2>2, <2>3, DoneApart
<1>5. CASE s.abi \in X86ABIs
  <2>1. AgreeX86(s, w, p)
    BY <1>5, AgreeOf
  <2>2. (X86Kind(w) = "this" /\ ~p.gone => t \in IntTypes) /\ (w = "SYS" => p.i < SysArgs)
    BY <1>5 DEF Allowed, ThisX86
  <2>3. PICK q \in Cursors : ViaX86(u, w, p, q, n, t) /\ AgreeX86(u, w, q) /\ Binds(s, u)
    BY <1>5, <2>1, <2>2, NewX86
  <2>4. (w = "SYS" => q.i = p.i + 1) /\ (X86Kind(w) = "this" => q.gone)
    BY <2>3, GoneX86
  <2>5. Via(u, w, p, q, n, t) /\ Agree(u, w, q)
    BY <1>1, <1>5, <2>3, ViaOf, AgreeOf
  <2> QED BY <1>2, <1>5, <1>7, <2>3, <2>4, <2>5, DoneApart DEF ThisX86
<1>6. CASE s.abi \in Arm64
  <2>1. Level(s, p)
    BY <1>6, AgreeOf
  <2>2. PICK q \in Cursors : ViaArm(u, w, p, q, n, t) /\ Level(u, q) /\ Binds(s, u)
    BY <1>6, <2>1, NewArm
  <2>3. Via(u, w, p, q, n, t) /\ Agree(u, w, q)
    BY <1>1, <1>6, <2>2, ViaOf, AgreeOf
  <2> QED BY <1>2, <1>3, <1>6, <1>7, <2>2, <2>3, DoneApart
<1>9. CASE s.abi \in Mips64
  <2>1. Numbered(s, p)
    BY <1>9, AgreeOf
  <2>2. PICK q \in Cursors : /\ ViaMips64(u, w, p, q, n, t) /\ Numbered(u, q) /\ Binds(s, u)
                             /\ s.d \subseteq u.d
    BY <1>8, <1>9, <2>1, NewMips64
  <2>3. Via(u, w, p, q, n, t) /\ Agree(u, w, q)
    BY <1>1, <1>9, <2>2, ViaOf, AgreeOf
  <2>4. KeepsDoubles(s, u)
    BY <2>2 DEF KeepsDoubles
  <2> QED BY <1>2, <1>3, <1>9, <2>2, <2>3, <2>4
<1> QED BY <1>4, <1>5, <1>6, <1>9 DEF Done

LEMMA KeptAll ==
  ASSUME NEW s, NEW u, IsVM(s), IsVM(u), Keeps(s, u), KeepsDoubles(s, u), s.abi \in Done, NEW w, NEW p, NEW q,
         NEW t \in TypesOf(w), NEW n \in Nat, n > 0, Via(s, w, p, q, n, t)
  PROVE  Via(u, w, p, q, n, t)
<1>1. u.abi = s.abi
  BY DEF Keeps
<1>2. CASE s.abi \in SparcABIs
  BY <1>1, <1>2, KeptSparc, ViaOf
<1>3. CASE s.abi \in X86ABIs
  BY <1>1, <1>3, KeptX86, ViaOf
<1>4. CASE s.abi \in Arm64
  BY <1>1, <1>4, KeptArm, ViaOf
<1>5. CASE s.abi \in Mips64
  BY <1>1, <1>5, KeptMips64, ViaOf DEF KeepsDoubles
<1> QED BY <1>2, <1>3, <1>4, <1>5 DEF Done

LEMMA StartAll ==
  ASSUME NEW s, s.abi \in Done, NEW w \in Ways(s.abi), s.vt = ModeTable(s.abi, w), Fresh(s)
  PROVE  Agree(s, w, Start)
<1>2. CASE s.abi \in SparcABIs
  BY <1>2, StartSparc, AgreeOf
<1>3. CASE s.abi \in X86ABIs
  BY <1>3, StartX86, AgreeOf
<1>4. CASE s.abi \in Arm64
  BY <1>4, StartArm64, AgreeOf
<1>5. CASE s.abi \in Mips64
  BY <1>5, StartMips64, AgreeOf
<1> QED BY <1>2, <1>3, <1>4, <1>5 DEF Done

LEMMA SwitchAll ==
  ASSUME NEW s, NEW u, IsVM(s), IsVM(u), s.abi \in Done, u.abi = s.abi, u.vec = s.vec, u.i = s.i, u.f = s.f,
         u.d = s.d, u.ireg = s.ireg, u.freg = s.freg,
         NEW p \in Cursors, Agree(s, "ELLIPSIS", p)
  PROVE  Agree(u, "VARARGS", p)
<1>2. CASE s.abi \in SparcABIs
  BY <1>2, SwitchSparc, AgreeOf
<1>3. CASE s.abi \in X86ABIs
  BY <1>3, SwitchX86, AgreeOf
<1>4. CASE s.abi \in Arm64
  BY <1>4, LevelSwitched, AgreeOf
<1>5. CASE s.abi \in Mips64
  BY <1>5, SwitchMips64, AgreeOf
<1> QED BY <1>2, <1>3, <1>4, <1>5 DEF Done

LEMMA FetchAll ==
  ASSUME NEW s, IsVM(s), s.abi \in Done, NEW x \in Ways(s.abi), s.vt = ModeTable(s.abi, x),
         NEW w \in Ways(s.abi), Follows(w, x), NEW p \in Cursors, NEW q \in Cursors,
         NEW t \in TypesOf(w), NEW n \in Nat, n > 0, Via(s, w, p, q, n, t)
  PROVE  Finds(s.abi, w, Kernel(s), p, q, n, t)
<1>2. CASE s.abi \in SparcABIs
  BY <1>2, FetchSparc, ViaOf
<1>3. CASE s.abi \in X86ABIs
  <2>1. ViaX86(s, w, p, q, n, t)
    BY <1>3, ViaOf
  <2> QED BY <1>3, <2>1, FetchX86
<1>4. CASE s.abi \in Arm64
  <2>1. ViaArm(s, w, p, q, n, t)
    BY <1>4, ViaOf
  <2> QED BY <1>4, <2>1, FetchArm
<1>5. CASE s.abi \in Mips64
  <2>1. ViaMips64(s, w, p, q, n, t)
    BY <1>5, ViaOf
  <2> QED BY <1>5, <2>1, FetchMips64
<1> QED BY <1>2, <1>3, <1>4, <1>5 DEF Done

-----------------------------------------------------------------------------
(* The target's view of the call.                                          *)

LEMMA TargetWay ==
  ASSUME NEW a, NEW c, NEW k, c.mode # "VARARGS"
  PROVE  TargetFetch(a, c, k) = FetchAs(a, Way(c, k), c.bound[k])
<1>1. CASE c.mode = "SYS"
  BY <1>1 DEF TargetFetch, FetchAs, Way
<1>2. CASE c.mode = "ELLIPSIS"
  <2>1. Way(c, k) = IF IsVariadic(c, k) THEN "VARARGS" ELSE "ELLIPSIS"
    BY <1>2 DEF Way
  <2> QED BY <1>2, <2>1 DEF TargetFetch, FetchAs, CEllipsis
<1>3. CASE c.mode # "SYS" /\ c.mode # "ELLIPSIS"
  <2>1. Way(c, k) = c.mode /\ c.mode \notin CEllipsis
    BY <1>3 DEF Way, CEllipsis
  <2> QED BY <1>3, <2>1 DEF TargetFetch, FetchAs
<1> QED BY <1>1, <1>2, <1>3

LEMMA WayAt ==
  ASSUME NEW abi, NEW c, NEW k, NEW m, NEW p
  PROVE  At(abi, Way(c, k), m, p) = At(abi, c.mode, m, p)
<1>1. CASE Way(c, k) = c.mode
  BY <1>1
<1>2. CASE Way(c, k) # c.mode
  <2>1. Way(c, k) = "VARARGS" /\ c.mode = "ELLIPSIS"
    BY <1>2 DEF Way
  <2>2. CallbackOf(abi, Way(c, k)) = CallbackOf(abi, c.mode)
    BY <2>1 DEF CallbackOf
  <2> QED BY <2>2 DEF At
<1> QED BY <1>1, <1>2

(* One more cursor. *)
LEMMA Longer ==
  ASSUME NEW n \in Nat, NEW P \in [0 .. n -> Cursors], NEW q \in Cursors, NEW R,
         R = [j \in 0 .. n + 1 |-> IF j = n + 1 THEN q ELSE P[j]]
  PROVE  /\ R \in [0 .. n + 1 -> Cursors] /\ R[0] = P[0] /\ R[n + 1] = q /\ R[n] = P[n]
         /\ \A k \in 1 .. n : R[k] = P[k] /\ R[k - 1] = P[k - 1]
         /\ \A k \in 1 .. n : P[k] \in Cursors /\ P[k - 1] \in Cursors
         /\ P[n] \in Cursors
<1>1. \A j \in 0 .. n : j \in 0 .. n + 1 /\ j # n + 1 /\ R[j] = P[j]
  OBVIOUS
<1>2. n + 1 \in 0 .. n + 1 /\ 0 \in 0 .. n /\ n \in 0 .. n
  OBVIOUS
<1>3. \A k \in 1 .. n : k \in 0 .. n /\ k - 1 \in 0 .. n
  OBVIOUS
<1> QED BY <1>1, <1>2, <1>3

LEMMA ResetAbi ==
  ASSUME Typed, dcReset
  PROVE  ABI' = ABI
<1>1. IsVM(vm) /\ ABI \in ABIs /\ TableOK(ABI, vm.vt)
  BY Tables, NowWay, LenVec DEF Typed, VMOK, ABI
<1>2. vm' = Reset(vm)
  BY DEF dcReset
<1> QED BY <1>1, <1>2, ResetVM DEF ABI

-----------------------------------------------------------------------------
(* Where the arguments are while they are bound, and that the callback     *)
(* finds them there.                                                       *)

FloatsOf(c) == {k \in DOMAIN c.bound : c.bound[k] = "float"}

Placed(s, c, P) ==
  LET n == Len(c.bound) IN
    /\ P \in [0 .. n -> Cursors] /\ P[0] = Start
    /\ \A k \in 1 .. n : Via(s, Way(c, k), P[k - 1], P[k], k, c.bound[k])
    /\ Agree(s, Now(c), P[n])
    /\ c.mode = "SYS" => P[n].i = n
    /\ ThisX86(s.abi, c.mode) /\ n > 0 => P[n].gone
    /\ s.abi = "mips_eabi" => P[n].f = Cardinality(FloatsOf(c))

Spoiled == EabiMisreads \/ N32Misreads \/ Unreserved

Placing == ABI \in Done => Spoiled \/ \E P : Placed(vm, call, P)

Found(abi, c, m, P) ==
  /\ P \in [0 .. Len(c.bound) -> Cursors] /\ P[0] = Start
  /\ \A k \in 1 .. Len(c.bound) : Finds(abi, Way(c, k), m, P[k - 1], P[k], k, c.bound[k])

Excused == EabiMisreads \/ ArmhfMisreads \/ N32Misreads \/ Unreserved

Finding ==
  ABI \in Done => Excused \/ \E P :
    /\ Found(ABI, call, image, P)
    /\ call.phase = "running" => callee = At(ABI, call.mode, image, P[Len(got)])
    /\ FetchedAsBound

KnownCall == call.mode \in Modes[ABI] \cup {"DEFAULT"}

Ready1 ==
  call.phase = "binding" =>
    /\ Placing
    /\ call.bound = <<>> /\ ~Unreserved => Fresh(vm)
    /\ call.mode = "DEFAULT" => ~Unreserved

Located ==
  /\ KnownCall /\ Ready1
  /\ call.phase \in {"running", "returned"} => Finding

(* Nothing is bound, and everything is free. *)
LEMMA PlacedFirst ==
  ASSUME NEW s, NEW c, c.bound = <<>>, c.named = AllNamed, s.abi \in Done, c.mode \in Ways(s.abi),
         s.vt = ModeTable(s.abi, c.mode), Fresh(s)
  PROVE  \E P : Placed(s, c, P)
<1> DEFINE P == [k \in 0 .. 0 |-> Start]
<1>1. Start \in Cursors /\ Start.i = 0 /\ Start.f = 0
  BY DEF Start, Cursors
<1>2. Len(c.bound) = 0 /\ Now(c) = c.mode /\ DOMAIN c.bound = {}
  BY DEF Now
<1>3. P \in [0 .. 0 -> Cursors] /\ P[0] = Start
  BY <1>1
<1>4. Agree(s, c.mode, Start)
  BY StartAll
<1>5. FloatsOf(c) = {} /\ Cardinality(FloatsOf(c)) = 0
  BY <1>2, FS_EmptySet DEF FloatsOf
<1> HIDE DEF P
<1>6. Placed(s, c, P)
  BY <1>1, <1>2, <1>3, <1>4, <1>5 DEF Placed
<1> QED BY <1>6

LEMMA LocatedReset ==
  ASSUME Typed, Located, dcReset
  PROVE  Located'
<1>1. /\ Typed' /\ Fresh(vm') /\ call'.bound = <<>> /\ call'.phase = "binding"
      /\ call'.mode = call.mode /\ call'.named = AllNamed /\ call'.reset = vm'.vt.reset
  BY TypedReset
<1>2. ABI' = ABI /\ vm'.abi = ABI'
  BY TypedReset, ResetAbi DEF ABI
<1>3. vm'.vt = ModeTable(vm'.abi, call'.mode) /\ call'.mode \in Ways(vm'.abi)
  <2>1. Now(call') = call'.mode
    BY <1>1 DEF Now
  <2>2. vm'.vt = ModeTable(ABI', Now(call')) /\ CallOK'
    BY <1>1 DEF Typed, VMOK
  <2>3. call'.mode \in KnownModes(ABI')
    BY <2>2 DEF CallOK
  <2> QED BY <1>2, <2>1, <2>2, <2>3 DEF Ways
<1>4. Placing'
  <2>1. vm'.abi \in Done => \E P : Placed(vm', call', P)
    BY <1>1, <1>3, PlacedFirst
  <2> QED BY <1>2, <2>1 DEF Placing
<1>5. ~Unreserved'
  BY <1>1 DEF Unreserved
<1>6. KnownCall'
  BY <1>1, <1>2 DEF Located, KnownCall
<1> QED BY <1>1, <1>4, <1>5, <1>6 DEF Located, Ready1

LEMMA FreshSwitched ==
  ASSUME NEW s, NEW vt, Fresh(s), TableOK(s.abi, s.vt), TableOK(s.abi, vt), vt.reset = s.vt.reset,
         NEW u, u = SetVT(s, vt)
  PROVE  Fresh(u)
<1>1. IsVM(s)
  BY DEF Fresh
<1>2. /\ IsVM(u) /\ u.abi = s.abi /\ u.vt = vt /\ u.vec = s.vec
      /\ u.i = s.i /\ u.f = s.f /\ u.d = s.d /\ u.ireg = s.ireg /\ u.freg = s.freg
  BY <1>1, SetTable
<1>3. vt.call \in Calls64 <=> s.vt.call \in Calls64
  BY DEF TableOK
<1>4. Reserved(u) = Reserved(s)
  BY <1>2 DEF Reserved
<1> QED BY <1>2, <1>3, <1>4 DEF Fresh, Calls64

LEMMA LocatedHandle ==
  ASSUME Typed, Stocked, Located, NEW mode \in Modes[ABI], handle_mode(mode)
  PROVE  Located'
<1> DEFINE vt == ModeTable(ABI, mode)
<1>1. Typed' /\ Stocked'
  BY TypedHandleMode
<1>2. ABI \in ABIs /\ IsVM(vm) /\ TableOK(ABI, vm.vt) /\ mode \in Ways(ABI) /\ mode \in KnownModes(ABI)
  BY ConventionAssumption, Tables, NowWay, LenVec DEF Typed, VMOK, ABI, Ways
<1>3. TableOK(ABI, vt)
  BY <1>2, Tables
<1>4. vm' = SetVT(vm, vt)
  BY DEF handle_mode
<1> HIDE DEF vt
<1>5. vm'.abi = ABI /\ ABI' = ABI /\ vm'.vt = vt
  BY <1>2, <1>3, <1>4, SetTable DEF ABI
<1>6. /\ call.bound = <<>> /\ call.mode = "DEFAULT" /\ call.phase = "binding" /\ call.named = AllNamed
      /\ mode # "DEFAULT"
  BY DEF handle_mode, Typed, CallOK
<1>7. /\ call'.bound = <<>> /\ call'.mode = mode /\ call'.phase = "binding" /\ call'.named = AllNamed
      /\ call'.reset = call.reset
  BY <1>6 DEF handle_mode, Typed, CallOK
<1>8. ~Unreserved' => Fresh(vm')
  <2>1. ~Unreserved /\ Fresh(vm)
    BY <1>6 DEF Located, Ready1
  <2>2. ~Unreserved' => vt.reset = vm.vt.reset
    BY <1>5, <1>7, <2>1 DEF Unreserved
  <2>3. TableOK(vm.abi, vm.vt) /\ TableOK(vm.abi, vt)
    BY <1>2, <1>3 DEF ABI
  <2> QED BY <1>4, <2>1, <2>2, <2>3, FreshSwitched
<1>9. Placing'
  <2>1. vm'.vt = ModeTable(vm'.abi, call'.mode) /\ call'.mode \in Ways(vm'.abi)
    BY <1>2, <1>5, <1>7 DEF vt
  <2>2. Fresh(vm') /\ vm'.abi \in Done => \E P : Placed(vm', call', P)
    BY <1>7, <2>1, PlacedFirst
  <2> QED BY <1>5, <1>8, <2>2 DEF Placing, Spoiled
<1>10. KnownCall'
  BY <1>5, <1>7 DEF KnownCall
<1> QED BY <1>6, <1>7, <1>8, <1>9, <1>10 DEF Located, Ready1

(* Where the errors known of no platform's own show. *)
LEMMA SpoiledKept ==
  ASSUME call'.bound = call.bound, ABI' = ABI, call'.reset = call.reset,
         vm'.vt.reset = vm.vt.reset, Spoiled
  PROVE  Spoiled'
<1>1. EabiMisreads => EabiMisreads'
  BY DEF EabiMisreads
<1>2. N32Misreads => N32Misreads'
  BY DEF N32Misreads
<1>3. Unreserved => Unreserved'
  BY DEF Unreserved
<1> QED BY <1>1, <1>2, <1>3 DEF Spoiled

LEMMA PlacedSwitched ==
  ASSUME NEW s, NEW u, NEW c, NEW e, NEW P, Placed(s, c, P), IsVM(s), IsVM(u), s.abi \in Done,
         Keeps(s, u), u.vec = s.vec, u.i = s.i, u.f = s.f, u.d = s.d, u.ireg = s.ireg, u.freg = s.freg,
         c.bound \in Seq(AllTypes), \A k \in 1 .. Len(c.bound) : c.bound[k] \in TypesOf("ELLIPSIS"),
         e.bound = c.bound, c.mode = "ELLIPSIS", e.mode = "ELLIPSIS",
         c.named = AllNamed, e.named # AllNamed,
         \A k \in 1 .. Len(c.bound) : Way(c, k) = "ELLIPSIS" /\ Way(e, k) = "ELLIPSIS"
  PROVE  Placed(u, e, P)
<1> DEFINE n == Len(c.bound)
<1>1. n \in Nat /\ u.abi = s.abi
  BY DEF Keeps
<1>2. /\ P \in [0 .. n -> Cursors] /\ P[0] = Start /\ P[n] \in Cursors
      /\ \A k \in 1 .. n : Via(s, "ELLIPSIS", P[k - 1], P[k], k, c.bound[k])
      /\ Agree(s, "ELLIPSIS", P[n])
      /\ s.abi = "mips_eabi" => P[n].f = Cardinality(FloatsOf(c))
  <2>1. Now(c) = "ELLIPSIS"
    BY DEF Now
  <2>2. n \in 0 .. n
    BY <1>1
  <2> QED BY <2>1, <2>2 DEF Placed
<1> HIDE DEF n
<1>7. KeepsDoubles(s, u)
  BY DEF KeepsDoubles
<1>3. \A k \in 1 .. n : Via(u, "ELLIPSIS", P[k - 1], P[k], k, c.bound[k])
  <2>1. ASSUME NEW k \in 1 .. n
        PROVE  Via(u, "ELLIPSIS", P[k - 1], P[k], k, c.bound[k])
    <3>1. k \in Nat /\ k > 0 /\ c.bound[k] \in TypesOf("ELLIPSIS")
      BY <1>1 DEF n
    <3> QED BY <1>2, <1>7, <3>1, KeptAll
  <2> QED BY <2>1
<1>4. Agree(u, "VARARGS", P[n])
  BY <1>1, <1>2, SwitchAll
<1>5. Now(e) = "VARARGS" /\ FloatsOf(e) = FloatsOf(c)
  BY DEF Now, FloatsOf
<1>6. ~ThisX86(u.abi, "ELLIPSIS")
  BY DEF ThisX86, X86Kind
<1> QED BY <1>1, <1>2, <1>3, <1>4, <1>5, <1>6 DEF Placed, n

LEMMA EllipsisTable ==
  ASSUME NEW abi \in ABIs, "ELLIPSIS" \in Ways(abi), "VARARGS" \in Ways(abi)
  PROVE  ModeTable(abi, "ELLIPSIS").reset = ModeTable(abi, "VARARGS").reset
<1>1. CASE abi \notin X86ABIs
  BY <1>1, Tables DEF TableOK
<1>2. CASE abi \in X86ABIs
  BY <1>2, X86Family DEF mode_x86, CEllipsis
<1> QED BY <1>1, <1>2

LEMMA LocatedVarargs ==
  ASSUME Typed, Stocked, Located, dcModeVarargs
  PROVE  Located'
<1>1. Typed' /\ Stocked'
  BY TypedVarargs
<1>2. /\ call.phase = "binding" /\ call.mode = "ELLIPSIS" /\ call.named = AllNamed
      /\ vm' = SetVT(vm, ModeTable(ABI, "VARARGS")) /\ call' = [call EXCEPT !.named = Len(call.bound)]
  BY DEF dcModeVarargs
<1>3. /\ call'.phase = "binding" /\ call'.mode = "ELLIPSIS" /\ call'.reset = call.reset
      /\ call'.bound = call.bound /\ call'.named # AllNamed
      /\ \A k \in 1 .. Len(call.bound) : Way(call', k) = "ELLIPSIS" /\ Way(call, k) = "ELLIPSIS"
  BY <1>2, SwitchWays DEF Typed
<1>4. /\ ABI \in ABIs /\ IsVM(vm) /\ TableOK(ABI, vm.vt) /\ "VARARGS" \in Ways(ABI)
      /\ "ELLIPSIS" \in Ways(ABI) /\ vm.vt = ModeTable(ABI, "ELLIPSIS")
  <2>1. ABI \in ABIs /\ IsVM(vm)
    BY LenVec DEF Typed, VMOK, ABI
  <2>2. Now(call) = "ELLIPSIS"
    BY <1>2 DEF Now
  <2>3. vm.vt = ModeTable(ABI, "ELLIPSIS")
    BY <2>2 DEF Typed, VMOK
  <2>4. "VARARGS" \in Ways(ABI) /\ "ELLIPSIS" \in Ways(ABI)
    BY DEF Ways, KnownModes
  <2> QED BY <2>1, <2>3, <2>4, Tables
<1> DEFINE vt == ModeTable(ABI, "VARARGS")
<1>5. TableOK(ABI, vt) /\ vt.reset = vm.vt.reset
  BY <1>4, Tables, EllipsisTable
<1>6. vm' = SetVT(vm, vt)
  BY <1>2
<1> HIDE DEF vt
<1>7. /\ IsVM(vm') /\ vm'.abi = ABI /\ ABI' = ABI /\ vm'.vt = vt /\ vm'.vec = vm.vec /\ Keeps(vm, vm')
      /\ vm'.i = vm.i /\ vm'.f = vm.f /\ vm'.d = vm.d /\ vm'.ireg = vm.ireg /\ vm'.freg = vm.freg
  BY <1>4, <1>5, <1>6, SetTable DEF ABI
<1>8. Unreserved' <=> Unreserved
  BY <1>3, <1>5, <1>7 DEF Unreserved
<1>9. Fresh(vm) => Fresh(vm')
  BY <1>4, <1>5, <1>6, FreshSwitched DEF ABI
<1>10. Placing'
  <2>1. Spoiled => Spoiled'
    BY <1>3, <1>5, <1>7, SpoiledKept
  <2>2. ASSUME NEW P, Placed(vm, call, P), ABI \in Done
        PROVE  Placed(vm', call', P)
    <3>1. /\ call.bound \in Seq(AllTypes)
          /\ \A k \in 1 .. Len(call.bound) : call.bound[k] \in TypesOf(Way(call, k))
      BY DEF Typed, CallOK
    <3>2. \A k \in 1 .. Len(call.bound) : call.bound[k] \in TypesOf("ELLIPSIS")
      BY <1>3, <3>1
    <3>3. vm.abi \in Done
      BY <2>2 DEF ABI
    <3> QED BY ZenonT(60), <1>2, <1>3, <1>4, <1>7, <2>2, <3>1, <3>2, <3>3, PlacedSwitched
  <2> QED BY <1>2, <1>7, <2>1, <2>2 DEF Placing, Located, Ready1
<1>11. KnownCall'
  BY <1>2, <1>3, <1>7 DEF Located, KnownCall
<1> QED BY <1>2, <1>3, <1>8, <1>9, <1>10, <1>11 DEF Located, Ready1

(* One more argument. *)
LEMMA FloatsCounted ==
  ASSUME NEW c, NEW e, NEW n \in Nat, NEW t, c.bound \in Seq(AllTypes), Len(c.bound) = n,
         e.bound \in Seq(AllTypes), Len(e.bound) = n + 1, \A k \in 1 .. n : e.bound[k] = c.bound[k],
         e.bound[n + 1] = t, 1 .. n + 1 = 1 .. n \cup {n + 1}
  PROVE  /\ Cardinality(FloatsOf(c)) \in Nat
         /\ Cardinality(FloatsOf(e)) = Cardinality(FloatsOf(c)) + Singles(t)
<1>1. DOMAIN c.bound = 1 .. n /\ DOMAIN e.bound = 1 .. n + 1
  OBVIOUS
<1>2. IsFiniteSet(FloatsOf(c)) /\ Cardinality(FloatsOf(c)) \in Nat /\ n + 1 \notin FloatsOf(c)
  <2>1. IsFiniteSet(1 .. n) /\ FloatsOf(c) \in SUBSET (1 .. n)
    BY <1>1, FS_Interval DEF FloatsOf
  <2>2. n + 1 \notin 1 .. n
    OBVIOUS
  <2>3. IsFiniteSet(FloatsOf(c))
    BY <2>1, FS_Subset
  <2> QED BY <2>1, <2>2, <2>3, FS_CardinalityType
<1>3. FloatsOf(e) = IF t = "float" THEN FloatsOf(c) \cup {n + 1} ELSE FloatsOf(c)
  <2>1. \A k : k \in DOMAIN e.bound <=> k \in 1 .. n \/ k = n + 1
    BY <1>1
  <2>2. \A k : k \in FloatsOf(e) <=> k \in DOMAIN e.bound /\ e.bound[k] = "float"
    BY DEF FloatsOf
  <2>3. \A k : k \in FloatsOf(c) <=> k \in 1 .. n /\ c.bound[k] = "float"
    BY <1>1 DEF FloatsOf
  <2> QED BY <2>1, <2>2, <2>3, Zenon
<1>4. CASE t = "float"
  <2> DEFINE F == FloatsOf(c)
  <2>1. IsFiniteSet(F) /\ n + 1 \notin F /\ Cardinality(F) \in Nat
    BY <1>2
  <2>2. FloatsOf(e) = F \cup {n + 1}
    BY <1>3, <1>4
  <2> HIDE DEF F
  <2>3. Cardinality(FloatsOf(e)) = Cardinality(F) + 1
    BY ZenonT(60), <2>1, <2>2, FS_AddElement
  <2> QED BY <1>4, <2>1, <2>3 DEF Singles, F
<1>5. CASE t # "float"
  BY <1>2, <1>3, <1>5 DEF Singles
<1> QED BY <1>2, <1>4, <1>5

LEMMA PlacedMore ==
  ASSUME NEW s, NEW c, NEW e, NEW P, Placed(s, c, P), IsVM(s), s.abi \in Done, Room(s),
         NEW n \in Nat, n = Len(c.bound), NEW w \in Ways(s.abi), w = Now(c), s.vt = ModeTable(s.abi, w),
         NEW t \in TypesOf(w), NEW u, u = BindArg(s, t, Value(n + 1, SizeOf(s.abi, t))),
         Allowed(s, w, P[n], t),
         c.bound \in Seq(AllTypes), \A k \in 1 .. n : c.bound[k] \in TypesOf(Way(c, k)),
         Way(e, n + 1) = w,
         e.bound \in Seq(AllTypes), Len(e.bound) = n + 1, \A k \in 1 .. n : e.bound[k] = c.bound[k],
         e.bound[n + 1] = t, 1 .. n + 1 = 1 .. n \cup {n + 1},
         e.mode = c.mode, e.named = c.named, \A k : Way(e, k) = Way(c, k)
  PROVE  \E R : Placed(u, e, R)
<1>1. /\ P \in [0 .. n -> Cursors] /\ P[0] = Start /\ P[n] \in Cursors
      /\ \A k \in 1 .. n : Via(s, Way(c, k), P[k - 1], P[k], k, c.bound[k])
      /\ Agree(s, w, P[n])
      /\ c.mode = "SYS" => P[n].i = n
      /\ s.abi = "mips_eabi" => P[n].f = Cardinality(FloatsOf(c))
  <2>1. n \in 0 .. n
    OBVIOUS
  <2> QED BY <2>1 DEF Placed
<1>2. n + 1 \in Nat /\ n + 1 > 0
  OBVIOUS
<1>3. PICK q \in Cursors : /\ Via(u, w, P[n], q, n + 1, t) /\ Agree(u, w, q) /\ Binds(s, u)
                           /\ w = "SYS" => q.i = P[n].i + 1
                           /\ ThisX86(s.abi, w) => q.gone
                           /\ s.abi = "mips_eabi" => q.f = P[n].f + Singles(t)
                           /\ KeepsDoubles(s, u)
  BY <1>1, <1>2, NewAll
<1> DEFINE R == [j \in 0 .. n + 1 |-> IF j = n + 1 THEN q ELSE P[j]]
<1>4. /\ R \in [0 .. n + 1 -> Cursors] /\ R[0] = P[0] /\ R[n + 1] = q /\ R[n] = P[n]
      /\ \A k \in 1 .. n : R[k] = P[k] /\ R[k - 1] = P[k - 1]
  BY <1>1, <1>3, Longer
<1> HIDE DEF R
<1>5. IsVM(u) /\ Keeps(s, u) /\ u.abi = s.abi
  BY <1>3 DEF Binds, Keeps
<1>6. \A k \in 1 .. n + 1 : Via(u, Way(e, k), R[k - 1], R[k], k, e.bound[k])
  <2>1. ASSUME NEW k \in 1 .. n
        PROVE  Via(u, Way(e, k), R[k - 1], R[k], k, e.bound[k])
    <3>1. k \in Nat /\ k > 0 /\ c.bound[k] \in TypesOf(Way(c, k))
      OBVIOUS
    <3>2. Via(u, Way(c, k), P[k - 1], P[k], k, c.bound[k])
      BY <1>1, <1>3, <1>5, <3>1, KeptAll
    <3> QED BY <1>4, <3>2
  <2>2. Via(u, Way(e, n + 1), R[(n + 1) - 1], R[n + 1], n + 1, e.bound[n + 1])
    <3>1. (n + 1) - 1 = n
      OBVIOUS
    <3> QED BY <1>3, <1>4, <3>1
  <2> QED BY <2>1, <2>2
<1>7. Now(e) = w /\ (c.mode = "SYS" => w = "SYS") /\ (ThisX86(s.abi, c.mode) => ThisX86(s.abi, w))
  <2>1. Now(e) = Now(c)
    BY DEF Now
  <2>2. Way(c, n + 1) = w
    OBVIOUS
  <2>3. c.mode # "ELLIPSIS" => w = c.mode
    BY <2>2 DEF Way
  <2>4. ~ThisX86(s.abi, "ELLIPSIS")
    BY DEF ThisX86, X86Kind
  <2> QED BY <2>1, <2>3, <2>4
<1>8. c.mode = "SYS" => R[n + 1].i = n + 1
  BY <1>1, <1>3, <1>4, <1>7
<1>9. ThisX86(u.abi, c.mode) => R[n + 1].gone
  BY <1>3, <1>4, <1>5, <1>7
<1>10. u.abi = "mips_eabi" => R[n + 1].f = Cardinality(FloatsOf(e))
  <2>1. Cardinality(FloatsOf(e)) = Cardinality(FloatsOf(c)) + Singles(t)
    BY SMTT(60), FloatsCounted
  <2> QED BY <1>1, <1>3, <1>4, <1>5, <2>1
<1>11. Placed(u, e, R)
  BY <1>1, <1>3, <1>4, <1>6, <1>7, <1>8, <1>9, <1>10 DEF Placed
<1> QED BY <1>11

LEMMA SpoiledMore ==
  ASSUME NEW n \in Nat, NEW t, n = Len(call.bound), call.bound \in Seq(AllTypes),
         call'.bound \in Seq(AllTypes), Len(call'.bound) = n + 1,
         \A k \in 1 .. n : call'.bound[k] = call.bound[k], call'.bound[n + 1] = t,
         1 .. n + 1 = 1 .. n \cup {n + 1}, ABI' = ABI, ABI \in ABIs, call'.reset = call.reset,
         vm'.vt = vm.vt
  PROVE  /\ Spoiled => Spoiled'
         /\ ABI = "mips_eabi" /\ t = "float" /\ ~Spoiled' => Cardinality(FloatsOf(call)) < FloatRegs[ABI]
         /\ ABI = "mips_n32" /\ ~Spoiled' => t # "pointer"
         /\ ~Spoiled' => ~Unreserved
<1> DEFINE C == Cardinality(FloatsOf(call))
           D == Cardinality(FloatsOf(call'))
<1>1. C \in Nat /\ D = C + Singles(t)
  BY ZenonT(60), FloatsCounted
<1> DEFINE r == FloatRegs[ABI]
<1>2. EabiMisreads <=> (ABI = "mips_eabi" /\ C > r)
  BY DEF EabiMisreads, FloatsOf
<1>3. EabiMisreads' <=> (ABI = "mips_eabi" /\ D > r)
  BY DEF EabiMisreads, FloatsOf
<1>4. r \in Nat
  BY PlatformAssumption
<1> HIDE DEF C, D, r
<1>5. EabiMisreads => EabiMisreads'
  BY <1>1, <1>2, <1>3, <1>4 DEF Singles
<1>6. ABI = "mips_eabi" /\ t = "float" /\ ~EabiMisreads' => C < r
  BY <1>1, <1>3, <1>4 DEF Singles
<1>7. DOMAIN call.bound = 1 .. n /\ DOMAIN call'.bound = 1 .. n + 1
  OBVIOUS
<1>8. N32Misreads => N32Misreads'
  BY <1>7 DEF N32Misreads
<1>9. ABI = "mips_n32" /\ ~N32Misreads' => t # "pointer"
  BY <1>7 DEF N32Misreads
<1>10. Unreserved' <=> Unreserved
  BY DEF Unreserved
<1> QED BY <1>5, <1>6, <1>8, <1>9, <1>10 DEF Spoiled, C, r

LEMMA LocatedArg ==
  ASSUME Typed, Stocked, Located, NEW t, dcArg(t)
  PROVE  Located'
<1> DEFINE n == Len(call.bound)
           w == Now(call)
<1>1. /\ ABI \in ABIs /\ IsVM(vm) /\ vm.vt = ModeTable(ABI, w) /\ w \in Ways(ABI)
  BY LenVec, NowWay DEF Typed, VMOK, ABI
<1>2. /\ t \in BindableTypes /\ n < ArgsAllowed /\ call.phase = "binding"
      /\ vm' = BindArg(vm, t, Value(n + 1, SizeOf(ABI, t)))
      /\ call' = [call EXCEPT !.bound = Append(@, t)]
  BY DEF dcArg
<1>3. t \in TypesOf(w) /\ t \in AllTypes
  BY <1>1, <1>2, BindableIsOf, WaysTypes DEF Typed
<1>4. n \in Nat /\ n + 1 \in Nat /\ n + 1 <= ArgsAllowed
  <2>1. n \in Nat /\ ArgsAllowed \in Nat
    BY CallSeq, ArgsAllowedNat DEF Typed
  <2> HIDE DEF n
  <2> QED BY <1>2, <2>1
<1>5. Way(call, n + 1) = w
  BY <1>4, NowIsWay DEF Typed
<1>6. /\ call'.phase = "binding" /\ call'.mode = call.mode /\ call'.reset = call.reset
      /\ call'.named = call.named /\ call'.bound \in Seq(AllTypes) /\ Len(call'.bound) = n + 1
      /\ \A k \in 1 .. n : call'.bound[k] = call.bound[k]
      /\ call'.bound[n + 1] = t /\ call'.bound # <<>>
      /\ 1 .. n + 1 = 1 .. n \cup {n + 1}
      /\ \A k : Way(call', k) = Way(call, k)
  BY <1>2, <1>3, OneMore DEF Typed
<1>7. ABI' = ABI /\ vm'.vt = vm.vt
  BY TypedArg
<1>8. Room(vm) /\ call.bound \in Seq(AllTypes) /\ \A k \in 1 .. n : call.bound[k] \in TypesOf(Way(call, k))
  BY <1>2, RoomForArg DEF Typed, CallOK
<1>9. /\ Spoiled => Spoiled'
      /\ ABI = "mips_eabi" /\ t = "float" /\ ~Spoiled' => Cardinality(FloatsOf(call)) < FloatRegs[ABI]
      /\ ABI = "mips_n32" /\ ~Spoiled' => t # "pointer"
      /\ ~Spoiled' => ~Unreserved
  BY <1>1, <1>4, <1>6, <1>7, <1>8, SpoiledMore
<1>10. ASSUME NEW P, Placed(vm, call, P), ~Spoiled'
       PROVE  Allowed(vm, w, P[n], t)
  <2>1. /\ call.mode = "SYS" => P[n].i = n
        /\ ThisX86(ABI, call.mode) /\ n > 0 => P[n].gone
        /\ ABI = "mips_eabi" => P[n].f = Cardinality(FloatsOf(call))
    BY <1>10 DEF Placed, ABI
  <2>2. w # call.mode => w = "VARARGS" /\ call.mode = "ELLIPSIS"
    BY <1>5 DEF Way
  <2>3. w = "SYS" => n < SysArgs /\ P[n].i = n /\ (ABI \in PpcABIs => IntRegs[ABI] >= SysArgs)
    <3>1. w = "SYS" => call.mode = "SYS"
      BY <2>2
    <3>2. call.mode = "SYS" => "SYS" \in Modes[ABI]
      BY DEF Located, KnownCall
    <3>3. w = "SYS" /\ ABI \in PpcABIs => IntRegs[ABI] >= SysArgs
      BY <1>1, <3>1, <3>2, RegistersAssumption DEF SysArgs
    <3>4. w = "SYS" => ArgsAllowed = SysArgs
      BY <3>1 DEF ArgsAllowed
    <3> QED BY <1>2, <2>1, <3>1, <3>3, <3>4
  <2>4. ThisX86(ABI, w) /\ ~P[n].gone => t \in IntTypes
    <3>1. ThisX86(ABI, w) => w = call.mode /\ IsThisCall(call.mode)
      <4>1. w = "VARARGS" => X86Kind(w) = "stack"
        BY DEF X86Kind
      <4>2. ABI \in X86ABIs => w \in X86Ways
        BY <1>1, X86Tables
      <4>3. ThisX86(ABI, w) => w \in {"THIS", "X86_THIS_MS"}
        BY <4>2 DEF ThisX86, X86Kind, X86Ways
      <4> QED BY <2>2, <4>3 DEF IsThisCall
    <3>2. ThisX86(ABI, w) /\ ~P[n].gone => ~(n > 0)
      BY <2>1, <3>1
    <3>3. ~(n > 0) => call.bound = <<>>
      <4>1. ~(n > 0) => n = 0
        <5> HIDE DEF n
        <5> QED BY <1>4
      <4> QED BY <1>8, <4>1
    <3>4. ThisX86(ABI, w) /\ ~P[n].gone => t = "pointer"
      <4>1. IsThisCall(call.mode) => call.mode # "SYS" /\ call.mode # "ELLIPSIS"
        BY DEF IsThisCall
      <4>2. call.mode # "ELLIPSIS" => call.named = AllNamed
        BY DEF Typed, CallOK
      <4>3. IsThisCall(call.mode) /\ call.bound = <<>> => BindableTypes = {"pointer"}
        BY <4>1, <4>2 DEF BindableTypes
      <4> QED BY <1>2, <3>1, <3>2, <3>3, <4>3
    <3> QED BY <3>4 DEF IntTypes
  <2> HIDE DEF n, w
  <2> QED BY <1>9, <1>10, <2>1, <2>3, <2>4 DEF Allowed, ABI
<1>11. ASSUME NEW P, Placed(vm, call, P), ~Spoiled', ABI \in Done
       PROVE  \E R : Placed(vm', call', R)
  <2>1. Allowed(vm, w, P[n], t)
    BY <1>10, <1>11
  <2>2. Way(call', n + 1) = w
    BY <1>5, <1>6
  <2>3. /\ vm.abi \in Done /\ w \in Ways(vm.abi) /\ vm.vt = ModeTable(vm.abi, w)
        /\ vm' = BindArg(vm, t, Value(n + 1, SizeOf(vm.abi, t)))
    BY <1>1, <1>2, <1>11 DEF ABI
  <2>4. n = Len(call.bound) /\ w = Now(call)
    OBVIOUS
  <2> HIDE DEF n, w
  <2>5. n \in Nat /\ t \in TypesOf(w)
    BY <1>3, <1>4
  <2>6. \A k \in 1 .. n : call.bound[k] \in TypesOf(Way(call, k))
    BY <1>8
  <2> QED BY ZenonT(120), <1>1, <1>6, <1>8, <1>11, <2>1, <2>2, <2>3, <2>4, <2>5, <2>6, PlacedMore
<1>12. Placing'
  <2>1. ABI \in Done /\ ~Spoiled' => \E P : Placed(vm, call, P)
    BY <1>2, <1>9 DEF Located, Ready1, Placing
  <2> QED BY <1>7, <1>11, <2>1 DEF Placing
<1>13. call'.mode = "DEFAULT" => ~Unreserved'
  <2>1. Unreserved' <=> Unreserved
    BY <1>6, <1>7 DEF Unreserved
  <2> QED BY <1>2, <1>6, <2>1 DEF Located, Ready1
<1>14. KnownCall'
  BY <1>6, <1>7 DEF Located, KnownCall
<1> QED BY <1>6, <1>12, <1>13, <1>14 DEF Located, Ready1

(* The callback finds what is placed when the target is entered. *)
LEMMA FoundPlaced ==
  ASSUME NEW s, NEW c, NEW P, Placed(s, c, P), IsVM(s), s.abi \in Done,
         s.vt = ModeTable(s.abi, Now(c)), Now(c) \in Ways(s.abi),
         c.bound \in Seq(AllTypes), \A k \in 1 .. Len(c.bound) : c.bound[k] \in TypesOf(Way(c, k)),
         c.mode \in Ways(s.abi), c.named = AllNamed \/ c.mode = "ELLIPSIS",
         c.named = AllNamed => \A k \in 1 .. Len(c.bound) : Way(c, k) = c.mode
  PROVE  Found(s.abi, c, Kernel(s), P)
<1> DEFINE n == Len(c.bound)
<1>1. /\ P \in [0 .. n -> Cursors] /\ P[0] = Start /\ n \in Nat
      /\ \A k \in 1 .. n : Via(s, Way(c, k), P[k - 1], P[k], k, c.bound[k])
  BY DEF Placed
<1>2. \A k \in 1 .. n : c.bound[k] \in TypesOf(Way(c, k))
  OBVIOUS
<1>3. c.named = AllNamed => \A k \in 1 .. n : Way(c, k) = c.mode
  OBVIOUS
<1>4. "VARARGS" \in Ways(s.abi)
  BY DEF Ways
<1> HIDE DEF n
<1>5. \A k \in 1 .. n : Finds(s.abi, Way(c, k), Kernel(s), P[k - 1], P[k], k, c.bound[k])
  <2>1. ASSUME NEW k \in 1 .. n
        PROVE  Finds(s.abi, Way(c, k), Kernel(s), P[k - 1], P[k], k, c.bound[k])
    <3>1. k \in Nat /\ k > 0 /\ k \in 0 .. n /\ k - 1 \in 0 .. n
      BY <1>1
    <3>2. P[k] \in Cursors /\ P[k - 1] \in Cursors
      BY <1>1, <3>1
    <3>3. Way(c, k) \in Ways(s.abi) /\ Follows(Way(c, k), Now(c))
      <4>1. CASE c.named = AllNamed
        BY <1>3, <4>1 DEF Now, Follows
      <4>2. CASE c.named # AllNamed
        BY <1>4, <4>2 DEF Way, Now, Follows
      <4> QED BY <4>1, <4>2
    <3>4. c.bound[k] \in TypesOf(Way(c, k)) /\ Via(s, Way(c, k), P[k - 1], P[k], k, c.bound[k])
      BY <1>1, <1>2
    <3> DEFINE w == Way(c, k)
               p == P[k - 1]
               q == P[k]
               t == c.bound[k]
               x == Now(c)
    <3>5. /\ w \in Ways(s.abi) /\ Follows(w, x) /\ p \in Cursors /\ q \in Cursors /\ t \in TypesOf(w)
          /\ Via(s, w, p, q, k, t) /\ x \in Ways(s.abi) /\ s.vt = ModeTable(s.abi, x)
      BY <3>2, <3>3, <3>4
    <3> HIDE DEF w, p, q, t, x
    <3>6. Finds(s.abi, w, Kernel(s), p, q, k, t)
      BY <3>1, <3>5, FetchAll
    <3> QED BY <3>6 DEF w, p, q, t
  <2> QED BY <2>1
<1> QED BY <1>1, <1>5 DEF Found, n

LEMMA WaysOfCall ==
  ASSUME CallOK, call.named = AllNamed
  PROVE  \A k \in 1 .. Len(call.bound) : Way(call, k) = call.mode
<1> DEFINE n == Len(call.bound)
           a == AllNamed
<1>1. CASE call.mode # "ELLIPSIS"
  BY <1>1 DEF Way
<1>2. CASE call.mode = "ELLIPSIS"
  <2>1. n \in Nat /\ a \in Nat /\ n <= MaxVariadic /\ MaxVariadic < a /\ MaxVariadic \in Nat
    <3>1. ArgsAllowed = MaxVariadic
      BY <1>2 DEF ArgsAllowed
    <3> QED BY <3>1, CallSeq, AllNamedNat, ConventionAssumption DEF CallOK
  <2> HIDE DEF n, a
  <2>2. \A k \in 1 .. n : ~(k > a)
    BY <2>1
  <2> QED BY <2>2 DEF n, a, Way, IsVariadic
<1> QED BY <1>1, <1>2

LEMMA LocatedCall ==
  ASSUME Typed, Located, dcCall
  PROVE  Located'
<1>1. /\ Typed' /\ ABI' = ABI /\ vm'.vt = vm.vt /\ image' = Kernel(vm)
      /\ callee' = At(ABI, call.mode, image', Start) /\ got' = <<>>
      /\ call'.phase = "running" /\ call'.bound = call.bound /\ call'.mode = call.mode
      /\ call'.named = call.named /\ call'.reset = call.reset
      /\ \A k : Way(call', k) = Way(call, k)
  BY TypedCall
<1>2. KnownCall'
  BY <1>1 DEF Located, KnownCall
<1>3. call.phase = "binding"
  BY DEF dcCall
<1>4. Finding'
  <2>1. Spoiled => Spoiled'
    BY <1>1, SpoiledKept
  <2>2. Spoiled' => Excused'
    BY DEF Spoiled, Excused
  <2>3. ASSUME NEW P, Placed(vm, call, P), ABI \in Done
        PROVE  /\ Found(ABI', call', image', P)
               /\ callee' = At(ABI', call'.mode, image', P[Len(got')])
               /\ FetchedAsBound'
    <3>1. /\ IsVM(vm) /\ vm.abi = ABI /\ vm.vt = ModeTable(ABI, Now(call)) /\ ABI \in ABIs
          /\ call.bound \in Seq(AllTypes)
          /\ \A k \in 1 .. Len(call.bound) : call.bound[k] \in TypesOf(Way(call, k))
          /\ call.named = AllNamed \/ call.mode = "ELLIPSIS"
      BY LenVec DEF Typed, VMOK, CallOK, ABI
    <3>2. Now(call) \in Ways(ABI) /\ call.mode \in Ways(ABI)
      BY <3>1, NowWay DEF Typed
    <3>3. call.named = AllNamed => \A k \in 1 .. Len(call.bound) : Way(call, k) = call.mode
      BY WaysOfCall DEF Typed
    <3>4. Found(vm.abi, call, Kernel(vm), P)
      BY <2>3, <3>1, <3>2, <3>3, FoundPlaced
    <3>5. Found(ABI', call', image', P)
      BY <1>1, <3>1, <3>4 DEF Found
    <3>6. P[0] = Start
      BY <2>3 DEF Placed
    <3>7. FetchedAsBound' /\ Len(got') = 0
      <4>1. DOMAIN got' = {} /\ Len(got') = 0
        BY <1>1
      <4> QED BY <4>1 DEF FetchedAsBound
    <3> QED BY <1>1, <3>5, <3>6, <3>7
  <2>4. ABI \in Done /\ ~Spoiled => \E P : Placed(vm, call, P)
    BY <1>3 DEF Located, Ready1, Placing
  <2> QED BY <1>1, <2>1, <2>2, <2>3, <2>4 DEF Finding
<1> QED BY <1>1, <1>2, <1>4 DEF Located, Ready1

LEMMA LocatedFetch ==
  ASSUME Typed, Located, Fetch
  PROVE  Located'
<1> DEFINE k == Len(got) + 1
           r == TargetFetch(callee, call, k)
           w == Way(call, k)
           t == call.bound[k]
<1>1. /\ call.phase = "running" /\ Len(got) < Len(call.bound) /\ vm' = vm /\ call' = call /\ image' = image
      /\ callee' = r.args /\ got' = Append(got, Trunc(r.val, SizeOf(ABI, t)))
  BY DEF Fetch
<1>2. ABI' = ABI
  BY <1>1 DEF ABI
<1>3. IsSeq(got) /\ call.mode # "VARARGS" /\ Len(call.bound) \in Nat
  BY CallSeq, NowWay, LenVec DEF Typed, CalleeOK, VMOK, ABI
<1>4. /\ IsSeq(got') /\ Len(got') = k /\ Len(got) \in Nat
      /\ got'[k] = Trunc(r.val, SizeOf(ABI, t))
      /\ DOMAIN got = 1 .. Len(got) /\ DOMAIN got' = 1 .. Len(got) \cup {k}
      /\ \A j \in 1 .. Len(got) : got'[j] = got[j]
  BY <1>1, <1>3, OneGot
<1>5. Excused => Excused'
  BY <1>1, <1>2 DEF Excused, EabiMisreads, ArmhfMisreads, N32Misreads, Unreserved, OnStack, IntRegsLeft
<1>6. ASSUME NEW P, Found(ABI, call, image, P), callee = At(ABI, call.mode, image, P[Len(got)]),
             FetchedAsBound
      PROVE  /\ Found(ABI', call', image', P)
             /\ callee' = At(ABI', call'.mode, image', P[Len(got')])
             /\ FetchedAsBound'
  <2>1. k \in 1 .. Len(call.bound) /\ k - 1 = Len(got)
    <3> DEFINE g == Len(got)
               b == Len(call.bound)
    <3>1. g \in Nat /\ b \in Nat /\ g < b
      BY <1>1, <1>3, <1>4
    <3> HIDE DEF g, b
    <3>2. g + 1 \in 1 .. b /\ (g + 1) - 1 = g
      BY <3>1
    <3> QED BY <3>2 DEF g, b
  <2>2. Finds(ABI, w, image, P[Len(got)], P[k], k, t)
    BY <1>6, <2>1 DEF Found
  <2>3. callee = At(ABI, w, image, P[Len(got)])
    BY <1>6, WayAt
  <2>4. r = FetchAs(callee, w, t)
    BY <1>3, TargetWay
  <2> HIDE DEF k, r, w, t
  <2>5. r.args = At(ABI, w, image, P[k]) /\ Trunc(r.val, SizeOf(ABI, t)) = Value(k, SizeOf(ABI, t))
    BY <2>2, <2>3, <2>4 DEF Finds
  <2>6. callee' = At(ABI, call.mode, image, P[k])
    <3>1. At(ABI, w, image, P[k]) = At(ABI, call.mode, image, P[k])
      BY WayAt DEF w
    <3> QED BY <1>1, <2>5, <3>1
  <2>7. FetchedAsBound'
    <3>1. \A j \in DOMAIN got' : got'[j] = Value(j, SizeOf(ABI, call.bound[j]))
      <4>1. got'[k] = Value(k, SizeOf(ABI, call.bound[k]))
        BY <1>4, <2>5 DEF t
      <4> QED BY <1>4, <1>6, <4>1 DEF FetchedAsBound
    <3> QED BY <1>1, <1>2, <3>1 DEF FetchedAsBound
  <2> QED BY <1>1, <1>2, <1>4, <1>6, <2>6, <2>7
<1>7. Finding'
  <2>1. Finding
    BY <1>1 DEF Located
  <2> HIDE DEF k, r, w, t
  <2> QED BY <1>1, <1>2, <1>5, <1>6, <2>1 DEF Finding
<1>8. KnownCall'
  BY <1>1, <1>2 DEF Located, KnownCall
<1> HIDE DEF k, r, w, t
<1> QED BY <1>1, <1>7, <1>8 DEF Located, Ready1

-----------------------------------------------------------------------------
(* Every step keeps the arguments where they are looked for.               *)

LEMMA LocatedInit ==
  ASSUME Init
  PROVE  Located
<1>1. call.phase = "new" /\ call.mode = "DEFAULT"
  BY DEF Init, NewCall
<1> QED BY <1>1 DEF Located, KnownCall, Ready1

LEMMA LocatedNext ==
  ASSUME Running, Located, [Next]_vars
  PROVE  Located'
<1>0. Typed /\ Stocked
  BY DEF Running
<1>1. ASSUME NEW mode \in Modes[ABI], dcMode(mode)
      PROVE  Located'
  <2>1. call'.phase = "new" /\ call'.mode = mode
    BY <1>1 DEF dcMode, NewCall
  <2>2. ABI' = ABI
    <3>1. IsVM(vm) /\ TableOK(ABI, ModeTable(ABI, mode))
      <4>1. ABI \in ABIs /\ IsVM(vm) /\ mode \in Ways(ABI)
        BY <1>0, <1>1, ConventionAssumption, LenVec DEF Typed, VMOK, ABI, Ways
      <4> QED BY <4>1, Tables
    <3>2. vm' = SetVT(vm, ModeTable(ABI, mode))
      BY <1>1 DEF dcMode
    <3> QED BY <3>1, <3>2, SetTable DEF ABI
  <2> QED BY <1>1, <2>1, <2>2 DEF Located, KnownCall, Ready1
<1>2. ASSUME NEW mode \in Modes[ABI], handle_mode(mode)
      PROVE  Located'
  BY <1>0, <1>2, LocatedHandle
<1>3. CASE dcReset
  BY <1>0, <1>3, LocatedReset
<1>4. CASE dcModeVarargs
  BY <1>0, <1>4, LocatedVarargs
<1>5. ASSUME NEW t, dcArg(t)
      PROVE  Located'
  BY <1>0, <1>5, LocatedArg
<1>6. CASE dcCall
  BY <1>0, <1>6, LocatedCall
<1>7. CASE KernelFault
  <2>1. call'.phase = "fault" /\ call'.mode = call.mode /\ vm' = vm
    BY <1>0, <1>7 DEF KernelFault, Typed, CallOK
  <2> QED BY <2>1 DEF Located, KnownCall, Ready1, ABI
<1>8. CASE Fetch
  BY <1>0, <1>8, LocatedFetch
<1>9. CASE Return
  <2>1. /\ call'.phase = "returned" /\ call'.mode = call.mode /\ call'.bound = call.bound
        /\ call'.named = call.named /\ call'.reset = call.reset /\ call.phase = "running"
        /\ vm' = vm /\ image' = image /\ callee' = callee /\ got' = got
    BY <1>0, <1>9 DEF Return, Typed, CallOK
  <2>2. ABI' = ABI
    BY <2>1 DEF ABI
  <2>3. Excused => Excused'
    BY <2>1, <2>2 DEF Excused, EabiMisreads, ArmhfMisreads, N32Misreads, Unreserved, OnStack, IntRegsLeft
  <2>4. FetchedAsBound => FetchedAsBound'
    BY <2>1, <2>2 DEF FetchedAsBound
  <2>5. ASSUME NEW P, Found(ABI, call, image, P)
        PROVE  Found(ABI', call', image', P)
    <3>1. \A k : Way(call', k) = Way(call, k)
      BY <2>1 DEF Way, IsVariadic
    <3> QED BY <2>1, <2>2, <2>5, <3>1 DEF Found
  <2>6. Finding'
    BY <2>1, <2>2, <2>3, <2>4, <2>5 DEF Located, Finding
  <2> QED BY <2>1, <2>2, <2>6 DEF Located, KnownCall, Ready1
<1>10. CASE UNCHANGED vars
  <2>1. ABI' = ABI /\ call' = call /\ vm' = vm /\ image' = image /\ callee' = callee /\ got' = got
    BY <1>10 DEF vars, ABI
  <2>2. /\ EabiMisreads' = EabiMisreads /\ ArmhfMisreads' = ArmhfMisreads /\ N32Misreads' = N32Misreads
        /\ Unreserved' = Unreserved /\ FetchedAsBound' = FetchedAsBound
    BY <2>1 DEF EabiMisreads, ArmhfMisreads, N32Misreads, Unreserved, OnStack, IntRegsLeft, FetchedAsBound
  <2>3. Placing' = Placing /\ Finding' = Finding
    BY <2>1, <2>2 DEF Placing, Finding, Spoiled, Excused
  <2> QED BY <2>1, <2>2, <2>3 DEF Located, KnownCall, Ready1
<1>11. (\E mode \in Modes[ABI] : dcMode(mode) \/ handle_mode(mode)) => Located'
  BY <1>1, <1>2
<1>12. (\E t \in Types \cup {"pointer"} : dcArg(t)) => Located'
  BY <1>5
<1> QED BY <1>3, <1>4, <1>6, <1>7, <1>8, <1>9, <1>10, <1>11, <1>12 DEF Next

(* FetchedUnlessKnown, where ABI is one of Done (SPARC, x86, and ARM and   *)
(* MIPS of 64 bits): the dcbArg functions and va_arg return each argument  *)
(* as the dcArg functions bound it, in every mode, but for a pointer on    *)
(* n32 and for a fastcall or thiscall without its room in the vector.      *)
THEOREM ArgumentsFound == Spec => [](ABI \in Done => FetchedUnlessKnown)
<1>1. Init => Running /\ Located
  BY RunningInit, LocatedInit
<1>2. Running /\ Located /\ [Next]_vars => Running' /\ Located'
  BY RunningNext, LocatedNext
<1>3. Running /\ Located => (ABI \in Done => FetchedUnlessKnown)
  <2> SUFFICES ASSUME Running, Located, ABI \in Done
               PROVE  FetchedUnlessKnown
    OBVIOUS
  <2>1. CASE call.phase \in {"running", "returned"}
    BY <2>1 DEF Located, Finding, Excused, FetchedUnlessKnown
  <2>2. CASE call.phase = "fault"
    BY <2>2 DEF Running, FaultOnlyUnreserved, FetchedUnlessKnown
  <2>3. CASE call.phase \in {"new", "binding"}
    <3>1. got = <<>>
      BY <2>3 DEF Running, Typed, CalleeOK
    <3>2. DOMAIN got = {}
      BY <3>1
    <3> QED BY <3>2 DEF FetchedUnlessKnown, FetchedAsBound
  <2>4. call.phase \in Phases
    BY CallSeq DEF Running, Typed
  <2> QED BY <2>1, <2>2, <2>3, <2>4 DEF Phases
<1> QED BY <1>1, <1>2, <1>3, PTL DEF Spec

-----------------------------------------------------------------------------
(* How much is pushed and removed on x86.  The vector's size is counted    *)
(* from the types, as the callback's is.                                   *)

HasLongLong(b) == \E k \in DOMAIN b : b[k] = "longlong"

(* How many integers are in ECX and EDX. *)
InRegs(w, b) ==
  IF X86Kind(w) = "fast_gnu" THEN InTwoRegs(IntsBeforeLongLong(b)) ELSE InTwoRegs(IntsOf(b))

Counted(s, w, b) ==
  /\ X86Kind(w) \in {"stack", "this"} => Len(s.vec) = 4 * WordsIn(b)
  /\ X86Kind(w) \in Fast =>
       /\ Len(s.vec) = 8 + 4 * (WordsIn(b) - InRegs(w, b))
       /\ s.i = IF X86Kind(w) = "fast_gnu" /\ HasLongLong(b) THEN 2 ELSE InRegs(w, b)

(* c is b with t behind it. *)
More(b, c, t) ==
  /\ b \in Seq(AllTypes) /\ c \in Seq(AllTypes) /\ Len(b) \in Nat /\ Len(c) = Len(b) + 1
  /\ \A k \in 1 .. Len(b) : c[k] = b[k]
  /\ c[Len(b) + 1] = t /\ 1 .. Len(b) + 1 = 1 .. Len(b) \cup {Len(b) + 1}

LEMMA OneIn ==
  ASSUME NEW n \in Nat, NEW S \in SUBSET (1 .. n), NEW U
  PROVE  /\ Cardinality(S) \in Nat
         /\ U = S \cup {n + 1} => Cardinality(U) = Cardinality(S) + 1
<1>1. IsFiniteSet(1 .. n)
  BY FS_Interval
<1>2. n + 1 \notin 1 .. n
  OBVIOUS
<1>3. IsFiniteSet(S)
  BY <1>1, FS_Subset
<1>4. Cardinality(S) \in Nat
  BY <1>3, FS_CardinalityType
<1>5. U = S \cup {n + 1} => Cardinality(U) = Cardinality(S) + 1
  BY <1>2, <1>3, FS_AddElement
<1> QED BY <1>4, <1>5

(* The positions of the arguments of some types. *)
LEMMA Places ==
  ASSUME NEW b, NEW c, NEW t, More(b, c, t), NEW T,
         NEW S, \A k : k \in S <=> k \in DOMAIN b /\ b[k] \in T,
         NEW U, \A k : k \in U <=> k \in DOMAIN c /\ c[k] \in T
  PROVE  /\ S \in SUBSET (1 .. Len(b))
         /\ t \in T => U = S \cup {Len(b) + 1}
         /\ t \notin T => U = S
<1> DEFINE n == Len(b)
<1>1. DOMAIN b = 1 .. n /\ DOMAIN c = 1 .. n + 1
  BY DEF More
<1>2. /\ \A k \in 1 .. n : c[k] = b[k]
      /\ c[n + 1] = t /\ 1 .. n + 1 = 1 .. n \cup {n + 1}
  BY DEF More
<1> HIDE DEF n
<1>3. S \in SUBSET (1 .. n)
  BY <1>1
<1>4. \A k : k \in U <=> (k \in 1 .. n /\ b[k] \in T) \/ (k = n + 1 /\ t \in T)
  BY <1>1, <1>2
<1>5. \A k : k \in S <=> k \in 1 .. n /\ b[k] \in T
  BY <1>1
<1> HIDE DEF n
<1>6. t \in T => U = S \cup {n + 1}
  BY <1>4, <1>5, Zenon
<1>7. t \notin T => U = S
  BY <1>4, <1>5, Zenon
<1> QED BY <1>3, <1>6, <1>7 DEF n

LEMMA WordsMore ==
  ASSUME NEW b, NEW c, NEW t, More(b, c, t)
  PROVE  /\ WordsIn(b) \in Nat /\ 4 * WordsIn(c) = 4 * WordsIn(b) + Width4(t)
         /\ WordsIn(c) = WordsIn(b) + (IF t \in Wide THEN 2 ELSE 1)
<1> DEFINE S == {k \in DOMAIN b : b[k] \in Wide}
           U == {k \in DOMAIN c : c[k] \in Wide}
           n == Len(b)
<1>1. /\ S \in SUBSET (1 .. n)
      /\ t \in Wide => U = S \cup {n + 1}
      /\ t \notin Wide => U = S
  <2>1. /\ \A k : k \in S <=> k \in DOMAIN b /\ b[k] \in Wide
        /\ \A k : k \in U <=> k \in DOMAIN c /\ c[k] \in Wide
    OBVIOUS
  <2> HIDE DEF S, U
  <2> QED BY <2>1, Places
<1>2. n \in Nat /\ Len(c) = n + 1
  BY DEF More
<1>3. WordsIn(b) = n + Cardinality(S) /\ WordsIn(c) = Len(c) + Cardinality(U)
  BY DEF WordsIn
<1> HIDE DEF S, U, n
<1>4. Cardinality(S) \in Nat /\ (U = S \cup {n + 1} => Cardinality(U) = Cardinality(S) + 1)
  BY <1>1, <1>2, OneIn
<1> DEFINE x == Cardinality(S)
           y == Cardinality(U)
           m == Len(c)
<1>5. x \in Nat /\ (t \in Wide => y = x + 1) /\ (t \notin Wide => y = x)
  BY <1>1, <1>4
<1>6. m = n + 1 /\ WordsIn(b) = n + x /\ WordsIn(c) = m + y
  BY <1>2, <1>3
<1> HIDE DEF x, y, m
<1>7. CASE t \in Wide
  BY <1>2, <1>5, <1>6, <1>7 DEF Width4
<1>8. CASE t \notin Wide
  BY <1>2, <1>5, <1>6, <1>8 DEF Width4
<1> QED BY <1>7, <1>8

LEMMA IntsMore ==
  ASSUME NEW b, NEW c, NEW t, More(b, c, t)
  PROVE  /\ Cardinality(IntsOf(b)) \in Nat
         /\ t \in IntTypes => Cardinality(IntsOf(c)) = Cardinality(IntsOf(b)) + 1
         /\ t \notin IntTypes => IntsOf(c) = IntsOf(b)
<1> DEFINE n == Len(b)
           S == IntsOf(b)
           U == IntsOf(c)
<1>1. /\ \A k : k \in S <=> k \in DOMAIN b /\ b[k] \in IntTypes
      /\ \A k : k \in U <=> k \in DOMAIN c /\ c[k] \in IntTypes
  BY DEF IntsOf
<1> HIDE DEF S, U
<1>2. /\ S \in SUBSET (1 .. n)
      /\ t \in IntTypes => U = S \cup {n + 1}
      /\ t \notin IntTypes => U = S
  BY <1>1, Places
<1>3. n \in Nat
  BY DEF More
<1> HIDE DEF n
<1>4. Cardinality(S) \in Nat /\ (U = S \cup {n + 1} => Cardinality(U) = Cardinality(S) + 1)
  BY <1>2, <1>3, OneIn
<1> QED BY <1>2, <1>4 DEF S, U

LEMMA LongLongMore ==
  ASSUME NEW b, NEW c, NEW t, More(b, c, t)
  PROVE  HasLongLong(c) <=> HasLongLong(b) \/ t = "longlong"
<1> DEFINE n == Len(b)
<1>1. DOMAIN b = 1 .. n /\ DOMAIN c = 1 .. n + 1
  BY DEF More
<1>2. /\ \A k \in 1 .. n : c[k] = b[k]
      /\ c[n + 1] = t /\ 1 .. n + 1 = 1 .. n \cup {n + 1}
  BY DEF More
<1> HIDE DEF n
<1> QED BY <1>1, <1>2 DEF HasLongLong

LEMMA IntsBeforeMore ==
  ASSUME NEW b, NEW c, NEW t, More(b, c, t)
  PROVE  /\ Cardinality(IntsBeforeLongLong(b)) \in Nat
         /\ t \in IntTypes /\ ~HasLongLong(b) =>
              Cardinality(IntsBeforeLongLong(c)) = Cardinality(IntsBeforeLongLong(b)) + 1
         /\ ~(t \in IntTypes /\ ~HasLongLong(b)) => IntsBeforeLongLong(c) = IntsBeforeLongLong(b)
<1> DEFINE n == Len(b)
           S == IntsBeforeLongLong(b)
           U == IntsBeforeLongLong(c)
           L == HasLongLong(b)
<1>1. DOMAIN b = 1 .. n /\ DOMAIN c = 1 .. n + 1 /\ n \in Nat
  BY DEF More
<1>2. /\ \A k \in 1 .. n : c[k] = b[k]
      /\ c[n + 1] = t /\ 1 .. n + 1 = 1 .. n \cup {n + 1}
  BY DEF More
<1> HIDE DEF n
<1>3. \A k : k \in S <=> k \in 1 .. n /\ b[k] \in IntTypes /\ \A j \in 1 .. k - 1 : b[j] # "longlong"
  BY <1>1 DEF IntsBeforeLongLong, IntsOf
<1>4. \A k : k \in U <=> k \in 1 .. n + 1 /\ c[k] \in IntTypes /\ \A j \in 1 .. k - 1 : c[j] # "longlong"
  BY <1>1 DEF IntsBeforeLongLong, IntsOf
<1>5. L <=> \E k \in 1 .. n : b[k] = "longlong"
  BY <1>1 DEF HasLongLong
<1> HIDE DEF S, U, L
<1>6. n + 1 \notin 1 .. n /\ \A j : j \in 1 .. (n + 1) - 1 <=> j \in 1 .. n
  BY <1>1
<1>7. ASSUME NEW k \in 1 .. n PROVE k \in U <=> k \in S
  <2>1. \A j \in 1 .. k - 1 : j \in 1 .. n /\ c[j] = b[j]
    BY <1>1, <1>2
  <2>2. k \in 1 .. n + 1 /\ c[k] = b[k]
    BY <1>2
  <2> QED BY <1>3, <1>4, <2>1, <2>2
<1>8. n + 1 \in U <=> t \in IntTypes /\ ~L
  <2>1. n + 1 \in U <=> t \in IntTypes /\ \A j \in 1 .. n : c[j] # "longlong"
    BY <1>2, <1>4, <1>6
  <2> QED BY <1>2, <1>5, <2>1
<1>9. \A k : k \in U => k \in 1 .. n \/ k = n + 1
  BY <1>2, <1>4
<1>10. \A k : k \in S => k \in 1 .. n
  BY <1>3
<1>11. t \in IntTypes /\ ~L => U = S \cup {n + 1}
  BY <1>7, <1>8, <1>9, <1>10, Zenon
<1>12. ~(t \in IntTypes /\ ~L) => U = S
  BY <1>7, <1>8, <1>9, <1>10, Zenon
<1>13. S \in SUBSET (1 .. n)
  BY <1>10
<1>14. Cardinality(S) \in Nat /\ (U = S \cup {n + 1} => Cardinality(U) = Cardinality(S) + 1)
  BY <1>1, <1>13, OneIn
<1> QED BY <1>11, <1>12, <1>14 DEF S, U, L

(* How many integers are in registers after one more argument. *)
LEMMA InTwo ==
  ASSUME NEW S, NEW U, Cardinality(S) \in Nat
  PROVE  /\ InTwoRegs(S) \in {0, 1, 2}
         /\ Cardinality(U) = Cardinality(S) + 1 /\ InTwoRegs(S) < 2 => InTwoRegs(U) = InTwoRegs(S) + 1
         /\ Cardinality(U) = Cardinality(S) + 1 /\ ~(InTwoRegs(S) < 2) => InTwoRegs(U) = InTwoRegs(S)
<1> DEFINE x == Cardinality(S)
           y == Cardinality(U)
<1>1. /\ x \in Nat /\ InTwoRegs(S) = (IF x < 2 THEN x ELSE 2)
      /\ InTwoRegs(U) = (IF y < 2 THEN y ELSE 2)
  BY DEF InTwoRegs
<1> HIDE DEF x, y
<1>2. InTwoRegs(S) \in {0, 1, 2}
  BY <1>1
<1>3. ASSUME y = x + 1, InTwoRegs(S) < 2
      PROVE  InTwoRegs(U) = InTwoRegs(S) + 1
  BY <1>1, <1>3
<1>4. ASSUME y = x + 1, ~(InTwoRegs(S) < 2)
      PROVE  InTwoRegs(U) = InTwoRegs(S)
  BY <1>1, <1>4
<1> QED BY <1>2, <1>3, <1>4 DEF x, y

LEMMA InRegsMore ==
  ASSUME NEW w, NEW b, NEW c, NEW t, More(b, c, t)
  PROVE  LET counts == t \in IntTypes /\ ~(X86Kind(w) = "fast_gnu" /\ HasLongLong(b)) IN
         /\ InRegs(w, b) \in {0, 1, 2}
         /\ counts /\ InRegs(w, b) < 2 => InRegs(w, c) = InRegs(w, b) + 1
         /\ ~(counts /\ InRegs(w, b) < 2) => InRegs(w, c) = InRegs(w, b)
<1>1. CASE X86Kind(w) = "fast_gnu"
  <2> DEFINE S == IntsBeforeLongLong(b)
             U == IntsBeforeLongLong(c)
  <2>1. InRegs(w, b) = InTwoRegs(S) /\ InRegs(w, c) = InTwoRegs(U)
    BY <1>1 DEF InRegs
  <2>2. /\ Cardinality(S) \in Nat
        /\ t \in IntTypes /\ ~HasLongLong(b) => Cardinality(U) = Cardinality(S) + 1
        /\ ~(t \in IntTypes /\ ~HasLongLong(b)) => U = S
    BY IntsBeforeMore
  <2> HIDE DEF S, U
  <2> QED BY <1>1, <2>1, <2>2, InTwo
<1>2. CASE X86Kind(w) # "fast_gnu"
  <2> DEFINE S == IntsOf(b)
             U == IntsOf(c)
  <2>1. InRegs(w, b) = InTwoRegs(S) /\ InRegs(w, c) = InTwoRegs(U)
    BY <1>2 DEF InRegs
  <2>2. /\ Cardinality(S) \in Nat
        /\ t \in IntTypes => Cardinality(U) = Cardinality(S) + 1
        /\ t \notin IntTypes => U = S
    BY IntsMore
  <2> HIDE DEF S, U
  <2> QED BY <1>2, <2>1, <2>2, InTwo
<1> QED BY <1>1, <1>2

LEMMA WriteKeepsSize ==
  ASSUME NEW s, IsVM(s), NEW off, NEW v, NEW k, NEW u, u = WriteInt(s, off, v, k)
  PROVE  Len(u.vec) = Len(s.vec) /\ u.i = k
<1> DEFINE x == s.vec
           y == InMemory(s.abi, v)
           z == [j \in DOMAIN x |-> IF j \in off + 1 .. off + Len(v) THEN y[j - off] ELSE x[j]]
           r == VecWrite(s, off, v)
<1>1. x \in Seq(Byte) /\ Len(x) \in Nat
  BY DEF IsVM, VMs
<1>2. r = [s EXCEPT !.vec = z] /\ u = [r EXCEPT !.i = k]
  BY DEF VecWrite, WriteInt
<1>3. DOMAIN z = 1 .. Len(x) /\ Len(z) = Len(x)
  <2> HIDE DEF x, y
  <2>1. DOMAIN z = 1 .. Len(x)
    BY <1>1
  <2> HIDE DEF z
  <2> QED BY <1>1, <2>1
<1> HIDE DEF z, r
<1>4. r.vec = z /\ u.vec = r.vec /\ u.i = k
  BY <1>2 DEF IsVM, VMs
<1> QED BY <1>3, <1>4

(* A first count of nothing. *)
LEMMA CountedFirst ==
  ASSUME NEW s, s.abi \in X86ABIs, NEW w \in Ways(s.abi), s.vt = ModeTable(s.abi, w), Fresh(s),
         NEW b, b = <<>>
  PROVE  Counted(s, w, b)
<1>1. s.vt = mode_x86(s.abi, w) /\ w \in X86Ways
  BY X86Family, X86Tables
<1>2. DOMAIN b = {} /\ Len(b) = 0
  OBVIOUS
<1>3. WordsIn(b) = 0 /\ InRegs(w, b) = 0 /\ ~HasLongLong(b)
  <2> DEFINE S == {k \in DOMAIN b : b[k] \in Wide}
  <2>1. S = {} /\ IntsOf(b) = {} /\ IntsBeforeLongLong(b) = {}
    BY <1>2 DEF IntsOf, IntsBeforeLongLong
  <2>2. WordsIn(b) = Len(b) + Cardinality(S)
    BY DEF WordsIn
  <2> HIDE DEF S
  <2>3. Cardinality({}) = 0
    BY FS_EmptySet
  <2>4. InTwoRegs({}) = 0
    BY <2>3 DEF InTwoRegs
  <2>5. WordsIn(b) = 0
    BY <1>2, <2>1, <2>2, <2>3
  <2>6. InRegs(w, b) = 0
    BY <2>1, <2>4 DEF InRegs
  <2> QED BY <1>2, <2>5, <2>6 DEF HasLongLong
<1>4. CASE X86Kind(w) \in {"stack", "this"}
  <2>1. s.vt.reset = "x86"
    BY <1>1, <1>4, X86Tables DEF gVT_x86_cdecl, gVT_x86_win32_std, gVT_x86_win32_this_ms
  <2>2. Len(s.vec) = 0
    BY <2>1 DEF Fresh, Reserved
  <2> QED BY <1>3, <1>4, <2>2 DEF Counted, Fast
<1>5. CASE X86Kind(w) \in Fast
  <2>1. s.vt.reset = "fast"
    BY <1>1, <1>5, X86Tables DEF gVT_x86_win32_fast_ms, gVT_x86_win32_fast_gnu, Fast
  <2>2. Len(s.vec) = 8 /\ s.i = 0
    BY <2>1 DEF Fresh, Reserved
  <2> QED BY <1>3, <1>5, <2>2 DEF Counted, Fast
<1>6. CASE X86Kind(w) = "sys"
  BY <1>6 DEF Counted, Fast
<1> QED BY <1>1, <1>4, <1>5, <1>6, X86Kinds DEF Fast

(* One more argument moves what is counted as it moves the vector. *)
LEMMA CountedMore ==
  ASSUME NEW s, IsVM(s), Room(s), s.abi \in X86ABIs, NEW w \in Ways(s.abi), s.vt = ModeTable(s.abi, w),
         NEW b, NEW c, NEW t \in TypesOf(w), More(b, c, t), Counted(s, w, b), NEW n \in Nat, n > 0,
         NEW u, u = BindArg(s, t, Value(n, SizeOf(s.abi, t)))
  PROVE  Counted(u, w, c)
<1> DEFINE x == Raw4(s.abi, t, n)
           m == Len(s.vec)
           M == Len(u.vec)
           a == WordsIn(b)
           A == WordsIn(c)
           r == InRegs(w, b)
           R == InRegs(w, c)
           gnu == X86Kind(w) = "fast_gnu"
<1>1. X86Does(s, w, t, x, u)
  <2> DEFINE v == Value(n, SizeOf(s.abi, t))
  <2>1. x = Words4(t, v) /\ u = BindArg(s, t, v)
    BY DEF Raw4
  <2> HIDE DEF x, v
  <2> QED BY <2>1, X86Binds
<1>2. t \in AllTypes /\ Width4(t) \in {4, 8} /\ m \in Nat /\ w \in X86Ways /\ s.i \in Nat
  BY WaysTypes, X86Tables DEF Width4, IsVM, VMs
<1>3. a \in Nat /\ 4 * A = 4 * a + Width4(t) /\ A = a + (IF t \in Wide THEN 2 ELSE 1)
  BY WordsMore
<1>4. /\ r \in {0, 1, 2}
      /\ t \in IntTypes /\ ~(gnu /\ HasLongLong(b)) /\ r < 2 => R = r + 1
      /\ ~(t \in IntTypes /\ ~(gnu /\ HasLongLong(b)) /\ r < 2) => R = r
  BY InRegsMore
<1>5. HasLongLong(c) <=> HasLongLong(b) \/ t = "longlong"
  BY LongLongMore
<1>6. /\ X86Kind(w) \in {"stack", "this"} => m = 4 * a
      /\ X86Kind(w) \in Fast => m = 8 + 4 * (a - r) /\ s.i = IF gnu /\ HasLongLong(b) THEN 2 ELSE r
  BY DEF Counted
<1>7. dcVecAppend(s, x) = u => M = m + Width4(t) /\ u.i = s.i
  BY <1>2, X86AppendsArg DEF OnlyVec
<1> HIDE DEF x, m, M, a, A, r, R
<1>8. CASE X86Kind(w) \in {"stack", "this"}
  <2>1. M = m + Width4(t)
    BY <1>1, <1>7, <1>8 DEF X86Does
  <2>2. M = 4 * A
    BY <1>2, <1>3, <1>6, <1>8, <2>1
  <2> QED BY <1>8, <2>2 DEF Counted, Fast, M, A
<1>9. CASE X86Kind(w) \in Fast
  <2>1. m = 8 + 4 * (a - r) /\ s.i = IF gnu /\ HasLongLong(b) THEN 2 ELSE r
    BY <1>6, <1>9
  <2>2. SUFFICES M = 8 + 4 * (A - R) /\ u.i = IF gnu /\ HasLongLong(c) THEN 2 ELSE R
    BY <1>9 DEF Counted, Fast, M, A, R
  <2>3. CASE t \in IntTypes /\ s.i < 2
    <3>1. u = WriteInt(s, 4 * s.i, x, s.i + 1)
      BY <1>1, <1>9, <2>3 DEF X86Does
    <3>2. M = m /\ u.i = s.i + 1
      BY <3>1, WriteKeepsSize DEF M, m
    <3>3. ~(gnu /\ HasLongLong(b)) /\ s.i = r
      BY <2>1, <2>3
    <3>4. t # "longlong" /\ t \notin Wide
      BY <2>3 DEF IntTypes, Wide
    <3>5. R = r + 1 /\ A = a + 1
      BY <1>3, <1>4, <2>3, <3>3, <3>4
    <3>6. M = 8 + 4 * (A - R)
      BY <1>2, <1>3, <1>4, <2>1, <3>2, <3>5
    <3> QED BY <1>5, <3>2, <3>3, <3>4, <3>5, <3>6
  <2>4. CASE gnu /\ t = "longlong"
    <3> DEFINE z == [s EXCEPT !.i = 2]
    <3>1. u = dcVecAppend(z, x)
      BY <1>1, <1>9, <2>4 DEF X86Does
    <3>2. IsVM(z) /\ Room(z) /\ z.i = 2 /\ z.abi = s.abi /\ z.vec = s.vec
      BY SetAndBind
    <3> HIDE DEF z
    <3>3. Len(u.vec) = Len(z.vec) + Width4(t) /\ u.i = z.i
      <4>1. z.abi \in X86ABIs /\ x = Raw4(z.abi, t, n)
        BY <3>2 DEF x
      <4> QED BY <1>2, <3>1, <3>2, <4>1, X86AppendsArg DEF OnlyVec
    <3>4. M = m + Width4(t) /\ u.i = 2
      BY <3>2, <3>3 DEF M, m
    <3>5. t \notin IntTypes
      BY <2>4 DEF IntTypes
    <3>6. R = r
      BY <1>4, <3>5
    <3>7. M = 8 + 4 * (A - R)
      <4> DEFINE k == Width4(t)
      <4>1. k \in Nat /\ 4 * A = 4 * a + k /\ M = m + k
        BY <1>2, <1>3, <3>4
      <4>2. A \in Nat
        BY <1>3
      <4> HIDE DEF k
      <4> QED BY <1>3, <1>4, <2>1, <3>6, <4>1, <4>2
    <3> QED BY <1>5, <2>4, <3>4, <3>7
  <2>5. CASE ~(t \in IntTypes /\ s.i < 2) /\ ~(gnu /\ t = "longlong")
    <3>1. u = dcVecAppend(s, x)
      BY <1>1, <1>9, <2>5 DEF X86Does
    <3>2. M = m + Width4(t) /\ u.i = s.i
      BY <1>7, <3>1
    <3>3. R = r
      BY <1>2, <1>4, <2>1, <2>5
    <3>4. M = 8 + 4 * (A - R)
      <4> DEFINE k == Width4(t)
      <4>1. k \in Nat /\ 4 * A = 4 * a + k /\ M = m + k
        BY <1>2, <1>3, <3>2
      <4>2. A \in Nat
        BY <1>3
      <4> HIDE DEF k
      <4> QED BY <1>3, <1>4, <2>1, <3>3, <4>1, <4>2
    <3> QED BY <1>5, <2>1, <2>5, <3>2, <3>3, <3>4
  <2> QED BY <2>3, <2>4, <2>5
<1>10. CASE X86Kind(w) = "sys"
  BY <1>10 DEF Counted, Fast
<1> QED BY <1>2, <1>8, <1>9, <1>10, X86Kinds DEF Fast

(* What is counted is what is popped and cleaned up, but for this.         *)
LEMMA PoppedX86 ==
  ASSUME NEW s, IsVM(s), s.abi \in X86ABIs, NEW w \in Ways(s.abi), s.vt = ModeTable(s.abi, w),
         ~Underflows(s), NEW m, m = Kernel(s)
  PROVE  /\ s.vt = gVT_x86_cdecl => CallerPops(s.vt, m) = Len(m.stack) /\ Len(m.stack) \in Nat
         /\ s.vt = gVT_x86_win32_std => CallerPops(s.vt, m) = 0 /\ Len(m.stack) = Len(s.vec)
         /\ X86Kind(w) = "this" => CallerPops(s.vt, m) = 0 /\ Len(m.stack) = Len(s.vec) - 4
         /\ X86Kind(w) \in Fast => CallerPops(s.vt, m) = 0 /\ Len(m.stack) = Len(s.vec) - 8
<1>1. m = X86Call(s) /\ s.vt = mode_x86(s.abi, w) /\ w \in X86Ways
  BY X86Family, X86Tables
<1>2. s.vec \in Seq(Byte) /\ Len(s.vec) \in Nat
  BY DEF IsVM, VMs
<1>3. ASSUME s.vt = gVT_x86_cdecl
      PROVE  CallerPops(s.vt, m) = Len(m.stack) /\ Len(m.stack) \in Nat
  <2> DEFINE n == RoundUp(Len(s.vec), 16)
  <2>1. n \in Nat
    BY <1>2, RoundUpTo
  <2>2. m.stack = Bytes(s.vec, 0, n)
    BY <1>1, <1>3 DEF X86Call, gVT_x86_cdecl, call_x86_cdecl, Pushed, Image, dcVecSize
  <2> HIDE DEF n
  <2>3. Len(Bytes(s.vec, 0, n)) \in Nat
    BY <2>1 DEF Bytes
  <2> QED BY <1>3, <2>2, <2>3 DEF CallerPops, gVT_x86_cdecl
<1>4. ASSUME s.vt = gVT_x86_win32_std
      PROVE  CallerPops(s.vt, m) = 0 /\ Len(m.stack) = Len(s.vec)
  <2>1. m.stack = s.vec
    BY <1>1, <1>4 DEF X86Call, gVT_x86_win32_std, call_x86_win32_std, Pushed, Image
  <2> QED BY <1>4, <2>1 DEF CallerPops, gVT_x86_win32_std
<1>5. ASSUME NEW k \in Nat, k <= Len(s.vec)
      PROVE  Len(VecRest(s, k)) = Len(s.vec) - k
  <2> DEFINE x == s.vec
             n == Len(s.vec)
  <2>1. x \in Seq(Byte) /\ n = Len(x) /\ n \in Nat /\ k <= n
    BY <1>2, <1>5
  <2>2. VecRest(s, k) = SubSeq(x, k + 1, n)
    BY DEF VecRest, dcVecSize
  <2> HIDE DEF x, n
  <2>3. Len(SubSeq(x, k + 1, n)) = IF k + 1 <= n THEN n - (k + 1) + 1 ELSE 0
    BY <2>1
  <2>4. (IF k + 1 <= n THEN n - (k + 1) + 1 ELSE 0) = n - k
    BY <2>1
  <2> QED BY <2>2, <2>3, <2>4 DEF n
<1>6. ASSUME X86Kind(w) = "this"
      PROVE  CallerPops(s.vt, m) = 0 /\ Len(m.stack) = Len(s.vec) - 4
  <2>1. s.vt.call = "this_ms"
    BY <1>1, <1>6, X86Tables DEF gVT_x86_win32_this_ms
  <2>2. m.stack = VecRest(s, 4) /\ ~(Len(s.vec) < 4)
    BY <1>1, <2>1 DEF X86Call, call_x86_this_ms, Image, Underflows, dcVecSize
  <2>3. 4 <= Len(s.vec)
    BY <1>2, <2>2
  <2> QED BY <1>5, <2>1, <2>2, <2>3 DEF CallerPops
<1>7. ASSUME X86Kind(w) \in Fast
      PROVE  CallerPops(s.vt, m) = 0 /\ Len(m.stack) = Len(s.vec) - 8
  <2>1. s.vt.call = "fast"
    BY <1>1, <1>7, X86Tables DEF gVT_x86_win32_fast_ms, gVT_x86_win32_fast_gnu, Fast
  <2>2. m.stack = VecRest(s, 8) /\ ~(Len(s.vec) < 8)
    BY <1>1, <2>1 DEF X86Call, call_x86_win32_fast, Image, Underflows, dcVecSize
  <2>3. 8 <= Len(s.vec)
    BY <1>2, <2>2
  <2> QED BY <1>5, <2>1, <2>2, <2>3 DEF CallerPops
<1> QED BY <1>3, <1>4, <1>6, <1>7

LEMMA BalancedX86 ==
  ASSUME NEW s, IsVM(s), s.abi \in X86ABIs, NEW w \in Ways(s.abi), s.vt = ModeTable(s.abi, w),
         ~Underflows(s), NEW mode \in Ways(s.abi), Follows(mode, w), mode # "SYS", mode # "VARARGS",
         NEW b, b \in Seq(AllTypes), Counted(s, w, b), NEW m, m = Kernel(s)
  PROVE  CallerPops(s.vt, m) + InitCallback(s.abi, mode, b).cleanup - Len(m.stack)
           = IF s.vt.call = "this_ms" THEN 4 ELSE 0
<1> DEFINE pops  == CallerPops(s.vt, m)
           clean == InitCallback(s.abi, mode, b).cleanup
           stack == Len(m.stack)
           n     == Len(s.vec)
           a     == WordsIn(b)
           r     == InRegs(w, b)
<1>1. s.vt = mode_x86(s.abi, w) /\ w \in X86Ways /\ mode \in X86Ways
  BY X86Family, X86Tables
<1>2. n \in Nat /\ a \in Nat /\ r \in {0, 1, 2}
  <2>1. n \in Nat
    BY DEF IsVM, VMs
  <2> DEFINE c == Append(b, "char")
  <2>2. More(b, c, "char")
    <3>1. Len(b) \in Nat /\ "char" \in AllTypes /\ c \in Seq(AllTypes) /\ Len(c) = Len(b) + 1
          /\ c[Len(b) + 1] = "char" /\ \A k \in 1 .. Len(b) : c[k] = b[k]
      BY DEF AllTypes, IntTypes
    <3>2. 1 .. Len(b) + 1 = 1 .. Len(b) \cup {Len(b) + 1}
      <4> DEFINE k == Len(b)
      <4>1. k \in Nat
        BY <3>1
      <4> HIDE DEF k
      <4>2. 1 .. k + 1 = 1 .. k \cup {k + 1}
        BY <4>1
      <4> QED BY <4>2 DEF k
    <3> HIDE DEF c
    <3> QED BY <3>1, <3>2 DEF More
  <2> HIDE DEF c
  <2> QED BY <2>1, <2>2, WordsMore, InRegsMore
<1>3. mode = w \/ (mode = "ELLIPSIS" /\ w = "VARARGS")
  BY DEF Follows
<1>4. clean = InitCallback_x86(s.abi, IF mode \in {"DEFAULT", "ELLIPSIS"} THEN "none" ELSE mode, b).cleanup
  BY DEF InitCallback
<1>5. /\ s.vt = gVT_x86_cdecl => pops = stack /\ stack \in Nat
      /\ s.vt = gVT_x86_win32_std => pops = 0 /\ stack = n
      /\ X86Kind(w) = "this" => pops = 0 /\ stack = n - 4
      /\ X86Kind(w) \in Fast => pops = 0 /\ stack = n - 8
  BY PoppedX86
<1>6. /\ X86Kind(w) \in {"stack", "this"} => n = 4 * a
      /\ X86Kind(w) \in Fast => n = 8 + 4 * (a - r)
  BY DEF Counted
<1> HIDE DEF pops, stack, n
<1>7. CASE mode \in {"DEFAULT", "ELLIPSIS", "X86_CDECL"}
  <2>1. s.vt = gVT_x86_cdecl
    BY <1>1, <1>3, <1>7 DEF mode_x86, CEllipsis
  <2>2. clean = 0
    BY <1>4, <1>7 DEF InitCallback_x86, dcbCleanupSize_x86_cdecl
  <2> HIDE DEF clean
  <2>3. pops + clean - stack = 0 /\ s.vt.call # "this_ms"
    BY <1>5, <2>1, <2>2 DEF gVT_x86_cdecl
  <2> QED BY <2>3 DEF pops, clean, stack
<1>8. CASE mode = "X86_STD"
  <2>1. s.vt = gVT_x86_win32_std /\ X86Kind(w) = "stack"
    BY <1>1, <1>3, <1>8 DEF mode_x86, CEllipsis, X86Kind
  <2>2. clean = 4 * a
    BY <1>4, <1>8 DEF InitCallback_x86, dcbCleanupSize_x86_std
  <2> HIDE DEF clean, a
  <2>3. pops + clean - stack = 0 /\ s.vt.call # "this_ms"
    BY <1>2, <1>5, <1>6, <2>1, <2>2 DEF gVT_x86_win32_std
  <2> QED BY <2>3 DEF pops, clean, stack
<1>9. CASE mode \in {"THIS", "X86_THIS_MS"}
  <2>1. X86Kind(w) = "this" /\ s.vt.call = "this_ms"
    <3>1. X86Kind(w) = "this"
      BY <1>3, <1>9 DEF X86Kind
    <3> QED BY <1>1, <3>1, X86Tables DEF gVT_x86_win32_this_ms
  <2>2. clean = 4 * a
    <3>1. mode = "THIS" => s.abi = "x86_msvc"
      BY X86Tables DEF X86ABIs
    <3> QED BY <1>4, <1>9, <3>1 DEF InitCallback_x86, dcbCleanupSize_x86_this_ms
  <2> HIDE DEF clean, a
  <2>3. pops + clean - stack = 4
    BY <1>2, <1>5, <1>6, <2>1, <2>2
  <2> QED BY <2>1, <2>3 DEF pops, clean, stack
<1>10. CASE mode \in {"X86_FAST_MS", "X86_FAST_GNU"}
  <2>1. X86Kind(w) \in Fast /\ s.vt.call = "fast"
    <3>1. X86Kind(w) \in Fast
      BY <1>3, <1>10 DEF X86Kind, Fast
    <3> QED BY <1>1, <3>1, X86Tables DEF gVT_x86_win32_fast_ms, gVT_x86_win32_fast_gnu, Fast
  <2>2. clean = 4 * (a - r)
    <3>1. CASE mode = "X86_FAST_MS"
      <4>1. r = InTwoRegs(IntsOf(b))
        BY <1>3, <3>1 DEF InRegs, X86Kind
      <4> QED BY <1>4, <3>1, <4>1 DEF InitCallback_x86, dcbCleanupSize_x86_fast_ms
    <3>2. CASE mode = "X86_FAST_GNU"
      <4>1. r = InTwoRegs(IntsBeforeLongLong(b))
        BY <1>3, <3>2 DEF InRegs, X86Kind
      <4> QED BY <1>4, <3>2, <4>1 DEF InitCallback_x86, dcbCleanupSize_x86_fast_gnu
    <3> QED BY <1>10, <3>1, <3>2
  <2> HIDE DEF clean, a, r
  <2>3. pops + clean - stack = 0
    BY <1>2, <1>5, <1>6, <2>1, <2>2
  <2> QED BY <2>1, <2>3 DEF pops, clean, stack
<1> QED BY <1>1, <1>7, <1>8, <1>9, <1>10 DEF X86Ways

-----------------------------------------------------------------------------
(* The count is kept, and so what is pushed is removed once.               *)
Counting ==
  ABI \in X86ABIs /\ call.phase = "binding" /\ ~Unreserved => Counted(vm, Now(call), call.bound)

LEMMA CountingFresh ==
  ASSUME Typed', Located', call'.phase = "binding", call'.bound = <<>>
  PROVE  Counting'
<1> SUFFICES ASSUME ABI' \in X86ABIs, ~Unreserved'
             PROVE  Counted(vm', Now(call'), call'.bound)
  BY DEF Counting
<1>1. Fresh(vm')
  BY DEF Located, Ready1
<1>2. CallOK' /\ ABI' \in ABIs /\ vm'.abi = ABI' /\ vm'.vt = ModeTable(ABI', Now(call'))
  BY LenVec DEF Typed, VMOK, ABI, IsVM, VMs
<1>3. Now(call') \in Ways(ABI')
  BY <1>2 DEF CallOK, Now, Ways
<1> QED BY <1>1, <1>2, <1>3, CountedFirst

LEMMA CountingVarargs ==
  ASSUME Typed, Counting, dcModeVarargs
  PROVE  Counting'
<1>1. /\ call.phase = "binding" /\ call.mode = "ELLIPSIS" /\ call.named = AllNamed
      /\ vm' = SetVT(vm, ModeTable(ABI, "VARARGS")) /\ call' = [call EXCEPT !.named = Len(call.bound)]
  BY DEF dcModeVarargs
<1>2. /\ call'.reset = call.reset /\ call'.bound = call.bound /\ call'.named # AllNamed
      /\ call'.mode = "ELLIPSIS"
  BY <1>1, SwitchWays DEF Typed
<1>3. /\ ABI \in ABIs /\ IsVM(vm) /\ TableOK(ABI, vm.vt) /\ "VARARGS" \in Ways(ABI)
      /\ "ELLIPSIS" \in Ways(ABI) /\ vm.vt = ModeTable(ABI, "ELLIPSIS")
  <2>1. ABI \in ABIs /\ IsVM(vm)
    BY LenVec DEF Typed, VMOK, ABI
  <2>2. Now(call) = "ELLIPSIS"
    BY <1>1 DEF Now
  <2>3. vm.vt = ModeTable(ABI, "ELLIPSIS")
    BY <2>2 DEF Typed, VMOK
  <2>4. "VARARGS" \in Ways(ABI) /\ "ELLIPSIS" \in Ways(ABI)
    BY DEF Ways, KnownModes
  <2> QED BY <2>1, <2>3, <2>4, Tables
<1> DEFINE vt == ModeTable(ABI, "VARARGS")
<1>4. TableOK(ABI, vt) /\ vt.reset = vm.vt.reset
  BY <1>3, Tables, EllipsisTable
<1>5. vm' = SetVT(vm, vt)
  BY <1>1
<1> HIDE DEF vt
<1>6. vm'.abi = ABI /\ vm'.vt = vt /\ vm'.vec = vm.vec
  BY <1>3, <1>4, <1>5, SetTable DEF ABI
<1>7. ABI' = ABI /\ (Unreserved' <=> Unreserved)
  BY <1>2, <1>4, <1>6 DEF Unreserved, ABI
<1>8. Now(call) = "ELLIPSIS" /\ Now(call') = "VARARGS"
  BY <1>1, <1>2 DEF Now
<1>9. Counted(vm, "ELLIPSIS", call.bound) => Counted(vm', "VARARGS", call.bound)
  BY <1>6 DEF Counted, X86Kind, Fast
<1> QED BY <1>1, <1>2, <1>7, <1>8, <1>9 DEF Counting

LEMMA CountingArg ==
  ASSUME Typed, Stocked, Counting, NEW t, dcArg(t)
  PROVE  Counting'
<1> DEFINE n == Len(call.bound)
           w == Now(call)
<1>1. /\ ABI \in ABIs /\ IsVM(vm) /\ vm.vt = ModeTable(ABI, w) /\ w \in Ways(ABI)
  BY LenVec, NowWay DEF Typed, VMOK, ABI
<1>2. /\ t \in BindableTypes /\ n < ArgsAllowed /\ call.phase = "binding"
      /\ vm' = BindArg(vm, t, Value(n + 1, SizeOf(ABI, t)))
      /\ call' = [call EXCEPT !.bound = Append(@, t)]
  BY DEF dcArg
<1>3. t \in TypesOf(w) /\ t \in AllTypes
  BY <1>1, <1>2, BindableIsOf, WaysTypes DEF Typed
<1>4. /\ call'.phase = "binding" /\ call'.mode = call.mode /\ call'.reset = call.reset
      /\ call'.named = call.named /\ call'.bound \in Seq(AllTypes) /\ Len(call'.bound) = n + 1
      /\ \A k \in 1 .. n : call'.bound[k] = call.bound[k]
      /\ call'.bound[n + 1] = t /\ 1 .. n + 1 = 1 .. n \cup {n + 1} /\ n \in Nat
  BY <1>2, <1>3, OneMore DEF Typed
<1>5. ABI' = ABI /\ vm'.vt = vm.vt
  BY TypedArg
<1>6. Room(vm) /\ call.bound \in Seq(AllTypes)
  BY <1>2, RoomForArg DEF Typed, CallOK
<1>7. More(call.bound, call'.bound, t)
  BY <1>4, <1>6 DEF More
<1>8. Now(call') = w
  BY <1>4 DEF Now
<1>9. Unreserved' <=> Unreserved
  BY <1>4, <1>5 DEF Unreserved
<1>10. ASSUME ABI \in X86ABIs, Counted(vm, w, call.bound)
       PROVE  Counted(vm', w, call'.bound)
  <2> DEFINE b == call.bound
             c == call'.bound
             k == n + 1
  <2>1. More(b, c, t) /\ Counted(vm, w, b) /\ k \in Nat /\ k > 0
    <3>1. k \in Nat /\ k > 0
      <4> HIDE DEF n
      <4> QED BY <1>4
    <3> QED BY <1>7, <1>10, <3>1
  <2>2. /\ vm.abi \in X86ABIs /\ w \in Ways(vm.abi) /\ vm.vt = ModeTable(vm.abi, w)
        /\ vm' = BindArg(vm, t, Value(k, SizeOf(vm.abi, t)))
    BY <1>1, <1>2, <1>10 DEF ABI
  <2> HIDE DEF b, c, k, w
  <2>3. Counted(vm', w, c)
    BY <1>1, <1>3, <1>6, <2>1, <2>2, CountedMore
  <2> QED BY <2>3 DEF c
<1> QED BY <1>2, <1>4, <1>5, <1>8, <1>9, <1>10 DEF Counting

LEMMA BalancedCall ==
  ASSUME Typed, Counting, dcCall
  PROVE  BalancedUnlessKnown'
<1>1. /\ ABI' = ABI /\ vm'.vt = vm.vt /\ image' = Kernel(vm) /\ call'.phase = "running"
      /\ call'.bound = call.bound /\ call'.mode = call.mode /\ call'.reset = call.reset
  BY TypedCall
<1>2. SUFFICES ASSUME ABI \in X86ABIs, call.mode # "SYS", ~Unreserved
               PROVE  Balance' = ThisCounted'
  BY <1>1 DEF BalancedUnlessKnown, CallsCallback, Unreserved
<1>3. call.phase = "binding" /\ ~Underflow
  BY DEF dcCall
<1>4. ~Underflows(vm)
  BY <1>2, <1>3 DEF Underflow
<1>5. /\ IsVM(vm) /\ ABI \in ABIs /\ Now(call) \in Ways(ABI) /\ vm.vt = ModeTable(ABI, Now(call))
      /\ call.mode \in Ways(ABI) /\ call.mode # "VARARGS" /\ call.bound \in Seq(AllTypes)
  BY LenVec, NowWay, CallSeq DEF Typed, VMOK, ABI
<1>6. Follows(call.mode, Now(call))
  <2>1. call.named # AllNamed => call.mode = "ELLIPSIS"
    BY DEF Typed, CallOK
  <2> QED BY <2>1 DEF Now, Follows
<1>7. Counted(vm, Now(call), call.bound)
  BY <1>2, <1>3 DEF Counting
<1> DEFINE m == Kernel(vm)
           w == Now(call)
           b == call.bound
<1>8. CallerPops(vm.vt, m) + InitCallback(vm.abi, call.mode, b).cleanup - Len(m.stack)
        = IF vm.vt.call = "this_ms" THEN 4 ELSE 0
  <2>1. /\ vm.abi \in X86ABIs /\ w \in Ways(vm.abi) /\ vm.vt = ModeTable(vm.abi, w)
        /\ call.mode \in Ways(vm.abi) /\ Follows(call.mode, w) /\ b \in Seq(AllTypes) /\ Counted(vm, w, b)
        /\ m = Kernel(vm)
    BY <1>2, <1>5, <1>6, <1>7 DEF ABI
  <2> HIDE DEF m, w, b
  <2> QED BY <1>2, <1>4, <1>5, <2>1, BalancedX86
<1>9. Balance' = CallerPops(vm.vt, m) + InitCallback(ABI, call.mode, b).cleanup - Len(m.stack)
  BY <1>1 DEF Balance
<1>10. ThisCounted' = IF vm.vt.call = "this_ms" THEN 4 ELSE 0
  BY <1>1 DEF ThisCounted
<1> QED BY <1>8, <1>9, <1>10 DEF ABI

LEMMA BalancedNext ==
  ASSUME Running, Located, Located', Running', Counting, BalancedUnlessKnown, [Next]_vars
  PROVE  Counting' /\ BalancedUnlessKnown'
<1>0. Typed /\ Typed' /\ Stocked
  BY DEF Running
<1>1. ASSUME call'.phase # "binding" PROVE Counting'
  BY <1>1 DEF Counting
<1>2. ASSUME call'.phase # "running" PROVE BalancedUnlessKnown'
  BY <1>2 DEF BalancedUnlessKnown, CallsCallback
<1>3. ASSUME NEW mode \in Modes[ABI], dcMode(mode)
      PROVE  Counting' /\ BalancedUnlessKnown'
  <2>1. call'.phase = "new"
    BY <1>3 DEF dcMode, NewCall
  <2> QED BY <1>1, <1>2, <2>1
<1>4. ASSUME NEW mode \in Modes[ABI], handle_mode(mode)
      PROVE  Counting' /\ BalancedUnlessKnown'
  <2>1. call'.phase = "binding" /\ call'.bound = <<>>
    BY <1>0, <1>4 DEF handle_mode, Typed, CallOK
  <2> QED BY <1>0, <1>2, <2>1, CountingFresh
<1>5. CASE dcReset
  <2>1. call'.phase = "binding" /\ call'.bound = <<>>
    BY <1>0, <1>5, TypedReset
  <2> QED BY <1>0, <1>2, <2>1, CountingFresh
<1>6. CASE dcModeVarargs
  <2>1. call'.phase = "binding"
    BY <1>0, <1>6 DEF dcModeVarargs, Typed, CallOK
  <2> QED BY <1>0, <1>2, <1>6, <2>1, CountingVarargs
<1>7. ASSUME NEW t, dcArg(t)
      PROVE  Counting' /\ BalancedUnlessKnown'
  <2>1. call'.phase = "binding"
    BY <1>0, <1>7 DEF dcArg, Typed, CallOK
  <2> QED BY <1>0, <1>2, <1>7, <2>1, CountingArg
<1>8. CASE dcCall
  <2>1. call'.phase = "running"
    BY <1>0, <1>8, TypedCall
  <2> QED BY <1>0, <1>1, <1>8, <2>1, BalancedCall
<1>9. CASE KernelFault
  <2>1. call'.phase = "fault"
    BY <1>0, <1>9 DEF KernelFault, Typed, CallOK
  <2> QED BY <1>1, <1>2, <2>1
<1>10. CASE Return
  <2>1. call'.phase = "returned"
    BY <1>0, <1>10 DEF Return, Typed, CallOK
  <2> QED BY <1>1, <1>2, <2>1
<1>11. CASE Fetch \/ UNCHANGED vars
  <2>1. vm' = vm /\ call' = call /\ image' = image
    BY <1>11 DEF Fetch, vars
  <2>2. /\ ABI' = ABI /\ Unreserved' = Unreserved /\ ThisCounted' = ThisCounted
        /\ Balance' = Balance /\ CallsCallback' = CallsCallback
    BY <2>1 DEF ABI, Unreserved, ThisCounted, Balance, CallsCallback
  <2>3. Counting'
    BY <2>1, <2>2 DEF Counting
  <2> QED BY <2>2, <2>3 DEF BalancedUnlessKnown
<1>12. (\E mode \in Modes[ABI] : dcMode(mode) \/ handle_mode(mode)) =>
         Counting' /\ BalancedUnlessKnown'
  BY <1>3, <1>4
<1>13. (\E t \in Types \cup {"pointer"} : dcArg(t)) => Counting' /\ BalancedUnlessKnown'
  BY <1>7
<1> QED BY <1>5, <1>6, <1>8, <1>9, <1>10, <1>11, <1>12, <1>13 DEF Next

(* BalancedUnlessKnown: whoever a convention of x86 tells to remove the    *)
(* arguments removes all that was pushed, but for this, which counts twice.*)
THEOREM PushedIsRemoved == Spec => []BalancedUnlessKnown
<1>1. Init => Running /\ Located /\ Counting /\ BalancedUnlessKnown
  <2> SUFFICES ASSUME Init PROVE Running /\ Located /\ Counting /\ BalancedUnlessKnown
    OBVIOUS
  <2>1. call.phase = "new"
    BY DEF Init, NewCall
  <2> QED BY <2>1, RunningInit, LocatedInit DEF Counting, BalancedUnlessKnown, CallsCallback
<1>2. Running /\ Located /\ Counting /\ BalancedUnlessKnown /\ [Next]_vars =>
        (Running /\ Located /\ Counting /\ BalancedUnlessKnown)'
  BY RunningNext, LocatedNext, BalancedNext
<1> QED BY <1>1, <1>2, PTL DEF Spec
=============================================================================
