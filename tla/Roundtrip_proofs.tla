-------------------------- MODULE Roundtrip_proofs --------------------------
(***************************************************************************)
(* Proofs about Roundtrip, for any number of registers, any aggregates,    *)
(* vectors of any size, and calls nested to any depth.                     *)
(*                                                                         *)
(* The argument: the positions the arguments were bound at are a trace of  *)
(* the calling convention, from which the homes of the arguments follow.   *)
(* A handler that has fetched n arguments is at the n-th position of the   *)
(* trace its call was made with, and what it fetches next is at the homes  *)
(* of the next position.  Nothing that happens to the CallVM later changes *)
(* the frame, and so the trace.                                            *)
(*                                                                         *)
(* The first part compares binding and fetching one argument, each with    *)
(* one reading of the convention: a position, which says how many          *)
(* registers of each bank and how many bytes of stack are taken.           *)
(***************************************************************************)
EXTENDS Roundtrip, CallVM_proofs, SequenceTheorems

-----------------------------------------------------------------------------
(* Positions: binding an argument moves the counters of the CallVM as      *)
(* fetching it moves those of the DCArgs.                                  *)

Pos          == [i : 0 .. NumIntRegs, f : 0 .. NumFloatRegs, sp : Nat]
At(i, f, sp) == [i |-> i, f |-> f, sp |-> sp]

(* The positions of a CallVM and of a DCArgs. *)
BoundTo(s)   == At(s.iCount, s.fCount, s.vecSize)
FetchedTo(a) == At(a.iCount, a.fCount, a.stackPtr)

(* Where an argument of each kind moves the position to; hid says whether  *)
(* the first integer register is the hidden pointer's.                     *)
Skip(p, hid) == IF hid /\ p.i = 0 THEN 1 ELSE p.i

AfterInt(p, hid) ==
  IF Skip(p, hid) < NumIntRegs
  THEN At(Skip(p, hid) + 1, p.f, p.sp)
  ELSE At(Skip(p, hid), p.f, p.sp + 8)

AfterFloat(p) ==
  IF p.f < NumFloatRegs THEN At(p.i, p.f + 1, p.sp) ELSE At(p.i, p.f, p.sp + 8)

AfterEightbyte(p, hid, clz) == IF clz = "INTEGER" THEN AfterInt(p, hid) ELSE AfterFloat(p)

Stacked(p, ag) ==
  \/ InMemory(ag)
  \/ p.i + Needs(ag, "INTEGER") > NumIntRegs
  \/ p.f + Needs(ag, "SSE") > NumFloatRegs

AfterFirst(p, hid, ag) == AfterEightbyte(p, hid, Classes[ag][1])

AfterAggr(p, hid, ag) ==
  IF Stacked(p, ag) THEN At(p.i, p.f, p.sp + RoundUp8(Size[ag]))
  ELSE IF Eightbytes(ag) = 0 THEN p
  ELSE IF Eightbytes(ag) = 1 THEN AfterFirst(p, hid, ag)
  ELSE AfterEightbyte(AfterFirst(p, hid, ag), hid, Classes[ag][2])

After(p, hid, type) ==
  IF type \in Aggrs THEN AfterAggr(p, hid, type)
  ELSE IF type = "float" THEN AfterFloat(p) ELSE AfterInt(p, hid)

(* The home an argument bound at a position has. *)
StackAt(sp, vec, h) == h.bank = "stack" /\ h.k \in DOMAIN vec /\ vec[h.k].at = sp

IntAt(p, hid, vec, h) ==
  IF Skip(p, hid) < NumIntRegs THEN h = Home("int", Skip(p, hid)) ELSE StackAt(p.sp, vec, h)

FloatAt(p, vec, h) ==
  IF p.f < NumFloatRegs THEN h = Home("float", p.f) ELSE StackAt(p.sp, vec, h)

EightbyteAt(p, hid, clz, vec, h) ==
  IF clz = "INTEGER" THEN IntAt(p, hid, vec, h) ELSE FloatAt(p, vec, h)

AggrAt(p, hid, ag, vec, homes) ==
  IF Stacked(p, ag) THEN Len(homes) = 1 /\ StackAt(p.sp, vec, homes[1])
  ELSE /\ Len(homes) = Eightbytes(ag)
       /\ Eightbytes(ag) >= 1 => EightbyteAt(p, hid, Classes[ag][1], vec, homes[1])
       /\ Eightbytes(ag) = 2 =>
            EightbyteAt(AfterFirst(p, hid, ag), hid, Classes[ag][2], vec, homes[2])

ArgAt(p, hid, type, vec, homes) ==
  IF type \in Aggrs THEN AggrAt(p, hid, type, vec, homes)
  ELSE /\ Len(homes) = 1
       /\ IF type = "float" THEN FloatAt(p, vec, homes[1]) ELSE IntAt(p, hid, vec, homes[1])

(* Segments that are not empty and follow one another begin at different   *)
(* addresses.                                                              *)
NoneEmpty(vec) == \A k \in DOMAIN vec : vec[k].len > 0

Ordered(vec) ==
  \A i, j \in DOMAIN vec : i < j => vec[i].at + vec[i].len <= vec[j].at

(* The vector of u is that of v with more behind it. *)
Extends(v, u) == \A k \in DOMAIN v : k \in DOMAIN u /\ u[k] = v[k]

-----------------------------------------------------------------------------
(* The caller's side.                                                      *)

(* The register reserved in a CallVM. *)
Reserves(s, hid) == s.aggrReturnReg = IF hid THEN 0 ELSE -1

(* From s to t something was bound, or dropped. *)
Advances(s, t) ==
  /\ t \in VMs
  /\ Extends(s.vec, t.vec)
  /\ NoneEmpty(s.vec) => NoneEmpty(t.vec)
  /\ t.aggrReturnReg = s.aggrReturnReg
  /\ t.iCount >= s.iCount /\ t.fCount >= s.fCount

(* Growing and advancing are transitive. *)
LEMMA ExtendsTransitive ==
  ASSUME NEW u, NEW v, NEW w, Extends(u, v), Extends(v, w)
  PROVE  Extends(u, w)
BY DEF Extends

LEMMA AdvancesTransitive ==
  ASSUME NEW s \in VMs, NEW t, NEW u, Advances(s, t), Advances(t, u)
  PROVE  Advances(s, u)
<1>1. Extends(s.vec, u.vec)
  BY ExtendsTransitive DEF Advances
<1>2. t \in VMs /\ u \in VMs
  BY DEF Advances
<1>3. u.iCount >= s.iCount /\ u.fCount >= s.fCount
  BY <1>2, SysVAssumption DEF Advances, VMs
<1> QED  BY <1>1, <1>2, <1>3 DEF Advances

(* A vector that grows keeps an argument where it is. *)
LEMMA StillAt ==
  ASSUME NEW v, NEW u, Extends(v, u), NEW p, NEW hid, NEW type, NEW homes,
         ArgAt(p, hid, type, v, homes)
  PROVE  ArgAt(p, hid, type, u, homes)
<1>1. \A sp, h : StackAt(sp, v, h) => StackAt(sp, u, h)
  BY DEF StackAt, Extends
<1>2. \A q, h : IntAt(q, hid, v, h) => IntAt(q, hid, u, h)
  BY <1>1 DEF IntAt
<1>3. \A q, h : FloatAt(q, v, h) => FloatAt(q, u, h)
  BY <1>1 DEF FloatAt
<1>4. \A q, clz, h : EightbyteAt(q, hid, clz, v, h) => EightbyteAt(q, hid, clz, u, h)
  BY <1>2, <1>3 DEF EightbyteAt
<1> QED  BY <1>1, <1>2, <1>3, <1>4 DEF ArgAt, AggrAt

(* Appending to the vector. *)
LEMMA AppendPlaces ==
  ASSUME NEW s \in VMs, NEW len \in Nat \ {0}, NEW x \in Pieces
  PROVE  /\ Advances(s, dcVecAppend(s, len, x))
         /\ StackHome(s, len).bank # "lost" =>
              /\ BoundTo(dcVecAppend(s, len, x)) = At(s.iCount, s.fCount, s.vecSize + len)
              /\ StackAt(s.vecSize, dcVecAppend(s, len, x).vec, StackHome(s, len))
<1> DEFINE t == dcVecAppend(s, len, x)
<1>1. CASE ~Fits(s, len)
  <2>1. t = s /\ StackHome(s, len).bank = "lost"
    BY <1>1 DEF dcVecAppend, StackHome, Home
  <2>2. s.iCount \in Nat /\ s.fCount \in Nat
    BY SysVAssumption DEF VMs
  <2> QED  BY <2>1, <2>2 DEF Advances, Extends
<1>2. CASE Fits(s, len)
  <2> DEFINE seg == [at |-> s.vecSize, len |-> len, val |-> x]
             v   == Append(s.vec, seg)
  <2>1. /\ seg \in Segments /\ s.vec \in Seq(Segments)
        /\ s.vecSize \in Nat /\ s.vecSize + len \in Nat
        /\ s.iCount \in Nat /\ s.fCount \in Nat
    BY SysVAssumption DEF VMs, Segments
  <2>2. /\ v \in Seq(Segments) /\ Len(v) = Len(s.vec) + 1
        /\ \A k \in 1 .. Len(s.vec) : v[k] = s.vec[k]
        /\ v[Len(s.vec) + 1] = seg
        /\ DOMAIN v = 1 .. Len(s.vec) + 1
        /\ DOMAIN s.vec = 1 .. Len(s.vec)
        /\ Len(s.vec) \in Nat
    BY <2>1
  <2>3. t = [s EXCEPT !.vec = v, !.vecSize = s.vecSize + len]
    BY <1>2 DEF dcVecAppend
  <2>4. StackHome(s, len) = Home("stack", Len(s.vec) + 1)
    BY <1>2 DEF StackHome
  <2>5. seg.at = s.vecSize /\ seg.len = len
    OBVIOUS
  <2> HIDE DEF v, t, seg
  <2>6. t \in VMs
    BY <2>1, <2>2, <2>3, VecWrite
  <2>7. /\ t.vec = v /\ t.vecSize = s.vecSize + len
        /\ t.iCount = s.iCount /\ t.fCount = s.fCount /\ t.aggrReturnReg = s.aggrReturnReg
    BY <2>3 DEF VMs
  <2>8. Extends(s.vec, v)
    BY <2>2 DEF Extends
  <2>9. NoneEmpty(s.vec) => NoneEmpty(v)
    <3> SUFFICES ASSUME NoneEmpty(s.vec), NEW k \in 1 .. Len(s.vec) + 1
                 PROVE  v[k].len > 0
      BY <2>2 DEF NoneEmpty
    <3>1. CASE k = Len(s.vec) + 1
      BY <3>1, <2>2, <2>5
    <3>2. CASE k # Len(s.vec) + 1
      BY <3>2, <2>2 DEF NoneEmpty
    <3> QED  BY <3>1, <3>2
  <2>10. Advances(s, t)
    BY <2>1, <2>6, <2>7, <2>8, <2>9 DEF Advances
  <2>11. StackAt(s.vecSize, v, Home("stack", Len(s.vec) + 1))
    BY <2>2, <2>5 DEF StackAt, Home
  <2> QED  BY <2>4, <2>7, <2>10, <2>11 DEF BoundTo, t
<1> QED  BY <1>1, <1>2

(* Binding an integer.                                                     *)
LEMMA IntPlaces ==
  ASSUME NEW s \in VMs, NEW hid \in BOOLEAN, Reserves(s, hid), NEW x \in Pieces
  PROVE  /\ Advances(s, ArgLongLong(s, x))
         /\ IntHome(s).bank # "lost" =>
              /\ BoundTo(ArgLongLong(s, x)) = AfterInt(BoundTo(s), hid)
              /\ IntAt(BoundTo(s), hid, ArgLongLong(s, x).vec, IntHome(s))
<1> DEFINE k == NextIntReg(s)
           t == ArgLongLong(s, x)
<1>1. /\ k \in 0 .. NumIntRegs /\ s.iCount <= k /\ k \in Nat
      /\ s.iCount \in Nat /\ s.fCount \in Nat
  BY NextIntRegRange, SysVAssumption DEF VMs
<1>2. Skip(BoundTo(s), hid) = k
  BY <1>1 DEF Skip, BoundTo, At, NextIntReg, Reserves
<1>3. BoundTo(s).f = s.fCount /\ BoundTo(s).sp = s.vecSize
  BY DEF BoundTo, At
<1> HIDE DEF k
<1>4. CASE k < NumIntRegs
  <2>1. k \in IntRegs
    BY <1>1, <1>4, SysVAssumption DEF IntRegs
  <2>2. t = [s EXCEPT !.iRegs[k] = x, !.iCount = k + 1] /\ IntHome(s) = Home("int", k)
    BY <1>4 DEF ArgLongLong, IntHome, k
  <2> HIDE DEF t
  <2>3. t \in VMs
    BY <2>1, <2>2, IntRegWrite
  <2>4. /\ t.iCount = k + 1 /\ t.fCount = s.fCount /\ t.vecSize = s.vecSize
        /\ t.aggrReturnReg = s.aggrReturnReg /\ t.vec = s.vec
    BY <2>2 DEF VMs
  <2>5. Advances(s, t)
    BY <1>1, <2>3, <2>4 DEF Advances, Extends
  <2>6. BoundTo(t) = AfterInt(BoundTo(s), hid)
    BY <1>2, <1>3, <1>4, <2>4 DEF AfterInt, BoundTo
  <2>7. IntAt(BoundTo(s), hid, t.vec, IntHome(s))
    BY <1>2, <1>4, <2>2 DEF IntAt
  <2> QED  BY <2>5, <2>6, <2>7 DEF t
<1>5. CASE ~(k < NumIntRegs)
  <2> DEFINE u == [s EXCEPT !.iCount = k]
  <2>1. t = dcVecAppend(u, 8, x) /\ IntHome(s) = StackHome(s, 8)
    BY <1>5 DEF ArgLongLong, IntHome, k
  <2>2. u \in VMs
    BY <1>1, CountWrite
  <2>3. /\ u.iCount = k /\ u.fCount = s.fCount /\ u.aggrReturnReg = s.aggrReturnReg
        /\ u.vec = s.vec /\ u.vecSize = s.vecSize
    BY DEF VMs
  <2> HIDE DEF u, t
  <2>4. StackHome(u, 8) = StackHome(s, 8)
    BY <2>3 DEF StackHome, Fits
  <2>5. Advances(s, u)
    BY <1>1, <2>2, <2>3 DEF Advances, Extends
  <2>6. /\ Advances(u, t)
        /\ StackHome(s, 8).bank # "lost" =>
              /\ BoundTo(t) = At(k, s.fCount, s.vecSize + 8)
              /\ StackAt(s.vecSize, t.vec, StackHome(s, 8))
    BY <2>1, <2>2, <2>3, <2>4, AppendPlaces
  <2>7. Advances(s, t)
    BY <2>5, <2>6, AdvancesTransitive
  <2>8. ASSUME IntHome(s).bank # "lost"
        PROVE  /\ BoundTo(t) = AfterInt(BoundTo(s), hid)
               /\ IntAt(BoundTo(s), hid, t.vec, IntHome(s))
    <3>1. BoundTo(t) = AfterInt(BoundTo(s), hid)
      BY <1>2, <1>3, <1>5, <2>1, <2>6, <2>8 DEF AfterInt
    <3>2. IntAt(BoundTo(s), hid, t.vec, IntHome(s))
      BY <1>2, <1>3, <1>5, <2>1, <2>6, <2>8 DEF IntAt
    <3> QED  BY <3>1, <3>2
  <2> QED  BY <2>7, <2>8 DEF t
<1> QED  BY <1>4, <1>5

(* Binding a float. *)
LEMMA FloatPlaces ==
  ASSUME NEW s \in VMs, NEW x \in Pieces
  PROVE  /\ Advances(s, ArgDouble(s, x))
         /\ FloatHome(s).bank # "lost" =>
              /\ BoundTo(ArgDouble(s, x)) = AfterFloat(BoundTo(s))
              /\ FloatAt(BoundTo(s), ArgDouble(s, x).vec, FloatHome(s))
<1> DEFINE t == ArgDouble(s, x)
<1>1. s.iCount \in Nat /\ s.fCount \in Nat
  BY SysVAssumption DEF VMs
<1>2. BoundTo(s).i = s.iCount /\ BoundTo(s).f = s.fCount /\ BoundTo(s).sp = s.vecSize
  BY DEF BoundTo, At
<1>3. CASE s.fCount < NumFloatRegs
  <2> DEFINE r == [s.fRegs EXCEPT ![s.fCount] = x]
  <2>1. r \in [FltRegs -> Pieces] /\ s.fCount + 1 \in 0 .. NumFloatRegs
    BY <1>3, SysVAssumption DEF FltRegs, VMs
  <2>2. t = [s EXCEPT !.fRegs = r, !.fCount = s.fCount + 1] /\ FloatHome(s) = Home("float", s.fCount)
    BY <1>3 DEF ArgDouble, FloatHome, VMs
  <2> HIDE DEF t, r
  <2>3. t \in VMs
    BY <2>1, <2>2 DEF VMs
  <2>4. /\ t.iCount = s.iCount /\ t.fCount = s.fCount + 1 /\ t.vecSize = s.vecSize
        /\ t.aggrReturnReg = s.aggrReturnReg /\ t.vec = s.vec
    BY <2>2 DEF VMs
  <2>5. Advances(s, t)
    BY <1>1, <2>3, <2>4 DEF Advances, Extends
  <2>6. BoundTo(t) = AfterFloat(BoundTo(s))
    BY <1>2, <1>3, <2>4 DEF AfterFloat, BoundTo
  <2>7. FloatAt(BoundTo(s), t.vec, FloatHome(s))
    BY <1>2, <1>3, <2>2 DEF FloatAt
  <2> QED  BY <2>5, <2>6, <2>7 DEF t
<1>4. CASE ~(s.fCount < NumFloatRegs)
  <2>1. t = dcVecAppend(s, 8, x) /\ FloatHome(s) = StackHome(s, 8)
    BY <1>4 DEF ArgDouble, FloatHome
  <2> HIDE DEF t
  <2>2. /\ Advances(s, t)
        /\ StackHome(s, 8).bank # "lost" =>
              /\ BoundTo(t) = At(s.iCount, s.fCount, s.vecSize + 8)
              /\ StackAt(s.vecSize, t.vec, StackHome(s, 8))
    BY <2>1, AppendPlaces
  <2> QED  BY <1>2, <1>4, <2>1, <2>2 DEF AfterFloat, FloatAt, t
<1> QED  BY <1>3, <1>4

(* Binding an eightbyte of an aggregate. *)
LEMMA EightbytePlaces ==
  ASSUME NEW s \in VMs, NEW hid \in BOOLEAN, Reserves(s, hid), NEW x \in Pieces, NEW clz
  PROVE  /\ Advances(s, ArgEightbyte(s, clz, x))
         /\ EightbyteHome(s, clz).bank # "lost" =>
              /\ BoundTo(ArgEightbyte(s, clz, x)) = AfterEightbyte(BoundTo(s), hid, clz)
              /\ EightbyteAt(BoundTo(s), hid, clz, ArgEightbyte(s, clz, x).vec, EightbyteHome(s, clz))
BY IntPlaces, FloatPlaces, Zenon
   DEF ArgEightbyte, EightbyteHome, AfterEightbyte, EightbyteAt

(* Realigning moves the stack pointer only. *)
LEMMA SkipPlaces ==
  ASSUME NEW s \in VMs, NEW n \in Nat
  PROVE  /\ Advances(s, dcVecSkip(s, n))
         /\ BoundTo(dcVecSkip(s, n)) = At(s.iCount, s.fCount, s.vecSize + n)
         /\ dcVecSkip(s, n).vec = s.vec
<1> DEFINE t == dcVecSkip(s, n)
<1>1. s.vecSize + n \in Nat /\ s.iCount \in Nat /\ s.fCount \in Nat
  BY SysVAssumption DEF VMs
<1>2. /\ t \in VMs /\ t.vecSize = s.vecSize + n /\ t.vec = s.vec
      /\ t.iCount = s.iCount /\ t.fCount = s.fCount /\ t.aggrReturnReg = s.aggrReturnReg
  BY <1>1 DEF VMs, dcVecSkip
<1> HIDE DEF t
<1> QED  BY <1>1, <1>2 DEF Advances, Extends, BoundTo, t

(* The sizes of an aggregate with classes. *)
LEMMA AggrSizes ==
  ASSUME NEW ag \in Aggrs
  PROVE  /\ RoundUp8(Size[ag]) - Size[ag] \in Nat /\ RoundUp8(Size[ag]) \in Nat
         /\ RoundUp8(Size[ag]) % 8 = 0
         /\ Classes[ag] # <<>> => Size[ag] \in Nat \ {0}
BY SysVAssumption DEF RoundUp8

(* The descriptions, with every count made explicit. *)
LEMMA AggrCases ==
  ASSUME NEW ag \in Aggrs, ~InMemory(ag), Eightbytes(ag) # 0, Eightbytes(ag) # 1
  PROVE  Eightbytes(ag) = 2
BY ClassCases

(* What the caller and the position count is the same. *)
LEMMA SameStacked ==
  ASSUME NEW s, NEW ag
  PROVE  PassedOnStack(s, ag) <=> Stacked(BoundTo(s), ag)
BY DEF PassedOnStack, Stacked, BoundTo, At

(* An aggregate on the stack, realigned. *)
LEMMA StackedPlaces ==
  ASSUME NEW s \in VMs, NEW hid, NEW ag \in Aggrs, NEW tag \in Tags, PassedOnStack(s, ag)
  PROVE  /\ Advances(s, ArgAggr(s, ag, tag))
         /\ AggrHomes(s, ag, tag) = <<StackHome(s, Size[ag])>>
         /\ StackHome(s, Size[ag]).bank # "lost" =>
              /\ BoundTo(ArgAggr(s, ag, tag)) = AfterAggr(BoundTo(s), hid, ag)
              /\ AggrAt(BoundTo(s), hid, ag, ArgAggr(s, ag, tag).vec, AggrHomes(s, ag, tag))
<1> DEFINE n == RoundUp8(Size[ag]) - Size[ag]
           g == StackHome(s, Size[ag])
           u == dcVecAppend(s, Size[ag], <<tag, 0>>)
           t == dcVecSkip(u, n)
<1>1. Classes[ag] # <<>>
  <2> SUFFICES ASSUME Classes[ag] = <<>>  PROVE FALSE
    OBVIOUS
  <2>1. Eightbytes(ag) = 0 /\ ~InMemory(ag)
    BY DEF Eightbytes, InMemory
  <2>2. Needs(ag, "INTEGER") = 0 /\ Needs(ag, "SSE") = 0
    BY <2>1 DEF Needs
  <2> QED  BY <2>1, <2>2, SysVAssumption DEF PassedOnStack, VMs
<1>2. n \in Nat /\ RoundUp8(Size[ag]) \in Nat /\ Size[ag] \in Nat \ {0}
  BY <1>1, AggrSizes
<1>3. <<tag, 0>> \in Pieces
  BY DEF Pieces
<1>4. ArgAggr(s, ag, tag) = t /\ AggrHomes(s, ag, tag) = <<g>>
  BY DEF ArgAggr, AggrHomes
<1>5. /\ Advances(s, u)
      /\ g.bank # "lost" =>
              /\ BoundTo(u) = At(s.iCount, s.fCount, s.vecSize + Size[ag])
              /\ StackAt(s.vecSize, u.vec, g)
  BY <1>2, <1>3, AppendPlaces
<1>6. u \in VMs
  BY <1>5 DEF Advances
<1> HIDE DEF u
<1>7. Advances(u, t) /\ BoundTo(t) = At(u.iCount, u.fCount, u.vecSize + n) /\ t.vec = u.vec
  BY <1>2, <1>6, SkipPlaces
<1> HIDE DEF t, g
<1>8. Advances(s, t)
  BY <1>5, <1>7, AdvancesTransitive
<1>9. ASSUME g.bank # "lost"
      PROVE  /\ BoundTo(t) = AfterAggr(BoundTo(s), hid, ag)
             /\ AggrAt(BoundTo(s), hid, ag, t.vec, <<g>>)
  <2>1. u.iCount = s.iCount /\ u.fCount = s.fCount /\ u.vecSize = s.vecSize + Size[ag]
    BY <1>5, <1>9 DEF BoundTo, At
  <2>2. u.vecSize + n = s.vecSize + RoundUp8(Size[ag])
    BY <1>2, <2>1 DEF VMs
  <2>3. Stacked(BoundTo(s), ag)
    BY SameStacked
  <2>4. BoundTo(s).i = s.iCount /\ BoundTo(s).f = s.fCount /\ BoundTo(s).sp = s.vecSize
    BY DEF BoundTo, At
  <2>5. BoundTo(t) = AfterAggr(BoundTo(s), hid, ag)
    BY <1>7, <2>1, <2>2, <2>3, <2>4 DEF AfterAggr
  <2>6. AggrAt(BoundTo(s), hid, ag, t.vec, <<g>>)
    BY <1>5, <1>7, <1>9, <2>3, <2>4 DEF AggrAt
  <2> QED  BY <2>5, <2>6
<1> QED  BY <1>4, <1>8, <1>9 DEF g

(* None of these homes is lost. *)
KeptAll(homes) == \A j \in DOMAIN homes : homes[j].bank # "lost"

(* Binding an aggregate. *)
LEMMA AggrPlaces ==
  ASSUME NEW s \in VMs, NEW hid \in BOOLEAN, Reserves(s, hid),
         NEW ag \in Aggrs, NEW tag \in Tags
  PROVE  /\ Advances(s, ArgAggr(s, ag, tag))
         /\ KeptAll(AggrHomes(s, ag, tag)) =>
              /\ BoundTo(ArgAggr(s, ag, tag)) = AfterAggr(BoundTo(s), hid, ag)
              /\ AggrAt(BoundTo(s), hid, ag, ArgAggr(s, ag, tag).vec, AggrHomes(s, ag, tag))
<1> DEFINE homes == AggrHomes(s, ag, tag)
           t == ArgAggr(s, ag, tag)
           c == Classes[ag][1]
           d == Classes[ag][2]
<1>1. <<tag, 1>> \in Pieces /\ <<tag, 2>> \in Pieces
  BY DEF Pieces
<1>2. CASE PassedOnStack(s, ag)
  <2> HIDE DEF t
  <2>1. homes = <<StackHome(s, Size[ag])>>
    BY <1>2, StackedPlaces
  <2>2. KeptAll(homes) => StackHome(s, Size[ag]).bank # "lost"
    BY <2>1 DEF KeptAll
  <2> HIDE DEF homes
  <2> QED  BY <1>2, <2>2, StackedPlaces DEF homes, t
<1>3. ASSUME ~PassedOnStack(s, ag)
      PROVE  ~Stacked(BoundTo(s), ag) /\ ~InMemory(ag)
  BY <1>3, SameStacked DEF PassedOnStack
<1>4. CASE ~PassedOnStack(s, ag) /\ Eightbytes(ag) = 0
  <2>1. t = s /\ homes = <<>>
    BY <1>4 DEF ArgAggr, AggrHomes
  <2>2. s.iCount \in Nat /\ s.fCount \in Nat
    BY SysVAssumption DEF VMs
  <2>3. Advances(s, s)
    BY <2>2 DEF Advances, Extends
  <2>4. AfterAggr(BoundTo(s), hid, ag) = BoundTo(s)
    BY <1>3, <1>4 DEF AfterAggr
  <2>5. AggrAt(BoundTo(s), hid, ag, s.vec, <<>>)
    BY <1>3, <1>4 DEF AggrAt
  <2> QED  BY <2>1, <2>3, <2>4, <2>5
<1>5. CASE ~PassedOnStack(s, ag) /\ Eightbytes(ag) = 1
  <2> DEFINE g == EightbyteHome(s, c)
  <2>1. t = ArgEightbyte(s, c, <<tag, 1>>) /\ homes = <<g>>
    BY <1>5 DEF ArgAggr, AggrHomes, ArgFirst
  <2> HIDE DEF t, g
  <2>2. /\ Advances(s, t)
        /\ g.bank # "lost" => /\ BoundTo(t) = AfterEightbyte(BoundTo(s), hid, c)
                              /\ EightbyteAt(BoundTo(s), hid, c, t.vec, g)
    BY <1>1, <2>1, EightbytePlaces DEF g
  <2>3. KeptAll(homes) => g.bank # "lost"
    BY <2>1 DEF KeptAll
  <2>4. AfterAggr(BoundTo(s), hid, ag) = AfterEightbyte(BoundTo(s), hid, c)
    BY <1>3, <1>5 DEF AfterAggr, AfterFirst
  <2>5. EightbyteAt(BoundTo(s), hid, c, t.vec, g) => AggrAt(BoundTo(s), hid, ag, t.vec, <<g>>)
    BY <1>3, <1>5 DEF AggrAt
  <2> QED  BY <2>1, <2>2, <2>3, <2>4, <2>5 DEF t
<1>6. CASE ~PassedOnStack(s, ag) /\ Eightbytes(ag) = 2
  <2> DEFINE u == ArgEightbyte(s, c, <<tag, 1>>)
             g == EightbyteHome(s, c)
             h == EightbyteHome(u, d)
  <2>1. t = ArgEightbyte(u, d, <<tag, 2>>) /\ homes = <<g, h>>
    BY <1>6 DEF ArgAggr, AggrHomes, ArgFirst, ArgSecond
  <2>2. /\ Advances(s, u)
        /\ g.bank # "lost" => /\ BoundTo(u) = AfterEightbyte(BoundTo(s), hid, c)
                              /\ EightbyteAt(BoundTo(s), hid, c, u.vec, g)
    BY <1>1, EightbytePlaces
  <2> HIDE DEF t, g, u
  <2>3. u \in VMs /\ Reserves(u, hid)
    BY <2>2 DEF Advances, Reserves
  <2>4. /\ Advances(u, t)
        /\ h.bank # "lost" => /\ BoundTo(t) = AfterEightbyte(BoundTo(u), hid, d)
                              /\ EightbyteAt(BoundTo(u), hid, d, t.vec, h)
    BY <1>1, <2>1, <2>3, EightbytePlaces
  <2> HIDE DEF h
  <2>5. KeptAll(homes) => g.bank # "lost" /\ h.bank # "lost"
    BY <2>1 DEF KeptAll
  <2>6. Advances(s, t)
    BY <2>2, <2>4, AdvancesTransitive
  <2>7. ASSUME KeptAll(homes)
        PROVE  /\ BoundTo(t) = AfterAggr(BoundTo(s), hid, ag)
               /\ AggrAt(BoundTo(s), hid, ag, t.vec, <<g, h>>)
    <3>1. BoundTo(u) = AfterFirst(BoundTo(s), hid, ag)
      BY <2>2, <2>5, <2>7 DEF AfterFirst
    <3>2. BoundTo(t) = AfterAggr(BoundTo(s), hid, ag)
      BY <1>3, <1>6, <2>4, <2>5, <2>7, <3>1 DEF AfterAggr
    <3>3. EightbyteAt(BoundTo(s), hid, c, u.vec, g)
      BY <2>2, <2>5, <2>7
    <3>4. EightbyteAt(BoundTo(s), hid, c, t.vec, g)
      <4>1. \A sp, e : StackAt(sp, u.vec, e) => StackAt(sp, t.vec, e)
        BY <2>4 DEF Advances, Extends, StackAt
      <4> QED  BY <3>3, <4>1 DEF EightbyteAt, IntAt, FloatAt
    <3>5. EightbyteAt(AfterFirst(BoundTo(s), hid, ag), hid, d, t.vec, h)
      BY <2>4, <2>5, <2>7, <3>1
    <3>6. AggrAt(BoundTo(s), hid, ag, t.vec, <<g, h>>)
      BY <1>3, <1>6, <3>4, <3>5 DEF AggrAt
    <3> QED  BY <3>2, <3>6
  <2> QED  BY <2>1, <2>6, <2>7 DEF t
<1> QED  BY <1>2, <1>3, <1>4, <1>5, <1>6, AggrCases

-----------------------------------------------------------------------------
(* The callee's side.                                                      *)

Cursors ==
  [stackPtr : Nat, iCount : 0 .. NumIntRegs, fCount : 0 .. NumFloatRegs,
   aggrReturnReg : {-2, -1, 0}, aggrs : Seq(Aggrs \cup {NullAggr}),
   iRegs : [IntRegs -> Pieces], fRegs : [FltRegs -> Pieces], stack : Seq(Segments)]

(* Whether the callback expects a hidden pointer. *)
Expects(a, hid) == a.aggrReturnReg = 0 <=> hid

(* The spilled registers and the stack are those of the frame. *)
Spills(a, f) == a.iRegs = f.iRegs /\ a.fRegs = f.fRegs /\ a.stack = f.vec

(* From a to b the position moved to p, and nothing else changed. *)
MovesTo(a, b, p) ==
  /\ b \in Cursors
  /\ FetchedTo(b) = p
  /\ b.aggrReturnReg = a.aggrReturnReg /\ b.aggrs = a.aggrs
  /\ b.iRegs = a.iRegs /\ b.fRegs = a.fRegs /\ b.stack = a.stack

(* The segment at the stack pointer is the only one that begins there. *)
LEMMA SegmentFound ==
  ASSUME NEW a \in Cursors, Ordered(a.stack), NoneEmpty(a.stack),
         NEW k \in DOMAIN a.stack, a.stack[k].at = a.stackPtr
  PROVE  AtStackPtr(a) = a.stack[k].val
<1> DEFINE c == CHOOSE n \in DOMAIN a.stack : a.stack[n].at = a.stackPtr
<1>1. c \in DOMAIN a.stack /\ a.stack[c].at = a.stackPtr
  OBVIOUS
<1>2. AtStackPtr(a) = a.stack[c].val
  BY DEF AtStackPtr
<1> HIDE DEF c
<1>3. a.stack \in Seq(Segments) /\ DOMAIN a.stack \subseteq Int
  BY DEF Cursors
<1>4. \A n \in DOMAIN a.stack : a.stack[n] \in Segments
  BY <1>3
<1>5. \A n \in DOMAIN a.stack : a.stack[n].at \in Nat /\ a.stack[n].len \in Nat
  BY <1>4 DEF Segments
<1>6. ~(c < k)
  BY <1>1, <1>5 DEF Ordered, NoneEmpty
<1>7. ~(k < c)
  BY <1>1, <1>5 DEF Ordered, NoneEmpty
<1>8. c = k
  BY <1>1, <1>3, <1>6, <1>7
<1> QED  BY <1>2, <1>8

(* What is read from the stack is a piece, or none. *)
LEMMA StackPiece ==
  ASSUME NEW a \in Cursors
  PROVE  AtStackPtr(a) \in Pieces
<1>1. Garbage \in Pieces
  BY DEF Garbage, Pieces, Tags
<1>2. ASSUME \E k \in DOMAIN a.stack : a.stack[k].at = a.stackPtr
      PROVE  AtStackPtr(a) \in Pieces
  <2> DEFINE c == CHOOSE k \in DOMAIN a.stack : a.stack[k].at = a.stackPtr
  <2>1. c \in DOMAIN a.stack
    BY <1>2
  <2>2. AtStackPtr(a) = a.stack[c].val
    BY <1>2 DEF AtStackPtr
  <2> HIDE DEF c
  <2>3. a.stack[c] \in Segments
    BY <2>1 DEF Cursors
  <2> QED  BY <2>2, <2>3 DEF Segments
<1> QED  BY <1>1, <1>2 DEF AtStackPtr

(* Fetching an integer moves the position as binding one does. *)
LEMMA IntMoves ==
  ASSUME NEW a \in Cursors, NEW hid \in BOOLEAN, Expects(a, hid)
  PROVE  MovesTo(a, arg_i64(a).args, AfterInt(FetchedTo(a), hid)) /\ arg_i64(a).val \in Pieces
<1> DEFINE k == NextIntParam(a)
           b == arg_i64(a).args
<1>1. /\ k \in 0 .. NumIntRegs /\ k \in Nat /\ a.stackPtr + 8 \in Nat
  BY SysVAssumption DEF NextIntParam, Cursors
<1>2. Skip(FetchedTo(a), hid) = k
  BY SysVAssumption DEF Skip, FetchedTo, At, NextIntParam, Expects, Cursors
<1>3. FetchedTo(a).f = a.fCount /\ FetchedTo(a).sp = a.stackPtr
  BY DEF FetchedTo, At
<1> HIDE DEF k
<1>4. CASE k < NumIntRegs
  <2>1. k + 1 \in 0 .. NumIntRegs /\ k \in IntRegs
    BY <1>1, <1>4, SysVAssumption DEF IntRegs
  <2>2. b = [a EXCEPT !.iCount = k + 1] /\ arg_i64(a).val = a.iRegs[k]
    BY <1>4 DEF arg_i64, k
  <2>3. a.iRegs[k] \in Pieces
    BY <2>1 DEF Cursors
  <2> HIDE DEF b
  <2>4. b \in Cursors
    BY <2>1, <2>2 DEF Cursors
  <2>5. /\ b.iCount = k + 1 /\ b.fCount = a.fCount /\ b.stackPtr = a.stackPtr
        /\ b.aggrReturnReg = a.aggrReturnReg /\ b.aggrs = a.aggrs
        /\ b.iRegs = a.iRegs /\ b.fRegs = a.fRegs /\ b.stack = a.stack
    BY <2>2 DEF Cursors
  <2>6. FetchedTo(b) = AfterInt(FetchedTo(a), hid)
    BY <1>2, <1>3, <1>4, <2>5 DEF AfterInt, FetchedTo
  <2> QED  BY <2>2, <2>3, <2>4, <2>5, <2>6 DEF MovesTo, b
<1>5. CASE ~(k < NumIntRegs)
  <2>1. b = [a EXCEPT !.iCount = k, !.stackPtr = a.stackPtr + 8] /\ arg_i64(a).val = AtStackPtr(a)
    BY <1>5 DEF arg_i64, k
  <2> HIDE DEF b
  <2>2. b \in Cursors
    BY <1>1, <2>1 DEF Cursors
  <2>3. /\ b.iCount = k /\ b.fCount = a.fCount /\ b.stackPtr = a.stackPtr + 8
        /\ b.aggrReturnReg = a.aggrReturnReg /\ b.aggrs = a.aggrs
        /\ b.iRegs = a.iRegs /\ b.fRegs = a.fRegs /\ b.stack = a.stack
    BY <2>1 DEF Cursors
  <2>4. FetchedTo(b) = AfterInt(FetchedTo(a), hid)
    BY <1>2, <1>3, <1>5, <2>3 DEF AfterInt, FetchedTo
  <2> QED  BY <2>1, <2>2, <2>3, <2>4, StackPiece DEF MovesTo, b
<1> QED  BY <1>4, <1>5

(* It is found where it was bound. *)
LEMMA IntFound ==
  ASSUME NEW a \in Cursors, NEW hid \in BOOLEAN, Expects(a, hid),
         NEW f, Spills(a, f), Ordered(f.vec), NoneEmpty(f.vec),
         NEW h, NEW x, Holds(f, h, x), IntAt(FetchedTo(a), hid, f.vec, h)
  PROVE  arg_i64(a).val = x
<1> DEFINE k == NextIntParam(a)
<1>1. Skip(FetchedTo(a), hid) = k
  BY SysVAssumption DEF Skip, FetchedTo, At, NextIntParam, Expects, Cursors
<1>2. FetchedTo(a).sp = a.stackPtr
  BY DEF FetchedTo, At
<1> HIDE DEF k
<1>3. CASE k < NumIntRegs
  <2>1. arg_i64(a).val = a.iRegs[k] /\ h.bank = "int" /\ h.k = k
    BY <1>1, <1>3 DEF arg_i64, k, IntAt, Home
  <2> QED  BY <2>1 DEF Holds, Spills
<1>4. CASE ~(k < NumIntRegs)
  <2>1. arg_i64(a).val = AtStackPtr(a) /\ StackAt(a.stackPtr, f.vec, h)
    BY <1>1, <1>2, <1>4 DEF arg_i64, k, IntAt
  <2>2. AtStackPtr(a) = f.vec[h.k].val
    BY <2>1, SegmentFound DEF StackAt, Spills
  <2> QED  BY <2>1, <2>2 DEF Holds, StackAt
<1> QED  BY <1>3, <1>4

(* The same for a float. *)
LEMMA FloatMoves ==
  ASSUME NEW a \in Cursors
  PROVE  MovesTo(a, arg_f64(a).args, AfterFloat(FetchedTo(a))) /\ arg_f64(a).val \in Pieces
<1> DEFINE b == arg_f64(a).args
<1>1. FetchedTo(a).i = a.iCount /\ FetchedTo(a).f = a.fCount /\ FetchedTo(a).sp = a.stackPtr
  BY DEF FetchedTo, At
<1>2. CASE a.fCount < NumFloatRegs
  <2>1. a.fCount + 1 \in 0 .. NumFloatRegs /\ a.fCount \in FltRegs
    BY <1>2, SysVAssumption DEF FltRegs, Cursors
  <2>2. b = [a EXCEPT !.fCount = a.fCount + 1] /\ arg_f64(a).val = a.fRegs[a.fCount]
    BY <1>2 DEF arg_f64
  <2>3. a.fRegs[a.fCount] \in Pieces
    BY <2>1 DEF Cursors
  <2> HIDE DEF b
  <2>4. b \in Cursors
    BY <2>1, <2>2 DEF Cursors
  <2>5. /\ b.iCount = a.iCount /\ b.fCount = a.fCount + 1 /\ b.stackPtr = a.stackPtr
        /\ b.aggrReturnReg = a.aggrReturnReg /\ b.aggrs = a.aggrs
        /\ b.iRegs = a.iRegs /\ b.fRegs = a.fRegs /\ b.stack = a.stack
    BY <2>2 DEF Cursors
  <2>6. FetchedTo(b) = AfterFloat(FetchedTo(a))
    BY <1>1, <1>2, <2>5 DEF AfterFloat, FetchedTo
  <2> QED  BY <2>2, <2>3, <2>4, <2>5, <2>6 DEF MovesTo, b
<1>3. CASE ~(a.fCount < NumFloatRegs)
  <2>1. b = [a EXCEPT !.stackPtr = a.stackPtr + 8] /\ arg_f64(a).val = AtStackPtr(a)
    BY <1>3 DEF arg_f64
  <2> HIDE DEF b
  <2>2. b \in Cursors
    <3>1. a.stackPtr + 8 \in Nat
      BY DEF Cursors
    <3> QED  BY <2>1, <3>1 DEF Cursors
  <2>3. /\ b.iCount = a.iCount /\ b.fCount = a.fCount /\ b.stackPtr = a.stackPtr + 8
        /\ b.aggrReturnReg = a.aggrReturnReg /\ b.aggrs = a.aggrs
        /\ b.iRegs = a.iRegs /\ b.fRegs = a.fRegs /\ b.stack = a.stack
    BY <2>1 DEF Cursors
  <2>4. FetchedTo(b) = AfterFloat(FetchedTo(a))
    BY <1>1, <1>3, <2>3 DEF AfterFloat, FetchedTo
  <2> QED  BY <2>1, <2>2, <2>3, <2>4, StackPiece DEF MovesTo, b
<1> QED  BY <1>2, <1>3

LEMMA FloatFound ==
  ASSUME NEW a \in Cursors, NEW f, Spills(a, f), Ordered(f.vec), NoneEmpty(f.vec),
         NEW h, NEW x, Holds(f, h, x), FloatAt(FetchedTo(a), f.vec, h)
  PROVE  arg_f64(a).val = x
<1>1. FetchedTo(a).f = a.fCount /\ FetchedTo(a).sp = a.stackPtr
  BY DEF FetchedTo, At
<1>2. CASE a.fCount < NumFloatRegs
  <2>1. arg_f64(a).val = a.fRegs[a.fCount] /\ h.bank = "float" /\ h.k = a.fCount
    BY <1>1, <1>2 DEF arg_f64, FloatAt, Home
  <2> QED  BY <2>1 DEF Holds, Spills
<1>3. CASE ~(a.fCount < NumFloatRegs)
  <2>1. arg_f64(a).val = AtStackPtr(a) /\ StackAt(a.stackPtr, f.vec, h)
    BY <1>1, <1>3 DEF arg_f64, FloatAt
  <2>2. AtStackPtr(a) = f.vec[h.k].val
    BY <2>1, SegmentFound DEF StackAt, Spills
  <2> QED  BY <2>1, <2>2 DEF Holds, StackAt
<1> QED  BY <1>2, <1>3

(* And for an eightbyte of either class. *)
LEMMA EightbyteMoves ==
  ASSUME NEW a \in Cursors, NEW hid \in BOOLEAN, Expects(a, hid), NEW clz
  PROVE  /\ MovesTo(a, FetchEightbyte(a, clz).args, AfterEightbyte(FetchedTo(a), hid, clz))
         /\ FetchEightbyte(a, clz).val \in Pieces
BY IntMoves, FloatMoves DEF FetchEightbyte, AfterEightbyte

LEMMA EightbyteFound ==
  ASSUME NEW a \in Cursors, NEW hid \in BOOLEAN, Expects(a, hid), NEW clz,
         NEW f, Spills(a, f), Ordered(f.vec), NoneEmpty(f.vec),
         NEW h, NEW x, Holds(f, h, x), EightbyteAt(FetchedTo(a), hid, clz, f.vec, h)
  PROVE  FetchEightbyte(a, clz).val = x
BY IntFound, FloatFound DEF FetchEightbyte, EightbyteAt

(* The pieces of an argument, where they are. *)
PiecesOf(arg) == [j \in 1 .. Len(arg.at) |-> PieceAt(arg, j)]

LEMMA PiecesOfOne ==
  ASSUME NEW arg, Len(arg.at) = 1
  PROVE  PiecesOf(arg) = <<PieceAt(arg, 1)>>
BY DEF PiecesOf

LEMMA PiecesOfTwo ==
  ASSUME NEW arg, Len(arg.at) = 2
  PROVE  PiecesOf(arg) = <<PieceAt(arg, 1), PieceAt(arg, 2)>>
BY DEF PiecesOf

(* An argument in place: at its position's homes, which hold its pieces. *)
InPlace(f, p, hid, arg) ==
  /\ arg \in Args
  /\ Intact(f, arg)
  /\ ArgAt(p, hid, arg.type, f.vec, arg.at)
  /\ Ordered(f.vec) /\ NoneEmpty(f.vec)

(* Taking the next description. *)
LEMMA TakeDescr ==
  ASSUME NEW a \in Cursors, a.aggrs # <<>>, NEW b, b = [a EXCEPT !.aggrs = Tail(@)]
  PROVE  /\ b \in Cursors /\ FetchedTo(b) = FetchedTo(a)
         /\ b.aggrReturnReg = a.aggrReturnReg /\ b.aggrs = Tail(a.aggrs)
         /\ b.iRegs = a.iRegs /\ b.fRegs = a.fRegs /\ b.stack = a.stack
<1>1. Tail(a.aggrs) \in Seq(Aggrs \cup {NullAggr})
  BY DEF Cursors
<1> DEFINE t == Tail(a.aggrs)
<1>2. b = [a EXCEPT !.aggrs = t]
  OBVIOUS
<1> HIDE DEF t
<1>3. /\ b \in Cursors /\ b.aggrs = t
      /\ b.stackPtr = a.stackPtr /\ b.iCount = a.iCount /\ b.fCount = a.fCount
      /\ b.aggrReturnReg = a.aggrReturnReg
      /\ b.iRegs = a.iRegs /\ b.fRegs = a.fRegs /\ b.stack = a.stack
  BY <1>1, <1>2 DEF Cursors, t
<1> QED  BY <1>3 DEF FetchedTo, t

(* Fetching an aggregate that is described. *)
LEMMA AggrFetched ==
  ASSUME NEW a \in Cursors, NEW hid \in BOOLEAN, Expects(a, hid),
         NEW ag \in Aggrs, a.aggrs # <<>>, Head(a.aggrs) = ag,
         NEW b, b = [a EXCEPT !.aggrs = Tail(@)]
  PROVE  /\ MovesTo(b, dcbArgAggr(a).args, AfterAggr(FetchedTo(a), hid, ag))
         /\ dcbArgAggr(a).val \in Seq(Pieces)
         /\ \A f, arg : Spills(a, f) /\ InPlace(f, FetchedTo(a), hid, arg) /\ arg.type = ag
              => dcbArgAggr(a).val = PiecesOf(arg)
<1> DEFINE r == dcbArgAggr(a)
           p == FetchedTo(a)
           c == Classes[ag][1]
           d == Classes[ag][2]
<1>1. ag # NullAggr
  BY SysVAssumption
<1>2. /\ b \in Cursors /\ FetchedTo(b) = p /\ Expects(b, hid)
      /\ \A f : Spills(a, f) => Spills(b, f)
  BY TakeDescr DEF Expects, Spills
<1>3. FetchFromStack(b, ag) <=> Stacked(p, ag)
  BY <1>2 DEF FetchFromStack, Stacked, FetchedTo, At
<1> SUFFICES
      /\ MovesTo(b, r.args, AfterAggr(p, hid, ag))
      /\ r.val \in Seq(Pieces)
      /\ \A f, arg : Spills(b, f) /\ InPlace(f, p, hid, arg) /\ arg.type = ag
           => r.val = PiecesOf(arg)
  BY <1>2
<1>4. CASE Stacked(p, ag)
  <2> DEFINE e == [b EXCEPT !.stackPtr = @ + RoundUp8(Size[ag])]
  <2>1. r = [args |-> e, val |-> <<AtStackPtr(b)>>]
    BY <1>1, <1>3, <1>4, Zenon DEF dcbArgAggr
  <2>2. r.args = e /\ r.val = <<AtStackPtr(b)>>
    BY <2>1
  <2>3. b.stackPtr + RoundUp8(Size[ag]) \in Nat
    BY <1>2, AggrSizes, SMTT(20) DEF Cursors
  <2>4. /\ e \in Cursors
        /\ e.stackPtr = b.stackPtr + RoundUp8(Size[ag])
        /\ e.iCount = b.iCount /\ e.fCount = b.fCount
        /\ e.aggrReturnReg = b.aggrReturnReg /\ e.aggrs = b.aggrs
        /\ e.iRegs = b.iRegs /\ e.fRegs = b.fRegs /\ e.stack = b.stack
    BY <1>2, <2>3 DEF Cursors
  <2> HIDE DEF e, r
  <2>5. MovesTo(b, e, AfterAggr(p, hid, ag))
    BY <1>2, <1>4, <2>4 DEF MovesTo, AfterAggr, FetchedTo, At
  <2>6. r.val \in Seq(Pieces)
    BY <1>2, <2>2, StackPiece
  <2>7. ASSUME NEW f, NEW arg, Spills(b, f), InPlace(f, p, hid, arg), arg.type = ag
        PROVE  r.val = PiecesOf(arg)
    <3>1. Len(arg.at) = 1 /\ StackAt(p.sp, f.vec, arg.at[1])
      BY <1>4, <2>7 DEF InPlace, ArgAt, AggrAt
    <3>2. 1 \in DOMAIN arg.at
      BY <2>7, <3>1 DEF InPlace, Args
    <3>3. Holds(f, arg.at[1], PieceAt(arg, 1))
      BY <2>7, <3>2 DEF InPlace, Intact
    <3>4. b.stackPtr = p.sp
      BY <1>2 DEF FetchedTo, At
    <3>5. AtStackPtr(b) = f.vec[arg.at[1].k].val
      BY <1>2, <2>7, <3>1, <3>4, SegmentFound, ZenonT(40) DEF StackAt, Spills, InPlace
    <3>6. AtStackPtr(b) = PieceAt(arg, 1)
      BY <3>1, <3>3, <3>5 DEF Holds, StackAt
    <3> QED  BY <2>2, <3>1, <3>6, PiecesOfOne
  <2> QED  BY <2>2, <2>5, <2>6, <2>7
<1>5. ASSUME ~Stacked(p, ag)  PROVE ~InMemory(ag)
  BY <1>5 DEF Stacked
<1>6. CASE ~Stacked(p, ag) /\ Eightbytes(ag) = 0
  <2>1. r.args = b /\ r.val = <<>>
    BY <1>1, <1>3, <1>6 DEF dcbArgAggr
  <2> HIDE DEF r
  <2>2. MovesTo(b, b, AfterAggr(p, hid, ag))
    BY <1>2, <1>6 DEF MovesTo, AfterAggr
  <2>3. <<>> \in Seq(Pieces)
    OBVIOUS
  <2>4. ASSUME NEW f, NEW arg, Spills(b, f), InPlace(f, p, hid, arg), arg.type = ag
        PROVE  r.val = PiecesOf(arg)
    <3>1. Len(arg.at) = 0
      BY <1>6, <2>4 DEF InPlace, ArgAt, AggrAt
    <3> QED  BY <2>1, <3>1 DEF PiecesOf
  <2> QED  BY <2>1, <2>2, <2>3, <2>4
<1>7. CASE ~Stacked(p, ag) /\ Eightbytes(ag) = 1
  <2> DEFINE q == FetchEightbyte(b, c)
  <2>1. r.args = q.args /\ r.val = <<q.val>>
    BY SMTT(60), <1>1, <1>3, <1>7 DEF dcbArgAggr, FetchOne
  <2>2. MovesTo(b, q.args, AfterEightbyte(p, hid, c)) /\ q.val \in Pieces
    BY <1>2, EightbyteMoves
  <2>3. AfterAggr(p, hid, ag) = AfterEightbyte(p, hid, c)
    BY <1>7 DEF AfterAggr, AfterFirst
  <2> HIDE DEF r
  <2>4. ASSUME NEW f, NEW arg, Spills(b, f), InPlace(f, p, hid, arg), arg.type = ag
        PROVE  r.val = PiecesOf(arg)
    <3>1. Len(arg.at) = 1 /\ EightbyteAt(p, hid, c, f.vec, arg.at[1])
      BY <1>7, <2>4 DEF InPlace, ArgAt, AggrAt
    <3>2. 1 \in DOMAIN arg.at
      BY <2>4, <3>1 DEF InPlace, Args
    <3>3. Holds(f, arg.at[1], PieceAt(arg, 1))
      BY <2>4, <3>2 DEF InPlace, Intact
    <3>4. q.val = PieceAt(arg, 1)
      BY <1>2, <2>4, <3>1, <3>3, EightbyteFound DEF InPlace
    <3> QED  BY <2>1, <3>1, <3>4, PiecesOfOne
  <2> HIDE DEF q
  <2>5. <<q.val>> \in Seq(Pieces)
    BY <2>2
  <2> QED  BY <2>1, <2>2, <2>3, <2>4, <2>5
<1>8. CASE ~Stacked(p, ag) /\ Eightbytes(ag) = 2
  <2> DEFINE q == FetchEightbyte(b, c)
             u == q.args
             w == FetchEightbyte(u, d)
  <2>1. r.args = w.args /\ r.val = <<q.val, w.val>>
    <3>1. r = FetchTwo(b, c, d)
      BY <1>1, <1>3, <1>8 DEF dcbArgAggr
    <3>2. FetchTwo(b, c, d) = [args |-> w.args, val |-> <<q.val, w.val>>]
      BY Zenon DEF FetchTwo
    <3> HIDE DEF r, q, u, w
    <3>3. r = [args |-> w.args, val |-> <<q.val, w.val>>]
      BY <3>1, <3>2
    <3> QED  BY <3>3
  <2>2. MovesTo(b, u, AfterEightbyte(p, hid, c)) /\ q.val \in Pieces
    BY <1>2, EightbyteMoves
  <2> HIDE DEF r
  <2>3. /\ u \in Cursors /\ Expects(u, hid) /\ FetchedTo(u) = AfterFirst(p, hid, ag)
        /\ \A f : Spills(b, f) => Spills(u, f)
    BY <1>2, <2>2 DEF MovesTo, Expects, Spills, AfterFirst
  <2>4. MovesTo(u, w.args, AfterEightbyte(FetchedTo(u), hid, d)) /\ w.val \in Pieces
    BY <2>3, EightbyteMoves
  <2>5. AfterAggr(p, hid, ag) = AfterEightbyte(FetchedTo(u), hid, d)
    BY <1>8, <2>3 DEF AfterAggr
  <2>6. ASSUME NEW f, NEW arg, Spills(b, f), InPlace(f, p, hid, arg), arg.type = ag
        PROVE  r.val = PiecesOf(arg)
    <3>1. /\ Len(arg.at) = 2 /\ EightbyteAt(p, hid, c, f.vec, arg.at[1])
          /\ EightbyteAt(FetchedTo(u), hid, d, f.vec, arg.at[2])
      BY <1>8, <2>3, <2>6 DEF InPlace, ArgAt, AggrAt
    <3>2. 1 \in DOMAIN arg.at /\ 2 \in DOMAIN arg.at
      BY <2>6, <3>1 DEF InPlace, Args
    <3>3. Holds(f, arg.at[1], PieceAt(arg, 1)) /\ Holds(f, arg.at[2], PieceAt(arg, 2))
      BY <2>6, <3>2 DEF InPlace, Intact
    <3>4. q.val = PieceAt(arg, 1)
      BY <1>2, <2>6, <3>1, <3>3, EightbyteFound DEF InPlace
    <3>5. w.val = PieceAt(arg, 2)
      BY <2>3, <2>6, <3>1, <3>3, EightbyteFound DEF InPlace
    <3> QED  BY <2>1, <3>1, <3>4, <3>5, PiecesOfTwo
  <2> HIDE DEF q, w, u
  <2>7. <<q.val, w.val>> \in Seq(Pieces)
    BY <2>2, <2>4
  <2>8. MovesTo(b, w.args, AfterAggr(p, hid, ag))
    BY <2>2, <2>4, <2>5 DEF MovesTo
  <2> QED  BY <2>1, <2>6, <2>7, <2>8
<1> QED  BY <1>4, <1>5, <1>6, <1>7, <1>8, AggrCases

(* Fetching any argument.                                                  *)
ArgTypes == Aggrs \cup {NullAggr, "int", "float"}

LEMMA ArgFetched ==
  ASSUME NEW a \in Cursors, NEW hid \in BOOLEAN, Expects(a, hid), NEW type \in ArgTypes,
         IsAggr(type) => a.aggrs # <<>> /\ Head(a.aggrs) = type,
         NEW r, r = dcbArg(a, type)
  PROVE  /\ r.args \in Cursors
         /\ FetchedTo(r.args) = After(FetchedTo(a), hid, type)
         /\ r.args.aggrReturnReg = a.aggrReturnReg
         /\ r.args.aggrs = IF IsAggr(type) THEN Tail(a.aggrs) ELSE a.aggrs
         /\ r.args.iRegs = a.iRegs /\ r.args.fRegs = a.fRegs /\ r.args.stack = a.stack
         /\ r.val \in Seq(Pieces)
         /\ \A f, arg : Spills(a, f) /\ InPlace(f, FetchedTo(a), hid, arg) /\ arg.type = type
              => r.val = PiecesOf(arg)
<1> DEFINE p == FetchedTo(a)
<1>1. "int" \notin Aggrs /\ "float" \notin Aggrs /\ NullAggr \notin Aggrs
      /\ "int" # NullAggr /\ "float" # NullAggr
  BY SysVAssumption DEF NullAggr
<1>2. \A f, arg, h : InPlace(f, p, hid, arg) /\ Len(arg.at) = 1
        => Holds(f, arg.at[1], PieceAt(arg, 1)) /\ PiecesOf(arg) = <<PieceAt(arg, 1)>>
  BY PiecesOfOne DEF InPlace, Intact, Args
<1>3. CASE type = "int"
  <2> DEFINE q == arg_i64(a)
  <2>1. r = [args |-> q.args, val |-> <<q.val>>] /\ ~IsAggr(type)
    BY <1>1, <1>3 DEF dcbArg, IsAggr
  <2>2. MovesTo(a, q.args, AfterInt(p, hid)) /\ q.val \in Pieces
    BY IntMoves
  <2>3. After(p, hid, type) = AfterInt(p, hid)
    BY <1>1, <1>3 DEF After
  <2>4. ASSUME NEW f, NEW arg, Spills(a, f), InPlace(f, p, hid, arg), arg.type = type
        PROVE  <<q.val>> = PiecesOf(arg)
    <3>1. Len(arg.at) = 1 /\ IntAt(p, hid, f.vec, arg.at[1])
      BY <1>1, <1>3, <2>4 DEF InPlace, ArgAt
    <3>2. q.val = PieceAt(arg, 1)
      BY <1>2, <2>4, <3>1, IntFound DEF InPlace
    <3> QED  BY <1>2, <2>4, <3>1, <3>2
  <2> HIDE DEF q
  <2> QED  BY <2>1, <2>2, <2>3, <2>4 DEF MovesTo
<1>4. CASE type = "float"
  <2> DEFINE q == arg_f64(a)
  <2>1. r = [args |-> q.args, val |-> <<q.val>>] /\ ~IsAggr(type)
    BY <1>1, <1>4 DEF dcbArg, IsAggr
  <2>2. MovesTo(a, q.args, AfterFloat(p)) /\ q.val \in Pieces
    BY FloatMoves
  <2>3. After(p, hid, type) = AfterFloat(p)
    BY <1>1, <1>4 DEF After
  <2>4. ASSUME NEW f, NEW arg, Spills(a, f), InPlace(f, p, hid, arg), arg.type = type
        PROVE  <<q.val>> = PiecesOf(arg)
    <3>1. Len(arg.at) = 1 /\ FloatAt(p, f.vec, arg.at[1])
      BY <1>1, <1>4, <2>4 DEF InPlace, ArgAt
    <3>2. q.val = PieceAt(arg, 1)
      BY <1>2, <2>4, <3>1, FloatFound DEF InPlace
    <3> QED  BY <1>2, <2>4, <3>1, <3>2
  <2> HIDE DEF q
  <2> QED  BY <2>1, <2>2, <2>3, <2>4 DEF MovesTo
<1>5. ASSUME IsAggr(type)
      PROVE  r = dcbArgAggr(a)
  <2>1. type # "int" /\ type # "float"
    BY <1>1, <1>5 DEF IsAggr
  <2> QED  BY <1>5, <2>1 DEF dcbArg
<1>6. CASE type = NullAggr
  <2> DEFINE b == [a EXCEPT !.aggrs = Tail(@)]
             q == arg_i64(b)
  <2>1. IsAggr(type) /\ Head(a.aggrs) = NullAggr /\ a.aggrs # <<>>
    BY <1>6 DEF IsAggr
  <2>2. r = [args |-> q.args, val |-> <<q.val>>]
    BY <1>5, <2>1 DEF dcbArgAggr
  <2> HIDE DEF q
  <2>3. /\ b \in Cursors /\ FetchedTo(b) = p /\ b.aggrs = Tail(a.aggrs)
        /\ b.aggrReturnReg = a.aggrReturnReg
        /\ b.iRegs = a.iRegs /\ b.fRegs = a.fRegs /\ b.stack = a.stack
    BY <2>1, TakeDescr
  <2> HIDE DEF b
  <2>4. Expects(b, hid) /\ \A f : Spills(a, f) => Spills(b, f)
    BY <2>3 DEF Expects, Spills
  <2>5. MovesTo(b, q.args, AfterInt(p, hid)) /\ q.val \in Pieces
    BY <2>3, <2>4, IntMoves DEF q
  <2>6. After(p, hid, type) = AfterInt(p, hid)
    BY <1>1, <1>6 DEF After, NullAggr
  <2>7. ASSUME NEW f, NEW arg, Spills(a, f), InPlace(f, p, hid, arg), arg.type = type
        PROVE  <<q.val>> = PiecesOf(arg)
    <3>1. Len(arg.at) = 1 /\ IntAt(p, hid, f.vec, arg.at[1])
      BY <1>1, <1>6, <2>7 DEF InPlace, ArgAt, NullAggr
    <3>2. Holds(f, arg.at[1], PieceAt(arg, 1))
      BY <1>2, <2>7, <3>1
    <3>3. q.val = PieceAt(arg, 1)
      BY <2>3, <2>4, <2>7, <3>1, <3>2, IntFound DEF InPlace, q
    <3> QED  BY <1>2, <2>7, <3>1, <3>3
  <2> QED  BY <2>1, <2>2, <2>3, <2>5, <2>6, <2>7 DEF MovesTo
<1>7. CASE type \in Aggrs
  <2> DEFINE b == [a EXCEPT !.aggrs = Tail(@)]
  <2>1. IsAggr(type) /\ Head(a.aggrs) = type /\ a.aggrs # <<>>
    BY <1>7 DEF IsAggr
  <2>2. /\ b.aggrs = Tail(a.aggrs) /\ b.aggrReturnReg = a.aggrReturnReg
        /\ b.iRegs = a.iRegs /\ b.fRegs = a.fRegs /\ b.stack = a.stack
    BY <2>1, TakeDescr
  <2>3. /\ MovesTo(b, r.args, AfterAggr(p, hid, type))
        /\ r.val \in Seq(Pieces)
        /\ \A f, arg : Spills(a, f) /\ InPlace(f, p, hid, arg) /\ arg.type = type
              => r.val = PiecesOf(arg)
    BY <1>5, <1>7, <2>1, AggrFetched
  <2>4. After(p, hid, type) = AfterAggr(p, hid, type)
    BY <1>7 DEF After
  <2> HIDE DEF b
  <2> QED  BY <2>1, <2>2, <2>3, <2>4 DEF MovesTo
<1> QED  BY <1>3, <1>4, <1>6, <1>7 DEF ArgTypes

-----------------------------------------------------------------------------
(* An argument of a type is recorded with its homes, and the CallVM moved. *)
Binding(type, homes) ==
  /\ type \in ArgTypes
  /\ Bind(type, homes)
  /\ Advances(vm, vm')
  /\ \A hid \in BOOLEAN : Reserves(vm, hid) /\ KeptAll(homes) =>
       /\ BoundTo(vm') = After(BoundTo(vm), hid, type)
       /\ ArgAt(BoundTo(vm), hid, type, vm'.vec, homes)

(* Each of the dcArg functions does that. *)
LEMMA ScalarBinding ==
  ASSUME vm \in VMs, Tag \in Tags, ReturnReg, dcArgLongLong \/ dcArgPointer \/ dcArgDouble
  PROVE  \E type \in {"int", "float"} : \E homes : Binding(type, homes)
<1> DEFINE x == <<Tag, 1>>
<1>1. x \in Pieces
  BY DEF Pieces
<1>2. "int" \notin Aggrs /\ "float" \notin Aggrs
  BY SysVAssumption
<1>3. \E hid \in BOOLEAN : Reserves(vm, hid)
  BY DEF ReturnReg, Reserves
<1> HIDE DEF x
<1>4. CASE dcArgLongLong \/ dcArgPointer
  <2>1. Bind("int", <<IntHome(vm)>>) /\ vm' = ArgLongLong(vm, x)
    BY <1>1, <1>4, IntTakes DEF dcArgLongLong, dcArgPointer, x
  <2>2. Advances(vm, vm')
    BY <1>1, <1>3, <2>1, IntPlaces
  <2>3. ASSUME NEW hid \in BOOLEAN, Reserves(vm, hid), KeptAll(<<IntHome(vm)>>)
        PROVE  /\ BoundTo(vm') = After(BoundTo(vm), hid, "int")
               /\ ArgAt(BoundTo(vm), hid, "int", vm'.vec, <<IntHome(vm)>>)
    <3>1. IntHome(vm).bank # "lost"
      BY <2>3 DEF KeptAll
    <3>2. /\ BoundTo(vm') = AfterInt(BoundTo(vm), hid)
          /\ IntAt(BoundTo(vm), hid, vm'.vec, IntHome(vm))
      BY <1>1, <2>1, <2>3, <3>1, IntPlaces
    <3> QED  BY <1>2, <3>2 DEF After, ArgAt
  <2> QED  BY <2>1, <2>2, <2>3 DEF Binding, ArgTypes
<1>5. CASE dcArgDouble
  <2>1. Bind("float", <<FloatHome(vm)>>) /\ vm' = ArgDouble(vm, x)
    BY <1>5 DEF dcArgDouble, x
  <2>2. Advances(vm, vm')
    BY <1>1, <2>1, FloatPlaces
  <2>3. ASSUME NEW hid \in BOOLEAN, Reserves(vm, hid), KeptAll(<<FloatHome(vm)>>)
        PROVE  /\ BoundTo(vm') = After(BoundTo(vm), hid, "float")
               /\ ArgAt(BoundTo(vm), hid, "float", vm'.vec, <<FloatHome(vm)>>)
    <3>1. FloatHome(vm).bank # "lost"
      BY <2>3 DEF KeptAll
    <3>2. /\ BoundTo(vm') = AfterFloat(BoundTo(vm))
          /\ FloatAt(BoundTo(vm), vm'.vec, FloatHome(vm))
      BY <1>1, <2>1, <3>1, FloatPlaces
    <3> QED  BY <1>2, <3>2 DEF After, ArgAt
  <2> QED  BY <2>1, <2>2, <2>3 DEF Binding, ArgTypes
<1> QED  BY <1>4, <1>5

LEMMA AggrBinding ==
  ASSUME vm \in VMs, Tag \in Tags, ReturnReg,
         NEW ag \in Aggrs \cup {NullAggr}, dcArgAggr(ag)
  PROVE  \E homes : Binding(ag, homes)
<1> DEFINE x == <<Tag, 1>>
<1>1. x \in Pieces
  BY DEF Pieces
<1>2. NullAggr \notin Aggrs /\ NullAggr # "float"
  BY SysVAssumption DEF NullAggr
<1>3. \E hid \in BOOLEAN : Reserves(vm, hid)
  BY DEF ReturnReg, Reserves
<1> HIDE DEF x
<1>4. CASE ag = NullAggr
  <2>1. Bind(ag, <<IntHome(vm)>>) /\ vm' = ArgLongLong(vm, x)
    BY <1>1, <1>4, IntTakes DEF dcArgAggr, x
  <2>2. Advances(vm, vm')
    BY <1>1, <1>3, <2>1, IntPlaces
  <2>3. ASSUME NEW hid \in BOOLEAN, Reserves(vm, hid), KeptAll(<<IntHome(vm)>>)
        PROVE  /\ BoundTo(vm') = After(BoundTo(vm), hid, ag)
               /\ ArgAt(BoundTo(vm), hid, ag, vm'.vec, <<IntHome(vm)>>)
    <3>1. IntHome(vm).bank # "lost"
      BY <2>3 DEF KeptAll
    <3>2. /\ BoundTo(vm') = AfterInt(BoundTo(vm), hid)
          /\ IntAt(BoundTo(vm), hid, vm'.vec, IntHome(vm))
      BY <1>1, <2>1, <2>3, <3>1, IntPlaces
    <3> QED  BY <1>2, <1>4, <3>2 DEF After, ArgAt
  <2> QED  BY <2>1, <2>2, <2>3 DEF Binding, ArgTypes
<1>5. CASE ag # NullAggr
  <2> DEFINE homes == AggrHomes(vm, ag, Tag)
  <2>1. ag \in Aggrs /\ Bind(ag, homes) /\ vm' = ArgAggr(vm, ag, Tag)
    BY <1>5 DEF dcArgAggr
  <2>2. Advances(vm, vm')
    BY <1>3, <2>1, AggrPlaces
  <2>3. ASSUME NEW hid \in BOOLEAN, Reserves(vm, hid), KeptAll(homes)
        PROVE  /\ BoundTo(vm') = After(BoundTo(vm), hid, ag)
               /\ ArgAt(BoundTo(vm), hid, ag, vm'.vec, homes)
    <3>1. /\ BoundTo(vm') = AfterAggr(BoundTo(vm), hid, ag)
          /\ AggrAt(BoundTo(vm), hid, ag, vm'.vec, homes)
      BY <2>1, <2>3, AggrPlaces
    <3> QED  BY <2>1, <3>1 DEF After, ArgAt
  <2> QED  BY <2>1, <2>2, <2>3 DEF Binding, ArgTypes
<1> QED  BY <1>4, <1>5

-----------------------------------------------------------------------------
(* Traces: the positions of all the arguments of a call.                   *)

(* No argument was dropped for want of room. *)
NoneLost(args) == \A n \in DOMAIN args : KeptAll(args[n].at)

(* P[n] is the position after the first n arguments. *)
Trace(P, args, hid, vec) ==
  /\ P \in [0 .. Len(args) -> Pos]
  /\ P[0] = At(0, 0, 0)
  /\ \A n \in 1 .. Len(args) :
       /\ P[n] = After(P[n - 1], hid, args[n].type)
       /\ ArgAt(P[n - 1], hid, args[n].type, vec, args[n].at)

(* C[n] is the number of aggregates among the first n arguments; D lists   *)
(* their descriptions.                                                     *)
Descriptions == Seq(Aggrs \cup {NullAggr})

Listing(C, args, D) ==
  /\ C \in [0 .. Len(args) -> 0 .. Len(D)]
  /\ C[0] = 0 /\ C[Len(args)] = Len(D)
  /\ \A n \in 1 .. Len(args) :
       IF IsAggr(args[n].type) THEN C[n] = C[n - 1] + 1 /\ D[C[n]] = args[n].type
       ELSE C[n] = C[n - 1]

OfResult(r) == IF r = NoRet THEN <<>> ELSE <<r>>

(* The descriptions behind the first c; those left after n arguments.      *)
Behind(D, c) == SubSeq(D, c + 1, Len(D))

Left(C, D, r, n) == Behind(D \o OfResult(r), C[n])

MaxTags      == (0 .. MaxResets) \X (1 .. MaxArgs)
Tagged(args) == \A n \in DOMAIN args : args[n].tag \in MaxTags

(* The arguments bound are on the trace that ends at the CallVM's counts.  *)
(* The trace never passes them: dcBeginCallAggr, which asks for counts of  *)
(* zero, finds that nothing took a register.                               *)
EndsAt(P, s) ==
  \A n \in DOMAIN P : P[n].i <= s.iCount /\ P[n].f <= s.fCount

BoundOnTrace ==
  NoneLost(bound) =>
    \E P : /\ Trace(P, bound, Hidden(ret), vm.vec)
           /\ P[Len(bound)] = BoundTo(vm)
           /\ EndsAt(P, vm)

BoundSide ==
  /\ epoch \in 0 .. MaxResets
  /\ Tagged(bound)
  /\ NoneEmpty(vm.vec)
  /\ descrs \in Descriptions
  /\ \E C : Listing(C, bound, descrs)
  /\ BoundOnTrace

(* A handler is on the trace of its frame. *)
Handlers == [args : Cursors, got : Seq(Seq(Pieces))]

OnTrace(f, h) ==
  \E P : /\ Trace(P, f.args, Hidden(f.ret), f.vec)
         /\ FetchedTo(h.args) = P[Len(h.got)]
         /\ \A n \in 1 .. Len(h.got) : h.got[n] = PiecesOf(f.args[n])

OnListing(f, h) ==
  \E C : \E D \in Descriptions :
    /\ Listing(C, f.args, D)
    /\ h.args.aggrs = Left(C, D, f.ret, Len(h.got))

HandlerOK(f, h) ==
  /\ Len(h.got) <= Len(f.args)
  /\ f.kernel = "x64" /\ Tagged(f.args)
  /\ Ordered(f.vec) /\ NoneEmpty(f.vec)
  /\ Spills(h.args, f)
  /\ Expects(h.args, Hidden(f.ret))
  /\ OnListing(f, h)
  /\ NoneLost(f.args) => OnTrace(f, h)

CallSide ==
  /\ handlers \in Seq(Handlers)
  /\ Len(handlers) = Len(frames)
  /\ \A d \in DOMAIN handlers : HandlerOK(frames[d], handlers[d])

RoundtripIInv ==
  /\ IInv
  /\ BoundSide
  /\ CallSide
  /\ ResultArrivesAfterFetches

-----------------------------------------------------------------------------
(* Binding.                                                                *)

(* The list of arguments with one more. *)
LEMMA OneMore ==
  ASSUME NEW s \in Seq(Args), NEW x \in Args
  PROVE  /\ Append(s, x) \in Seq(Args) /\ Len(Append(s, x)) = Len(s) + 1
         /\ DOMAIN Append(s, x) = 1 .. Len(s) + 1 /\ DOMAIN s = 1 .. Len(s) /\ Len(s) \in Nat
         /\ \A n \in 1 .. Len(s) : Append(s, x)[n] = s[n]
         /\ Append(s, x)[Len(s) + 1] = x
OBVIOUS

(* Indices of a list with one more. *)
LEMMA LastIndex ==
  ASSUME NEW k \in Nat, NEW n \in 1 .. k + 1
  PROVE  n = k + 1 \/ (n \in 1 .. k /\ n - 1 \in 0 .. k)
OBVIOUS

(* The trace of one more argument. *)
LEMMA TraceExtended ==
  ASSUME NEW P, NEW args \in Seq(Args), NEW hid, NEW v, Trace(P, args, hid, v),
         NEW u, Extends(v, u), NEW arg \in Args, NEW q \in Pos,
         q = After(P[Len(args)], hid, arg.type),
         ArgAt(P[Len(args)], hid, arg.type, u, arg.at),
         NEW Q, Q = [n \in 0 .. Len(args) + 1 |-> IF n = Len(args) + 1 THEN q ELSE P[n]]
  PROVE  Trace(Q, Append(args, arg), hid, u)
<1> DEFINE k == Len(args)
           l == Append(args, arg)
<1>1. /\ Len(l) = k + 1 /\ k \in Nat
      /\ \A n \in 1 .. k : l[n] = args[n]
      /\ l[k + 1] = arg
  BY OneMore
<1> HIDE DEF l
<1>2. /\ P \in [0 .. k -> Pos] /\ P[0] = At(0, 0, 0)
      /\ \A n \in 1 .. k : /\ P[n] = After(P[n - 1], hid, args[n].type)
                           /\ ArgAt(P[n - 1], hid, args[n].type, v, args[n].at)
  BY DEF Trace
<1> HIDE DEF k
<1>3. /\ Q \in [0 .. k + 1 -> Pos] /\ Q[k + 1] = q
      /\ \A n \in 0 .. k : Q[n] = P[n]
  BY <1>1, <1>2 DEF k
<1>4. Q[0] = At(0, 0, 0)
  BY <1>1, <1>2, <1>3
<1>5. ASSUME NEW n \in 1 .. k + 1
      PROVE  /\ Q[n] = After(Q[n - 1], hid, l[n].type)
             /\ ArgAt(Q[n - 1], hid, l[n].type, u, l[n].at)
  <2>1. CASE n = k + 1
    <3>1. Q[n - 1] = P[k] /\ Q[n] = q /\ l[n] = arg
      BY <2>1, <1>1, <1>3
    <3> QED  BY <3>1 DEF k
  <2>2. CASE n \in 1 .. k /\ n - 1 \in 0 .. k
    <3>1. Q[n - 1] = P[n - 1] /\ Q[n] = P[n] /\ l[n] = args[n]
      BY <2>2, <1>1, <1>3
    <3>2. ArgAt(P[n - 1], hid, args[n].type, v, args[n].at)
      BY <2>2, <1>2
    <3>3. ArgAt(P[n - 1], hid, args[n].type, u, args[n].at)
      BY <3>2, StillAt
    <3> QED  BY <2>2, <1>2, <3>1, <3>3
  <2> QED  BY <1>1, <2>1, <2>2, LastIndex
<1> QED  BY <1>1, <1>3, <1>4, <1>5 DEF Trace, l

(* The listing of one more argument. *)
LEMMA ListingExtended ==
  ASSUME NEW args \in Seq(Args), NEW D \in Descriptions, NEW C, Listing(C, args, D),
         NEW arg \in Args, NEW E,
         E = IF IsAggr(arg.type) THEN Append(D, arg.type) ELSE D
  PROVE  E \in Descriptions /\ \E B : Listing(B, Append(args, arg), E)
<1> DEFINE k == Len(args)
           l == Append(args, arg)
           B == [n \in 0 .. k + 1 |-> IF n = k + 1 THEN Len(E) ELSE C[n]]
<1>1. /\ Len(l) = k + 1 /\ k \in Nat
      /\ \A n \in 1 .. k : l[n] = args[n]
      /\ l[k + 1] = arg
  BY OneMore
<1>2. /\ E \in Descriptions /\ Len(D) \in Nat
      /\ Len(E) = IF IsAggr(arg.type) THEN Len(D) + 1 ELSE Len(D)
      /\ \A n \in 1 .. Len(D) : E[n] = D[n]
      /\ IsAggr(arg.type) => E[Len(E)] = arg.type
  BY DEF Descriptions, IsAggr
<1> HIDE DEF l
<1>3. /\ C \in [0 .. k -> 0 .. Len(D)] /\ C[0] = 0 /\ C[k] = Len(D)
      /\ \A n \in 1 .. k :
           IF IsAggr(args[n].type) THEN C[n] = C[n - 1] + 1 /\ D[C[n]] = args[n].type
           ELSE C[n] = C[n - 1]
  BY DEF Listing
<1> HIDE DEF k
<1>4. \A n \in 0 .. k : C[n] \in 0 .. Len(D) /\ C[n] \in 0 .. Len(E)
  BY <1>2, <1>3
<1>5. /\ B \in [0 .. k + 1 -> 0 .. Len(E)] /\ B[k + 1] = Len(E)
      /\ \A n \in 0 .. k : B[n] = C[n]
  BY <1>1, <1>2, <1>4
<1> HIDE DEF B
<1>6. B[0] = 0
  BY <1>1, <1>3, <1>5
<1>7. ASSUME NEW n \in 1 .. k + 1
      PROVE  IF IsAggr(l[n].type) THEN B[n] = B[n - 1] + 1 /\ E[B[n]] = l[n].type
             ELSE B[n] = B[n - 1]
  <2>1. CASE n = k + 1
    <3>1. B[n - 1] = Len(D) /\ B[n] = Len(E) /\ l[n] = arg
      BY <2>1, <1>1, <1>3, <1>5
    <3> QED  BY <1>2, <3>1
  <2>2. CASE n \in 1 .. k /\ n - 1 \in 0 .. k
    <3>1. B[n - 1] = C[n - 1] /\ B[n] = C[n] /\ l[n] = args[n]
      BY <2>2, <1>1, <1>5
    <3>2. IsAggr(args[n].type) => C[n] \in 1 .. Len(D)
      BY <2>2, <1>2, <1>3, <1>4
    <3> QED  BY <2>2, <1>2, <1>3, <3>1, <3>2
  <2> QED  BY <1>1, <2>1, <2>2, LastIndex
<1>8. Listing(B, l, E)
  BY <1>1, <1>5, <1>6, <1>7 DEF Listing
<1> QED  BY <1>2, <1>8 DEF l

(* The CallVM reserves a register as the announced result asks, and its    *)
(* counts are a position.                                                  *)
LEMMA AtPosition ==
  ASSUME IInv
  PROVE  /\ vm \in VMs /\ bound \in Seq(Args) /\ Tag \in Tags /\ epoch \in Nat
         /\ Reserves(vm, Hidden(ret)) /\ Hidden(ret) \in BOOLEAN
         /\ BoundTo(vm) \in Pos
<1>1. vm \in VMs /\ bound \in Seq(Args) /\ Tag \in Tags /\ epoch \in Nat
  BY DEF IInv, TypeOK, Tag, Tags
<1>2. Reserves(vm, Hidden(ret)) /\ Hidden(ret) \in BOOLEAN
  BY DEF IInv, ReturnReg, Reserves, Hidden
<1>3. BoundTo(vm) \in Pos
  BY <1>1 DEF BoundTo, At, Pos, VMs
<1> QED  BY <1>1, <1>2, <1>3

(* The last of a list is one of its elements. *)
LEMMA LastTyped ==
  ASSUME NEW S, NEW s \in Seq(S), NEW x, Append(s, x) \in Seq(S)
  PROVE  x \in S
<1>1. Append(s, x)[Len(s) + 1] = x /\ Len(Append(s, x)) = Len(s) + 1 /\ Len(s) \in Nat
  OBVIOUS
<1>2. Len(s) + 1 \in DOMAIN Append(s, x)
  BY <1>1
<1> QED  BY <1>1, <1>2

(* Binding one more argument continues the trace. *)
LEMMA BindKeepsBound ==
  ASSUME IInv, IInv', BoundSide, NEW type, NEW homes, Binding(type, homes),
         descrs' = IF IsAggr(type) THEN Append(descrs, type) ELSE descrs
  PROVE  BoundSide'
<1> DEFINE arg == [type |-> type, tag |-> Tag, at |-> homes]
           k   == Len(bound)
<1>1. /\ bound' = Append(bound, arg) /\ k < MaxArgs
      /\ ret' = ret /\ epoch' = epoch /\ Advances(vm, vm')
  BY DEF Binding, Bind
<1>2. arg.type = type /\ arg.tag = <<epoch, k + 1>> /\ arg.at = homes
  BY DEF Tag
<1> HIDE DEF arg
<1>3. bound \in Seq(Args) /\ bound' \in Seq(Args) /\ arg \in Args
  BY <1>1, LastTyped DEF IInv, TypeOK
<1>4. /\ Len(bound') = k + 1 /\ k \in Nat /\ DOMAIN bound = 1 .. k /\ DOMAIN bound' = 1 .. k + 1
      /\ \A n \in 1 .. k : bound'[n] = bound[n]
      /\ bound'[k + 1] = arg
  BY <1>1, <1>3, OneMore
<1> HIDE DEF k
<1>5. \A n \in DOMAIN bound' : n = k + 1 \/ (n \in DOMAIN bound /\ bound'[n] = bound[n])
  BY <1>4
<1>6. epoch' \in 0 .. MaxResets
  BY <1>1 DEF BoundSide
<1>7. Tagged(bound')
  <2>1. k + 1 \in 1 .. MaxArgs
    BY <1>1, <1>4, CallVMAssumption
  <2>2. arg.tag \in MaxTags
    BY <1>2, <2>1 DEF BoundSide, MaxTags
  <2> QED  BY <1>4, <1>5, <2>2 DEF BoundSide, Tagged
<1>8. NoneEmpty(vm'.vec)
  BY <1>1 DEF BoundSide, Advances
<1>9. descrs' \in Descriptions /\ \E C : Listing(C, bound', descrs')
  <2>1. PICK C : Listing(C, bound, descrs)
    BY DEF BoundSide
  <2> QED  BY <1>1, <1>2, <1>3, <2>1, ListingExtended DEF BoundSide
<1>10. BoundOnTrace'
  <2> SUFFICES ASSUME NoneLost(bound')
               PROVE  \E Q : /\ Trace(Q, bound', Hidden(ret), vm'.vec)
                             /\ Q[k + 1] = BoundTo(vm')
                             /\ EndsAt(Q, vm')
    BY <1>1, <1>4 DEF BoundOnTrace
  <2> DEFINE hid == Hidden(ret)
             q   == BoundTo(vm')
  <2>1. NoneLost(bound) /\ KeptAll(homes)
    BY <1>2, <1>4, <1>5 DEF NoneLost
  <2>2. PICK P : Trace(P, bound, hid, vm.vec) /\ P[k] = BoundTo(vm) /\ EndsAt(P, vm)
    BY <2>1 DEF BoundSide, BoundOnTrace, k
  <2>3. /\ q = After(P[k], hid, arg.type)
        /\ ArgAt(P[k], hid, arg.type, vm'.vec, arg.at)
    BY <1>2, <2>1, <2>2, AtPosition DEF Binding
  <2>4. q \in Pos
    BY AtPosition, <1>1 DEF BoundTo, At, Pos, Advances, VMs
  <2> DEFINE Q == [n \in 0 .. k + 1 |-> IF n = k + 1 THEN q ELSE P[n]]
  <2>5. Trace(Q, bound', hid, vm'.vec)
    BY <1>1, <1>3, <2>2, <2>3, <2>4, TraceExtended DEF Advances, k
  <2>6. Q[k + 1] = q /\ DOMAIN Q = 0 .. k + 1 /\ \A n \in 0 .. k : Q[n] = P[n]
    BY <1>4
  <2> HIDE DEF Q, q
  <2>7. EndsAt(Q, vm')
    <3> SUFFICES ASSUME NEW n \in 0 .. k + 1
                 PROVE  Q[n].i <= vm'.iCount /\ Q[n].f <= vm'.fCount
      BY <2>6 DEF EndsAt
    <3>1. CASE n = k + 1
      <4>1. Q[n].i = vm'.iCount /\ Q[n].f = vm'.fCount
        BY <3>1, <2>6 DEF q, BoundTo, At
      <4>2. vm'.iCount \in Int /\ vm'.fCount \in Int
        BY <1>1, CountTypes DEF Advances
      <4> QED  BY <4>1, <4>2
    <3>2. CASE n \in 0 .. k
      <4>1. Q[n] = P[n] /\ n \in DOMAIN P /\ P[n] \in Pos
        BY <3>2, <2>2, <2>6 DEF Trace, k
      <4>2. Q[n].i <= vm.iCount /\ Q[n].f <= vm.fCount /\ Q[n].i \in Int /\ Q[n].f \in Int
        BY <2>2, <4>1, SysVAssumption DEF EndsAt, Pos
      <4>3. /\ vm.iCount \in Int /\ vm.fCount \in Int
            /\ vm'.iCount \in Int /\ vm'.fCount \in Int
        BY <1>1, AtPosition, CountTypes DEF Advances
      <4> QED  BY <1>1, <4>2, <4>3 DEF Advances
    <3> QED  BY <1>4, <3>1, <3>2
  <2> QED  BY <2>5, <2>6, <2>7 DEF q
<1> QED  BY <1>6, <1>7, <1>8, <1>9, <1>10 DEF BoundSide

(* Nothing the bound side depends on has changed. *)
LEMMA SameBoundSide ==
  ASSUME BoundSide, UNCHANGED <<bound, ret, epoch, descrs>>,
         vm'.vec = vm.vec, vm'.vecSize = vm.vecSize,
         vm'.iCount = vm.iCount, vm'.fCount = vm.fCount
  PROVE  BoundSide'
<1>1. BoundTo(vm') = BoundTo(vm) /\ \A P : EndsAt(P, vm) => EndsAt(P, vm')
  BY DEF BoundTo, EndsAt
<1>2. BoundOnTrace'
  BY <1>1 DEF BoundSide, BoundOnTrace
<1> QED  BY <1>2 DEF BoundSide

(* After dcReset nothing is bound. *)
BareVM ==
  /\ bound = <<>> /\ descrs = <<>> /\ epoch \in 0 .. MaxResets
  /\ vm.vec = <<>> /\ vm.vecSize = 0 /\ vm.iCount = 0 /\ vm.fCount = 0

LEMMA NothingBound == BareVM => BoundSide
<1> SUFFICES ASSUME BareVM  PROVE BoundSide
  OBVIOUS
<1> USE DEF BareVM
<1>1. Len(bound) = 0 /\ DOMAIN bound = {} /\ Len(descrs) = 0 /\ DOMAIN vm.vec = {}
  OBVIOUS
<1>2. Tagged(bound) /\ NoneEmpty(vm.vec)
  BY <1>1 DEF Tagged, NoneEmpty
<1>3. descrs \in Descriptions
  BY DEF Descriptions
<1> DEFINE C == [n \in 0 .. 0 |-> 0]
           P == [n \in 0 .. 0 |-> At(0, 0, 0)]
<1>4. C \in [0 .. 0 -> 0 .. 0] /\ C[0] = 0
  OBVIOUS
<1>5. At(0, 0, 0) \in Pos
  BY SysVAssumption DEF At, Pos
<1>6. P \in [0 .. 0 -> Pos] /\ P[0] = At(0, 0, 0)
  BY <1>5
<1> HIDE DEF C, P
<1>7. Listing(C, bound, descrs)
  BY <1>1, <1>4 DEF Listing
<1>8. Trace(P, bound, Hidden(ret), vm.vec)
  BY <1>1, <1>6 DEF Trace
<1>9. P[Len(bound)] = BoundTo(vm)
  BY <1>1, <1>6 DEF BoundTo
<1>10. EndsAt(P, vm)
  <2> SUFFICES ASSUME NEW n \in DOMAIN P  PROVE P[n].i <= 0 /\ P[n].f <= 0
    BY DEF EndsAt
  <2>1. n = 0
    BY <1>6
  <2> QED  BY <1>6, <2>1 DEF At
<1> QED  BY <1>2, <1>3, <1>7, <1>8, <1>9, <1>10 DEF BoundSide, BoundOnTrace

LEMMA NothingBoundNext == BareVM' => BoundSide'
BY NothingBound, PTL

(* An integer, or an eightbyte like one, leaves the count above zero.      *)
LEMMA IntCounted ==
  ASSUME NEW p, p.i \in Nat, NEW hid
  PROVE  /\ AfterInt(p, hid).i \in Nat
         /\ AfterInt(p, hid).i >= 1 /\ AfterInt(p, hid).i >= p.i
<1>1. Skip(p, hid) \in Nat /\ Skip(p, hid) >= p.i
  BY DEF Skip
<1>2. NumIntRegs \in Nat /\ NumIntRegs >= 3
  BY SysVAssumption
<1> QED  BY <1>1, <1>2 DEF AfterInt, At

LEMMA EightbyteCounted ==
  ASSUME NEW p, p.i \in Nat, NEW hid, NEW clz
  PROVE  /\ AfterEightbyte(p, hid, clz).i \in Nat
         /\ AfterEightbyte(p, hid, clz).i >= p.i
         /\ clz = "INTEGER" => AfterEightbyte(p, hid, clz).i >= 1
<1>1. AfterFloat(p).i = p.i
  BY DEF AfterFloat, At
<1> QED  BY <1>1, IntCounted DEF AfterEightbyte

(* An argument that took no integer register did not see whether the first *)
(* one is reserved.                                                        *)
LEMMA ReservedUnseen ==
  ASSUME NEW p, p.i \in Nat, NEW hid, NEW rsv, NEW type, After(p, hid, type).i <= 0
  PROVE  /\ After(p, rsv, type) = After(p, hid, type)
         /\ \A v, homes : ArgAt(p, hid, type, v, homes) => ArgAt(p, rsv, type, v, homes)
<1> DEFINE c == Classes[type][1]
           d == Classes[type][2]
<1>1. CASE type \notin Aggrs /\ type = "float"
  BY <1>1 DEF After, ArgAt
<1>2. CASE type \notin Aggrs /\ type # "float"
  <2>1. After(p, hid, type) = AfterInt(p, hid)
    BY <1>2 DEF After
  <2> QED  BY <2>1, IntCounted
<1>3. CASE type \in Aggrs
  <2> SUFFICES /\ AfterAggr(p, rsv, type) = AfterAggr(p, hid, type)
               /\ \A v, homes : AggrAt(p, hid, type, v, homes) => AggrAt(p, rsv, type, v, homes)
    BY <1>3 DEF After, ArgAt
  <2>1. AfterAggr(p, hid, type).i <= 0
    BY <1>3 DEF After
  <2>2. CASE Stacked(p, type)
    BY <2>2 DEF AfterAggr, AggrAt
  <2>3. CASE ~Stacked(p, type) /\ Eightbytes(type) = 0
    BY <2>3 DEF AfterAggr, AggrAt
  <2>4. CASE ~Stacked(p, type) /\ Eightbytes(type) = 1
    <3>1. AfterAggr(p, hid, type) = AfterEightbyte(p, hid, c)
      BY <2>4 DEF AfterAggr, AfterFirst
    <3>2. c # "INTEGER"
      BY <2>1, <3>1, EightbyteCounted
    <3> QED  BY <2>4, <3>2 DEF AfterAggr, AfterFirst, AfterEightbyte, AggrAt, EightbyteAt
  <2>5. CASE ~Stacked(p, type) /\ Eightbytes(type) = 2
    <3> DEFINE q == AfterEightbyte(p, hid, c)
    <3>1. AfterAggr(p, hid, type) = AfterEightbyte(q, hid, d)
      BY <2>5 DEF AfterAggr, AfterFirst
    <3>2. q.i \in Nat /\ q.i >= p.i /\ (c = "INTEGER" => q.i >= 1)
      BY EightbyteCounted
    <3> HIDE DEF q
    <3>3. c # "INTEGER" /\ d # "INTEGER"
      BY <2>1, <3>1, <3>2, EightbyteCounted
    <3> QED  BY <2>5, <3>3 DEF AfterAggr, AfterFirst, AfterEightbyte, AggrAt, EightbyteAt
  <2>6. ~Stacked(p, type) => ~InMemory(type)
    BY DEF Stacked
  <2> QED  BY <1>3, <2>2, <2>3, <2>4, <2>5, <2>6, AggrCases
<1> QED  BY <1>1, <1>2, <1>3

(* So a trace that never takes one is a trace with or without.             *)
LEMMA TraceUnseen ==
  ASSUME NEW P, NEW args, Len(args) \in Nat, NEW hid, NEW rsv, NEW v, Trace(P, args, hid, v),
         \A n \in DOMAIN P : P[n].i <= 0
  PROVE  Trace(P, args, rsv, v)
<1>1. DOMAIN P = 0 .. Len(args) /\ \A n \in DOMAIN P : P[n] \in Pos
  BY DEF Trace
<1>2. \A n \in 1 .. Len(args) : n \in DOMAIN P /\ n - 1 \in DOMAIN P
  BY <1>1
<1>3. \A n \in DOMAIN P : P[n].i \in Nat
  BY <1>1, SysVAssumption DEF Pos
<1>4. ASSUME NEW n \in 1 .. Len(args)
      PROVE  /\ P[n] = After(P[n - 1], rsv, args[n].type)
             /\ ArgAt(P[n - 1], rsv, args[n].type, v, args[n].at)
  <2>1. /\ P[n] = After(P[n - 1], hid, args[n].type)
        /\ ArgAt(P[n - 1], hid, args[n].type, v, args[n].at)
    BY DEF Trace
  <2> QED  BY <1>2, <1>3, <2>1, ReservedUnseen
<1> QED  BY <1>4 DEF Trace

(* Every operation on the CallVM keeps the bound side. *)
LEMMA BindStepBound ==
  ASSUME IInv, IInv', BoundSide, BindStep
  PROVE  BoundSide'
<1>1. CASE (dcArgLongLong \/ dcArgPointer \/ dcArgDouble) /\ UNCHANGED descrs
  <2>1. PICK type \in {"int", "float"} : \E homes : Binding(type, homes)
    BY <1>1, AtPosition, ScalarBinding DEF IInv
  <2>2. ~IsAggr(type)
    BY SysVAssumption DEF IsAggr, NullAggr
  <2> QED  BY <1>1, <2>1, <2>2, BindKeepsBound
<1>2. ASSUME NEW ag \in Aggrs \cup {NullAggr}, dcArgAggr(ag), descrs' = Append(descrs, ag)
      PROVE  BoundSide'
  <2>1. IsAggr(ag) /\ \E homes : Binding(ag, homes)
    BY <1>2, AtPosition, AggrBinding DEF IInv, IsAggr
  <2> QED  BY <1>2, <2>1, BindKeepsBound
<1>3. ASSUME NEW ag \in Aggrs \cup {NullAggr}, dcBeginCallAggr(ag), UNCHANGED descrs
      PROVE  BoundSide'
  <2>1. /\ bound' = bound /\ epoch' = epoch /\ vm.iCount = 0 /\ vm.fCount = 0
        /\ vm'.vec = vm.vec /\ vm'.vecSize = vm.vecSize
        /\ vm'.iCount = vm.iCount /\ vm'.fCount = vm.fCount
    BY <1>3, AtPosition DEF dcBeginCallAggr, VMs
  <2>2. BoundTo(vm') = BoundTo(vm) /\ \A P : EndsAt(P, vm) => EndsAt(P, vm')
    BY <2>1 DEF BoundTo, EndsAt
  <2>3. BoundOnTrace'
    <3> SUFFICES ASSUME NoneLost(bound)
                 PROVE  \E P : /\ Trace(P, bound, Hidden(ret'), vm.vec)
                               /\ P[Len(bound)] = BoundTo(vm)
                               /\ EndsAt(P, vm)
      BY <2>1, <2>2 DEF BoundOnTrace
    <3>1. PICK P : /\ Trace(P, bound, Hidden(ret), vm.vec)
                   /\ P[Len(bound)] = BoundTo(vm)
                   /\ EndsAt(P, vm)
      BY DEF BoundSide, BoundOnTrace
    <3>2. Len(bound) \in Nat
      BY AtPosition
    <3>3. Trace(P, bound, Hidden(ret'), vm.vec)
      BY <2>1, <3>1, <3>2, TraceUnseen DEF EndsAt
    <3> QED  BY <3>1, <3>3
  <2> QED  BY <1>3, <2>1, <2>3 DEF BoundSide
<1>4. CASE dcReset /\ descrs' = <<>>
  <2>1. /\ bound' = <<>> /\ epoch' = epoch + 1 /\ epoch < MaxResets
        /\ vm'.vec = <<>> /\ vm'.vecSize = 0 /\ vm'.iCount = 0 /\ vm'.fCount = 0
    BY <1>4, AtPosition DEF dcReset, VMs
  <2>2. epoch' \in 0 .. MaxResets
    BY <2>1, AtPosition, CallVMAssumption
  <2> QED  BY <1>4, <2>1, <2>2, NothingBoundNext DEF BareVM
<1>5. ASSUME NEW mode \in {"C", "other"}, dcMode(mode), UNCHANGED descrs
      PROVE  BoundSide'
  <2>1. /\ vm'.vec = vm.vec /\ vm'.vecSize = vm.vecSize
        /\ vm'.iCount = vm.iCount /\ vm'.fCount = vm.fCount
    BY <1>5, AtPosition DEF dcMode, VMs
  <2> QED  BY <1>5, <2>1, SameBoundSide DEF dcMode
<1> QED  BY <1>1, <1>2, <1>3, <1>4, <1>5 DEF BindStep

-----------------------------------------------------------------------------
(* Descriptions taken one by one.                                          *)

LEMMA BehindNone ==
  ASSUME NEW S, NEW s \in Seq(S)
  PROVE  Behind(s, 0) = s
BY SubSeqFull DEF Behind

LEMMA BehindNext ==
  ASSUME NEW S, NEW s \in Seq(S), NEW c \in 0 .. Len(s) - 1
  PROVE  /\ Behind(s, c) \in Seq(S) /\ Behind(s, c) # <<>>
         /\ Head(Behind(s, c)) = s[c + 1]
         /\ Tail(Behind(s, c)) = Behind(s, c + 1)
<1>1. Len(s) \in Nat /\ c + 1 \in 1 .. Len(s) /\ Len(s) \in c + 1 .. Len(s)
  OBVIOUS
<1>2. /\ Head(Behind(s, c)) = s[c + 1]
      /\ Tail(Behind(s, c)) = Behind(s, c + 1)
  BY <1>1, HeadTailOfSubSeq DEF Behind
<1>3. \A i \in c + 1 .. Len(s) : i \in 1 .. Len(s)
  BY <1>1
<1>4. \A i \in c + 1 .. Len(s) : s[i] \in S
  <2> SUFFICES ASSUME NEW i \in 1 .. Len(s)  PROVE s[i] \in S
    BY <1>3
  <2> QED  OBVIOUS
<1>5. /\ Behind(s, c) \in Seq(S)
      /\ Len(Behind(s, c)) = IF c + 1 <= Len(s) THEN Len(s) - (c + 1) + 1 ELSE 0
  BY <1>1, <1>4, SubSeqProperties DEF Behind
<1>6. Len(Behind(s, c)) # 0
  BY <1>1, <1>5
<1>7. Behind(s, c) # <<>>
  BY <1>6
<1> QED  BY <1>2, <1>5, <1>7

(* The array a callback is made with: an entry per aggregate argument, the *)
(* result's last.                                                          *)
LEMMA ListedFacts ==
  ASSUME NEW D \in Descriptions, NEW r \in Rets
  PROVE  /\ D \o OfResult(r) \in Descriptions
         /\ Len(D) \in Nat
         /\ Len(D \o OfResult(r)) = IF r = NoRet THEN Len(D) ELSE Len(D) + 1
         /\ \A n \in 1 .. Len(D) : (D \o OfResult(r))[n] = D[n]
         /\ r # NoRet => (D \o OfResult(r))[Len(D) + 1] = r
<1>1. D \in Seq(Aggrs \cup {NullAggr}) /\ Len(D) \in Nat
  BY DEF Descriptions
<1>2. CASE r = NoRet
  <2>1. OfResult(r) = <<>>
    BY <1>2 DEF OfResult
  <2>2. D \o <<>> = D
    BY <1>1, ConcatEmptySeq
  <2> QED  BY <1>1, <1>2, <2>1, <2>2 DEF Descriptions
<1>3. CASE r # NoRet
  <2>1. r \in Aggrs \cup {NullAggr} /\ OfResult(r) = <<r>>
    BY <1>3 DEF OfResult, Rets
  <2>2. Append(D, r) = D \o <<r>>
    BY <1>1, <2>1, AppendIsConcat
  <2>3. /\ Append(D, r) \in Seq(Aggrs \cup {NullAggr})
        /\ Len(Append(D, r)) = Len(D) + 1
        /\ \A n \in 1 .. Len(D) : Append(D, r)[n] = D[n]
        /\ Append(D, r)[Len(D) + 1] = r
    BY <1>1, <2>1, AppendProperties
  <2> QED  BY <1>1, <1>3, <2>1, <2>2, <2>3 DEF Descriptions
<1> QED  BY <1>2, <1>3

-----------------------------------------------------------------------------
(* Calls.                                                                  *)

(* The handler of a new call is at the beginning of the trace. *)
LEMMA NewHandler ==
  ASSUME IInv, BoundSide, NEW s \in VMs, s.vt = "x64", s.vec = vm.vec,
         NEW f, f = KernelFrame(s, ret),
         NEW h, h = [args |-> NewDCArgs(InitCallback(Listed, ret), f), got |-> <<>>]
  PROVE  h \in Handlers /\ HandlerOK(f, h)
<1>1. /\ f.kernel = "x64" /\ f.iRegs = s.iRegs /\ f.fRegs = s.fRegs /\ f.vec = vm.vec
      /\ f.args = bound /\ f.ret = ret
  BY DEF KernelFrame
<1> DEFINE a == NewDCArgs(InitCallback(Listed, ret), f)
<1>2. h.args = a /\ h.got = <<>> /\ Len(h.got) = 0
  OBVIOUS
<1>3. /\ a.stackPtr = 0 /\ a.iCount = 0 /\ a.fCount = 0
      /\ a.aggrReturnReg = IF ret = NoRet THEN -2 ELSE IF Hidden(ret) THEN 0 ELSE -1
      /\ a.aggrs = descrs \o OfResult(ret)
      /\ a.iRegs = f.iRegs /\ a.fRegs = f.fRegs /\ a.stack = f.vec
  BY DEF NewDCArgs, InitCallback, Listed, OfResult
<1>4. /\ ret \in Rets /\ descrs \in Descriptions /\ bound \in Seq(Args) /\ Len(bound) \in Nat
      /\ vm.vec \in Seq(Segments)
  BY AtPosition DEF IInv, TypeOK, BoundSide, VMs
<1>5. a.aggrs \in Descriptions
  BY <1>3, <1>4, ListedFacts
<1>6. a \in Cursors
  <2>1. a.iRegs \in [IntRegs -> Pieces] /\ a.fRegs \in [FltRegs -> Pieces] /\ a.stack \in Seq(Segments)
    BY <1>1, <1>3, <1>4 DEF VMs
  <2>2. a.aggrReturnReg \in {-2, -1, 0}
    BY <1>3
  <2>3. a = [stackPtr |-> 0, iCount |-> 0, fCount |-> 0, aggrReturnReg |-> a.aggrReturnReg,
             aggrs |-> a.aggrs, iRegs |-> a.iRegs, fRegs |-> a.fRegs, stack |-> a.stack]
    BY DEF NewDCArgs
  <2> HIDE DEF a
  <2>4. 0 \in 0 .. NumIntRegs /\ 0 \in 0 .. NumFloatRegs
    BY SysVAssumption
  <2> QED  BY <1>5, <2>1, <2>2, <2>3, <2>4 DEF Cursors, Descriptions
<1> HIDE DEF a
<1>7. h \in Handlers
  <2>1. <<>> \in Seq(Seq(Pieces))
    OBVIOUS
  <2>2. h = [args |-> a, got |-> <<>>]
    BY DEF a
  <2> QED  BY <1>6, <2>1, <2>2 DEF Handlers
<1>8. Ordered(f.vec) /\ NoneEmpty(f.vec) /\ Tagged(f.args)
  BY <1>1 DEF IInv, BoundInv, SoundVec, Ordered, BoundSide
<1>9. Spills(h.args, f)
  BY <1>2, <1>3 DEF Spills
<1>10. Expects(h.args, Hidden(f.ret))
  <2>1. ~Hidden(NoRet)
    BY SysVAssumption DEF Hidden, NullAggr, NoRet
  <2> QED  BY <1>1, <1>2, <1>3, <2>1 DEF Expects
<1>11. OnListing(f, h)
  <2>1. PICK C : Listing(C, bound, descrs)
    BY DEF BoundSide
  <2>2. Left(C, descrs, ret, Len(h.got)) = a.aggrs
    BY <1>2, <1>3, <1>5, <2>1, BehindNone DEF Listing, Descriptions, Left
  <2> QED  BY <1>1, <1>2, <1>4, <2>1, <2>2 DEF OnListing
<1>12. NoneLost(f.args) => OnTrace(f, h)
  <2> SUFFICES ASSUME NoneLost(bound)  PROVE OnTrace(f, h)
    BY <1>1
  <2>1. PICK P : Trace(P, bound, Hidden(ret), vm.vec)
    BY DEF BoundSide, BoundOnTrace
  <2>2. FetchedTo(h.args) = P[Len(h.got)]
    BY <1>2, <1>3, <2>1 DEF FetchedTo, Trace
  <2> QED  BY <1>1, <1>2, <2>1, <2>2 DEF OnTrace
<1> QED  BY <1>1, <1>2, <1>4, <1>7, <1>8, <1>9, <1>10, <1>11, <1>12 DEF HandlerOK

(* The description a handler finds at the head of its array is that of the *)
(* aggregate it fetches next.                                              *)
LEMMA NextDescription ==
  ASSUME NEW args, Len(args) \in Nat, NEW r \in Rets, NEW D \in Descriptions, NEW C,
         Listing(C, args, D), NEW n \in Nat, n + 1 <= Len(args)
  PROVE  IF IsAggr(args[n + 1].type)
         THEN /\ Left(C, D, r, n) # <<>> /\ Head(Left(C, D, r, n)) = args[n + 1].type
              /\ Tail(Left(C, D, r, n)) = Left(C, D, r, n + 1)
         ELSE Left(C, D, r, n) = Left(C, D, r, n + 1)
<1> DEFINE L == D \o OfResult(r)
<1>1. n + 1 \in 1 .. Len(args) /\ (n + 1) - 1 = n /\ n \in 0 .. Len(args) /\ n + 1 \in 0 .. Len(args)
  OBVIOUS
<1>2. /\ C[n] \in 0 .. Len(D) /\ C[n + 1] \in 0 .. Len(D)
      /\ IF IsAggr(args[n + 1].type) THEN C[n + 1] = C[n] + 1 /\ D[C[n + 1]] = args[n + 1].type
         ELSE C[n + 1] = C[n]
  <2>1. C \in [0 .. Len(args) -> 0 .. Len(D)]
    BY DEF Listing
  <2>2. IF IsAggr(args[n + 1].type)
        THEN C[n + 1] = C[(n + 1) - 1] + 1 /\ D[C[n + 1]] = args[n + 1].type
        ELSE C[n + 1] = C[(n + 1) - 1]
    BY <1>1 DEF Listing
  <2> QED  BY <1>1, <2>1, <2>2
<1>3. /\ L \in Seq(Aggrs \cup {NullAggr}) /\ Len(D) \in Nat
      /\ Len(L) = Len(D) \/ Len(L) = Len(D) + 1
      /\ \A k \in 1 .. Len(D) : L[k] = D[k]
  BY ListedFacts DEF Descriptions
<1> HIDE DEF L
<1>4. ASSUME IsAggr(args[n + 1].type)
      PROVE  /\ Behind(L, C[n]) # <<>> /\ Head(Behind(L, C[n])) = args[n + 1].type
             /\ Tail(Behind(L, C[n])) = Behind(L, C[n + 1])
  <2>1. C[n] \in 0 .. Len(L) - 1 /\ C[n] + 1 = C[n + 1] /\ C[n] + 1 \in 1 .. Len(D)
    BY <1>2, <1>3, <1>4
  <2>2. /\ Behind(L, C[n]) # <<>>
        /\ Head(Behind(L, C[n])) = L[C[n] + 1]
        /\ Tail(Behind(L, C[n])) = Behind(L, C[n] + 1)
    BY <1>3, <2>1, BehindNext
  <2>3. L[C[n] + 1] = args[n + 1].type
    BY <1>2, <1>3, <1>4, <2>1
  <2> QED  BY <2>1, <2>2, <2>3 DEF L
<1> QED  BY <1>2, <1>4 DEF L, Left

(* A handler fetches the next argument, and stays on the trace. *)
LEMMA HandlerFetches ==
  ASSUME NEW f \in KernelFrames, FrameOK(f), NEW h \in Handlers, HandlerOK(f, h),
         NEW n, n = Len(h.got), n + 1 <= Len(f.args),
         NEW r, r = dcbArg(h.args, f.args[n + 1].type),
         NEW g, g = [args |-> r.args, got |-> Append(h.got, r.val)]
  PROVE  g \in Handlers /\ HandlerOK(f, g)
<1> DEFINE a   == h.args
           arg == f.args[n + 1]
           hid == Hidden(f.ret)
<1>1. /\ a \in Cursors /\ h.got \in Seq(Seq(Pieces)) /\ n \in Nat
      /\ f.args \in Seq(Args) /\ Len(f.args) \in Nat /\ f.ret \in Rets
      /\ f.vec \in Seq(Segments)
  BY DEF Handlers, KernelFrames
<1>2. n + 1 \in 1 .. Len(f.args) /\ (n + 1) - 1 = n /\ n + 1 \in DOMAIN f.args
  BY <1>1
<1>3. arg \in Args /\ arg.type \in ArgTypes
  <2>1. arg \in Args
    BY <1>1, <1>2
  <2> QED  BY <2>1 DEF Args, ArgTypes
<1>4. hid \in BOOLEAN /\ Expects(a, hid) /\ Spills(a, f)
  BY DEF Hidden, HandlerOK
<1>5. PICK C : \E D \in Descriptions :
        Listing(C, f.args, D) /\ a.aggrs = Left(C, D, f.ret, n)
  BY DEF HandlerOK, OnListing
<1>6. PICK D \in Descriptions :
        Listing(C, f.args, D) /\ a.aggrs = Left(C, D, f.ret, n)
  BY <1>5
<1>7. IF IsAggr(arg.type)
      THEN /\ a.aggrs # <<>> /\ Head(a.aggrs) = arg.type
           /\ Tail(a.aggrs) = Left(C, D, f.ret, n + 1)
      ELSE a.aggrs = Left(C, D, f.ret, n + 1)
  BY <1>1, <1>6, NextDescription
<1> HIDE DEF arg, hid
<1>8. /\ r.args \in Cursors
      /\ FetchedTo(r.args) = After(FetchedTo(a), hid, arg.type)
      /\ r.args.aggrReturnReg = a.aggrReturnReg
      /\ r.args.aggrs = IF IsAggr(arg.type) THEN Tail(a.aggrs) ELSE a.aggrs
      /\ r.args.iRegs = a.iRegs /\ r.args.fRegs = a.fRegs /\ r.args.stack = a.stack
      /\ r.val \in Seq(Pieces)
      /\ \A e, x : Spills(a, e) /\ InPlace(e, FetchedTo(a), hid, x) /\ x.type = arg.type
           => r.val = PiecesOf(x)
  <2>1. r = dcbArg(a, arg.type)
    BY DEF arg
  <2> QED  BY <1>1, <1>3, <1>4, <1>7, <2>1, ArgFetched
<1>9. /\ g.args = r.args /\ g.got = Append(h.got, r.val)
      /\ g.got \in Seq(Seq(Pieces)) /\ Len(g.got) = n + 1
      /\ \A k \in 1 .. n : g.got[k] = h.got[k]
      /\ g.got[n + 1] = r.val
  <2>1. g.args = r.args /\ g.got = Append(h.got, r.val)
    OBVIOUS
  <2>2. r.val \in Seq(Pieces)
    BY <1>8
  <2>3. PICK got \in Seq(Seq(Pieces)) : got = h.got
    BY <1>1
  <2>4. PICK val \in Seq(Pieces) : val = r.val
    BY <2>2
  <2>5. /\ Append(got, val) \in Seq(Seq(Pieces)) /\ Len(Append(got, val)) = Len(got) + 1
        /\ \A k \in 1 .. Len(got) : Append(got, val)[k] = got[k]
        /\ Append(got, val)[Len(got) + 1] = val
    BY AppendProperties
  <2> QED  BY <2>1, <2>3, <2>4, <2>5
<1>10. g \in Handlers
  BY <1>8, <1>9 DEF Handlers
<1>11. Spills(g.args, f) /\ Expects(g.args, hid)
  BY <1>4, <1>8, <1>9 DEF Spills, Expects
<1>12. OnListing(f, g)
  <2>1. g.args.aggrs = Left(C, D, f.ret, n + 1)
    BY <1>7, <1>8, <1>9
  <2> QED  BY <1>6, <1>9, <2>1 DEF OnListing
<1>13. ASSUME NoneLost(f.args)
       PROVE  OnTrace(f, g)
  <2>1. PICK P : /\ Trace(P, f.args, hid, f.vec) /\ FetchedTo(a) = P[n]
                 /\ \A k \in 1 .. n : h.got[k] = PiecesOf(f.args[k])
    BY <1>13 DEF HandlerOK, OnTrace, hid
  <2>2. /\ P[n + 1] = After(P[n], hid, arg.type)
        /\ ArgAt(P[n], hid, arg.type, f.vec, arg.at)
    BY <1>2, <2>1 DEF Trace, arg
  <2>3. FetchedTo(g.args) = P[n + 1]
    BY <1>8, <1>9, <2>1, <2>2
  <2>4. Intact(f, arg)
    BY <1>2 DEF FrameOK, HandlerOK, Intact, arg
  <2>5. InPlace(f, P[n], hid, arg)
    BY <1>3, <2>2, <2>4 DEF InPlace, HandlerOK
  <2>6. r.val = PiecesOf(arg)
    BY <1>4, <1>8, <2>1, <2>5
  <2>7. ASSUME NEW k \in 1 .. n + 1  PROVE g.got[k] = PiecesOf(f.args[k])
    <3>1. CASE k = n + 1
      BY <3>1, <1>9, <2>6 DEF arg
    <3>2. CASE k \in 1 .. n
      BY <3>2, <1>9, <2>1
    <3> QED  BY <1>1, <3>1, <3>2
  <2> QED  BY <1>9, <2>1, <2>3, <2>7 DEF OnTrace, hid
<1>14. Len(g.got) <= Len(f.args)
  BY <1>9
<1> QED  BY <1>10, <1>11, <1>12, <1>13, <1>14 DEF HandlerOK, hid

(* Calls in progress, with one more. *)
LEMMA CallPushed ==
  ASSUME CallSide, frames \in Seq(KernelFrames), NEW f, frames' = Append(frames, f),
         NEW h \in Handlers, HandlerOK(f, h), handlers' = Append(handlers, h)
  PROVE  CallSide'
<1> DEFINE k == Len(frames)
<1>1. /\ Len(frames') = k + 1 /\ k \in Nat
      /\ \A d \in 1 .. k : frames'[d] = frames[d]
      /\ frames'[k + 1] = f
  OBVIOUS
<1>2. handlers \in Seq(Handlers) /\ Len(handlers) = k
  BY DEF CallSide
<1>3. /\ handlers' \in Seq(Handlers) /\ Len(handlers') = k + 1
      /\ \A d \in 1 .. k : handlers'[d] = handlers[d]
      /\ handlers'[k + 1] = h
  BY <1>2, AppendProperties
<1>4. DOMAIN handlers = 1 .. k /\ DOMAIN handlers' = 1 .. k + 1
  BY <1>2, <1>3
<1> HIDE DEF k
<1>5. ASSUME NEW d \in 1 .. k + 1
      PROVE  HandlerOK(frames'[d], handlers'[d])
  <2>1. CASE d = k + 1
    BY <2>1, <1>1, <1>3
  <2>2. CASE d \in 1 .. k
    BY <2>2, <1>1, <1>3, <1>4 DEF CallSide
  <2> QED  BY <1>1, <2>1, <2>2, LastIndex
<1> QED  BY <1>1, <1>3, <1>4, <1>5 DEF CallSide

(* A call enters a handler. *)
LEMMA EnterStep ==
  ASSUME IInv, IInv', BoundSide, CallSide, Enter
  PROVE  BoundSide' /\ CallSide'
<1>1. /\ vm' \in VMs /\ vm'.vt = "x64" /\ vm'.vec = vm.vec /\ vm'.vecSize = vm.vecSize
      /\ vm'.iCount = vm.iCount /\ vm'.fCount = vm.fCount
      /\ UNCHANGED <<bound, ret, epoch>>
      /\ frames' = Append(frames, KernelFrame(vm', ret))
  <2>1. CASE dcCall /\ ret = NoRet
    BY <2>1, AtPosition DEF Enter, dcCall
  <2>2. CASE dcCallAggr
    <3>1. vm' = IF vm.aggrReturnReg # -1
                THEN [vm EXCEPT !.iRegs[vm.aggrReturnReg] = RetPtr]
                ELSE vm
      BY <2>2 DEF dcCallAggr
    <3>2. /\ vm'.vt = vm.vt /\ vm'.vec = vm.vec /\ vm'.vecSize = vm.vecSize
          /\ vm'.iCount = vm.iCount /\ vm'.fCount = vm.fCount
      BY <3>1, AtPosition DEF VMs
    <3>3. vm' \in VMs
      BY DEF IInv, TypeOK
    <3> QED  BY <2>2, <3>2, <3>3 DEF Enter, dcCallAggr
  <2> QED  BY <2>1, <2>2 DEF Enter
<1>2. BoundSide'
  BY <1>1, SameBoundSide DEF Enter
<1> DEFINE f == KernelFrame(vm', ret)
           h == [args |-> NewDCArgs(InitCallback(Listed, ret), f), got |-> <<>>]
<1>3. h \in Handlers /\ HandlerOK(f, h)
  BY <1>1, NewHandler
<1>4. frames'[Len(frames')] = f
  BY <1>1 DEF IInv, TypeOK
<1>5. handlers' = Append(handlers, h)
  BY <1>4 DEF Enter
<1> HIDE DEF f, h
<1>6. CallSide'
  BY <1>1, <1>3, <1>5, CallPushed DEF IInv, TypeOK, f
<1> QED  BY <1>2, <1>6

(* The innermost handler fetches. *)
LEMMA FetchStep ==
  ASSUME IInv, CallSide, Fetch
  PROVE  CallSide'
<1> DEFINE k == Len(handlers)
           f == frames[k]
           h == handlers[k]
           n == Len(h.got)
           r == dcbArg(h.args, f.args[n + 1].type)
           g == [args |-> r.args, got |-> Append(h.got, r.val)]
<1>1. /\ handlers # <<>> /\ n + 1 <= Len(f.args) /\ frames' = frames
      /\ handlers' = [handlers EXCEPT ![k] = g]
  BY DEF Fetch, vars
<1>2. /\ handlers \in Seq(Handlers) /\ k \in Nat /\ Len(frames) = k
      /\ DOMAIN handlers = 1 .. k /\ DOMAIN frames = 1 .. k
      /\ frames \in Seq(KernelFrames)
  BY DEF CallSide, IInv, TypeOK
<1>3. k \in 1 .. k
  BY <1>1, <1>2
<1>4. h \in Handlers /\ f \in KernelFrames
  BY <1>2, <1>3
<1>5. FrameOK(f) /\ HandlerOK(f, h)
  BY <1>2, <1>3 DEF IInv, CallSide
<1> HIDE DEF h, f
<1>6. g \in Handlers /\ HandlerOK(f, g)
  BY <1>1, <1>4, <1>5, HandlerFetches
<1> HIDE DEF g, n, r
<1>7. handlers' \in Seq(Handlers) /\ Len(handlers') = k
  BY <1>1, <1>2, <1>3, <1>6
<1>8. DOMAIN handlers' = 1 .. k /\ \A d \in 1 .. k : handlers'[d] = IF d = k THEN g ELSE handlers[d]
  BY <1>1, <1>2
<1> HIDE DEF k
<1>9. \A d \in 1 .. k : HandlerOK(frames[d], handlers'[d])
  BY <1>2, <1>6, <1>8 DEF CallSide, f
<1> QED  BY <1>1, <1>2, <1>7, <1>8, <1>9 DEF CallSide

-----------------------------------------------------------------------------
(* Results.                                                                *)

(* No two eightbytes of an aggregate travel in the same register. *)
LEMMA OwnRegister ==
  ASSUME NEW ag \in Aggrs, ~InMemory(ag), NEW i \in 1 .. Eightbytes(ag)
  PROVE  /\ Classes[ag][i] \in RegClass /\ Rank(ag, i) \in 1 .. 2 /\ ag # NullAggr
         /\ \A j \in 1 .. Eightbytes(ag) :
              Classes[ag][j] = Classes[ag][i] /\ Rank(ag, j) = Rank(ag, i) => j = i
<1>1. ag # NullAggr
  BY SysVAssumption
<1>2. CASE Eightbytes(ag) = 0
  BY <1>2
<1>3. CASE Eightbytes(ag) = 1 /\ Classes[ag][1] \in RegClass
  BY <1>1, <1>3 DEF Rank
<1>4. CASE Eightbytes(ag) = 2 /\ Classes[ag][1] \in RegClass /\ Classes[ag][2] \in RegClass
  <2>1. i \in {1, 2} /\ \A j \in 1 .. Eightbytes(ag) : j \in {1, 2}
    BY <1>4
  <2> QED  BY <1>1, <1>4, <2>1 DEF Rank
<1> QED  BY <1>2, <1>3, <1>4, ClassCases

(* A result in registers is put together from the registers it was taken   *)
(* apart into.                                                             *)
LEMMA Reassembled ==
  ASSUME NEW ag \in Aggrs, ~InMemory(ag)
  PROVE  Reassemble(ag, ReturnRegs(ag)) = [i \in 1 .. Eightbytes(ag) |-> Returned(i)]
<1>1. ASSUME NEW i \in 1 .. Eightbytes(ag)
      PROVE  ReturnRegs(ag)[Classes[ag][i]][Rank(ag, i)] = Returned(i)
  <2> DEFINE clz == Classes[ag][i]
             r   == Rank(ag, i)
             here(j) == Classes[ag][j] = clz /\ Rank(ag, j) = r
  <2>1. clz \in RegClass /\ r \in 1 .. 2 /\ ag # NullAggr
    BY OwnRegister
  <2>2. \A j \in 1 .. Eightbytes(ag) : here(j) => j = i
    BY OwnRegister
  <2>3. here(i)
    OBVIOUS
  <2>4. (CHOOSE j \in 1 .. Eightbytes(ag) : here(j)) = i
    BY <2>2, <2>3
  <2>5. ReturnRegs(ag)[clz][r] = Returned(CHOOSE j \in 1 .. Eightbytes(ag) : here(j))
    BY <2>1, <2>3 DEF ReturnRegs
  <2> QED  BY <2>4, <2>5
<1> QED  BY <1>1 DEF Reassemble

(* What the caller finds of the result of a handler that has fetched       *)
(* every argument.                                                         *)
LEMMA ResultFound ==
  ASSUME NEW f \in KernelFrames, FrameOK(f), NEW h \in Handlers, HandlerOK(f, h),
         f.ret # NoRet, Len(h.got) = Len(f.args),
         NEW x, x = Found(f.ret, dcbReturnAggr(h.args))
  PROVE  /\ x.bytes = CopySize(f.ret)
         /\ x.pieces = IF Hidden(f.ret) THEN <<Returned(0)>>
                       ELSE [i \in 1 .. Eightbytes(f.ret) |-> Returned(i)]
<1> DEFINE a  == h.args
           ag == f.ret
<1>1. /\ a \in Cursors /\ ag \in Rets /\ ag \in Aggrs \cup {NullAggr}
      /\ f.args \in Seq(Args) /\ Len(f.args) \in Nat
  BY DEF Handlers, KernelFrames, Rets
<1>2. Head(a.aggrs) = ag
  <2>1. PICK C : \E D \in Descriptions :
          Listing(C, f.args, D) /\ a.aggrs = Left(C, D, ag, Len(f.args))
    BY DEF HandlerOK, OnListing
  <2>2. PICK D \in Descriptions :
          Listing(C, f.args, D) /\ a.aggrs = Left(C, D, ag, Len(f.args))
    BY <2>1
  <2> DEFINE L == D \o OfResult(ag)
  <2>3. /\ L \in Seq(Aggrs \cup {NullAggr}) /\ Len(D) \in Nat
        /\ Len(L) = Len(D) + 1 /\ L[Len(D) + 1] = ag
    BY <1>1, ListedFacts DEF Descriptions
  <2>4. a.aggrs = Behind(L, Len(D))
    BY <2>2 DEF Listing, Left
  <2> HIDE DEF L, a
  <2>5. Len(D) \in 0 .. Len(L) - 1
    BY <2>3
  <2> QED  BY <2>3, <2>4, <2>5, BehindNext
<1>3. a.aggrReturnReg \in {-2, -1, 0} /\ (a.aggrReturnReg = 0 <=> Hidden(ag))
  BY <1>1 DEF Cursors, HandlerOK, Expects
<1> HIDE DEF ag
<1>4. CASE Hidden(ag)
  <2>1. dcbReturnAggr(a) = [place |-> "memory", at |-> a.iRegs[0], bytes |-> CopySize(ag)]
    BY <1>2, <1>3, <1>4 DEF dcbReturnAggr
  <2>2. a.iRegs[0] = RetPtr
    BY <1>4 DEF FrameOK, HandlerOK, Spills, ag
  <2>3. x = [pieces |-> <<Returned(0)>>, bytes |-> CopySize(ag)]
    BY <2>1, <2>2 DEF Found, ag
  <2> QED  BY <1>4, <2>3 DEF ag
<1>5. CASE ~Hidden(ag)
  <2>1. dcbReturnAggr(a) = [place |-> "registers", regs |-> ReturnRegs(ag)]
    BY <1>2, <1>3, <1>5 DEF dcbReturnAggr
  <2>2. ag \in Aggrs /\ ~InMemory(ag)
    BY <1>1, <1>5 DEF Hidden
  <2>3. x = [pieces |-> Reassemble(ag, ReturnRegs(ag)), bytes |-> CopySize(ag)]
    BY <2>1 DEF Found, ag
  <2>4. Reassemble(ag, ReturnRegs(ag)) = [i \in 1 .. Eightbytes(ag) |-> Returned(i)]
    BY <2>2, Reassembled
  <2>5. /\ x.bytes = CopySize(ag)
        /\ x.pieces = [i \in 1 .. Eightbytes(ag) |-> Returned(i)]
    BY <2>3, <2>4
  <2> QED  BY <1>5, <2>5 DEF ag
<1> QED  BY <1>4, <1>5

(* Indices but the last. *)
LEMMA ButLast ==
  ASSUME NEW k \in Nat, k # 0
  PROVE  /\ k - 1 \in Nat /\ k \in 1 .. k
         /\ \A d \in 1 .. k - 1 : d \in 1 .. k /\ d # k
OBVIOUS

LEMMA Shortened ==
  ASSUME NEW S, NEW s \in Seq(S), s # <<>>
  PROVE  LET t == SubSeq(s, 1, Len(s) - 1) IN
           /\ t \in Seq(S) /\ Len(t) = Len(s) - 1 /\ DOMAIN t = 1 .. Len(s) - 1
           /\ \A d \in 1 .. Len(s) - 1 : d \in DOMAIN s /\ t[d] = s[d]
<1> DEFINE m == Len(s) - 1
           t == SubSeq(s, 1, m)
<1>1. Len(s) \in Nat /\ Len(s) # 0 /\ DOMAIN s = 1 .. Len(s)
      /\ \A d \in 1 .. Len(s) : s[d] \in S
  OBVIOUS
<1>2. m \in Nat /\ \A d \in 1 .. m : d \in 1 .. Len(s)
  BY <1>1, ButLast
<1> HIDE DEF m
<1>3. /\ t \in Seq(S)
      /\ Len(t) = IF 1 <= m THEN m - 1 + 1 ELSE 0
      /\ \A d \in 1 .. m - 1 + 1 : t[d] = s[1 + d - 1]
  BY <1>1, <1>2, SubSeqProperties
<1> HIDE DEF t
<1>4. Len(t) = m
  BY <1>2, <1>3
<1>5. DOMAIN t = 1 .. m
  BY <1>3, <1>4
<1>6. \A d \in 1 .. m : t[d] = s[d]
  BY <1>2, <1>3
<1> QED  BY <1>1, <1>2, <1>3, <1>4, <1>5, <1>6 DEF t, m

(* The innermost handler returns. *)
LEMMA HandlerReturnStep ==
  ASSUME IInv, BoundSide, CallSide, ResultArrivesAfterFetches, HandlerReturn
  PROVE  BoundSide' /\ CallSide' /\ ResultArrivesAfterFetches'
<1> DEFINE k == Len(handlers)
           f == frames[k]
           h == handlers[k]
<1>1. /\ UNCHANGED <<vm, bound, ret, epoch, descrs>> /\ frames # <<>>
      /\ frames' = SubSeq(frames, 1, Len(frames) - 1)
      /\ handlers' = SubSeq(handlers, 1, k - 1)
      /\ result' = IF f.ret = NoRet THEN result
                   ELSE [type |-> f.ret, found |-> Found(f.ret, dcbReturnAggr(h.args)),
                         fetchedAll |-> Len(h.got) = Len(f.args)]
  BY DEF HandlerReturn, Return
<1>2. /\ handlers \in Seq(Handlers) /\ k \in Nat /\ Len(frames) = k
      /\ DOMAIN handlers = 1 .. k /\ frames \in Seq(KernelFrames) /\ DOMAIN frames = 1 .. k
  BY DEF CallSide, IInv, TypeOK
<1>3. k # 0 /\ handlers # <<>> /\ k \in 1 .. k
  BY <1>1, <1>2
<1>4. BoundSide'
  BY <1>1, SameBoundSide
<1>5. /\ handlers' \in Seq(Handlers) /\ Len(handlers') = k - 1 /\ DOMAIN handlers' = 1 .. k - 1
      /\ \A d \in 1 .. k - 1 : d \in DOMAIN handlers /\ handlers'[d] = handlers[d]
  BY <1>1, <1>2, <1>3, Shortened
<1>6. /\ Len(frames') = k - 1
      /\ \A d \in 1 .. k - 1 : frames'[d] = frames[d]
  BY <1>1, <1>2, Shortened
<1>7. CallSide'
  BY <1>5, <1>6 DEF CallSide
<1>8. ResultArrivesAfterFetches'
  <2>1. CASE f.ret = NoRet
    BY <1>1, <2>1 DEF ResultArrivesAfterFetches, ResultArrives
  <2>2. CASE f.ret # NoRet
    <3> DEFINE x == Found(f.ret, dcbReturnAggr(h.args))
    <3>1. h \in Handlers /\ f \in KernelFrames
      BY <1>2, <1>3
    <3>2. FrameOK(f) /\ HandlerOK(f, h)
      BY <1>2, <1>3 DEF IInv, CallSide
    <3>3. /\ result'.type = f.ret /\ result'.found = x
          /\ result'.fetchedAll <=> Len(h.got) = Len(f.args)
      BY <1>1, <2>2
    <3> HIDE DEF h, f
    <3>4. Len(h.got) = Len(f.args) =>
            /\ x.bytes = CopySize(f.ret)
            /\ x.pieces = IF Hidden(f.ret) THEN <<Returned(0)>>
                          ELSE [i \in 1 .. Eightbytes(f.ret) |-> Returned(i)]
      BY <2>2, <3>1, <3>2, ResultFound DEF f
    <3> QED  BY <3>3, <3>4 DEF ResultArrivesAfterFetches, ResultArrives
  <2> QED  BY <2>1, <2>2
<1> QED  BY <1>4, <1>7, <1>8

-----------------------------------------------------------------------------
(* The inductive invariant.                                                *)

LEMMA InitRoundtripIInv == RoundtripInit => RoundtripIInv
<1> SUFFICES ASSUME RoundtripInit  PROVE RoundtripIInv
  OBVIOUS
<1>1. IInv
  BY InitIInv DEF RoundtripInit
<1>2. BoundSide
  <2>1. 0 \in 0 .. MaxResets
    BY CallVMAssumption
  <2> QED  BY <2>1, NothingBound DEF BareVM, RoundtripInit, Init, NewCallVM
<1>3. CallSide
  <2>1. handlers = <<>> /\ frames = <<>>
    BY DEF RoundtripInit, Init
  <2> QED  BY <2>1 DEF CallSide
<1>4. ResultArrivesAfterFetches
  BY DEF RoundtripInit, NoResult, ResultArrivesAfterFetches, ResultArrives
<1> QED  BY <1>1, <1>2, <1>3, <1>4 DEF RoundtripIInv

(* A step of the composition is one of the CallVM, or leaves it alone. *)
LEMMA CallVMStep == [RoundtripNext]_rvars => [Next]_vars
<1> SUFFICES ASSUME [RoundtripNext]_rvars  PROVE [Next]_vars
  OBVIOUS
<1>1. CASE BindStep
  BY <1>1 DEF BindStep, Next
<1>2. CASE Enter
  BY <1>2 DEF Enter, Next
<1>3. CASE Fetch
  BY <1>3 DEF Fetch
<1>4. CASE HandlerReturn
  BY <1>4 DEF HandlerReturn, Next
<1>5. CASE UNCHANGED rvars
  BY <1>5 DEF rvars
<1> QED  BY <1>1, <1>2, <1>3, <1>4, <1>5 DEF RoundtripNext

LEMMA NextRoundtripIInv == RoundtripIInv /\ [RoundtripNext]_rvars => RoundtripIInv'
<1> SUFFICES ASSUME RoundtripIInv, [RoundtripNext]_rvars  PROVE RoundtripIInv'
  OBVIOUS
<1>1. IInv /\ BoundSide /\ CallSide /\ ResultArrivesAfterFetches
  BY DEF RoundtripIInv
<1>2. IInv'
  BY <1>1, CallVMStep, NextIInv
<1>3. CASE BindStep
  <2>1. BoundSide'
    BY <1>1, <1>2, <1>3, BindStepBound
  <2>2. UNCHANGED <<frames, handlers, result>>
    BY <1>3 DEF BindStep, dcArgLongLong, dcArgPointer, dcArgDouble, dcArgAggr, Bind,
                dcBeginCallAggr, dcReset, dcMode
  <2>3. CallSide' /\ ResultArrivesAfterFetches'
    BY <1>1, <2>2 DEF CallSide, ResultArrivesAfterFetches, ResultArrives
  <2> QED  BY <1>2, <2>1, <2>3 DEF RoundtripIInv
<1>4. CASE Enter
  <2>1. BoundSide' /\ CallSide'
    BY <1>1, <1>2, <1>4, EnterStep
  <2>2. ResultArrivesAfterFetches'
    BY <1>1, <1>4 DEF Enter, ResultArrivesAfterFetches, ResultArrives
  <2> QED  BY <1>2, <2>1, <2>2 DEF RoundtripIInv
<1>5. CASE Fetch
  <2>1. CallSide'
    BY <1>1, <1>5, FetchStep
  <2>2. BoundSide' /\ ResultArrivesAfterFetches'
    BY <1>1, <1>5, SameBoundSide DEF Fetch, vars, ResultArrivesAfterFetches, ResultArrives
  <2> QED  BY <1>2, <2>1, <2>2 DEF RoundtripIInv
<1>6. CASE HandlerReturn
  BY <1>1, <1>2, <1>6, HandlerReturnStep DEF RoundtripIInv
<1>7. CASE UNCHANGED rvars
  <2>1. BoundSide' /\ ResultArrivesAfterFetches' /\ CallSide'
    BY <1>1, <1>7, SameBoundSide
       DEF rvars, vars, CallSide, ResultArrivesAfterFetches, ResultArrives
  <2> QED  BY <1>2, <2>1 DEF RoundtripIInv
<1> QED  BY <1>3, <1>4, <1>5, <1>6, <1>7 DEF RoundtripNext

-----------------------------------------------------------------------------
(* What it implies.                                                        *)

LEMMA TypesFollow == RoundtripIInv => RoundtripTypeOK
<1> SUFFICES ASSUME RoundtripIInv, NEW d \in DOMAIN handlers
             PROVE  /\ TypeOK /\ Len(handlers) = Len(frames)
                    /\ Len(handlers[d].got) <= Len(frames[d].args)
                    /\ handlers[d].args.iCount \in 0 .. NumIntRegs
                    /\ handlers[d].args.fCount \in 0 .. NumFloatRegs
                    /\ handlers[d].args.stackPtr \in Nat
  BY DEF RoundtripIInv, IInv, CallSide, RoundtripTypeOK
<1>1. handlers[d] \in Handlers /\ HandlerOK(frames[d], handlers[d])
  BY DEF RoundtripIInv, CallSide
<1>2. handlers[d].args \in Cursors
  BY <1>1 DEF Handlers
<1> QED  BY <1>1, <1>2 DEF RoundtripIInv, CallSide, IInv, HandlerOK, Cursors

(* An eightbyte of an aggregate that is not on the stack has a register:   *)
(* the registers were counted before.                                      *)
LEMMA RegistersCounted ==
  ASSUME NEW p \in Pos, NEW hid, NEW ag \in Aggrs, ~Stacked(p, ag), NEW v, NEW homes,
         AggrAt(p, hid, ag, v, homes), NEW j \in 1 .. Len(homes)
  PROVE  homes[j].bank # "stack"
<1> DEFINE c == Classes[ag][1]
           d == Classes[ag][2]
           q == AfterEightbyte(p, hid, c)
<1>1. NumIntRegs \in Nat /\ NumIntRegs >= 3 /\ NumFloatRegs \in Nat
  BY SysVAssumption
<1>2. /\ p.i \in Nat /\ p.f \in Nat /\ Skip(p, hid) \in Nat
      /\ Skip(p, hid) = p.i \/ (p.i = 0 /\ Skip(p, hid) = 1)
  BY <1>1 DEF Pos, Skip
<1>3. /\ ~InMemory(ag)
      /\ p.i + Needs(ag, "INTEGER") <= NumIntRegs
      /\ p.f + Needs(ag, "SSE") <= NumFloatRegs
  <2>1. Needs(ag, "INTEGER") \in Nat /\ Needs(ag, "SSE") \in Nat
    BY DEF Needs
  <2> QED  BY <1>1, <1>2, <2>1 DEF Stacked
<1>4. ASSUME NEW x, NEW clz \in RegClass, NEW h, EightbyteAt(x, hid, clz, v, h),
             clz = "INTEGER" => Skip(x, hid) < NumIntRegs, clz = "SSE" => x.f < NumFloatRegs
      PROVE  h.bank # "stack"
  BY <1>4 DEF EightbyteAt, IntAt, FloatAt, Home, RegClass
<1>5. CASE Eightbytes(ag) = 0
  BY <1>5 DEF AggrAt
<1>6. CASE Eightbytes(ag) = 1 /\ c \in RegClass
  <2>1. j = 1 /\ EightbyteAt(p, hid, c, v, homes[1])
    BY <1>6 DEF AggrAt
  <2>2. c = "INTEGER" => Skip(p, hid) < NumIntRegs
    BY <1>1, <1>2, <1>3, <1>6 DEF Needs
  <2>3. c = "SSE" => p.f < NumFloatRegs
    BY <1>1, <1>2, <1>3, <1>6 DEF Needs
  <2> QED  BY <1>4, <1>6, <2>1, <2>2, <2>3
<1>7. CASE Eightbytes(ag) = 2 /\ c \in RegClass /\ d \in RegClass
  <2>1. /\ j = 1 \/ j = 2
        /\ EightbyteAt(p, hid, c, v, homes[1]) /\ EightbyteAt(q, hid, d, v, homes[2])
    <3>1. Len(homes) = 2 /\ EightbyteAt(p, hid, c, v, homes[1]) /\ EightbyteAt(q, hid, d, v, homes[2])
      BY <1>7 DEF AggrAt, AfterFirst
    <3>2. j \in 1 .. 2
      BY <3>1
    <3> QED  BY <3>1, <3>2
  <2>2. c = "INTEGER" => Skip(p, hid) < NumIntRegs /\ q.i = Skip(p, hid) + 1 /\ q.f = p.f
    BY <1>1, <1>2, <1>3, <1>7 DEF Needs, AfterEightbyte, AfterInt, At
  <2>3. c = "SSE" => p.f < NumFloatRegs /\ q.i = p.i /\ q.f = p.f + 1
    BY <1>1, <1>2, <1>3, <1>7 DEF Needs, AfterEightbyte, AfterFloat, At
  <2> HIDE DEF q
  <2>4. d = "INTEGER" => Skip(q, hid) < NumIntRegs
    <3> SUFFICES ASSUME d = "INTEGER"  PROVE Skip(q, hid) < NumIntRegs
      OBVIOUS
    <3>1. CASE c = "INTEGER"
      <4>1. p.i + 2 <= NumIntRegs
        BY <1>1, <1>2, <1>3, <1>7, <3>1 DEF Needs
      <4> QED  BY <1>1, <1>2, <2>2, <3>1, <4>1 DEF Skip
    <3>2. CASE c = "SSE"
      <4>1. p.i + 1 <= NumIntRegs
        BY <1>1, <1>2, <1>3, <1>7, <3>2 DEF Needs
      <4> QED  BY <1>1, <1>2, <2>3, <3>2, <4>1 DEF Skip
    <3> QED  BY <1>7, <3>1, <3>2 DEF RegClass
  <2>5. d = "SSE" => q.f < NumFloatRegs
    <3> SUFFICES ASSUME d = "SSE"  PROVE q.f < NumFloatRegs
      OBVIOUS
    <3>1. CASE c = "INTEGER"
      <4>1. p.f + 1 <= NumFloatRegs
        BY <1>1, <1>2, <1>3, <1>7, <3>1 DEF Needs
      <4> QED  BY <1>1, <1>2, <2>2, <3>1, <4>1
    <3>2. CASE c = "SSE"
      <4>1. p.f + 2 <= NumFloatRegs
        BY <1>1, <1>2, <1>3, <1>7, <3>2 DEF Needs
      <4> QED  BY <1>1, <1>2, <2>3, <3>2, <4>1
    <3> QED  BY <1>7, <3>1, <3>2 DEF RegClass
  <2> HIDE DEF c, d
  <2> QED  BY <1>4, <1>7, <2>1, <2>2, <2>3, <2>4, <2>5
<1> QED  BY <1>3, <1>5, <1>6, <1>7, ClassCases

(* The pieces of an argument are its value, and of no other argument. *)
LEMMA PiecesAreValue ==
  ASSUME NEW p \in Pos, NEW hid, NEW arg \in Args, NEW v, ArgAt(p, hid, arg.type, v, arg.at),
         arg.tag \in MaxTags, arg.at # <<>>
  PROVE  Value(arg.type, PiecesOf(arg)) = arg.tag
<1> DEFINE pieces     == PiecesOf(arg)
           size       == IF arg.type \in Aggrs THEN Eightbytes(arg.type) ELSE 1
           whole(tag) == pieces = <<<<tag, 0>>>>
           parts(tag) == pieces = [k \in 1 .. size |-> <<tag, k>>]
           tags       == {<<e, n>> : e \in 0 .. MaxResets, n \in 1 .. MaxArgs}
<1>1. arg.at \in Seq(Homes) /\ Len(arg.at) \in Nat /\ Len(arg.at) # 0
  BY DEF Args
<1>2. 1 \in 1 .. Len(arg.at) /\ DOMAIN pieces = 1 .. Len(arg.at)
  BY <1>1 DEF PiecesOf
<1>3. arg.tag \in tags
  BY DEF MaxTags
<1>4. whole(arg.tag) \/ parts(arg.tag)
  <2>1. CASE arg.type \notin Aggrs
    <3>1. Len(arg.at) = 1 /\ PieceAt(arg, 1) = <<arg.tag, 1>>
      BY <2>1 DEF ArgAt, PieceAt
    <3>2. \A j \in 1 .. 1 : j = 1
      OBVIOUS
    <3>3. \A j \in 1 .. 1 : PieceAt(arg, j) = <<arg.tag, j>>
      BY <3>1, <3>2
    <3> QED  BY <2>1, <3>1, <3>3 DEF PiecesOf
  <2>2. CASE arg.type \in Aggrs /\ Stacked(p, arg.type)
    <3>1. Len(arg.at) = 1 /\ PieceAt(arg, 1) = <<arg.tag, 0>>
      BY <2>2 DEF ArgAt, AggrAt, StackAt, PieceAt
    <3> QED  BY <3>1, PiecesOfOne
  <2>3. CASE arg.type \in Aggrs /\ ~Stacked(p, arg.type)
    <3>1. AggrAt(p, hid, arg.type, v, arg.at) /\ Len(arg.at) = size
      BY <2>3 DEF ArgAt, AggrAt
    <3>2. \A j \in 1 .. Len(arg.at) : PieceAt(arg, j) = <<arg.tag, j>>
      BY <2>3, <3>1, RegistersCounted DEF PieceAt
    <3> QED  BY <3>1, <3>2 DEF PiecesOf
  <2> QED  BY <2>1, <2>2, <2>3
<1>5. \A tag : whole(tag) \/ parts(tag) => pieces[1] = <<tag, 0>> \/ pieces[1] = <<tag, 1>>
  <2> SUFFICES ASSUME NEW tag, whole(tag) \/ parts(tag)
               PROVE  pieces[1] = <<tag, 0>> \/ pieces[1] = <<tag, 1>>
    OBVIOUS
  <2>1. CASE whole(tag)
    BY <2>1
  <2>2. CASE parts(tag)
    <3>1. DOMAIN pieces = 1 .. size
      BY <2>2
    <3>2. 1 \in 1 .. size
      BY <1>2, <3>1
    <3> QED  BY <2>2, <3>2
  <2> QED  BY <2>1, <2>2
<1>6. Value(arg.type, pieces) = IF \E tag \in tags : whole(tag) \/ parts(tag)
                                THEN CHOOSE tag \in tags : whole(tag) \/ parts(tag)
                                ELSE NoTag
  BY DEF Value
<1> HIDE DEF pieces, size, tags, whole, parts
<1>7. \A tag : whole(tag) \/ parts(tag) => tag = arg.tag
  <2>1. pieces[1] = <<arg.tag, 0>> \/ pieces[1] = <<arg.tag, 1>>
    BY <1>4, <1>5
  <2> SUFFICES ASSUME NEW tag, whole(tag) \/ parts(tag)
               PROVE  tag = arg.tag
    OBVIOUS
  <2>2. pieces[1] = <<tag, 0>> \/ pieces[1] = <<tag, 1>>
    BY <1>5
  <2> QED  BY <2>1, <2>2
<1>8. Value(arg.type, pieces) = arg.tag
  BY <1>3, <1>4, <1>6, <1>7
<1> QED  BY <1>8 DEF pieces

LEMMA FetchesFollow == RoundtripIInv => FetchedAsBound
<1> SUFFICES ASSUME RoundtripIInv, NEW d \in DOMAIN handlers, NoneLost(frames[d].args),
                    NEW n \in DOMAIN handlers[d].got, frames[d].args[n].at # <<>>
             PROVE  Value(frames[d].args[n].type, handlers[d].got[n]) = frames[d].args[n].tag
  BY DEF FetchedAsBound, NoneLost, KeptAll
<1> DEFINE f   == frames[d]
           h   == handlers[d]
           arg == f.args[n]
           hid == Hidden(f.ret)
<1>1. HandlerOK(f, h) /\ h \in Handlers /\ f \in KernelFrames
  BY DEF RoundtripIInv, CallSide, IInv, TypeOK
<1>2. /\ f.args \in Seq(Args) /\ Len(f.args) \in Nat
      /\ h.got \in Seq(Seq(Pieces)) /\ Len(h.got) \in Nat
      /\ Len(h.got) <= Len(f.args)
  BY <1>1 DEF KernelFrames, Handlers, HandlerOK
<1>3. n \in 1 .. Len(h.got) /\ n \in 1 .. Len(f.args) /\ n - 1 \in 0 .. Len(f.args)
  BY <1>2
<1>4. arg \in Args /\ arg.tag \in MaxTags
  BY <1>1, <1>2, <1>3 DEF HandlerOK, Tagged
<1>5. PICK P : /\ Trace(P, f.args, hid, f.vec)
               /\ \A k \in 1 .. Len(h.got) : h.got[k] = PiecesOf(f.args[k])
  BY <1>1 DEF HandlerOK, OnTrace
<1>6. h.got[n] = PiecesOf(arg)
  BY <1>3, <1>5
<1>7. P[n - 1] \in Pos /\ ArgAt(P[n - 1], hid, arg.type, f.vec, arg.at)
  BY <1>3, <1>5 DEF Trace
<1> QED  BY <1>4, <1>6, <1>7, PiecesAreValue

-----------------------------------------------------------------------------
(* The theorems.                                                           *)

(* In every behaviour of the composition the inductive invariant holds. *)
THEOREM RoundtripInvariance == RoundtripSpec => []RoundtripIInv
BY InitRoundtripIInv, NextRoundtripIInv, PTL DEF RoundtripSpec

(* Handlers and frames come and go together, and no handler reads past the *)
(* spilled registers, whatever it fetches (dyncall_args_x64.c).            *)
THEOREM RoundtripTypeCorrect == RoundtripSpec => []RoundtripTypeOK
BY RoundtripInvariance, TypesFollow, PTL

(* Every argument a handler fetches is the one that was bound at its place *)
(* in the signature, whole, for any number of registers, any aggregates    *)
(* and calls nested to any depth: dcbArg* finds each value where dcArg*    *)
(* put it.                                                                 *)
THEOREM FetchesWhatWasBound == RoundtripSpec => []FetchedAsBound
BY RoundtripInvariance, FetchesFollow, PTL

(* The caller of dcCallAggr finds what a handler that fetched all of its   *)
(* arguments gave dcbReturnAggr, in memory or in registers of two classes. *)
THEOREM ResultsArrive == RoundtripSpec => []ResultArrivesAfterFetches
<1>1. RoundtripIInv => ResultArrivesAfterFetches
  BY DEF RoundtripIInv
<1> QED  BY <1>1, RoundtripInvariance, PTL
=============================================================================
