---------------------------- MODULE CallVM_proofs ----------------------------
(***************************************************************************)
(* Proofs about CallVM, for any number of registers, any aggregates and    *)
(* vectors of any size.                                                    *)
(*                                                                         *)
(* The argument: every home that was given to an argument is in use, that  *)
(* is, below the counter of its bank and not the hidden pointer's          *)
(* register; every operation leaves homes in use alone, and puts what it   *)
(* binds at a home above all those in use.                                 *)
(***************************************************************************)
EXTENDS CallVM, TLAPS

(* A home that has been given to an argument. *)
InUse(s, h) ==
  CASE h.bank = "int"   -> h.k < s.iCount /\ h.k # s.aggrReturnReg
    [] h.bank = "float" -> h.k < s.fCount
    [] h.bank = "stack" -> h.k \in 1 .. Len(s.vec)
    [] h.bank = "lost"  -> TRUE

(* What was at a home in use is there still. *)
Keeps(s, t) ==
  \A h \in Homes, x \in Pieces :
    InUse(s, h) /\ Holds(s, h, x) => InUse(t, h) /\ Holds(t, h, x)

(* A home above all homes in use in its bank. *)
Above(s, g) ==
  \A h \in Homes : InUse(s, h) /\ h.bank = g.bank /\ h.bank # "lost" => h.k < g.k

(* VectorSafe of one CallVM, and every segment ends where the next one     *)
(* will begin, at the latest.                                              *)
SoundVec(s) ==
  \A i \in DOMAIN s.vec :
    /\ s.vec[i].at + s.vec[i].len <= VecTotal
    /\ s.vec[i].at + s.vec[i].len <= s.vecSize
    /\ \A j \in DOMAIN s.vec : i < j => s.vec[i].at + s.vec[i].len <= s.vec[j].at

(* From s to t, the piece x was bound to the home g. *)
Takes(s, t, g, x) ==
  /\ t \in VMs
  /\ g \in Homes
  /\ Above(s, g)
  /\ InUse(t, g)
  /\ Holds(t, g, x)
  /\ Keeps(s, t)
  /\ t.aggrReturnReg = s.aggrReturnReg
  /\ SoundVec(s) => SoundVec(t)

(* From s to t, a whole argument was bound to its homes. *)
TakesArg(s, t, arg) ==
  /\ t \in VMs
  /\ arg \in Args
  /\ Keeps(s, t)
  /\ \A j \in DOMAIN arg.at :
       Above(s, arg.at[j]) /\ InUse(t, arg.at[j]) /\ Holds(t, arg.at[j], PieceAt(arg, j))
  /\ \A i, j \in DOMAIN arg.at :
       i < j /\ arg.at[i].bank = arg.at[j].bank /\ arg.at[i].bank # "lost"
         => arg.at[i].k < arg.at[j].k
  /\ \/ \A j \in DOMAIN arg.at : arg.at[j].bank \in {"int", "float"}
     \/ Len(arg.at) = 1
  /\ t.aggrReturnReg = s.aggrReturnReg
  /\ SoundVec(s) => SoundVec(t)

-----------------------------------------------------------------------------
(* What each operation on the CallVM does to homes.                        *)

(* Keeping is transitive. *)
LEMMA KeepsTransitive ==
  ASSUME NEW s, NEW t, NEW u, Keeps(s, t), Keeps(t, u)
  PROVE  Keeps(s, u)
BY Zenon DEF Keeps

(* The one assignment to the vector: a segment and its size are added. *)
LEMMA VecWrite ==
  ASSUME NEW s \in VMs, NEW v \in Seq(Segments), NEW n \in Nat
  PROVE  [s EXCEPT !.vec = v, !.vecSize = n] \in VMs
BY DEF VMs

(* The room in the vector is not negative. *)
LEMMA VecTotalNat == VecTotal \in Nat
BY SysVAssumption, CallVMAssumption DEF VecTotal, RegDataSize

(* Appending to the vector, or dropping what does not fit. *)
LEMMA AppendTakes ==
  ASSUME NEW s \in VMs, NEW len \in Nat, NEW x \in Pieces
  PROVE  /\ Takes(s, dcVecAppend(s, len, x), StackHome(s, len), x)
         /\ dcVecAppend(s, len, x).iCount = s.iCount
         /\ dcVecAppend(s, len, x).fCount = s.fCount
<1> DEFINE t == dcVecAppend(s, len, x)
<1>1. CASE ~Fits(s, len)
  BY <1>1, ZenonT(40) DEF dcVecAppend, Takes, Keeps, Above, StackHome, Home, Homes, InUse, Holds
<1>2. CASE Fits(s, len)
  <2> DEFINE seg == [at |-> s.vecSize, len |-> len, val |-> x]
             v   == Append(s.vec, seg)
             g   == Home("stack", Len(s.vec) + 1)
  <2>1. /\ seg \in Segments /\ s.vec \in Seq(Segments)
        /\ s.vecSize \in Nat /\ s.vecSize + len \in Nat
    BY DEF VMs, Segments
  <2>2. /\ v \in Seq(Segments) /\ Len(v) = Len(s.vec) + 1
        /\ \A k \in 1 .. Len(s.vec) : v[k] = s.vec[k]
        /\ v[Len(s.vec) + 1] = seg
        /\ DOMAIN v = 1 .. Len(s.vec) + 1
        /\ DOMAIN s.vec = 1 .. Len(s.vec)
        /\ Len(s.vec) \in Nat
    BY <2>1
  <2>3. t = [s EXCEPT !.vec = v, !.vecSize = s.vecSize + len]
    BY <1>2 DEF dcVecAppend
  <2> HIDE DEF v, t
  <2>4. t \in VMs
    BY <2>1, <2>2, <2>3, VecWrite
  <2>5. /\ t.vec = v /\ t.vecSize = s.vecSize + len
        /\ t.iCount = s.iCount /\ t.fCount = s.fCount /\ t.aggrReturnReg = s.aggrReturnReg
        /\ t.iRegs = s.iRegs /\ t.fRegs = s.fRegs
    BY <2>3 DEF VMs
  <2>6. Keeps(s, t)
    <3> SUFFICES ASSUME NEW h \in Homes, NEW y \in Pieces, InUse(s, h), Holds(s, h, y)
                 PROVE  InUse(t, h) /\ Holds(t, h, y)
      BY DEF Keeps
    <3>1. CASE h.bank = "stack"
      BY <3>1, <2>2, <2>5 DEF InUse, Holds, Homes
    <3>2. CASE h.bank # "stack"
      BY <3>2, <2>5 DEF InUse, Holds, Homes
    <3> QED  BY <3>1, <3>2
  <2>7. StackHome(s, len) = g
    BY <1>2 DEF StackHome
  <2>8. g \in Homes /\ g.bank = "stack" /\ g.k = Len(s.vec) + 1
    BY <2>2 DEF Home, Homes
  <2>9. Above(s, g)
    <3> HIDE DEF g
    <3> SUFFICES ASSUME NEW h \in Homes, InUse(s, h), h.bank = "stack"
                 PROVE  h.k < Len(s.vec) + 1
      BY <2>8 DEF Above
    <3> QED  BY <2>2 DEF InUse, Homes
  <2>10. Len(s.vec) + 1 \in DOMAIN v /\ Len(s.vec) + 1 \in 1 .. Len(v) /\ v[Len(s.vec) + 1].val = x
    BY <2>2
  <2>11. InUse(t, g) /\ Holds(t, g, x)
    <3> HIDE DEF g, seg
    <3> QED  BY <2>5, <2>8, <2>10 DEF InUse, Holds
  <2>12. SoundVec(s) => SoundVec(t)
    <3> SUFFICES ASSUME SoundVec(s), NEW i \in DOMAIN v
                 PROVE  /\ v[i].at + v[i].len <= VecTotal
                        /\ v[i].at + v[i].len <= s.vecSize + len
                        /\ \A j \in DOMAIN v : i < j => v[i].at + v[i].len <= v[j].at
      BY <2>5 DEF SoundVec
    <3>1. \A j \in DOMAIN s.vec : s.vec[j] \in Segments
      BY <2>1
    <3>2. \A j \in DOMAIN s.vec : s.vec[j].at \in Nat /\ s.vec[j].len \in Nat
      BY <3>1 DEF Segments
    <3>3. CASE i = Len(s.vec) + 1
      BY <3>3, <1>2, <2>1, <2>2, VecTotalNat DEF Fits
    <3>4. CASE i \in 1 .. Len(s.vec)
      <4>1. /\ v[i].at + v[i].len <= VecTotal
            /\ v[i].at + v[i].len <= s.vecSize
            /\ v[i] = s.vec[i] /\ v[i].at \in Nat /\ v[i].len \in Nat
        BY <3>2, <3>4, <2>2 DEF SoundVec
      <4>2. ASSUME NEW j \in DOMAIN v, i < j  PROVE v[i].at + v[i].len <= v[j].at
        <5>1. CASE j = Len(s.vec) + 1
          BY <5>1, <4>1, <2>2
        <5>2. CASE j \in 1 .. Len(s.vec)
          BY <5>2, <4>2, <3>4, <2>2 DEF SoundVec
        <5> QED  BY <5>1, <5>2, <2>2
      <4> QED  BY <4>1, <4>2, <2>1
    <3> QED  BY <2>2, <3>3, <3>4
  <2> QED  BY <2>4, <2>5, <2>6, <2>7, <2>8, <2>9, <2>11, <2>12 DEF t, Takes
<1> QED  BY <1>1, <1>2

(* The one assignment to an integer register, in either order. *)
LEMMA IntRegWrite ==
  ASSUME NEW s \in VMs, NEW k \in IntRegs, NEW x \in Pieces
  PROVE  /\ [s EXCEPT !.iRegs[k] = x, !.iCount = k + 1] \in VMs
         /\ [s EXCEPT !.iCount = k + 1, !.iRegs[k] = x]
              = [s EXCEPT !.iRegs[k] = x, !.iCount = k + 1]
<1> DEFINE r == [s.iRegs EXCEPT ![k] = x]
<1>1. r \in [IntRegs -> Pieces] /\ k + 1 \in 0 .. NumIntRegs
  BY SysVAssumption DEF VMs, IntRegs
<1>2. [s EXCEPT !.iRegs[k] = x, !.iCount = k + 1] = [s EXCEPT !.iRegs = r, !.iCount = k + 1]
  BY DEF VMs
<1>3. [s EXCEPT !.iCount = k + 1, !.iRegs[k] = x] = [s EXCEPT !.iRegs = r, !.iCount = k + 1]
  BY DEF VMs
<1> HIDE DEF r
<1>4. [s EXCEPT !.iRegs = r, !.iCount = k + 1] \in VMs
  BY <1>1 DEF VMs
<1> QED  BY <1>2, <1>3, <1>4

(* Counting without a register. *)
LEMMA CountWrite ==
  ASSUME NEW s \in VMs, NEW k \in 0 .. NumIntRegs
  PROVE  [s EXCEPT !.iCount = k] \in VMs
BY DEF VMs

(* The counts are integers. *)
LEMMA CountTypes ==
  ASSUME NEW s \in VMs
  PROVE  s.iCount \in Int /\ s.fCount \in Int /\ NextIntReg(s) \in Int
BY SysVAssumption DEF VMs, NextIntReg

(* The next integer register is never the hidden pointer's. *)
LEMMA NextIntRegRange ==
  ASSUME NEW s \in VMs
  PROVE  /\ NextIntReg(s) \in 0 .. NumIntRegs
         /\ NextIntReg(s) >= s.iCount
         /\ NextIntReg(s) # s.aggrReturnReg
         /\ \A k \in Nat : k # s.aggrReturnReg /\ k < NextIntReg(s) => k < s.iCount
BY SysVAssumption DEF VMs, NextIntReg

(* An integer argument in a register. *)
LEMMA IntRegTakes ==
  ASSUME NEW s \in VMs, NEW x \in Pieces, NextIntReg(s) < NumIntRegs,
         NEW t, t = [s EXCEPT !.iRegs[NextIntReg(s)] = x, !.iCount = NextIntReg(s) + 1]
  PROVE  /\ Takes(s, t, Home("int", NextIntReg(s)), x)
         /\ t.iCount = NextIntReg(s) + 1
         /\ t.fCount = s.fCount
<1> DEFINE k == NextIntReg(s)
           g == Home("int", k)
<1>1. /\ k \in IntRegs /\ k # s.aggrReturnReg /\ s.iCount <= k
      /\ \A n \in Nat : n # s.aggrReturnReg /\ n < k => n < s.iCount
      /\ s.iCount \in Nat /\ s.aggrReturnReg \in Int /\ k \in Nat
  BY NextIntRegRange, SysVAssumption, SMTT(20) DEF IntRegs, VMs
<1> HIDE DEF k
<1>2. t \in VMs
  BY <1>1, IntRegWrite DEF k
<1>3. /\ t.iRegs = [s.iRegs EXCEPT ![k] = x]
      /\ t.iCount = k + 1 /\ t.fCount = s.fCount /\ t.aggrReturnReg = s.aggrReturnReg
      /\ t.fRegs = s.fRegs /\ t.vec = s.vec /\ t.vecSize = s.vecSize
  BY DEF VMs, k
<1>4. DOMAIN s.iRegs = IntRegs
  BY DEF VMs
<1>5. g \in Homes /\ g.bank = "int" /\ g.k = k
  BY <1>1 DEF Home, Homes
<1> HIDE DEF g
<1>6. Above(s, g)
  <2> SUFFICES ASSUME NEW h \in Homes, InUse(s, h), h.bank = "int"
               PROVE  h.k < k
    BY <1>5 DEF Above
  <2> QED  BY <1>1 DEF InUse, Homes
<1>7. InUse(t, g) /\ Holds(t, g, x)
  BY <1>1, <1>3, <1>4, <1>5 DEF InUse, Holds
<1>8. Keeps(s, t)
  <2> SUFFICES ASSUME NEW h \in Homes, NEW y \in Pieces, InUse(s, h), Holds(s, h, y)
               PROVE  InUse(t, h) /\ Holds(t, h, y)
    BY DEF Keeps
  <2>1. CASE h.bank = "int"
    BY <2>1, <1>1, <1>3, <1>4 DEF InUse, Holds, Homes
  <2>2. CASE h.bank # "int"
    BY <2>2, <1>3 DEF InUse, Holds, Homes
  <2> QED  BY <2>1, <2>2
<1>9. SoundVec(s) => SoundVec(t)
  BY <1>3 DEF SoundVec
<1> QED  BY <1>2, <1>3, <1>5, <1>6, <1>7, <1>8, <1>9 DEF Takes, g, k

(* An integer argument on the stack: the counter still passes the hidden   *)
(* pointer's register.                                                     *)
LEMMA IntStackTakes ==
  ASSUME NEW s \in VMs, NEW x \in Pieces, ~(NextIntReg(s) < NumIntRegs)
  PROVE  Takes(s, dcVecAppend([s EXCEPT !.iCount = NextIntReg(s)], 8, x), StackHome(s, 8), x)
<1> DEFINE k == NextIntReg(s)
           u == [s EXCEPT !.iCount = k]
           t == dcVecAppend(u, 8, x)
<1>1. /\ k \in 0 .. NumIntRegs /\ s.iCount <= k
      /\ s.iCount \in Nat /\ k \in Nat
  BY NextIntRegRange, SysVAssumption DEF VMs
<1> HIDE DEF k
<1>2. u \in VMs
  BY <1>1, CountWrite
<1>3. /\ u.iRegs = s.iRegs /\ u.iCount = k /\ u.fCount = s.fCount
      /\ u.aggrReturnReg = s.aggrReturnReg
      /\ u.fRegs = s.fRegs /\ u.vec = s.vec /\ u.vecSize = s.vecSize
  BY DEF VMs
<1> HIDE DEF u
<1>4. StackHome(u, 8) = StackHome(s, 8) /\ StackHome(s, 8).bank # "int"
  BY <1>3 DEF StackHome, Fits, Home
<1>5. Takes(u, t, StackHome(u, 8), x)
  BY <1>2, AppendTakes
<1>6. Keeps(s, u)
  <2> SUFFICES ASSUME NEW h \in Homes, NEW y \in Pieces, InUse(s, h), Holds(s, h, y)
               PROVE  InUse(u, h) /\ Holds(u, h, y)
    BY DEF Keeps
  <2>1. CASE h.bank = "int"
    BY <2>1, <1>1, <1>3 DEF InUse, Holds, Homes
  <2>2. CASE h.bank # "int"
    BY <2>2, <1>3 DEF InUse, Holds, Homes
  <2> QED  BY <2>1, <2>2
<1>7. SoundVec(s) => SoundVec(u)
  BY <1>3 DEF SoundVec
<1>8. Above(s, StackHome(s, 8))
  BY <1>3, <1>4, <1>5 DEF Takes, Above, InUse, Homes
<1> HIDE DEF t
<1> QED  BY <1>3, <1>4, <1>5, <1>6, <1>7, <1>8, KeepsTransitive DEF Takes, t, u, k

(* Binding an integer; a pointer is bound in the same way. *)
LEMMA IntTakes ==
  ASSUME NEW s \in VMs, NEW x \in Pieces
  PROVE  /\ Takes(s, ArgLongLong(s, x), IntHome(s), x)
         /\ ArgPointer(s, x) = ArgLongLong(s, x)
<1>1. CASE NextIntReg(s) < NumIntRegs
  <2>1. NextIntReg(s) \in IntRegs
    BY <1>1, NextIntRegRange, SysVAssumption DEF IntRegs
  <2>2. /\ ArgLongLong(s, x)
              = [s EXCEPT !.iRegs[NextIntReg(s)] = x, !.iCount = NextIntReg(s) + 1]
        /\ ArgPointer(s, x)
              = [s EXCEPT !.iCount = NextIntReg(s) + 1, !.iRegs[NextIntReg(s)] = x]
        /\ IntHome(s) = Home("int", NextIntReg(s))
    BY <1>1, Zenon DEF ArgLongLong, ArgPointer, IntHome
  <2>3. Takes(s, ArgLongLong(s, x), IntHome(s), x)
    BY <1>1, <2>2, IntRegTakes
  <2>4. ArgPointer(s, x) = ArgLongLong(s, x)
    BY <2>1, <2>2, IntRegWrite
  <2> QED  BY <2>3, <2>4
<1>2. CASE ~(NextIntReg(s) < NumIntRegs)
  <2>1. /\ ArgLongLong(s, x) = dcVecAppend([s EXCEPT !.iCount = NextIntReg(s)], 8, x)
        /\ ArgPointer(s, x) = dcVecAppend([s EXCEPT !.iCount = NextIntReg(s)], 8, x)
        /\ IntHome(s) = StackHome(s, 8)
    BY <1>2, Zenon DEF ArgLongLong, ArgPointer, IntHome
  <2> QED  BY <1>2, <2>1, IntStackTakes
<1> QED  BY <1>1, <1>2

(* A float argument in a register. *)
LEMMA FloatRegTakes ==
  ASSUME NEW s \in VMs, NEW x \in Pieces, s.fCount < NumFloatRegs,
         NEW t, t = [s EXCEPT !.fRegs[s.fCount] = x, !.fCount = s.fCount + 1]
  PROVE  /\ Takes(s, t, Home("float", s.fCount), x)
         /\ t.fCount = s.fCount + 1
         /\ t.iCount = s.iCount
<1> DEFINE k == s.fCount
           g == Home("float", k)
           r == [s.fRegs EXCEPT ![k] = x]
<1>1. k \in FltRegs /\ k \in Nat /\ k + 1 \in 0 .. NumFloatRegs /\ r \in [FltRegs -> Pieces]
  BY SysVAssumption DEF FltRegs, VMs
<1>2. t = [s EXCEPT !.fRegs = r, !.fCount = k + 1]
  BY DEF VMs
<1> HIDE DEF r
<1>3. t \in VMs
  BY <1>1, <1>2 DEF VMs
<1>4. /\ t.fRegs = [s.fRegs EXCEPT ![k] = x]
      /\ t.fCount = k + 1 /\ t.iCount = s.iCount /\ t.aggrReturnReg = s.aggrReturnReg
      /\ t.iRegs = s.iRegs /\ t.vec = s.vec /\ t.vecSize = s.vecSize
  BY <1>2 DEF VMs, r
<1>5. DOMAIN s.fRegs = FltRegs
  BY DEF VMs
<1>6. g \in Homes /\ g.bank = "float" /\ g.k = k
  BY <1>1 DEF Home, Homes
<1> HIDE DEF g
<1>7. Above(s, g)
  <2> SUFFICES ASSUME NEW h \in Homes, InUse(s, h), h.bank = "float"
               PROVE  h.k < k
    BY <1>6 DEF Above
  <2> QED  BY <1>1 DEF InUse, Homes
<1>8. InUse(t, g) /\ Holds(t, g, x)
  BY <1>1, <1>4, <1>5, <1>6 DEF InUse, Holds
<1>9. Keeps(s, t)
  <2> SUFFICES ASSUME NEW h \in Homes, NEW y \in Pieces, InUse(s, h), Holds(s, h, y)
               PROVE  InUse(t, h) /\ Holds(t, h, y)
    BY DEF Keeps
  <2>1. CASE h.bank = "float"
    BY <2>1, <1>1, <1>4, <1>5 DEF InUse, Holds, Homes
  <2>2. CASE h.bank # "float"
    BY <2>2, <1>4 DEF InUse, Holds, Homes
  <2> QED  BY <2>1, <2>2
<1>10. SoundVec(s) => SoundVec(t)
  BY <1>4 DEF SoundVec
<1> QED  BY <1>3, <1>4, <1>6, <1>7, <1>8, <1>9, <1>10 DEF Takes, g

(* Binding a float. *)
LEMMA FloatTakes ==
  ASSUME NEW s \in VMs, NEW x \in Pieces
  PROVE  Takes(s, ArgDouble(s, x), FloatHome(s), x)
<1>1. CASE s.fCount < NumFloatRegs
  <2>1. /\ ArgDouble(s, x) = [s EXCEPT !.fRegs[s.fCount] = x, !.fCount = s.fCount + 1]
        /\ FloatHome(s) = Home("float", s.fCount)
    BY <1>1 DEF ArgDouble, FloatHome
  <2> QED  BY ZenonT(60), <1>1, <2>1, FloatRegTakes
<1>2. CASE ~(s.fCount < NumFloatRegs)
  <2>1. ArgDouble(s, x) = dcVecAppend(s, 8, x) /\ FloatHome(s) = StackHome(s, 8)
    BY <1>2, Zenon DEF ArgDouble, FloatHome
  <2> QED  BY <2>1, AppendTakes
<1> QED  BY <1>1, <1>2

(* Realigning moves nothing. *)
LEMMA SkipTakes ==
  ASSUME NEW s \in VMs, NEW t, NEW g, NEW x, NEW n \in Nat, Takes(s, t, g, x)
  PROVE  Takes(s, dcVecSkip(t, n), g, x)
<1> DEFINE u == dcVecSkip(t, n)
<1>1. t \in VMs /\ t.vecSize \in Nat /\ t.vecSize + n \in Nat
  BY DEF Takes, VMs
<1>2. /\ u \in VMs
      /\ u.vecSize = t.vecSize + n
      /\ u.iRegs = t.iRegs /\ u.iCount = t.iCount /\ u.fCount = t.fCount
      /\ u.aggrReturnReg = t.aggrReturnReg
      /\ u.fRegs = t.fRegs /\ u.vec = t.vec
  BY <1>1 DEF VMs, dcVecSkip
<1> HIDE DEF u
<1>3. \A h : InUse(t, h) => InUse(u, h)
  BY <1>2 DEF InUse
<1>4. \A h, y : Holds(t, h, y) => Holds(u, h, y)
  BY <1>2 DEF Holds
<1>5. SoundVec(t) => SoundVec(u)
  <2> SUFFICES ASSUME SoundVec(t), NEW i \in DOMAIN t.vec
               PROVE  t.vec[i].at + t.vec[i].len <= t.vecSize + n
    BY <1>2 DEF SoundVec
  <2>1. t.vec[i] \in Segments
    BY <1>1 DEF VMs
  <2>2. t.vec[i].at \in Nat /\ t.vec[i].len \in Nat
    BY <2>1 DEF Segments
  <2> QED  BY <1>1, <2>2 DEF SoundVec
<1> QED  BY <1>2, <1>3, <1>4, <1>5 DEF Takes, Keeps, u

(* An argument with one home. *)
LEMMA SingleTakes ==
  ASSUME NEW s \in VMs, NEW t, NEW g, NEW tag \in Tags,
         NEW type \in Aggrs \cup {NullAggr, "int", "float"},
         Takes(s, t, g, IF type \in Aggrs /\ g.bank = "stack" THEN <<tag, 0>> ELSE <<tag, 1>>)
  PROVE  TakesArg(s, t, [type |-> type, tag |-> tag, at |-> <<g>>])
<1> DEFINE arg == [type |-> type, tag |-> tag, at |-> <<g>>]
<1>1. arg.at = <<g>> /\ arg.type = type /\ arg.tag = tag /\ g \in Homes
  BY DEF Takes
<1>2. arg \in Args
  BY <1>1 DEF Args
<1>3. PieceAt(arg, 1) = IF type \in Aggrs /\ g.bank = "stack" THEN <<tag, 0>> ELSE <<tag, 1>>
  BY <1>1 DEF PieceAt
<1>4. DOMAIN arg.at = {1} /\ arg.at[1] = g /\ Len(arg.at) = 1
  BY <1>1
<1> HIDE DEF arg
<1>5. Holds(t, g, PieceAt(arg, 1))
  BY <1>3 DEF Takes
<1> QED  BY <1>2, <1>4, <1>5 DEF Takes, TakesArg, arg

(* An eightbyte of an aggregate that has a register. *)
LEMMA EightbyteTakes ==
  ASSUME NEW s \in VMs, NEW clz \in RegClass, NEW x \in Pieces,
         clz = "INTEGER" => NextIntReg(s) < NumIntRegs,
         clz = "SSE" => s.fCount < NumFloatRegs
  PROVE  /\ Takes(s, ArgEightbyte(s, clz, x), EightbyteHome(s, clz), x)
         /\ EightbyteHome(s, clz).bank \in {"int", "float"}
         /\ clz = "INTEGER" =>
              /\ ArgEightbyte(s, clz, x).iCount = NextIntReg(s) + 1
              /\ ArgEightbyte(s, clz, x).fCount = s.fCount
         /\ clz = "SSE" =>
              /\ ArgEightbyte(s, clz, x).iCount = s.iCount
              /\ ArgEightbyte(s, clz, x).fCount = s.fCount + 1
<1>1. CASE clz = "INTEGER"
  <2>1. /\ ArgEightbyte(s, clz, x)
              = [s EXCEPT !.iRegs[NextIntReg(s)] = x, !.iCount = NextIntReg(s) + 1]
        /\ EightbyteHome(s, clz) = Home("int", NextIntReg(s))
    BY <1>1 DEF ArgEightbyte, ArgLongLong, EightbyteHome, IntHome
  <2>2. Home("int", NextIntReg(s)).bank = "int"
    BY DEF Home
  <2> DEFINE u == ArgEightbyte(s, clz, x)
             g == EightbyteHome(s, clz)
  <2> HIDE DEF u, g
  <2>3. /\ u = [s EXCEPT !.iRegs[NextIntReg(s)] = x, !.iCount = NextIntReg(s) + 1]
        /\ g = Home("int", NextIntReg(s)) /\ NextIntReg(s) < NumIntRegs
    BY <1>1, <2>1, Zenon DEF u, g
  <2>4. /\ Takes(s, u, g, x)
        /\ u.iCount = NextIntReg(s) + 1 /\ u.fCount = s.fCount
    BY <2>3, IntRegTakes
  <2> QED  BY <1>1, <2>1, <2>2, <2>4 DEF u, g
<1>2. CASE clz = "SSE"
  <2>1. /\ ArgEightbyte(s, clz, x)
              = [s EXCEPT !.fRegs[s.fCount] = x, !.fCount = s.fCount + 1]
        /\ EightbyteHome(s, clz) = Home("float", s.fCount)
    BY <1>2 DEF ArgEightbyte, ArgDouble, EightbyteHome, FloatHome
  <2>2. Home("float", s.fCount).bank = "float"
    BY DEF Home
  <2> DEFINE u == ArgEightbyte(s, clz, x)
             g == EightbyteHome(s, clz)
  <2> HIDE DEF u, g
  <2>3. /\ u = [s EXCEPT !.fRegs[s.fCount] = x, !.fCount = s.fCount + 1]
        /\ g = Home("float", s.fCount) /\ s.fCount < NumFloatRegs
    BY <1>2, <2>1, Zenon DEF u, g
  <2>4. /\ Takes(s, u, g, x)
        /\ u.fCount = s.fCount + 1 /\ u.iCount = s.iCount
    BY <2>3, FloatRegTakes
  <2> QED  BY <1>2, <2>1, <2>2, <2>4 DEF u, g
<1> QED  BY <1>1, <1>2 DEF RegClass

(* The descriptions there are. *)
LEMMA ClassCases ==
  ASSUME NEW ag \in Aggrs
  PROVE  /\ Size[ag] \in Nat
         /\ ~InMemory(ag) =>
              \/ Eightbytes(ag) = 0
              \/ Eightbytes(ag) = 1 /\ Classes[ag][1] \in RegClass
              \/ Eightbytes(ag) = 2 /\ Classes[ag][1] \in RegClass /\ Classes[ag][2] \in RegClass
<1> DEFINE cs == Classes[ag]
<1>1. Size[ag] \in Nat
  BY SysVAssumption
<1>2. \/ cs = <<>> \/ cs = <<"MEMORY">>
      \/ \E c \in RegClass : cs = <<c>>
      \/ \E c, d \in RegClass : cs = <<c, d>>
  BY SysVAssumption
<1> HIDE DEF cs
<1>3. CASE cs = <<>>
  BY <1>1, <1>3 DEF InMemory, Eightbytes, cs
<1>4. CASE cs = <<"MEMORY">>
  BY <1>1, <1>4 DEF InMemory, cs
<1>5. CASE \E c \in RegClass : cs = <<c>>
  BY <1>1, <1>5 DEF InMemory, Eightbytes, cs
<1>6. CASE \E c, d \in RegClass : cs = <<c, d>>
  BY <1>1, <1>6 DEF InMemory, Eightbytes, cs
<1> QED  BY <1>2, <1>3, <1>4, <1>5, <1>6

(* An aggregate on the stack. *)
LEMMA AggrStackTakes ==
  ASSUME NEW s \in VMs, NEW ag \in Aggrs, NEW tag \in Tags, PassedOnStack(s, ag)
  PROVE  TakesArg(s, ArgAggr(s, ag, tag), [type |-> ag, tag |-> tag, at |-> AggrHomes(s, ag, tag)])
<1> DEFINE n == RoundUp8(Size[ag]) - Size[ag]
           g == StackHome(s, Size[ag])
           t == dcVecAppend(s, Size[ag], <<tag, 0>>)
<1>1. Size[ag] \in Nat
  BY ClassCases
<1>2. n \in Nat
  BY <1>1 DEF RoundUp8
<1>3. <<tag, 0>> \in Pieces /\ <<tag, 1>> \in Pieces
  BY DEF Pieces
<1>4. ArgAggr(s, ag, tag) = dcVecSkip(t, n) /\ AggrHomes(s, ag, tag) = <<g>>
  BY DEF ArgAggr, AggrHomes
<1>5. g.bank \in {"stack", "lost"}
  BY DEF StackHome, Home
<1>6. Takes(s, t, g, <<tag, 0>>)
  BY <1>1, <1>3, AppendTakes
<1> HIDE DEF n, g, t
<1>7. Takes(s, dcVecSkip(t, n), g, <<tag, 0>>)
  BY <1>2, <1>6, SkipTakes
<1>8. Takes(s, dcVecSkip(t, n), g, IF ag \in Aggrs /\ g.bank = "stack" THEN <<tag, 0>> ELSE <<tag, 1>>)
  BY <1>5, <1>7 DEF Takes, Holds
<1> QED  BY <1>4, <1>8, SingleTakes

(* An aggregate that is not passed on the stack has registers for all of   *)
(* its eightbytes; the hidden pointer's is not among those counted.        *)
LEMMA RoomFirst ==
  ASSUME NEW s \in VMs, NEW ag \in Aggrs, ~PassedOnStack(s, ag),
         Eightbytes(ag) \in {1, 2}
  PROVE  /\ Classes[ag][1] = "INTEGER" => NextIntReg(s) < NumIntRegs
         /\ Classes[ag][1] = "SSE" => s.fCount < NumFloatRegs
<1>1. /\ Classes[ag][1] = "INTEGER" => Needs(ag, "INTEGER") >= 1
      /\ Classes[ag][1] = "SSE" => Needs(ag, "SSE") >= 1
      /\ Needs(ag, "INTEGER") \in Int /\ Needs(ag, "SSE") \in Int
  BY DEF Needs
<1>2. /\ s.iCount + Needs(ag, "INTEGER") <= NumIntRegs
      /\ s.fCount + Needs(ag, "SSE") <= NumFloatRegs
  BY <1>1, SysVAssumption DEF PassedOnStack, VMs
<1>3. s.iCount \in Nat /\ s.fCount \in Nat
  BY SysVAssumption DEF VMs
<1> QED  BY <1>1, <1>2, <1>3, SysVAssumption DEF NextIntReg, VMs

(* The second eightbyte finds its register after the first took its own. *)
LEMMA RoomSecond ==
  ASSUME NEW s \in VMs, NEW ag \in Aggrs, ~PassedOnStack(s, ag),
         Eightbytes(ag) = 2, Classes[ag][1] \in RegClass,
         NEW u \in VMs, u.aggrReturnReg = s.aggrReturnReg,
         Classes[ag][1] = "INTEGER" => u.iCount = NextIntReg(s) + 1 /\ u.fCount = s.fCount,
         Classes[ag][1] = "SSE" => u.iCount = s.iCount /\ u.fCount = s.fCount + 1
  PROVE  /\ Classes[ag][2] = "INTEGER" => NextIntReg(u) < NumIntRegs
         /\ Classes[ag][2] = "SSE" => u.fCount < NumFloatRegs
<1> DEFINE c == Classes[ag][1]
           d == Classes[ag][2]
           ni == Needs(ag, "INTEGER")
           nf == Needs(ag, "SSE")
<1>1. /\ d = "INTEGER" => IF c = "INTEGER" THEN ni = 2 ELSE ni = 1
      /\ d = "SSE" => IF c = "SSE" THEN nf = 2 ELSE nf = 1
      /\ ni \in Int /\ nf \in Int
  BY DEF Needs
<1>2. s.iCount + ni <= NumIntRegs /\ s.fCount + nf <= NumFloatRegs
  BY SMTT(60), <1>1, SysVAssumption DEF PassedOnStack, VMs
<1>3. s.iCount \in Nat /\ s.fCount \in Nat /\ s.aggrReturnReg \in {-1, 0}
  BY SysVAssumption DEF VMs
<1> HIDE DEF c, d, ni, nf
<1>4. CASE c = "INTEGER"
  <2>1. u.iCount = NextIntReg(s) + 1 /\ u.fCount = s.fCount
    BY <1>4 DEF c
  <2>2. d = "SSE" => u.fCount < NumFloatRegs
    BY <1>1, <1>2, <1>3, <1>4, <2>1, SysVAssumption
  <2>3. d = "INTEGER" => NextIntReg(u) < NumIntRegs
    BY <1>1, <1>2, <1>3, <1>4, <2>1, SysVAssumption DEF NextIntReg
  <2> QED  BY <2>2, <2>3 DEF d
<1>5. CASE c = "SSE"
  <2>1. u.iCount = s.iCount /\ u.fCount = s.fCount + 1
    BY <1>5 DEF c
  <2>2. d = "SSE" => u.fCount < NumFloatRegs
    BY <1>1, <1>2, <1>3, <1>5, <2>1, SysVAssumption
  <2>3. d = "INTEGER" => NextIntReg(u) < NumIntRegs
    BY <1>1, <1>2, <1>3, <1>5, <2>1, SysVAssumption DEF NextIntReg
  <2> QED  BY <2>2, <2>3 DEF d
<1> QED  BY <1>4, <1>5 DEF c, RegClass

(* An aggregate of one eightbyte in a register. *)
LEMMA AggrOneTakes ==
  ASSUME NEW s \in VMs, NEW ag \in Aggrs, NEW tag \in Tags,
         ~PassedOnStack(s, ag), Eightbytes(ag) = 1
  PROVE  TakesArg(s, ArgAggr(s, ag, tag), [type |-> ag, tag |-> tag, at |-> AggrHomes(s, ag, tag)])
<1> DEFINE c == Classes[ag][1]
           g == EightbyteHome(s, c)
           t == ArgEightbyte(s, c, <<tag, 1>>)
<1>1. <<tag, 1>> \in Pieces
  BY DEF Pieces
<1>2. ArgAggr(s, ag, tag) = t /\ AggrHomes(s, ag, tag) = <<g>>
  BY DEF ArgAggr, AggrHomes, ArgFirst
<1>3. c \in RegClass
  BY ClassCases DEF PassedOnStack
<1>4. Takes(s, t, g, <<tag, 1>>) /\ g.bank \in {"int", "float"}
  BY <1>1, <1>3, RoomFirst, EightbyteTakes
<1> HIDE DEF g, t
<1>5. Takes(s, t, g, IF ag \in Aggrs /\ g.bank = "stack" THEN <<tag, 0>> ELSE <<tag, 1>>)
  BY <1>4
<1> QED  BY <1>2, <1>5, SingleTakes

(* An aggregate of two eightbytes, each in a register of its class. *)
LEMMA AggrTwoTakes ==
  ASSUME NEW s \in VMs, NEW ag \in Aggrs, NEW tag \in Tags,
         ~PassedOnStack(s, ag), Eightbytes(ag) = 2
  PROVE  TakesArg(s, ArgAggr(s, ag, tag), [type |-> ag, tag |-> tag, at |-> AggrHomes(s, ag, tag)])
<1> DEFINE c == Classes[ag][1]
           d == Classes[ag][2]
           u == ArgEightbyte(s, c, <<tag, 1>>)
           t == ArgEightbyte(u, d, <<tag, 2>>)
           g == EightbyteHome(s, c)
           h == EightbyteHome(u, d)
           arg == [type |-> ag, tag |-> tag, at |-> <<g, h>>]
<1>1. <<tag, 1>> \in Pieces /\ <<tag, 2>> \in Pieces
  BY DEF Pieces
<1>2. ArgAggr(s, ag, tag) = t /\ AggrHomes(s, ag, tag) = <<g, h>>
  BY DEF ArgAggr, AggrHomes, ArgFirst, ArgSecond
<1>3. c \in RegClass /\ d \in RegClass
  BY ClassCases DEF PassedOnStack
<1>4. /\ Takes(s, u, g, <<tag, 1>>) /\ g.bank \in {"int", "float"}
      /\ c = "INTEGER" => u.iCount = NextIntReg(s) + 1 /\ u.fCount = s.fCount
      /\ c = "SSE" => u.iCount = s.iCount /\ u.fCount = s.fCount + 1
  BY <1>1, <1>3, RoomFirst, EightbyteTakes
<1>5. u \in VMs /\ u.aggrReturnReg = s.aggrReturnReg
  BY <1>4 DEF Takes
<1> HIDE DEF u, g
<1>6. /\ d = "INTEGER" => NextIntReg(u) < NumIntRegs
      /\ d = "SSE" => u.fCount < NumFloatRegs
  BY <1>3, <1>4, <1>5, RoomSecond
<1> HIDE DEF d
<1>7. Takes(u, t, h, <<tag, 2>>) /\ h.bank \in {"int", "float"}
  BY <1>1, <1>3, <1>5, <1>6, EightbyteTakes
<1> HIDE DEF t, h
<1>8. /\ arg.at = <<g, h>> /\ DOMAIN arg.at = {1, 2} /\ arg.at[1] = g /\ arg.at[2] = h
      /\ arg.type = ag /\ arg.tag = tag
  OBVIOUS
<1>9. arg \in Args
  BY <1>4, <1>7, <1>8 DEF Args, Takes
<1>10. PieceAt(arg, 1) = <<tag, 1>> /\ PieceAt(arg, 2) = <<tag, 2>>
  BY <1>4, <1>7, <1>8 DEF PieceAt
<1> HIDE DEF arg
<1>11. t \in VMs /\ t.aggrReturnReg = s.aggrReturnReg /\ (SoundVec(s) => SoundVec(t))
  BY <1>4, <1>7 DEF Takes
<1>12. Keeps(s, t)
  BY <1>4, <1>7, KeepsTransitive DEF Takes
<1>13. /\ g \in Homes /\ Above(s, g) /\ InUse(u, g) /\ Holds(u, g, <<tag, 1>>)
       /\ h \in Homes /\ Above(u, h) /\ InUse(t, h) /\ Holds(t, h, <<tag, 2>>)
       /\ Keeps(s, u) /\ Keeps(u, t)
  BY <1>4, <1>7 DEF Takes
<1>14. InUse(t, g) /\ Holds(t, g, <<tag, 1>>)
  BY <1>1, <1>13 DEF Keeps
<1>15. g.bank = h.bank => g.k < h.k
  BY <1>4, <1>13 DEF Above
<1>16. Above(s, h)
  <2> SUFFICES ASSUME NEW f \in Homes, InUse(s, f), f.bank = h.bank
               PROVE  f.k < h.k
    BY DEF Above
  <2>1. /\ s.iCount <= u.iCount /\ s.fCount <= u.fCount
        /\ s.iCount \in Int /\ s.fCount \in Int /\ u.iCount \in Int /\ u.fCount \in Int
    <3>1. /\ s.iCount \in Int /\ s.fCount \in Int /\ u.iCount \in Int /\ u.fCount \in Int
          /\ NextIntReg(s) \in Int /\ NextIntReg(s) >= s.iCount
      BY <1>5, CountTypes, NextIntRegRange
    <3> QED  BY <1>3, <1>4, <3>1 DEF RegClass
  <2>2. f.k \in Nat /\ f.bank \in {"int", "float"}
    BY <1>7 DEF Homes
  <2>3. InUse(u, f)
    <3>1. CASE f.bank = "int"
      <4>1. f.k < s.iCount /\ f.k # s.aggrReturnReg
        BY <3>1 DEF InUse
      <4>2. f.k < u.iCount /\ f.k # u.aggrReturnReg
        BY <1>5, <2>1, <2>2, <4>1
      <4> QED  BY <3>1, <4>2 DEF InUse
    <3>2. CASE f.bank = "float"
      <4>1. f.k < u.fCount
        BY <3>2, <2>1, <2>2 DEF InUse
      <4> QED  BY <3>2, <4>1 DEF InUse
    <3> QED  BY <2>2, <3>1, <3>2
  <2> QED  BY <1>7, <1>13, <2>3 DEF Above
<1>17. \A j \in DOMAIN arg.at :
         Above(s, arg.at[j]) /\ InUse(t, arg.at[j]) /\ Holds(t, arg.at[j], PieceAt(arg, j))
  BY <1>8, <1>10, <1>13, <1>14, <1>16
<1>18. \A i, j \in DOMAIN arg.at :
         i < j /\ arg.at[i].bank = arg.at[j].bank /\ arg.at[i].bank # "lost"
           => arg.at[i].k < arg.at[j].k
  BY <1>8, <1>15
<1>19. \A j \in DOMAIN arg.at : arg.at[j].bank \in {"int", "float"}
  BY <1>4, <1>7, <1>8
<1>20. TakesArg(s, t, arg)
  BY <1>9, <1>11, <1>12, <1>17, <1>18, <1>19 DEF TakesArg
<1> QED  BY <1>2, <1>20 DEF arg

(* Every aggregate. *)
LEMMA AggrTakes ==
  ASSUME NEW s \in VMs, NEW ag \in Aggrs, NEW tag \in Tags
  PROVE  TakesArg(s, ArgAggr(s, ag, tag), [type |-> ag, tag |-> tag, at |-> AggrHomes(s, ag, tag)])
<1>1. CASE PassedOnStack(s, ag)
  BY <1>1, AggrStackTakes
<1>2. CASE ~PassedOnStack(s, ag) /\ Eightbytes(ag) = 0
  <2> DEFINE arg == [type |-> ag, tag |-> tag, at |-> <<>>]
  <2>1. ArgAggr(s, ag, tag) = s /\ AggrHomes(s, ag, tag) = <<>>
    BY <1>2 DEF ArgAggr, AggrHomes
  <2>2. arg \in Args /\ DOMAIN arg.at = {}
    BY DEF Args
  <2> HIDE DEF arg
  <2>3. TakesArg(s, s, arg)
    BY <2>2 DEF TakesArg, Keeps
  <2> QED  BY <2>1, <2>3 DEF arg
<1>3. CASE ~PassedOnStack(s, ag) /\ Eightbytes(ag) = 1
  BY <1>3, AggrOneTakes
<1>4. CASE ~PassedOnStack(s, ag) /\ Eightbytes(ag) = 2
  BY <1>4, AggrTwoTakes
<1> QED  BY <1>1, <1>2, <1>3, <1>4, ClassCases DEF PassedOnStack

-----------------------------------------------------------------------------
(* The inductive invariant.                                                *)

HomesInUse ==
  \A n \in DOMAIN bound : \A j \in DOMAIN bound[n].at : InUse(vm, bound[n].at[j])

(* The hidden pointer's register is reserved exactly when there is one. *)
ReturnReg == vm.aggrReturnReg = IF Hidden(ret) THEN 0 ELSE -1

(* What an argument bound later may not disturb. *)
BoundInv ==
  /\ HomesInUse
  /\ ArgsIntact
  /\ LeftToRight
  /\ WholeAggregates
  /\ SoundVec(vm)

(* FramesIntact and HiddenPointer of one frame. *)
FrameOK(f) ==
  /\ \A n \in DOMAIN f.args : \A j \in DOMAIN f.args[n].at :
       f.kernel = "x64" \/ f.args[n].at[j].bank = "int"
         => Holds(f, f.args[n].at[j], PieceAt(f.args[n], j))
  /\ Hidden(f.ret) =>
       /\ f.iRegs[0] = RetPtr
       /\ \A n \in DOMAIN f.args : \A j \in DOMAIN f.args[n].at :
            f.args[n].at[j] # Home("int", 0)

IInv ==
  /\ TypeOK
  /\ BoundInv
  /\ ReturnReg
  /\ \A d \in DOMAIN frames : FrameOK(frames[d])

(* The inductive invariant implies every safety invariant but the          *)
(* alignment of the vector.                                                *)
LEMMA IInvImplies ==
  IInv => /\ TypeOK /\ ArgsIntact /\ LeftToRight /\ WholeAggregates
          /\ VectorSafe /\ FramesIntact /\ HiddenPointer
<1> SUFFICES ASSUME IInv  PROVE VectorSafe /\ FramesIntact /\ HiddenPointer
  BY DEF IInv, BoundInv
<1>1. VectorSafe
  BY DEF IInv, BoundInv, SoundVec, VectorSafe
<1>2. FramesIntact
  BY DEF IInv, FrameOK, FramesIntact
<1>3. HiddenPointer
  BY DEF IInv, FrameOK, HiddenPointer
<1> QED  BY <1>1, <1>2, <1>3

(* A new CallVM satisfies it. *)
LEMMA InitIInv == Init => IInv
<1> SUFFICES ASSUME Init  PROVE IInv
  OBVIOUS
<1>1. Junk \in Pieces
  BY DEF Junk, NoTag, Pieces, Tags
<1>2. vm \in VMs
  BY <1>1, SysVAssumption DEF Init, NewCallVM, VMs, IntRegs, FltRegs
<1>3. TypeOK
  BY <1>2 DEF Init, TypeOK, Rets
<1>4. bound = <<>> /\ frames = <<>> /\ vm.vec = <<>> /\ vm.aggrReturnReg = -1 /\ ret = NoRet
  BY DEF Init, NewCallVM
<1>5. ~Hidden(NoRet)
  BY SysVAssumption DEF Hidden, NullAggr, NoRet
<1> QED  BY <1>3, <1>4, <1>5
     DEF IInv, BoundInv, HomesInUse, ArgsIntact, LeftToRight, WholeAggregates, SoundVec, ReturnReg

(* Binding an argument preserves it. *)
LEMMA ArgStep ==
  ASSUME IInv, NEW arg, TakesArg(vm, vm', arg),
         bound' = Append(bound, arg), UNCHANGED <<ret, epoch, frames>>
  PROVE  IInv'
<1> DEFINE N == Len(bound) + 1
<1>1. /\ bound \in Seq(Args) /\ arg \in Args /\ bound' \in Seq(Args)
      /\ DOMAIN bound = 1 .. Len(bound) /\ DOMAIN bound' = 1 .. N
      /\ \A n \in 1 .. Len(bound) : bound'[n] = bound[n] /\ bound[n] \in Args
      /\ bound'[N] = arg /\ Len(bound) \in Nat
  BY DEF IInv, TypeOK, TakesArg
<1>2. \A n \in 1 .. Len(bound) : bound[n].at \in Seq(Homes) /\ bound[n].tag \in Tags
  BY <1>1 DEF Args
<1>3. \A n \in 1 .. Len(bound) : \A j \in DOMAIN bound[n].at :
        bound[n].at[j] \in Homes /\ PieceAt(bound[n], j) \in Pieces
  <2> SUFFICES ASSUME NEW n \in 1 .. Len(bound), NEW j \in DOMAIN bound[n].at
               PROVE  bound[n].at[j] \in Homes /\ PieceAt(bound[n], j) \in Pieces
    OBVIOUS
  <2>1. bound[n].at[j] \in Homes
    BY <1>2
  <2>2. j \in Nat
    BY <1>2
  <2> QED  BY <1>2, <2>1, <2>2 DEF PieceAt, Pieces
<1>4. vm' \in VMs /\ vm'.aggrReturnReg = vm.aggrReturnReg
  BY DEF TakesArg
<1>5. TypeOK'
  BY <1>1, <1>4 DEF IInv, TypeOK
<1>6. \A n \in 1 .. Len(bound) : \A j \in DOMAIN bound[n].at :
        /\ InUse(vm, bound[n].at[j])
        /\ InUse(vm', bound[n].at[j]) /\ Holds(vm', bound[n].at[j], PieceAt(bound[n], j))
  BY <1>1, <1>3 DEF IInv, BoundInv, HomesInUse, ArgsIntact, Intact, TakesArg, Keeps
<1>7. \A j \in DOMAIN arg.at :
        InUse(vm', arg.at[j]) /\ Holds(vm', arg.at[j], PieceAt(arg, j)) /\ Above(vm, arg.at[j])
  BY DEF TakesArg
<1> HIDE DEF N
<1>8. \A n \in DOMAIN bound' : n \in 1 .. Len(bound) \/ n = N
  BY <1>1 DEF N
<1>9. HomesInUse'
  BY <1>1, <1>6, <1>7, <1>8 DEF HomesInUse
<1>10. ArgsIntact'
  BY <1>1, <1>6, <1>7, <1>8 DEF ArgsIntact, Intact
<1>11. LeftToRight'
  <2> SUFFICES ASSUME NEW m \in DOMAIN bound', NEW n \in DOMAIN bound',
                      NEW i \in DOMAIN bound'[m].at, NEW j \in DOMAIN bound'[n].at,
                      m < n \/ (m = n /\ i < j),
                      bound'[m].at[i].bank = bound'[n].at[j].bank, bound'[m].at[i].bank # "lost"
               PROVE  bound'[m].at[i].k < bound'[n].at[j].k
    BY DEF LeftToRight
  <2>1. CASE n = N /\ m \in 1 .. Len(bound)
    BY <2>1, <1>1, <1>3, <1>6, <1>7 DEF Above
  <2>2. CASE n = N /\ m = N
    BY <2>2, <1>1 DEF TakesArg, N
  <2>3. CASE n \in 1 .. Len(bound) /\ m \in 1 .. Len(bound)
    BY <2>3, <1>1 DEF IInv, BoundInv, LeftToRight
  <2>4. ~(n \in 1 .. Len(bound) /\ m = N)
    BY <1>1 DEF N
  <2> QED  BY <1>8, <2>1, <2>2, <2>3, <2>4
<1>12. WholeAggregates'
  BY <1>1, <1>8 DEF IInv, BoundInv, WholeAggregates, TakesArg
<1>13. SoundVec(vm')
  BY DEF IInv, BoundInv, TakesArg
<1>14. ReturnReg'
  BY <1>4 DEF IInv, ReturnReg
<1> QED  BY <1>5, <1>9, <1>10, <1>11, <1>12, <1>13, <1>14 DEF IInv, BoundInv

(* The four operations that bind. *)
LEMMA BindActions ==
  ASSUME IInv,
         \/ dcArgLongLong \/ dcArgPointer \/ dcArgDouble
         \/ \E ag \in Aggrs \cup {NullAggr} : dcArgAggr(ag)
  PROVE  IInv'
<1>1. vm \in VMs /\ Tag \in Tags
  BY DEF IInv, TypeOK, Tag, Tags
<1>2. <<Tag, 1>> \in Pieces
  BY <1>1 DEF Pieces
<1>3. "int" \notin Aggrs /\ "float" \notin Aggrs /\ NullAggr \notin Aggrs
  BY SysVAssumption
<1> DEFINE arg(type, homes) == [type |-> type, tag |-> Tag, at |-> homes]
<1>4. ASSUME NEW type, NEW homes, Bind(type, homes), TakesArg(vm, vm', arg(type, homes))
      PROVE  IInv'
  BY <1>4, ArgStep DEF Bind
<1>5. CASE dcArgLongLong
  <2>1. Takes(vm, vm', IntHome(vm), <<Tag, 1>>)
    BY <1>1, <1>2, <1>5, IntTakes DEF dcArgLongLong
  <2>2. TakesArg(vm, vm', arg("int", <<IntHome(vm)>>))
    BY <1>1, <1>3, <2>1, SingleTakes
  <2> QED  BY <1>4, <1>5, <2>2 DEF dcArgLongLong
<1>6. CASE dcArgPointer
  <2>1. Takes(vm, vm', IntHome(vm), <<Tag, 1>>)
    BY <1>1, <1>2, <1>6, IntTakes DEF dcArgPointer
  <2>2. TakesArg(vm, vm', arg("int", <<IntHome(vm)>>))
    BY <1>1, <1>3, <2>1, SingleTakes
  <2> QED  BY <1>4, <1>6, <2>2 DEF dcArgPointer
<1>7. CASE dcArgDouble
  <2>1. Takes(vm, vm', FloatHome(vm), <<Tag, 1>>)
    BY <1>1, <1>2, <1>7, FloatTakes DEF dcArgDouble
  <2>2. TakesArg(vm, vm', arg("float", <<FloatHome(vm)>>))
    BY <1>1, <1>3, <2>1, SingleTakes
  <2> QED  BY <1>4, <1>7, <2>2 DEF dcArgDouble
<1>8. ASSUME NEW ag \in Aggrs \cup {NullAggr}, dcArgAggr(ag)
      PROVE  IInv'
  <2>1. CASE ag = NullAggr
    <3>1. Takes(vm, vm', IntHome(vm), <<Tag, 1>>)
      BY <1>1, <1>2, <1>8, <2>1, IntTakes DEF dcArgAggr
    <3>2. TakesArg(vm, vm', arg(NullAggr, <<IntHome(vm)>>))
      BY <1>1, <1>3, <3>1, SingleTakes
    <3> QED  BY <1>4, <1>8, <2>1, <3>2 DEF dcArgAggr
  <2>2. CASE ag # NullAggr
    <3>1. Bind(ag, AggrHomes(vm, ag, Tag)) /\ vm' = ArgAggr(vm, ag, Tag)
      BY <1>8, <2>2 DEF dcArgAggr
    <3>2. TakesArg(vm, vm', arg(ag, AggrHomes(vm, ag, Tag)))
      BY <1>1, <2>2, <3>1, AggrTakes
    <3> QED  BY <1>4, <3>1, <3>2
  <2> QED  BY <2>1, <2>2
<1> QED  BY <1>5, <1>6, <1>7, <1>8

(* dcReset forgets the arguments and frees every home. *)
LEMMA ResetStep ==
  ASSUME IInv, dcReset
  PROVE  IInv'
<1>1. vm' \in VMs /\ vm'.vec = <<>> /\ vm'.aggrReturnReg = -1
  <2>1. vm \in VMs /\ vm' = [vm EXCEPT !.vecSize = 0, !.vec = <<>>, !.iCount = 0, !.fCount = 0,
                                        !.aggrReturnReg = -1]
    BY DEF IInv, TypeOK, dcReset
  <2>2. <<>> \in Seq(Segments) /\ 0 \in 0 .. NumIntRegs /\ 0 \in 0 .. NumFloatRegs
    BY SysVAssumption
  <2> QED  BY <2>1, <2>2 DEF VMs
<1>2. bound' = <<>> /\ ret' = NoRet /\ epoch' = epoch + 1 /\ frames' = frames
  BY DEF dcReset
<1>3. TypeOK'
  BY <1>1, <1>2 DEF IInv, TypeOK, Rets
<1>4. ~Hidden(NoRet)
  BY SysVAssumption DEF Hidden, NullAggr, NoRet
<1>5. BoundInv'
  BY <1>1, <1>2 DEF BoundInv, HomesInUse, ArgsIntact, LeftToRight, WholeAggregates, SoundVec
<1> QED  BY <1>1, <1>2, <1>3, <1>4, <1>5 DEF IInv, ReturnReg

(* Changing the mode moves nothing. *)
LEMMA ModeStep ==
  ASSUME IInv, NEW mode \in {"C", "SYS", "other"}, dcMode(mode)
  PROVE  IInv'
<1>1. /\ vm' \in VMs
      /\ vm'.iRegs = vm.iRegs /\ vm'.iCount = vm.iCount /\ vm'.fCount = vm.fCount
      /\ vm'.aggrReturnReg = vm.aggrReturnReg
      /\ vm'.fRegs = vm.fRegs /\ vm'.vec = vm.vec /\ vm'.vecSize = vm.vecSize
  BY DEF IInv, TypeOK, dcMode, VMs
<1>2. bound' = bound /\ ret' = ret /\ epoch' = epoch /\ frames' = frames
  BY DEF dcMode
<1>3. TypeOK'
  BY <1>1, <1>2 DEF IInv, TypeOK
<1>4. \A h : InUse(vm, h) => InUse(vm', h)
  BY <1>1 DEF InUse
<1>5. \A h, x : Holds(vm, h, x) => Holds(vm', h, x)
  BY <1>1 DEF Holds
<1>6. HomesInUse' /\ ArgsIntact'
  BY <1>2, <1>4, <1>5 DEF IInv, BoundInv, HomesInUse, ArgsIntact, Intact
<1>7. LeftToRight' /\ WholeAggregates'
  BY <1>2 DEF IInv, BoundInv, LeftToRight, WholeAggregates
<1>8. SoundVec(vm')
  BY <1>1 DEF IInv, BoundInv, SoundVec
<1> QED  BY <1>1, <1>2, <1>3, <1>6, <1>7, <1>8 DEF IInv, BoundInv, ReturnReg

(* The homes of the arguments bound. *)
LEMMA BoundHomes ==
  ASSUME bound \in Seq(Args)
  PROVE  \A n \in DOMAIN bound : \A j \in DOMAIN bound[n].at : bound[n].at[j] \in Homes
<1> SUFFICES ASSUME NEW n \in DOMAIN bound, NEW j \in DOMAIN bound[n].at
             PROVE  bound[n].at[j] \in Homes
  OBVIOUS
<1>1. bound[n] \in Args
  OBVIOUS
<1>2. bound[n].at \in Seq(Homes)
  BY <1>1 DEF Args
<1> QED  BY <1>2

(* Announcing a result reserves a register only while no integer argument  *)
(* has one.                                                                *)
LEMMA BeginStep ==
  ASSUME IInv, NEW ag \in Aggrs \cup {NullAggr}, dcBeginCallAggr(ag)
  PROVE  IInv'
<1>1. /\ vm' \in VMs
      /\ vm'.iRegs = vm.iRegs /\ vm'.iCount = vm.iCount /\ vm'.fCount = vm.fCount
      /\ vm'.aggrReturnReg = IF Hidden(ag) THEN 0 ELSE vm.aggrReturnReg
      /\ vm'.fRegs = vm.fRegs /\ vm'.vec = vm.vec /\ vm'.vecSize = vm.vecSize
  BY DEF IInv, TypeOK, dcBeginCallAggr, VMs
<1>2. /\ bound' = bound /\ ret' = ag /\ epoch' = epoch /\ frames' = frames
      /\ ret = NoRet /\ vm.iCount = 0
  BY DEF dcBeginCallAggr
<1>3. TypeOK'
  BY <1>1, <1>2 DEF IInv, TypeOK, Rets
<1>4. ASSUME NEW h \in Homes, InUse(vm, h)
      PROVE  InUse(vm', h)
  <2>1. h.k \in Nat
    BY DEF Homes
  <2>2. CASE h.bank = "int"
    BY <1>2, <1>4, <2>1, <2>2 DEF InUse
  <2>3. CASE h.bank # "int"
    BY <1>1, <1>4, <2>3 DEF InUse, Homes
  <2> QED  BY <2>2, <2>3
<1>5. \A h, x : Holds(vm, h, x) => Holds(vm', h, x)
  BY <1>1 DEF Holds
<1>6. \A n \in DOMAIN bound : \A j \in DOMAIN bound[n].at : bound[n].at[j] \in Homes
  BY BoundHomes DEF IInv, TypeOK
<1>7. HomesInUse'
  BY <1>2, <1>4, <1>6 DEF IInv, BoundInv, HomesInUse
<1>8. ArgsIntact'
  BY <1>2, <1>5 DEF IInv, BoundInv, ArgsIntact, Intact
<1>9. LeftToRight' /\ WholeAggregates'
  BY <1>2 DEF IInv, BoundInv, LeftToRight, WholeAggregates
<1>10. SoundVec(vm')
  BY <1>1 DEF IInv, BoundInv, SoundVec
<1>11. ~Hidden(NoRet)
  BY SysVAssumption DEF Hidden, NullAggr, NoRet
<1>12. ReturnReg'
  BY <1>1, <1>2, <1>11 DEF IInv, ReturnReg
<1> QED  BY <1>2, <1>3, <1>7, <1>8, <1>9, <1>10, <1>12 DEF IInv, BoundInv

(* What the kernel hands over is what was bound. *)
LEMMA FrameMade ==
  ASSUME NEW s \in VMs, NEW r \in Rets, bound \in Seq(Args),
         \A n \in DOMAIN bound : Intact(s, bound[n]),
         Hidden(r) => /\ s.iRegs[0] = RetPtr
                      /\ \A n \in DOMAIN bound : \A j \in DOMAIN bound[n].at :
                           bound[n].at[j] # Home("int", 0)
  PROVE  KernelFrame(s, r) \in KernelFrames /\ FrameOK(KernelFrame(s, r))
<1> DEFINE f == KernelFrame(s, r)
<1>1. f \in KernelFrames
  BY DEF KernelFrame, KernelFrames, VMs
<1>2. /\ f.args = bound /\ f.ret = r /\ f.kernel = s.vt /\ f.iRegs = s.iRegs
      /\ f.kernel = "x64" => f.fRegs = s.fRegs /\ f.vec = s.vec
  BY DEF KernelFrame
<1> HIDE DEF f
<1>3. ASSUME NEW h, NEW x, Holds(s, h, x), f.kernel = "x64" \/ h.bank = "int"
      PROVE  Holds(f, h, x)
  BY <1>2, <1>3 DEF Holds
<1>4. FrameOK(f)
  BY <1>2, <1>3 DEF FrameOK, Intact
<1> QED  BY <1>1, <1>4 DEF f

(* One more call in progress. *)
LEMMA FramePushed ==
  ASSUME frames \in Seq(KernelFrames), \A d \in DOMAIN frames : FrameOK(frames[d]),
         NEW f \in KernelFrames, FrameOK(f), frames' = Append(frames, f)
  PROVE  frames' \in Seq(KernelFrames) /\ \A d \in DOMAIN frames' : FrameOK(frames'[d])
<1>1. /\ frames' \in Seq(KernelFrames)
      /\ DOMAIN frames' = 1 .. Len(frames) + 1
      /\ DOMAIN frames = 1 .. Len(frames)
      /\ \A d \in 1 .. Len(frames) : frames'[d] = frames[d]
      /\ frames'[Len(frames) + 1] = f
      /\ Len(frames) \in Nat
  OBVIOUS
<1>2. \A d \in DOMAIN frames' : d \in DOMAIN frames \/ d = Len(frames) + 1
  BY <1>1
<1> QED  BY <1>1, <1>2

(* A call without an aggregate result. *)
LEMMA CallStep ==
  ASSUME IInv, dcCall
  PROVE  IInv'
<1>1. /\ vm' = vm /\ bound' = bound /\ ret' = ret /\ epoch' = epoch
      /\ frames' = Append(frames, KernelFrame(vm, NoRet))
  BY DEF dcCall
<1>2. NoRet \in Rets /\ ~Hidden(NoRet)
  BY SysVAssumption DEF Rets, Hidden, NullAggr, NoRet
<1>3. KernelFrame(vm, NoRet) \in KernelFrames /\ FrameOK(KernelFrame(vm, NoRet))
  BY <1>2, FrameMade DEF IInv, TypeOK, BoundInv, ArgsIntact
<1>4. frames' \in Seq(KernelFrames) /\ \A d \in DOMAIN frames' : FrameOK(frames'[d])
  BY <1>1, <1>3, FramePushed DEF IInv, TypeOK
<1>5. TypeOK'
  BY <1>1, <1>4 DEF IInv, TypeOK
<1>6. BoundInv' /\ ReturnReg'
  BY <1>1 DEF IInv, BoundInv, HomesInUse, ArgsIntact, LeftToRight, WholeAggregates, ReturnReg
<1> QED  BY <1>4, <1>5, <1>6 DEF IInv

(* A call with one: the hidden pointer goes to a register no argument has. *)
LEMMA CallAggrStep ==
  ASSUME IInv, dcCallAggr
  PROVE  IInv'
<1>1. /\ bound' = bound /\ ret' = ret /\ epoch' = epoch
      /\ frames' = Append(frames, KernelFrame(vm', ret))
      /\ vm' = IF vm.aggrReturnReg # -1
                THEN [vm EXCEPT !.iRegs[vm.aggrReturnReg] = RetPtr]
                ELSE vm
  BY DEF dcCallAggr
<1>2. /\ vm \in VMs /\ bound \in Seq(Args) /\ ret \in Rets /\ frames \in Seq(KernelFrames)
      /\ ArgsIntact /\ HomesInUse
  BY DEF IInv, TypeOK, BoundInv
<1>3. RetPtr \in Pieces /\ 0 \in IntRegs /\ vm.aggrReturnReg \in {-1, 0}
  <2>1. RetPtr \in Pieces
    BY DEF RetPtr, NoTag, Pieces, Tags
  <2>2. 0 \in IntRegs
    BY SysVAssumption DEF IntRegs
  <2> QED  BY <1>2, <2>1, <2>2 DEF VMs
<1>4. DOMAIN vm.iRegs = IntRegs
  BY <1>2 DEF VMs
<1> DEFINE r == [vm.iRegs EXCEPT ![0] = RetPtr]
<1>5. r \in [IntRegs -> Pieces]
  BY <1>2, <1>3 DEF VMs
<1>6. vm.aggrReturnReg = 0 => vm' = [vm EXCEPT !.iRegs = r]
  BY <1>1, <1>2 DEF VMs
<1>7. vm.aggrReturnReg = 0 => vm'.iRegs = r
  BY <1>2, <1>6 DEF VMs
<1>8. /\ \A k \in IntRegs : k # vm.aggrReturnReg => vm'.iRegs[k] = vm.iRegs[k]
      /\ vm.aggrReturnReg = 0 => vm'.iRegs[0] = RetPtr
      /\ DOMAIN vm'.iRegs = IntRegs
  BY <1>1, <1>3, <1>4, <1>7
<1> HIDE DEF r
<1>9. /\ vm' \in VMs
      /\ vm'.iCount = vm.iCount /\ vm'.fCount = vm.fCount
      /\ vm'.aggrReturnReg = vm.aggrReturnReg
      /\ vm'.fRegs = vm.fRegs /\ vm'.vec = vm.vec /\ vm'.vecSize = vm.vecSize
  BY <1>1, <1>2, <1>3, <1>5, <1>6 DEF VMs
<1>10. \A h : InUse(vm, h) => InUse(vm', h)
  BY <1>9 DEF InUse
<1>11. ASSUME NEW h \in Homes, NEW x, InUse(vm, h), Holds(vm, h, x)
       PROVE  Holds(vm', h, x)
  <2>1. CASE h.bank = "int"
    BY <2>1, <1>4, <1>8, <1>11 DEF InUse, Holds
  <2>2. CASE h.bank # "int"
    BY <2>2, <1>9, <1>11 DEF Holds, Homes
  <2> QED  BY <2>1, <2>2
<1>12. HomesInUse'
  BY <1>1, <1>2, <1>10 DEF HomesInUse
<1>13. \A n \in DOMAIN bound : Intact(vm', bound[n])
  BY <1>2, <1>11, BoundHomes DEF ArgsIntact, HomesInUse, Intact
<1>14. Hidden(ret) =>
         /\ vm'.iRegs[0] = RetPtr
         /\ \A n \in DOMAIN bound : \A j \in DOMAIN bound[n].at : bound[n].at[j] # Home("int", 0)
  <2> SUFFICES ASSUME Hidden(ret)
               PROVE  /\ vm'.iRegs[0] = RetPtr
                      /\ \A n \in DOMAIN bound : \A j \in DOMAIN bound[n].at :
                           bound[n].at[j] # Home("int", 0)
    OBVIOUS
  <2>1. vm.aggrReturnReg = 0
    BY DEF IInv, ReturnReg
  <2>2. ~InUse(vm, Home("int", 0))
    BY <2>1 DEF InUse, Home
  <2> QED  BY <1>2, <1>8, <2>1, <2>2 DEF HomesInUse
<1>15. KernelFrame(vm', ret) \in KernelFrames /\ FrameOK(KernelFrame(vm', ret))
  BY <1>2, <1>9, <1>13, <1>14, FrameMade
<1>16. frames' \in Seq(KernelFrames) /\ \A d \in DOMAIN frames' : FrameOK(frames'[d])
  BY <1>1, <1>2, <1>15, FramePushed DEF IInv
<1>17. TypeOK'
  BY <1>1, <1>9, <1>16 DEF IInv, TypeOK
<1>18. ArgsIntact'
  BY <1>1, <1>13 DEF ArgsIntact
<1>19. LeftToRight' /\ WholeAggregates' /\ ReturnReg'
  BY <1>1, <1>9 DEF IInv, BoundInv, LeftToRight, WholeAggregates, ReturnReg
<1>20. SoundVec(vm')
  BY <1>9 DEF IInv, BoundInv, SoundVec
<1> QED  BY <1>12, <1>16, <1>17, <1>18, <1>19, <1>20 DEF IInv, BoundInv

(* A target returns. *)
LEMMA ReturnStep ==
  ASSUME IInv, Return
  PROVE  IInv'
<1>1. /\ vm' = vm /\ bound' = bound /\ ret' = ret /\ epoch' = epoch
      /\ frames # <<>> /\ frames' = SubSeq(frames, 1, Len(frames) - 1)
  BY DEF Return
<1>2. frames \in Seq(KernelFrames) /\ Len(frames) \in Nat /\ Len(frames) > 0
  BY <1>1 DEF IInv, TypeOK
<1>3. /\ frames' \in Seq(KernelFrames)
      /\ DOMAIN frames' = 1 .. Len(frames) - 1
      /\ \A d \in DOMAIN frames' : d \in DOMAIN frames /\ frames'[d] = frames[d]
  BY <1>1, <1>2
<1>4. \A d \in DOMAIN frames' : FrameOK(frames'[d])
  BY <1>3 DEF IInv
<1>5. TypeOK'
  BY <1>1, <1>3 DEF IInv, TypeOK
<1>6. BoundInv' /\ ReturnReg'
  BY <1>1 DEF IInv, BoundInv, HomesInUse, ArgsIntact, LeftToRight, WholeAggregates, ReturnReg
<1> QED  BY <1>4, <1>5, <1>6 DEF IInv

(* Every step preserves the inductive invariant. *)
LEMMA NextIInv == IInv /\ [Next]_vars => IInv'
<1> SUFFICES ASSUME IInv, [Next]_vars  PROVE IInv'
  OBVIOUS
<1>1. CASE UNCHANGED vars
  BY <1>1 DEF vars, IInv, TypeOK, BoundInv, HomesInUse, ArgsIntact, LeftToRight,
              WholeAggregates, ReturnReg
<1>2. CASE Next
  BY <1>2, BindActions, ResetStep, ModeStep, BeginStep, CallStep, CallAggrStep, ReturnStep DEF Next
<1> QED  BY <1>1, <1>2

-----------------------------------------------------------------------------
(* The theorems.                                                           *)

(* In every behaviour of the CallVM the inductive invariant holds. *)
THEOREM Invariance == Spec => []IInv
BY InitIInv, NextIInv, PTL DEF Spec

(* The CallVM keeps the shape of its C structures: no counter runs past    *)
(* its registers, whatever is bound and called (dyncall_callvm_x64.c).     *)
THEOREM TypeCorrect == Spec => []TypeOK
BY Invariance, IInvImplies, PTL

(* Every argument bound since the last dcReset stays where it was put, for *)
(* any number of registers, any aggregates and any size of the vector.     *)
THEOREM ArgumentsIntact == Spec => []ArgsIntact
BY Invariance, IInvImplies, PTL

(* A running target keeps the arguments it was called with, however the    *)
(* CallVM is reset, refilled and called again.                             *)
THEOREM FramesStayIntact == Spec => []FramesIntact
BY Invariance, IInvImplies, PTL

(* Registers and stack slots are given out from left to right, never       *)
(* twice.                                                                  *)
THEOREM GivenOutInOrder == Spec => []LeftToRight
BY Invariance, IInvImplies, PTL

(* No aggregate is split between registers and the stack (argAggr).        *)
THEOREM AggregatesWhole == Spec => []WholeAggregates
BY Invariance, IInvImplies, PTL

(* dcVecAppend writes inside the buffer of the vector, segments apart.     *)
THEOREM VectorStaysInside == Spec => []VectorSafe
BY Invariance, IInvImplies, PTL

(* A target whose result is in memory has its address in the first integer *)
(* register, and no argument there.                                        *)
THEOREM ResultPointerFirst == Spec => []HiddenPointer
BY Invariance, IInvImplies, PTL

-----------------------------------------------------------------------------
(* Where the stack arguments begin: each append that finds room is         *)
(* followed by what fills it up to full slots, so that only an argument    *)
(* that was dropped can move those behind it.                              *)

(* QwordAligned of one CallVM. *)
Aligned(s) == s.vecSize % 8 = 0 /\ \A i \in DOMAIN s.vec : s.vec[i].at % 8 = 0

(* From s to t, an argument was bound to its homes. *)
StaysAligned(s, t, homes) ==
  Aligned(s) => Aligned(t) \/ \E j \in DOMAIN homes : homes[j].bank = "lost"

-----------------------------------------------------------------------------
(* What each operation on the CallVM does to the alignment.                *)

(* A segment is appended where the vector ended; only its length counts.   *)
LEMMA AppendBegins ==
  ASSUME NEW s \in VMs, NEW len \in Nat, NEW x, Aligned(s), Fits(s, len)
  PROVE  /\ dcVecAppend(s, len, x).vecSize = s.vecSize + len
         /\ \A i \in DOMAIN dcVecAppend(s, len, x).vec :
              dcVecAppend(s, len, x).vec[i].at % 8 = 0
<1> DEFINE t   == dcVecAppend(s, len, x)
           seg == [at |-> s.vecSize, len |-> len, val |-> x]
<1>1. t.vec = Append(s.vec, seg) /\ t.vecSize = s.vecSize + len
  BY DEF dcVecAppend, VMs
<1>2. seg.at % 8 = 0
  BY DEF Aligned
<1>3. s.vec \in Seq(Segments)
  BY DEF VMs
<1> HIDE DEF t, seg
<1>4. ASSUME NEW i \in DOMAIN t.vec  PROVE t.vec[i].at % 8 = 0
  <2>1. CASE i = Len(s.vec) + 1
    BY <1>1, <1>2, <1>3, <2>1
  <2>2. CASE i \in 1 .. Len(s.vec)
    BY <1>1, <1>3, <2>2 DEF Aligned
  <2> QED  BY <1>1, <1>3, <2>1, <2>2
<1> QED  BY <1>1, <1>4 DEF t

(* An argument of a full slot. *)
LEMMA SlotAligned ==
  ASSUME NEW s \in VMs, NEW x
  PROVE  StaysAligned(s, dcVecAppend(s, 8, x), <<StackHome(s, 8)>>)
<1> SUFFICES ASSUME Aligned(s)
             PROVE  Aligned(dcVecAppend(s, 8, x)) \/ StackHome(s, 8).bank = "lost"
  BY DEF StaysAligned
<1>1. CASE Fits(s, 8)
  <2>1. s.vecSize \in Nat /\ s.vecSize % 8 = 0
    BY DEF VMs, Aligned
  <2>2. (s.vecSize + 8) % 8 = 0
    BY <2>1
  <2> QED  BY <1>1, <2>2, AppendBegins DEF Aligned
<1>2. CASE ~Fits(s, 8)
  BY <1>2 DEF StackHome, Home
<1> QED  BY <1>1, <1>2

(* The padding of an aggregate fills its last slot. *)
LEMMA PaddingFills ==
  ASSUME NEW n \in Nat, NEW m \in Nat, m % 8 = 0
  PROVE  (m + n + (RoundUp8(n) - n)) % 8 = 0
BY DEF RoundUp8

(* An aggregate on the stack, and its realignment. *)
LEMMA AggrStackAligned ==
  ASSUME NEW s \in VMs, NEW ag \in Aggrs, NEW x
  PROVE  StaysAligned(s, dcVecSkip(dcVecAppend(s, Size[ag], x), RoundUp8(Size[ag]) - Size[ag]),
                      <<StackHome(s, Size[ag])>>)
<1> DEFINE len == Size[ag]
           t   == dcVecAppend(s, len, x)
           n   == RoundUp8(len) - len
           u   == dcVecSkip(t, n)
<1> SUFFICES ASSUME Aligned(s)
             PROVE  Aligned(u) \/ StackHome(s, len).bank = "lost"
  BY DEF StaysAligned
<1>1. CASE Fits(s, len)
  <2>1. len \in Nat /\ s.vecSize \in Nat /\ s.vecSize % 8 = 0
    BY SysVAssumption DEF VMs, Aligned
  <2>2. t.vecSize = s.vecSize + len /\ \A i \in DOMAIN t.vec : t.vec[i].at % 8 = 0
    BY <1>1, <2>1, AppendBegins
  <2>3. (s.vecSize + len + n) % 8 = 0
    BY <2>1, PaddingFills
  <2>4. t = [s EXCEPT !.vec = Append(@, [at |-> s.vecSize, len |-> len, val |-> x]),
                      !.vecSize = @ + len]
    BY <1>1 DEF dcVecAppend
  <2>5. u.vecSize = t.vecSize + n /\ u.vec = t.vec
    BY <2>4 DEF VMs, dcVecSkip
  <2> HIDE DEF u, t, n
  <2> QED  BY <2>2, <2>3, <2>5 DEF Aligned
<1>2. CASE ~Fits(s, len)
  BY <1>2 DEF StackHome, Home
<1> QED  BY <1>1, <1>2

(* An integer, in a register or a slot. *)
LEMMA IntAligned ==
  ASSUME NEW s \in VMs, NEW x
  PROVE  /\ StaysAligned(s, ArgLongLong(s, x), <<IntHome(s)>>)
         /\ StaysAligned(s, ArgPointer(s, x), <<IntHome(s)>>)
<1> DEFINE k == NextIntReg(s)
           r == [s EXCEPT !.iCount = k]
<1>1. CASE k < NumIntRegs
  <2>1. /\ ArgLongLong(s, x).vec = s.vec /\ ArgLongLong(s, x).vecSize = s.vecSize
        /\ ArgPointer(s, x).vec = s.vec /\ ArgPointer(s, x).vecSize = s.vecSize
    BY <1>1 DEF ArgLongLong, ArgPointer, VMs
  <2> QED  BY <2>1 DEF StaysAligned, Aligned
<1>2. CASE ~(k < NumIntRegs)
  <2>1. /\ ArgLongLong(s, x) = dcVecAppend(r, 8, x) /\ ArgPointer(s, x) = dcVecAppend(r, 8, x)
        /\ IntHome(s) = StackHome(s, 8)
    BY <1>2, Zenon DEF ArgLongLong, ArgPointer, IntHome
  <2>2. r \in VMs
    BY NextIntRegRange, CountWrite
  <2>3. r.vec = s.vec /\ r.vecSize = s.vecSize
    BY DEF VMs
  <2> HIDE DEF r
  <2>4. StackHome(r, 8) = StackHome(s, 8) /\ (Aligned(s) => Aligned(r))
    BY <2>3 DEF StackHome, Fits, Aligned
  <2>5. StaysAligned(r, dcVecAppend(r, 8, x), <<StackHome(r, 8)>>)
    BY <2>2, SlotAligned
  <2> QED  BY <2>1, <2>4, <2>5, Zenon DEF StaysAligned
<1> QED  BY <1>1, <1>2

(* A float, in a register or a slot. *)
LEMMA FloatAligned ==
  ASSUME NEW s \in VMs, NEW x
  PROVE  StaysAligned(s, ArgDouble(s, x), <<FloatHome(s)>>)
<1>1. CASE s.fCount < NumFloatRegs
  <2>1. ArgDouble(s, x).vec = s.vec /\ ArgDouble(s, x).vecSize = s.vecSize
    BY <1>1 DEF ArgDouble, VMs
  <2> QED  BY <2>1 DEF StaysAligned, Aligned
<1>2. CASE ~(s.fCount < NumFloatRegs)
  <2>1. ArgDouble(s, x) = dcVecAppend(s, 8, x) /\ FloatHome(s) = StackHome(s, 8)
    BY <1>2, Zenon DEF ArgDouble, FloatHome
  <2> QED  BY <2>1, SlotAligned
<1> QED  BY <1>1, <1>2

(* An eightbyte of an aggregate. *)
LEMMA EightbyteAligned ==
  ASSUME NEW s \in VMs, NEW clz, NEW x \in Pieces
  PROVE  /\ ArgEightbyte(s, clz, x) \in VMs
         /\ StaysAligned(s, ArgEightbyte(s, clz, x), <<EightbyteHome(s, clz)>>)
<1>1. CASE clz = "INTEGER"
  BY <1>1, IntTakes, IntAligned DEF ArgEightbyte, EightbyteHome, Takes
<1>2. CASE clz # "INTEGER"
  BY <1>2, FloatTakes, FloatAligned DEF ArgEightbyte, EightbyteHome, Takes
<1> QED  BY <1>1, <1>2

(* Every aggregate. *)
LEMMA AggrAligned ==
  ASSUME NEW s \in VMs, NEW ag \in Aggrs, NEW tag \in Tags
  PROVE  StaysAligned(s, ArgAggr(s, ag, tag), AggrHomes(s, ag, tag))
<1>1. <<tag, 1>> \in Pieces /\ <<tag, 2>> \in Pieces
  BY DEF Pieces
<1>2. CASE PassedOnStack(s, ag)
  <2>1. /\ ArgAggr(s, ag, tag) = dcVecSkip(dcVecAppend(s, Size[ag], <<tag, 0>>),
                                           RoundUp8(Size[ag]) - Size[ag])
        /\ AggrHomes(s, ag, tag) = <<StackHome(s, Size[ag])>>
    BY <1>2 DEF ArgAggr, AggrHomes
  <2> QED  BY <2>1, AggrStackAligned
<1>3. CASE ~PassedOnStack(s, ag) /\ Eightbytes(ag) = 0
  BY <1>3 DEF ArgAggr, StaysAligned
<1>4. CASE ~PassedOnStack(s, ag) /\ Eightbytes(ag) = 1
  <2>1. /\ ArgAggr(s, ag, tag) = ArgEightbyte(s, Classes[ag][1], <<tag, 1>>)
        /\ AggrHomes(s, ag, tag) = <<EightbyteHome(s, Classes[ag][1])>>
    BY <1>4 DEF ArgAggr, AggrHomes, ArgFirst
  <2> QED  BY <1>1, <2>1, EightbyteAligned
<1>5. CASE ~PassedOnStack(s, ag) /\ Eightbytes(ag) = 2
  <2> DEFINE u == ArgEightbyte(s, Classes[ag][1], <<tag, 1>>)
             t == ArgEightbyte(u, Classes[ag][2], <<tag, 2>>)
             g == EightbyteHome(s, Classes[ag][1])
             h == EightbyteHome(u, Classes[ag][2])
  <2>1. ArgAggr(s, ag, tag) = t /\ AggrHomes(s, ag, tag) = <<g, h>>
    BY <1>5 DEF ArgAggr, AggrHomes, ArgFirst, ArgSecond
  <2>2. u \in VMs /\ StaysAligned(s, u, <<g>>)
    BY <1>1, EightbyteAligned
  <2> HIDE DEF u, g
  <2>3. StaysAligned(u, t, <<h>>)
    BY <1>1, <2>2, EightbyteAligned
  <2> HIDE DEF t, h
  <2>4. /\ DOMAIN <<g>> = {1} /\ <<g>>[1] = g /\ DOMAIN <<h>> = {1} /\ <<h>>[1] = h
        /\ DOMAIN <<g, h>> = {1, 2} /\ <<g, h>>[1] = g /\ <<g, h>>[2] = h
    OBVIOUS
  <2>5. StaysAligned(s, t, <<g, h>>)
    BY <2>2, <2>3, <2>4 DEF StaysAligned
  <2> QED  BY <2>1, <2>5
<1>6. ~PassedOnStack(s, ag) => ~InMemory(ag)
  BY DEF PassedOnStack
<1> QED  BY <1>2, <1>3, <1>4, <1>5, <1>6, ClassCases

-----------------------------------------------------------------------------
(* Every step.                                                             *)

(* A bound argument is aligned, or it was dropped and is lost from now on. *)
LEMMA BindAligned ==
  ASSUME TypeOK, AlignedUnlessLost, NEW type, NEW homes, Bind(type, homes),
         StaysAligned(vm, vm', homes)
  PROVE  AlignedUnlessLost'
<1> DEFINE arg == [type |-> type, tag |-> Tag, at |-> homes]
<1>1. bound' = Append(bound, arg) /\ bound \in Seq(Args)
  BY DEF Bind, TypeOK
<1> HIDE DEF arg
<1>2. /\ DOMAIN bound' = 1 .. Len(bound) + 1 /\ DOMAIN bound = 1 .. Len(bound)
      /\ Len(bound) \in Nat
      /\ \A n \in DOMAIN bound : bound'[n] = bound[n]
      /\ bound'[Len(bound) + 1] = arg
  BY <1>1
<1>3. Lost => Lost'
  BY <1>2 DEF Lost
<1>4. arg.at = homes
  BY DEF arg
<1>5. (\E j \in DOMAIN homes : homes[j].bank = "lost") => Lost'
  BY <1>2, <1>4 DEF Lost
<1>6. QwordAligned <=> Aligned(vm)
  BY DEF QwordAligned, Aligned
<1>7. QwordAligned' <=> Aligned(vm')
  BY DEF QwordAligned, Aligned
<1> QED  BY <1>3, <1>5, <1>6, <1>7 DEF AlignedUnlessLost, StaysAligned

(* Every other step leaves the vector as it is, or empties it. *)
LEMMA NextAligned == TypeOK /\ AlignedUnlessLost /\ [Next]_vars => AlignedUnlessLost'
<1> SUFFICES ASSUME TypeOK, AlignedUnlessLost, [Next]_vars  PROVE AlignedUnlessLost'
  OBVIOUS
<1>1. vm \in VMs /\ Tag \in Tags
  BY DEF TypeOK, Tag, Tags
<1>2. ASSUME vm'.vec = vm.vec, vm'.vecSize = vm.vecSize, bound' = bound
      PROVE  AlignedUnlessLost'
  BY <1>2 DEF AlignedUnlessLost, Lost, QwordAligned
<1>3. CASE dcArgLongLong
  BY <1>1, <1>3, IntAligned, BindAligned DEF dcArgLongLong
<1>4. CASE dcArgPointer
  BY <1>1, <1>4, IntAligned, BindAligned DEF dcArgPointer
<1>5. CASE dcArgDouble
  BY <1>1, <1>5, FloatAligned, BindAligned DEF dcArgDouble
<1>6. ASSUME NEW ag \in Aggrs \cup {NullAggr}, dcArgAggr(ag)  PROVE AlignedUnlessLost'
  <2>1. CASE ag = NullAggr
    BY <1>1, <1>6, <2>1, IntAligned, BindAligned DEF dcArgAggr
  <2>2. CASE ag # NullAggr
    BY <1>1, <1>6, <2>2, AggrAligned, BindAligned DEF dcArgAggr
  <2> QED  BY <2>1, <2>2
<1>7. CASE dcReset
  <2>1. vm'.vec = <<>> /\ vm'.vecSize = 0
    BY <1>1, <1>7 DEF dcReset, VMs
  <2> QED  BY <2>1 DEF AlignedUnlessLost, QwordAligned
<1>8. ASSUME NEW mode \in {"C", "SYS", "other"}, dcMode(mode)  PROVE AlignedUnlessLost'
  <2>1. vm'.vec = vm.vec /\ vm'.vecSize = vm.vecSize /\ bound' = bound
    BY <1>1, <1>8 DEF dcMode, VMs
  <2> QED  BY <1>2, <2>1
<1>9. ASSUME NEW ag \in Aggrs \cup {NullAggr}, dcBeginCallAggr(ag)  PROVE AlignedUnlessLost'
  <2>1. vm'.vec = vm.vec /\ vm'.vecSize = vm.vecSize /\ bound' = bound
    BY <1>1, <1>9 DEF dcBeginCallAggr, VMs
  <2> QED  BY <1>2, <2>1
<1>10. CASE dcCall \/ Return
  BY <1>2, <1>10 DEF dcCall, Return
<1>11. CASE dcCallAggr
  <2>1. vm'.vec = vm.vec /\ vm'.vecSize = vm.vecSize /\ bound' = bound
    BY <1>1, <1>11 DEF dcCallAggr, VMs
  <2> QED  BY <1>2, <2>1
<1>12. CASE UNCHANGED vars
  BY <1>2, <1>12 DEF vars
<1> QED  BY <1>3, <1>4, <1>5, <1>6, <1>7, <1>8, <1>9, <1>10, <1>11, <1>12 DEF Next

(* As long as the vector had room for every argument, each one on the      *)
(* stack begins on a full slot, where a target looks for it (argAggr's     *)
(* "realign to qword"), for aggregates and vectors of any size.            *)
THEOREM StackSlotsAligned == Spec => []AlignedUnlessLost
<1>1. Init => AlignedUnlessLost
  BY DEF Init, NewCallVM, AlignedUnlessLost, QwordAligned
<1> QED  BY <1>1, NextAligned, TypeCorrect, PTL DEF Spec

-----------------------------------------------------------------------------
(* No register is left out: the converse of HomesInUse, that a register in *)
(* use was given to some argument.                                         *)

InRegister(h) == h.bank \in {"int", "float"}

(* From s to t, no register but the homes came into use. *)
Fills(s, t, homes) ==
  \A h \in Homes :
    InRegister(h) /\ InUse(t, h) => InUse(s, h) \/ \E j \in DOMAIN homes : homes[j] = h

GivenOut ==
  \A h \in Homes :
    InRegister(h) /\ InUse(vm, h)
      => \E n \in DOMAIN bound : \E j \in DOMAIN bound[n].at : bound[n].at[j] = h

(* Registers do not come into use by what happens to the vector.           *)
LEMMA SameCounts ==
  ASSUME NEW s, NEW t, t.iCount = s.iCount, t.fCount = s.fCount,
         t.aggrReturnReg = s.aggrReturnReg, NEW homes
  PROVE  Fills(s, t, homes)
BY DEF Fills, InRegister, InUse

(* A one element tuple. *)
LEMMA OneHome ==
  ASSUME NEW s, NEW t, NEW g,
         \A h \in Homes : InRegister(h) /\ InUse(t, h) => InUse(s, h) \/ h = g
  PROVE  Fills(s, t, <<g>>)
<1>1. 1 \in DOMAIN <<g>> /\ <<g>>[1] = g
  OBVIOUS
<1> QED  BY <1>1 DEF Fills

LEMMA VecFills ==
  ASSUME NEW s \in VMs, NEW len, NEW x, NEW n, NEW homes
  PROVE  /\ Fills(s, dcVecAppend(s, len, x), homes)
         /\ Fills(s, dcVecSkip(dcVecAppend(s, len, x), n), homes)
<1> DEFINE t == dcVecAppend(s, len, x)
           u == dcVecSkip(t, n)
<1>1. /\ t.iCount = s.iCount /\ t.fCount = s.fCount /\ t.aggrReturnReg = s.aggrReturnReg
      /\ u.iCount = s.iCount /\ u.fCount = s.fCount /\ u.aggrReturnReg = s.aggrReturnReg
  BY DEF VMs, dcVecAppend, dcVecSkip
<1> HIDE DEF t, u
<1>2. Fills(s, t, homes) /\ Fills(s, u, homes)
  BY <1>1, SameCounts
<1> QED  BY <1>2 DEF t, u

(* An integer takes the next register, and skips the hidden pointer's. *)
LEMMA IntFills ==
  ASSUME NEW s \in VMs, NEW x
  PROVE  /\ Fills(s, ArgLongLong(s, x), <<IntHome(s)>>)
         /\ Fills(s, ArgPointer(s, x), <<IntHome(s)>>)
<1> DEFINE k == NextIntReg(s)
           r == [s EXCEPT !.iCount = k]
<1>1. /\ k \in 0 .. NumIntRegs
      /\ \A i \in Nat : i # s.aggrReturnReg /\ i < k => i < s.iCount
  BY NextIntRegRange
<1>2. ASSUME k < NumIntRegs, NEW t, t.iCount = k + 1, t.fCount = s.fCount,
             t.aggrReturnReg = s.aggrReturnReg
      PROVE  Fills(s, t, <<IntHome(s)>>)
  <2>1. IntHome(s) = [bank |-> "int", k |-> k]
    BY <1>2 DEF IntHome, Home
  <2> SUFFICES ASSUME NEW h \in Homes, InRegister(h), InUse(t, h)
               PROVE  InUse(s, h) \/ h = IntHome(s)
    BY OneHome
  <2>2. CASE h.bank = "int"
    <3>1. h.k \in Nat /\ h = [bank |-> "int", k |-> h.k]
      BY <2>2 DEF Homes
    <3>2. h.k < k + 1 /\ h.k # s.aggrReturnReg
      BY <1>2, <2>2 DEF InUse
    <3>3. h.k < s.iCount \/ h.k = k
      BY <1>1, <3>1, <3>2, SysVAssumption
    <3> QED  BY <2>1, <2>2, <3>1, <3>2, <3>3 DEF InUse
  <2>3. CASE h.bank = "float"
    BY <1>2, <2>3 DEF InUse
  <2> QED  BY <2>2, <2>3 DEF InRegister
<1>3. CASE k < NumIntRegs
  <2>1. /\ ArgLongLong(s, x).iCount = k + 1 /\ ArgLongLong(s, x).fCount = s.fCount
        /\ ArgLongLong(s, x).aggrReturnReg = s.aggrReturnReg
        /\ ArgPointer(s, x).iCount = k + 1 /\ ArgPointer(s, x).fCount = s.fCount
        /\ ArgPointer(s, x).aggrReturnReg = s.aggrReturnReg
    BY <1>3 DEF ArgLongLong, ArgPointer, VMs
  <2> QED  BY <1>2, <1>3, <2>1
<1>4. CASE ~(k < NumIntRegs)
  <2>1. ArgLongLong(s, x) = dcVecAppend(r, 8, x) /\ ArgPointer(s, x) = dcVecAppend(r, 8, x)
    BY <1>4, Zenon DEF ArgLongLong, ArgPointer
  <2>2. /\ r \in VMs
        /\ r.iCount = k /\ r.fCount = s.fCount /\ r.aggrReturnReg = s.aggrReturnReg
    BY <1>1, CountWrite DEF VMs
  <2> HIDE DEF r
  <2>3. Fills(r, dcVecAppend(r, 8, x), <<IntHome(s)>>)
    BY <2>2, VecFills
  <2>4. \A h \in Homes : InRegister(h) /\ InUse(r, h) => InUse(s, h)
    BY <1>1, <2>2 DEF InRegister, InUse, Homes
  <2> QED  BY <2>1, <2>3, <2>4 DEF Fills
<1> QED  BY <1>3, <1>4

(* A float takes the next register. *)
LEMMA FloatFills ==
  ASSUME NEW s \in VMs, NEW x
  PROVE  Fills(s, ArgDouble(s, x), <<FloatHome(s)>>)
<1> DEFINE t == ArgDouble(s, x)
<1>1. CASE s.fCount < NumFloatRegs
  <2>1. t.iCount = s.iCount /\ t.fCount = s.fCount + 1 /\ t.aggrReturnReg = s.aggrReturnReg
    BY <1>1 DEF ArgDouble, VMs
  <2>2. FloatHome(s) = [bank |-> "float", k |-> s.fCount]
    BY <1>1 DEF FloatHome, Home
  <2> HIDE DEF t
  <2>3. ASSUME NEW h \in Homes, InRegister(h), InUse(t, h)
        PROVE  InUse(s, h) \/ h = FloatHome(s)
    <3>1. CASE h.bank = "float"
      <4>1. h.k \in Nat /\ h = [bank |-> "float", k |-> h.k]
        BY <3>1 DEF Homes
      <4>2. h.k < s.fCount \/ h.k = s.fCount
        BY <2>1, <2>3, <3>1, <4>1, CountTypes DEF InUse
      <4> QED  BY <2>2, <3>1, <4>1, <4>2 DEF InUse
    <3>2. CASE h.bank = "int"
      BY <2>1, <2>3, <3>2 DEF InUse
    <3> QED  BY <2>3, <3>1, <3>2 DEF InRegister
  <2>4. Fills(s, t, <<FloatHome(s)>>)
    BY <2>3, OneHome
  <2> QED  BY <2>4 DEF t
<1>2. CASE ~(s.fCount < NumFloatRegs)
  <2>1. t = dcVecAppend(s, 8, x)
    BY <1>2, Zenon DEF ArgDouble
  <2> QED  BY <2>1, VecFills
<1> QED  BY <1>1, <1>2

(* An eightbyte of an aggregate. *)
LEMMA EightbyteFills ==
  ASSUME NEW s \in VMs, NEW clz, NEW x \in Pieces
  PROVE  /\ ArgEightbyte(s, clz, x) \in VMs
         /\ Fills(s, ArgEightbyte(s, clz, x), <<EightbyteHome(s, clz)>>)
<1>1. CASE clz = "INTEGER"
  BY <1>1, IntTakes, IntFills DEF ArgEightbyte, EightbyteHome, Takes
<1>2. CASE clz # "INTEGER"
  BY <1>2, FloatTakes, FloatFills DEF ArgEightbyte, EightbyteHome, Takes
<1> QED  BY <1>1, <1>2

(* Every aggregate. *)
LEMMA AggrFills ==
  ASSUME NEW s \in VMs, NEW ag \in Aggrs, NEW tag \in Tags
  PROVE  Fills(s, ArgAggr(s, ag, tag), AggrHomes(s, ag, tag))
<1>1. <<tag, 1>> \in Pieces /\ <<tag, 2>> \in Pieces
  BY DEF Pieces
<1>2. CASE PassedOnStack(s, ag)
  <2>1. ArgAggr(s, ag, tag) = dcVecSkip(dcVecAppend(s, Size[ag], <<tag, 0>>),
                                        RoundUp8(Size[ag]) - Size[ag])
    BY <1>2 DEF ArgAggr
  <2> QED  BY <2>1, VecFills
<1>3. CASE ~PassedOnStack(s, ag) /\ Eightbytes(ag) = 0
  BY <1>3 DEF ArgAggr, Fills
<1>4. CASE ~PassedOnStack(s, ag) /\ Eightbytes(ag) = 1
  <2>1. /\ ArgAggr(s, ag, tag) = ArgEightbyte(s, Classes[ag][1], <<tag, 1>>)
        /\ AggrHomes(s, ag, tag) = <<EightbyteHome(s, Classes[ag][1])>>
    BY <1>4 DEF ArgAggr, AggrHomes, ArgFirst
  <2> QED  BY <1>1, <2>1, EightbyteFills
<1>5. CASE ~PassedOnStack(s, ag) /\ Eightbytes(ag) = 2
  <2> DEFINE u == ArgEightbyte(s, Classes[ag][1], <<tag, 1>>)
             t == ArgEightbyte(u, Classes[ag][2], <<tag, 2>>)
             g == EightbyteHome(s, Classes[ag][1])
             h == EightbyteHome(u, Classes[ag][2])
  <2>1. ArgAggr(s, ag, tag) = t /\ AggrHomes(s, ag, tag) = <<g, h>>
    BY <1>5 DEF ArgAggr, AggrHomes, ArgFirst, ArgSecond
  <2>2. u \in VMs /\ Fills(s, u, <<g>>)
    BY <1>1, EightbyteFills
  <2> HIDE DEF u, g
  <2>3. Fills(u, t, <<h>>)
    BY <1>1, <2>2, EightbyteFills
  <2> HIDE DEF t, h
  <2>4. /\ DOMAIN <<g>> = {1} /\ <<g>>[1] = g /\ DOMAIN <<h>> = {1} /\ <<h>>[1] = h
        /\ DOMAIN <<g, h>> = {1, 2} /\ <<g, h>>[1] = g /\ <<g, h>>[2] = h
    OBVIOUS
  <2>5. Fills(s, t, <<g, h>>)
    BY <2>2, <2>3, <2>4 DEF Fills
  <2> QED  BY <2>1, <2>5
<1>6. ~PassedOnStack(s, ag) => ~InMemory(ag)
  BY DEF PassedOnStack
<1> QED  BY <1>2, <1>3, <1>4, <1>5, <1>6, ClassCases

(* The argument bound has the registers that came into use. *)
LEMMA BindFills ==
  ASSUME TypeOK, GivenOut, NEW type, NEW homes, Bind(type, homes), Fills(vm, vm', homes)
  PROVE  GivenOut'
<1> DEFINE arg == [type |-> type, tag |-> Tag, at |-> homes]
<1>1. bound' = Append(bound, arg) /\ bound \in Seq(Args)
  BY DEF Bind, TypeOK
<1>2. arg.at = homes
  OBVIOUS
<1> HIDE DEF arg
<1>3. /\ \A n \in DOMAIN bound : n \in DOMAIN bound' /\ bound'[n] = bound[n]
      /\ Len(bound) + 1 \in DOMAIN bound' /\ bound'[Len(bound) + 1] = arg
  BY <1>1
<1> SUFFICES ASSUME NEW h \in Homes, InRegister(h), InUse(vm', h)
             PROVE  \E n \in DOMAIN bound' : \E j \in DOMAIN bound'[n].at : bound'[n].at[j] = h
  BY DEF GivenOut
<1>4. CASE InUse(vm, h)
  BY <1>3, <1>4 DEF GivenOut
<1>5. CASE ~InUse(vm, h)
  <2>1. \E j \in DOMAIN homes : homes[j] = h
    BY <1>5 DEF Fills
  <2> QED  BY <1>2, <1>3, <2>1
<1> QED  BY <1>4, <1>5

(* Other steps use no register, or free them all. *)
LEMMA NextFills == TypeOK /\ GivenOut /\ [Next]_vars => GivenOut'
<1> SUFFICES ASSUME TypeOK, GivenOut, [Next]_vars  PROVE GivenOut'
  OBVIOUS
<1>1. vm \in VMs /\ Tag \in Tags
  BY DEF TypeOK, Tag, Tags
<1>2. ASSUME vm'.iCount = vm.iCount, vm'.fCount = vm.fCount,
             vm'.aggrReturnReg = vm.aggrReturnReg, bound' = bound
      PROVE  GivenOut'
  <2> SUFFICES ASSUME NEW h \in Homes, InRegister(h), InUse(vm', h)
               PROVE  \E n \in DOMAIN bound' : \E j \in DOMAIN bound'[n].at : bound'[n].at[j] = h
    BY DEF GivenOut
  <2>1. InUse(vm, h)
    BY <1>2 DEF InUse, InRegister
  <2> QED  BY <1>2, <2>1 DEF GivenOut
<1>3. ASSUME vm'.iCount = 0, vm'.fCount = 0  PROVE GivenOut'
  <2> SUFFICES ASSUME NEW h \in Homes, InRegister(h)  PROVE ~InUse(vm', h)
    BY DEF GivenOut
  <2>1. ~(h.k < 0)
    BY DEF Homes
  <2>2. CASE h.bank = "int"
    BY <1>3, <2>1, <2>2 DEF InUse
  <2>3. CASE h.bank = "float"
    BY <1>3, <2>1, <2>3 DEF InUse
  <2> QED  BY <2>2, <2>3 DEF InRegister
<1>4. CASE dcArgLongLong
  BY <1>1, <1>4, IntFills, BindFills DEF dcArgLongLong
<1>5. CASE dcArgPointer
  BY <1>1, <1>5, IntFills, BindFills DEF dcArgPointer
<1>6. CASE dcArgDouble
  BY <1>1, <1>6, FloatFills, BindFills DEF dcArgDouble
<1>7. ASSUME NEW ag \in Aggrs \cup {NullAggr}, dcArgAggr(ag)  PROVE GivenOut'
  <2>1. CASE ag = NullAggr
    BY <1>1, <1>7, <2>1, IntFills, BindFills DEF dcArgAggr
  <2>2. CASE ag # NullAggr
    BY <1>1, <1>7, <2>2, AggrFills, BindFills DEF dcArgAggr
  <2> QED  BY <2>1, <2>2
<1>8. CASE dcReset
  <2>1. vm'.iCount = 0 /\ vm'.fCount = 0
    BY <1>1, <1>8 DEF dcReset, VMs
  <2> QED  BY <1>3, <2>1
<1>9. ASSUME NEW mode \in {"C", "SYS", "other"}, dcMode(mode)  PROVE GivenOut'
  <2>1. /\ vm'.iCount = vm.iCount /\ vm'.fCount = vm.fCount
        /\ vm'.aggrReturnReg = vm.aggrReturnReg /\ bound' = bound
    BY <1>1, <1>9 DEF dcMode, VMs
  <2> QED  BY <1>2, <2>1
<1>10. ASSUME NEW ag \in Aggrs \cup {NullAggr}, dcBeginCallAggr(ag)  PROVE GivenOut'
  <2>1. vm'.iCount = 0 /\ vm'.fCount = 0
    BY <1>1, <1>10 DEF dcBeginCallAggr, VMs
  <2> QED  BY <1>3, <2>1
<1>11. CASE dcCall \/ Return
  BY <1>2, <1>11 DEF dcCall, Return
<1>12. CASE dcCallAggr
  <2>1. /\ vm'.iCount = vm.iCount /\ vm'.fCount = vm.fCount
        /\ vm'.aggrReturnReg = vm.aggrReturnReg /\ bound' = bound
    BY <1>1, <1>12 DEF dcCallAggr, VMs
  <2> QED  BY <1>2, <2>1
<1>13. CASE UNCHANGED vars
  BY <1>2, <1>13 DEF vars
<1> QED  BY <1>4, <1>5, <1>6, <1>7, <1>8, <1>9, <1>10, <1>11, <1>12, <1>13 DEF Next

(* The register before an argument's is in use, unless it is reserved. *)
LEMMA GivenOutImplies == IInv /\ GivenOut => NoRegisterSkipped
<1> SUFFICES ASSUME IInv, GivenOut,
                    NEW n \in DOMAIN bound, NEW j \in DOMAIN bound[n].at,
                    bound[n].at[j].bank \in {"int", "float"},
                    bound[n].at[j].k > IF bound[n].at[j].bank = "int" /\ Hidden(ret) THEN 1 ELSE 0
             PROVE  \E m \in DOMAIN bound : \E i \in DOMAIN bound[m].at :
                      bound[m].at[i] = Home(bound[n].at[j].bank, bound[n].at[j].k - 1)
  BY DEF NoRegisterSkipped
<1> DEFINE h == bound[n].at[j]
           g == Home(h.bank, h.k - 1)
<1>1. h \in Homes /\ InUse(vm, h) /\ vm \in VMs
  BY BoundHomes DEF IInv, TypeOK, BoundInv, HomesInUse
<1>2. h.bank \in {"int", "float"} /\ h.k > IF h.bank = "int" /\ Hidden(ret) THEN 1 ELSE 0
  OBVIOUS
<1> HIDE DEF h
<1>3. g \in Homes /\ g.bank = h.bank /\ g.k = h.k - 1 /\ h.k \in Nat
  BY <1>1, <1>2 DEF Home, Homes
<1> HIDE DEF g
<1>4. InUse(vm, g)
  <2>1. CASE h.bank = "int"
    <3>1. h.k < vm.iCount /\ vm.iCount \in Int
      BY <1>1, <2>1, CountTypes DEF InUse
    <3>2. g.k # vm.aggrReturnReg
      BY <1>2, <1>3, <2>1 DEF IInv, ReturnReg
    <3> QED  BY <1>3, <2>1, <3>1, <3>2 DEF InUse
  <2>2. CASE h.bank = "float"
    <3>1. h.k < vm.fCount /\ vm.fCount \in Int
      BY <1>1, <2>2, CountTypes DEF InUse
    <3> QED  BY <1>3, <2>2, <3>1 DEF InUse
  <2> QED  BY <1>2, <2>1, <2>2
<1>5. \E m \in DOMAIN bound : \E i \in DOMAIN bound[m].at : bound[m].at[i] = g
  BY <1>2, <1>3, <1>4 DEF GivenOut, InRegister
<1> QED  BY <1>5 DEF g, h

(* The only register ever left out is the hidden pointer's, and only while *)
(* the result it is for is announced; dcReset gives it back.               *)
THEOREM RegistersWithoutGaps == Spec => []NoRegisterSkipped
<1>1. Init => GivenOut
  <2> SUFFICES ASSUME Init, NEW h \in Homes, InRegister(h)  PROVE ~InUse(vm, h)
    BY DEF GivenOut
  <2>1. ~(h.k < 0)
    BY DEF Homes
  <2>2. vm.iCount = 0 /\ vm.fCount = 0
    BY DEF Init, NewCallVM
  <2>3. CASE h.bank = "int"
    BY <2>1, <2>2, <2>3 DEF InUse
  <2>4. CASE h.bank = "float"
    BY <2>1, <2>2, <2>4 DEF InUse
  <2> QED  BY <2>3, <2>4 DEF InRegister
<1> QED  BY <1>1, NextFills, GivenOutImplies, TypeCorrect, Invariance, PTL DEF Spec
=============================================================================
