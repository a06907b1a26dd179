---------------------------- MODULE Win64_proofs ----------------------------
(***************************************************************************)
(* Proofs about Win64, for every number of registers, every size of the    *)
(* vector and every set of aggregates.                                     *)
(*                                                                         *)
(* The argument: the position of an argument is a register or a slot of    *)
(* the stack, which caller and callee count alike.  Copies lie in the      *)
(* vector in places of their own, above copies; a step adds copies below,  *)
(* and what it may do to the ones of a call in progress is Grows.          *)
(***************************************************************************)
EXTENDS Win64, TLAPS

Qws == Int \X Int \X Int

VMs ==
  [vt : {"x64", "this"}, aggrReturnReg : {-1, 0, 1}, count : 0 .. NumRegs,
   regs : [0 .. NumRegs - 1 -> Qws], size : 0 .. VecTotal, copies : 0 .. VecTotal,
   mem : [0 .. MemQwords - 1 -> Qws]]

ArgTypes == Aggrs \cup {NullAggr, "int", "double"}
RetTypes == Aggrs \cup {NullAggr, NoRet}

Callees == [count : 0 .. NumRegs, stackPtr : Nat \ {0}, aggrReturnReg : {-2, -1, 0, 1}]

Frames ==
  [args : Seq(ArgTypes), ret : RetTypes, epoch : Nat, hidden : BOOLEAN, met : BOOLEAN,
   regs : [0 .. NumRegs - 1 -> Qws], stack : Seq(Qws), callee : Callees,
   got : Seq([ref : Qws, val : Seq(Qws)])]

Aligned(s) == s.copies = VecTotal \/ s.copies % 16 = 0

Typed ==
  /\ vm \in VMs /\ Aligned(vm)
  /\ bound \in Seq(ArgTypes) /\ ret \in RetTypes /\ epoch \in Nat
  /\ frames \in Seq(Frames)

-----------------------------------------------------------------------------
(* Sizes and values.                                                       *)

LEMMA VectorSize == VecTotal \in Nat /\ MemQwords \in Nat /\ VecTotal <= 8 * MemQwords
  BY Win64Assumption DEF VecTotal, RegDataSize, MemQwords

LEMMA QwordsOfAggr ==
  ASSUME NEW ag \in Aggrs
  PROVE  /\ Size[ag] \in Nat \ {0} /\ Qwords(ag) \in Nat \ {0} /\ Size[ag] <= 8 * Qwords(ag)
         /\ 8 * Qwords(ag) < Size[ag] + 8
<1>1. Size[ag] \in Nat \ {0}
  BY Win64Assumption
<1>. QED
  BY <1>1 DEF Qwords

LEMMA QwordValues ==
  /\ Junk \in Qws /\ RetPtr \in Qws /\ Assigned \in Qws
  /\ \A p \in Int : Pointer(p) \in Qws
  /\ \A e, n, k \in Int : Piece(e, n, k) \in Qws
  BY DEF Junk, RetPtr, Assigned, Pointer, Piece, Qws

LEMMA StackSlot ==
  ASSUME NEW size \in Nat, size <= VecTotal
  PROVE  /\ size \div 8 \in Nat
         /\ \A k \in 1 .. size \div 8 : k - 1 \in 0 .. MemQwords - 1
         /\ size + 8 <= VecTotal => size \div 8 \in 0 .. MemQwords - 1
  BY VectorSize

-----------------------------------------------------------------------------
(* Binding keeps the types.                                                *)

LEMMA AppendTyped ==
  ASSUME NEW s \in VMs, NEW x \in Qws
  PROVE  /\ dcVecAppend(s, x) \in VMs
         /\ dcVecAppend(s, x).copies = s.copies /\ dcVecAppend(s, x).vt = s.vt
         /\ dcVecAppend(s, x).aggrReturnReg = s.aggrReturnReg
<1>1. s.size \in Nat /\ s.size <= VecTotal
  BY VectorSize DEF VMs
<1>2. CASE s.size + 8 <= VecTotal
  <2>1. s.size \div 8 \in 0 .. MemQwords - 1 /\ s.size + 8 \in 0 .. VecTotal
    BY <1>1, <1>2, StackSlot, VectorSize
  <2>. QED
    BY <1>2, <2>1 DEF dcVecAppend, VMs
<1>. QED
  BY <1>2 DEF dcVecAppend

(* A float takes the same place as an integer.                             *)
LEMMA FloatLikeInteger == \A s, x : argDouble(s, x) = argLongLong(s, x)
  BY DEF argDouble, argLongLong

LEMMA ArgTyped ==
  ASSUME NEW s \in VMs, NEW x \in Qws
  PROVE  /\ argLongLong(s, x) \in VMs
         /\ argLongLong(s, x).copies = s.copies /\ argLongLong(s, x).vt = s.vt
         /\ argLongLong(s, x).aggrReturnReg = s.aggrReturnReg
<1>. DEFINE k == IF s.count = s.aggrReturnReg THEN s.count + 1 ELSE s.count
<1>1. k \in 0 .. NumRegs
  BY Win64Assumption DEF VMs
<1>2. CASE k < NumRegs
  <2>1. argLongLong(s, x) = [s EXCEPT !.regs[k] = x, !.count = k + 1]
    BY <1>2 DEF argLongLong
  <2>2. k \in 0 .. NumRegs - 1 /\ k + 1 \in 0 .. NumRegs
    BY <1>1, <1>2, Win64Assumption
  <2>. HIDE DEF k
  <2>3. [s.regs EXCEPT ![k] = x] \in [0 .. NumRegs - 1 -> Qws]
    BY DEF VMs
  <2>4. argLongLong(s, x) = [s EXCEPT !.regs = [s.regs EXCEPT ![k] = x], !.count = k + 1]
    BY <2>1 DEF VMs
  <2>. QED
    BY <2>2, <2>3, <2>4 DEF VMs
<1>3. CASE ~(k < NumRegs)
  <2>1. argLongLong(s, x) = dcVecAppend([s EXCEPT !.count = k], x)
    BY <1>3 DEF argLongLong
  <2>. HIDE DEF k
  <2>2. [s EXCEPT !.count = k] \in VMs
    BY <1>1 DEF VMs
  <2>3. [s EXCEPT !.count = k].copies = s.copies /\ [s EXCEPT !.count = k].vt = s.vt
        /\ [s EXCEPT !.count = k].aggrReturnReg = s.aggrReturnReg
    BY DEF VMs
  <2>. QED
    BY ZenonT(60), <2>1, <2>2, <2>3, AppendTyped
<1>. QED
  BY <1>2, <1>3

(***************************************************************************)
(* One argument is bound in two steps: an aggregate by reference is copied *)
(* first, and then the value takes its place, a pointer for such an        *)
(* aggregate.                                                              *)
(***************************************************************************)
Copied(s, ag, e, n) ==
  [s EXCEPT !.copies = CopyAt(s, ag),
            !.mem = [q \in DOMAIN s.mem |->
                       IF q \in CopyAt(s, ag) \div 8 .. CopyAt(s, ag) \div 8 + Qwords(ag) - 1
                       THEN Piece(e, n, q - CopyAt(s, ag) \div 8 + 1) ELSE s.mem[q]]]

Staged(s, type, e, n) == IF ByReference(type) THEN Copied(s, type, e, n) ELSE s

Value(s, type, e, n) ==
  IF ByReference(type) THEN Pointer(CopyAt(s, type)) ELSE Piece(e, n, 1)

Taken(s, type, e, n) == argLongLong(Staged(s, type, e, n), Value(s, type, e, n))

(* The copy fits: Win64 has no other behaviour.                            *)
Fits(s, type) == ByReference(type) => CopyAt(s, type) >= 0

BindStep ==
  \E type \in ArgTypes :
    Fits(vm, type) /\ Bind(type) /\ vm' = Taken(vm, type, epoch, Len(bound) + 1)

LEMMA Kinds ==
  /\ \A type : ByReference(type) <=> type \in Aggrs /\ ~InRegister(type)
  /\ \A type : InRegister(type) => type \in Aggrs
  /\ NullAggr \notin Aggrs /\ NoRet \notin Aggrs /\ "int" \notin Aggrs /\ "double" \notin Aggrs
  BY Win64Assumption DEF ByReference, InRegister

LEMMA PieceOfTag == \A k : Piece(Tag[1], Tag[2], k) = Piece(epoch, Len(bound) + 1, k)
  BY DEF Tag

LEMMA AggrTaken ==
  ASSUME NEW s \in VMs, NEW ag \in Aggrs \cup {NullAggr}
  PROVE  argAggr(s, ag, Tag) = Taken(s, ag, epoch, Len(bound) + 1)
<1>1. CASE ByReference(ag)
  <2>1. argAggr(s, ag, Tag) = argByReference(s, ag, Tag)
    BY <1>1, Kinds DEF argAggr
  <2>2. Tag[1] = epoch /\ Tag[2] = Len(bound) + 1
    BY DEF Tag
  <2>3. argByReference(s, ag, Tag)
          = argLongLong(Copied(s, ag, epoch, Len(bound) + 1), Pointer(CopyAt(s, ag)))
    BY <2>2 DEF argByReference, Copied, VMs
  <2>. QED
    BY <1>1, <2>1, <2>3 DEF Taken, Staged, Value
<1>2. CASE ~ByReference(ag)
  <2>1. argAggr(s, ag, Tag) = argLongLong(s, Piece(Tag[1], Tag[2], 1))
    BY <1>2, Kinds DEF argAggr
  <2>. QED
    BY <1>2, <2>1, PieceOfTag DEF Taken, Staged, Value
<1>. QED
  BY <1>1, <1>2

LEMMA BindingIsAStep ==
  ASSUME Typed,
         dcArgLongLong \/ dcArgDouble \/ \E ag \in Aggrs \cup {NullAggr} : dcArgAggr(ag)
  PROVE  BindStep
<1>. vm \in VMs
  BY DEF Typed
<1>1. ASSUME NEW type \in {"int", "double"}, Bind(type),
             vm' = argLongLong(vm, Piece(Tag[1], Tag[2], 1))
      PROVE  BindStep
  <2>1. ~ByReference(type)
    BY Kinds
  <2>2. vm' = Taken(vm, type, epoch, Len(bound) + 1)
    BY <1>1, <2>1, PieceOfTag DEF Taken, Staged, Value
  <2>. QED
    BY <1>1, <2>1, <2>2 DEF BindStep, Fits, ArgTypes
<1>2. CASE dcArgLongLong
  BY <1>1, <1>2 DEF dcArgLongLong
<1>3. CASE dcArgDouble
  BY <1>1, <1>3, FloatLikeInteger DEF dcArgDouble
<1>4. ASSUME NEW ag \in Aggrs \cup {NullAggr}, dcArgAggr(ag)
      PROVE  BindStep
  <2>1. vm' = Taken(vm, ag, epoch, Len(bound) + 1)
    BY <1>4, AggrTaken DEF dcArgAggr
  <2>. QED
    BY <1>4, <2>1 DEF BindStep, Fits, ArgTypes, dcArgAggr
<1>. QED
  BY <1>2, <1>3, <1>4

-----------------------------------------------------------------------------
(* Where a copy goes.                                                      *)

LEMMA CopyPlace ==
  ASSUME NEW s \in VMs, NEW ag \in Aggrs, CopyAt(s, ag) >= 0
  PROVE  /\ CopyAt(s, ag) \in 0 .. VecTotal /\ CopyAt(s, ag) % 16 = 0
         /\ CopyAt(s, ag) \div 8 \in Nat /\ CopyAt(s, ag) = 8 * (CopyAt(s, ag) \div 8)
         /\ CopyAt(s, ag) + Size[ag] <= s.copies
         /\ CopyAt(s, ag) \div 8 + Qwords(ag) <= MemQwords
<1>1. Size[ag] \in Nat \ {0} /\ 8 * Qwords(ag) < Size[ag] + 8 /\ Qwords(ag) \in Nat
  BY QwordsOfAggr
<1>2. s.copies \in 0 .. VecTotal /\ VecTotal \in Nat /\ MemQwords \in Nat
      /\ VecTotal <= 8 * MemQwords
  BY VectorSize DEF VMs
<1>3. \A a, z \in Int : LET p == ((a - z) \div 16) * 16 IN
        p >= 0 => p % 16 = 0 /\ p = 8 * (p \div 8) /\ p + z <= a /\ p \div 8 \in Nat
  OBVIOUS
<1>4. CopyAt(s, ag) = ((s.copies - Size[ag]) \div 16) * 16
  BY DEF CopyAt, Below16
<1>5. CopyAt(s, ag) % 16 = 0 /\ CopyAt(s, ag) = 8 * (CopyAt(s, ag) \div 8)
      /\ CopyAt(s, ag) + Size[ag] <= s.copies /\ CopyAt(s, ag) \div 8 \in Nat
      /\ CopyAt(s, ag) \in Int
  BY <1>1, <1>2, <1>3, <1>4
<1>. QED
  BY <1>1, <1>2, <1>5

LEMMA CopyTyped ==
  ASSUME NEW s \in VMs, NEW ag \in Aggrs, CopyAt(s, ag) >= 0, NEW e \in Int, NEW n \in Int
  PROVE  /\ Copied(s, ag, e, n) \in VMs /\ Aligned(Copied(s, ag, e, n))
         /\ Copied(s, ag, e, n).copies = CopyAt(s, ag)
         /\ Copied(s, ag, e, n).vt = s.vt
         /\ Copied(s, ag, e, n).aggrReturnReg = s.aggrReturnReg
         /\ Copied(s, ag, e, n).count = s.count /\ Copied(s, ag, e, n).regs = s.regs
         /\ Copied(s, ag, e, n).size = s.size
<1>. DEFINE mem == [q \in DOMAIN s.mem |->
                      IF q \in CopyAt(s, ag) \div 8 .. CopyAt(s, ag) \div 8 + Qwords(ag) - 1
                      THEN Piece(e, n, q - CopyAt(s, ag) \div 8 + 1) ELSE s.mem[q]]
<1>1. CopyAt(s, ag) \in 0 .. VecTotal /\ CopyAt(s, ag) % 16 = 0 /\ CopyAt(s, ag) \div 8 \in Nat
  BY CopyPlace
<1>2. mem \in [0 .. MemQwords - 1 -> Qws]
  BY <1>1, QwordValues, VectorSize DEF VMs
<1>3. Copied(s, ag, e, n) = [s EXCEPT !.copies = CopyAt(s, ag), !.mem = mem]
  BY DEF Copied
<1>. QED
  BY <1>1, <1>2, <1>3 DEF VMs, Aligned

LEMMA TakenTyped ==
  ASSUME NEW s \in VMs, Aligned(s), NEW type \in ArgTypes, Fits(s, type),
         NEW e \in Int, NEW n \in Int
  PROVE  /\ Staged(s, type, e, n) \in VMs /\ Value(s, type, e, n) \in Qws
         /\ Taken(s, type, e, n) \in VMs /\ Aligned(Taken(s, type, e, n))
         /\ Taken(s, type, e, n).vt = s.vt
         /\ Taken(s, type, e, n).aggrReturnReg = s.aggrReturnReg
<1>. DEFINE u == Staged(s, type, e, n)
            x == Value(s, type, e, n)
<1>1. u \in VMs /\ Aligned(u) /\ u.vt = s.vt /\ u.aggrReturnReg = s.aggrReturnReg /\ x \in Qws
  <2>1. CASE ByReference(type)
    <3>1. type \in Aggrs /\ CopyAt(s, type) >= 0 /\ u = Copied(s, type, e, n)
          /\ x = Pointer(CopyAt(s, type))
      BY <2>1, Kinds DEF Fits, Staged, Value
    <3>2. CopyAt(s, type) \in Int
      BY <3>1, CopyPlace, VectorSize
    <3>. QED
      BY <3>1, <3>2, CopyTyped, QwordValues
  <2>2. CASE ~ByReference(type)
    BY <2>2, QwordValues DEF Staged, Value
  <2>. QED
    BY <2>1, <2>2
<1>2. Taken(s, type, e, n) = argLongLong(u, x)
  BY DEF Taken
<1>. HIDE DEF u, x
<1>3. argLongLong(u, x) \in VMs /\ argLongLong(u, x).copies = u.copies
      /\ argLongLong(u, x).vt = u.vt /\ argLongLong(u, x).aggrReturnReg = u.aggrReturnReg
  BY <1>1, ArgTyped
<1>4. Staged(s, type, e, n) \in VMs /\ Value(s, type, e, n) \in Qws
  BY <1>1 DEF u, x
<1>. QED
  BY <1>1, <1>2, <1>3, <1>4 DEF Aligned

-----------------------------------------------------------------------------
(* Fetching keeps the types.                                               *)

LEMMA FetchedTyped ==
  ASSUME NEW f \in Frames
  PROVE  /\ arg_i64(f).callee \in Callees /\ arg_i64(f).val \in Qws
         /\ arg_i64(f).callee.aggrReturnReg = f.callee.aggrReturnReg
<1>. DEFINE a == f.callee
            k == IF a.count = a.aggrReturnReg THEN a.count + 1 ELSE a.count
<1>1. a \in Callees /\ f.regs \in [0 .. NumRegs - 1 -> Qws] /\ f.stack \in Seq(Qws)
  BY DEF Frames
<1>2. k \in 0 .. NumRegs /\ a.stackPtr \in Nat \ {0}
  BY <1>1, Win64Assumption DEF Callees
<1>3. CASE k < NumRegs
  <2>1. arg_i64(f) = [callee |-> [a EXCEPT !.count = k + 1], val |-> f.regs[k]]
    BY <1>3 DEF arg_i64
  <2>2. k \in 0 .. NumRegs - 1 /\ k + 1 \in 0 .. NumRegs
    BY <1>2, <1>3, Win64Assumption
  <2>. HIDE DEF k, a
  <2>3. [a EXCEPT !.count = k + 1] \in Callees
        /\ [a EXCEPT !.count = k + 1].aggrReturnReg = a.aggrReturnReg
    BY <1>1, <2>2 DEF Callees
  <2>4. f.regs[k] \in Qws
    BY <1>1, <2>2
  <2>5. arg_i64(f).callee = [a EXCEPT !.count = k + 1] /\ arg_i64(f).val = f.regs[k]
    BY <2>1
  <2>. QED
    BY <2>3, <2>4, <2>5 DEF a
<1>4. CASE ~(k < NumRegs)
  <2>1. arg_i64(f) = [callee |-> [a EXCEPT !.count = k, !.stackPtr = @ + 1],
                      val |-> IF a.stackPtr \in DOMAIN f.stack THEN f.stack[a.stackPtr] ELSE Junk]
    BY <1>4 DEF arg_i64
  <2>2. (IF a.stackPtr \in DOMAIN f.stack THEN f.stack[a.stackPtr] ELSE Junk) \in Qws
    BY <1>1, QwordValues
  <2>3. a.stackPtr + 1 \in Nat \ {0}
    BY <1>2
  <2>. HIDE DEF k, a
  <2>4. [a EXCEPT !.count = k, !.stackPtr = @ + 1] \in Callees
        /\ [a EXCEPT !.count = k, !.stackPtr = @ + 1].aggrReturnReg = a.aggrReturnReg
    BY <1>1, <1>2, <2>3 DEF Callees
  <2>5. arg_i64(f).callee = [a EXCEPT !.count = k, !.stackPtr = @ + 1]
        /\ arg_i64(f).val \in Qws
    BY <2>1, <2>2
  <2>. QED
    BY <2>4, <2>5 DEF a
<1>. QED
  BY <1>3, <1>4

Got == [ref : Qws, val : Seq(Qws)]

LEMMA DerefTyped ==
  ASSUME vm \in VMs, NEW x \in Qws, NEW ag \in Aggrs
  PROVE  Deref(x, ag) \in Seq(Qws)
<1>1. Qwords(ag) \in Nat
  BY QwordsOfAggr
<1>2. \A q : q \in DOMAIN vm.mem => vm.mem[q] \in Qws
  BY DEF VMs
<1>3. Deref(x, ag) \in [1 .. Qwords(ag) -> Qws]
  BY <1>2, QwordValues DEF Deref
<1>. QED
  BY <1>1, <1>3

LEMMA ArgFetched ==
  ASSUME vm \in VMs, NEW f \in Frames, NEW type \in ArgTypes
  PROVE  /\ dcbArg(f, type).callee = arg_i64(f).callee /\ dcbArg(f, type).got \in Got
         /\ dcbArg(f, type).got.ref = arg_i64(f).val
         /\ dcbArg(f, type).got.val = IF ByReference(type) THEN Deref(arg_i64(f).val, type)
                                                           ELSE <<arg_i64(f).val>>
<1>1. dcbArg(f, type)
        = [callee |-> arg_i64(f).callee,
           got |-> [ref |-> arg_i64(f).val,
                    val |-> IF ByReference(type) THEN Deref(arg_i64(f).val, type)
                                                 ELSE <<arg_i64(f).val>>]]
  BY DEF dcbArg, arg_f64
<1>2. arg_i64(f).val \in Qws
  BY FetchedTyped
<1>3. (IF ByReference(type) THEN Deref(arg_i64(f).val, type) ELSE <<arg_i64(f).val>>) \in Seq(Qws)
  BY <1>2, DerefTyped, Kinds
<1>. QED
  BY <1>1, <1>2, <1>3 DEF Got

-----------------------------------------------------------------------------
(* A call's frame.                                                         *)

LEMMA ShownTyped ==
  ASSUME NEW s \in VMs
  PROVE  [k \in 1 .. s.size \div 8 |-> s.mem[k - 1]] \in Seq(Qws)
<1>1. s.size \in Nat /\ s.size <= VecTotal
  BY VectorSize DEF VMs
<1>2. s.size \div 8 \in Nat /\ \A k \in 1 .. s.size \div 8 : k - 1 \in 0 .. MemQwords - 1
  BY <1>1, StackSlot
<1>3. s.mem \in [0 .. MemQwords - 1 -> Qws]
  BY DEF VMs
<1>4. [k \in 1 .. s.size \div 8 |-> s.mem[k - 1]] \in [1 .. s.size \div 8 -> Qws]
  BY <1>2, <1>3
<1>. QED
  BY <1>2, <1>4

LEMMA FrameTyped ==
  ASSUME Typed, NEW s \in VMs
  PROVE  Frame(s) \in Frames
<1>1. InitCallback(s.vt, ret) \in {-2, -1, 0, 1}
  <2>1. s.vt = "x64" \/ s.vt = "this"
    BY DEF VMs
  <2>. QED
    BY <2>1 DEF InitCallback
<1>2. [k \in 1 .. s.size \div 8 |-> s.mem[k - 1]] \in Seq(Qws)
  BY ShownTyped
<1>3. s.regs \in [0 .. NumRegs - 1 -> Qws] /\ (s.size > s.copies) \in BOOLEAN
      /\ (s.aggrReturnReg # -1) \in BOOLEAN
  BY DEF VMs
<1>4. [count |-> 0, stackPtr |-> 1, aggrReturnReg |-> InitCallback(s.vt, ret)] \in Callees
  BY <1>1, Win64Assumption DEF Callees
<1>5. bound \in Seq(ArgTypes) /\ ret \in RetTypes /\ epoch \in Nat
  BY DEF Typed
<1>6. <<>> \in Seq([ref : Qws, val : Seq(Qws)])
  OBVIOUS
<1>. QED
  BY <1>2, <1>3, <1>4, <1>5, <1>6 DEF Frame, Frames

-----------------------------------------------------------------------------
(* Calls in progress: one more, one less, and the last one changed.        *)

LEMMA OneMoreFrame ==
  ASSUME NEW s \in Seq(Frames), NEW g \in Frames
  PROVE  /\ Append(s, g) \in Seq(Frames)
         /\ \A d \in DOMAIN Append(s, g) :
              (d \in DOMAIN s /\ Append(s, g)[d] = s[d]) \/ Append(s, g)[d] = g
  OBVIOUS

LEMMA OneFrameLess ==
  ASSUME NEW s \in Seq(Frames), s # <<>>
  PROVE  /\ Front(s) \in Seq(Frames)
         /\ \A d \in DOMAIN Front(s) : d \in DOMAIN s /\ Front(s)[d] = s[d]
  BY DEF Front

LEMMA LastFrame ==
  ASSUME NEW s \in Seq(Frames), s # <<>>, NEW g \in Frames
  PROVE  /\ Len(s) \in DOMAIN s /\ s[Len(s)] \in Frames
         /\ [s EXCEPT ![Len(s)] = g] \in Seq(Frames)
         /\ \A d \in DOMAIN [s EXCEPT ![Len(s)] = g] :
              d \in DOMAIN s /\ (d = Len(s) => [s EXCEPT ![Len(s)] = g][d] = g)
                             /\ (d # Len(s) => [s EXCEPT ![Len(s)] = g][d] = s[d])
  OBVIOUS

(* The next argument of a frame, and the frame when it is fetched.         *)
NextType(f) == f.args[Len(f.got) + 1]
Fetched(f) ==
  [f EXCEPT !.callee = arg_i64(f).callee, !.got = Append(f.got, dcbArg(f, NextType(f)).got)]

LEMMA FetchedFrame ==
  ASSUME vm \in VMs, NEW f \in Frames, Len(f.got) < Len(f.args)
  PROVE  NextType(f) \in ArgTypes /\ Fetched(f) \in Frames
<1>1. f.args \in Seq(ArgTypes) /\ f.got \in Seq(Got) /\ Len(f.got) \in Nat /\ Len(f.args) \in Nat
  BY DEF Frames, Got
<1>2. NextType(f) \in ArgTypes
  BY <1>1 DEF NextType
<1>3. arg_i64(f).callee \in Callees /\ dcbArg(f, NextType(f)).got \in Got
  BY <1>2, FetchedTyped, ArgFetched
<1>4. Append(f.got, dcbArg(f, NextType(f)).got) \in Seq([ref : Qws, val : Seq(Qws)])
  BY <1>1, <1>3 DEF Got
<1>. QED
  BY <1>2, <1>3, <1>4 DEF Fetched, Frames

LEMMA FetchStep ==
  ASSUME Typed, Fetch
  PROVE  LET d == Len(frames) IN
           /\ frames # <<>> /\ frames[d] \in Frames
           /\ Len(frames[d].got) < Len(frames[d].args)
           /\ frames' = [frames EXCEPT ![d] = Fetched(frames[d])]
<1>. DEFINE d == Len(frames)
            f == frames[d]
<1>1. frames \in Seq(Frames) /\ frames # <<>> /\ vm \in VMs
  BY DEF Typed, Fetch
<1>2. d \in DOMAIN frames /\ f \in Frames
  BY <1>1
<1>3. Len(f.got) < Len(f.args)
        /\ frames' = [frames EXCEPT ![d].callee = dcbArg(f, NextType(f)).callee,
                                    ![d].got = Append(@, dcbArg(f, NextType(f)).got)]
  BY DEF Fetch, NextType
<1>4. dcbArg(f, NextType(f)).callee = arg_i64(f).callee
  BY <1>1, <1>2, <1>3, FetchedFrame, ArgFetched
<1>5. frames' = [frames EXCEPT ![d] = Fetched(f)]
  BY <1>1, <1>2, <1>3, <1>4 DEF Fetched, Frames
<1>. QED
  BY <1>1, <1>2, <1>3, <1>5

-----------------------------------------------------------------------------
(* The types.                                                              *)

LEMMA TypedInit == Init => Typed
<1>. SUFFICES ASSUME Init PROVE Typed
  OBVIOUS
<1>1. NewCallVM \in VMs /\ Aligned(NewCallVM)
  BY Win64Assumption, VectorSize, QwordValues DEF NewCallVM, VMs, Aligned
<1>. QED
  BY <1>1 DEF Init, Typed, RetTypes

LEMMA BindTyped ==
  ASSUME Typed, BindStep
  PROVE  Typed'
<1>1. PICK type \in ArgTypes :
        Fits(vm, type) /\ Bind(type) /\ vm' = Taken(vm, type, epoch, Len(bound) + 1)
  BY DEF BindStep
<1>2. bound' = Append(bound, type) /\ UNCHANGED <<ret, epoch, frames>>
  BY <1>1 DEF Bind
<1>3. vm \in VMs /\ Aligned(vm) /\ bound \in Seq(ArgTypes) /\ epoch \in Int /\ Len(bound) + 1 \in Int
  BY DEF Typed
<1>4. vm' \in VMs /\ Aligned(vm')
  BY <1>1, <1>3, TakenTyped
<1>. QED
  BY <1>2, <1>3, <1>4 DEF Typed, Aligned

LEMMA SetupTyped ==
  ASSUME Typed, dcReset \/ (\E mode \in {"C", "THIS", "SYS"} : dcMode(mode))
                  \/ \E ag \in Aggrs \cup {NullAggr} : dcBeginCallAggr(ag)
  PROVE  Typed'
<1>1. CASE dcReset
  <2>1. vm' = [vm EXCEPT !.size = 0, !.count = 0, !.aggrReturnReg = -1, !.copies = VecTotal]
    BY <1>1 DEF dcReset
  <2>2. vm \in VMs /\ 0 \in 0 .. NumRegs /\ 0 \in 0 .. VecTotal /\ VecTotal \in 0 .. VecTotal
    BY Win64Assumption, VectorSize DEF Typed
  <2>3. vm' \in VMs /\ vm'.copies = VecTotal
    BY <2>1, <2>2 DEF VMs
  <2>. QED
    BY <1>1, <2>3 DEF Typed, dcReset, RetTypes, Aligned
<1>2. ASSUME NEW mode \in {"C", "THIS", "SYS"}, dcMode(mode)
      PROVE  Typed'
  <2>1. vm' = vm \/ vm' = [vm EXCEPT !.vt = "x64"] \/ vm' = [vm EXCEPT !.vt = "this"]
    BY <1>2 DEF dcMode
  <2>2. vm' \in VMs /\ Aligned(vm)'
    BY <2>1 DEF Typed, VMs, Aligned
  <2>. QED
    BY <1>2, <2>2 DEF Typed, dcMode
<1>3. ASSUME NEW ag \in Aggrs \cup {NullAggr}, dcBeginCallAggr(ag)
      PROVE  Typed'
  <2>0. vm \in VMs /\ (vm.vt = "x64" \/ vm.vt = "this")
    BY DEF Typed, VMs
  <2>1. \E r \in {vm.aggrReturnReg, 0, 1} : vm' = [vm EXCEPT !.aggrReturnReg = r]
    BY <1>3, <2>0 DEF dcBeginCallAggr
  <2>2. vm' \in VMs /\ Aligned(vm)'
    BY <2>0, <2>1 DEF Typed, VMs, Aligned
  <2>. QED
    BY <1>3, <2>2 DEF Typed, dcBeginCallAggr, RetTypes
<1>. QED
  BY <1>1, <1>2, <1>3

LEMMA CallTyped ==
  ASSUME Typed, dcCall \/ dcCallAggr
  PROVE  Typed' /\ frames' = Append(frames, Frame(vm')) /\ Frame(vm') \in Frames
<1>1. vm \in VMs /\ Aligned(vm) /\ frames \in Seq(Frames)
  BY DEF Typed
<1>2. CASE dcCall
  <2>1. vm' = vm /\ frames' = Append(frames, Frame(vm'))
    BY <1>2 DEF dcCall
  <2>2. Frame(vm') \in Frames
    BY <1>1, <2>1, FrameTyped
  <2>3. frames' \in Seq(Frames)
    BY <1>1, <2>1, <2>2, OneMoreFrame
  <2>. QED
    BY <1>1, <1>2, <2>1, <2>2, <2>3 DEF Typed, dcCall, Aligned
<1>3. CASE dcCallAggr
  <2>1. vm' = (IF vm.aggrReturnReg # -1 THEN [vm EXCEPT !.regs[vm.aggrReturnReg] = RetPtr] ELSE vm)
        /\ frames' = Append(frames, Frame(vm'))
    BY <1>3 DEF dcCallAggr
  <2>2. vm' \in VMs /\ Aligned(vm)'
    BY <1>1, <2>1, QwordValues DEF VMs, Aligned
  <2>3. Frame(vm') \in Frames
    BY <2>2, FrameTyped
  <2>4. frames' \in Seq(Frames)
    BY <1>1, <2>1, <2>3, OneMoreFrame
  <2>. QED
    BY <1>1, <1>3, <2>1, <2>2, <2>3, <2>4 DEF Typed, dcCallAggr
<1>. QED
  BY <1>2, <1>3

LEMMA TargetTyped ==
  ASSUME Typed, Fetch \/ Assign \/ Return
  PROVE  Typed'
<1>0. vm \in VMs /\ frames \in Seq(Frames)
  BY DEF Typed
<1>1. CASE Fetch
  <2>. DEFINE d == Len(frames)
  <2>1. frames # <<>> /\ frames[d] \in Frames /\ Len(frames[d].got) < Len(frames[d].args)
        /\ frames' = [frames EXCEPT ![d] = Fetched(frames[d])]
    BY <1>1, FetchStep
  <2>2. Fetched(frames[d]) \in Frames
    BY <1>0, <2>1, FetchedFrame
  <2>3. frames' \in Seq(Frames)
    BY <1>0, <2>1, <2>2, LastFrame
  <2>. QED
    BY <1>1, <2>3 DEF Typed, Fetch, Aligned
<1>2. CASE Assign
  <2>1. PICK q : vm' = [vm EXCEPT !.mem[q] = Assigned]
    BY <1>2 DEF Assign
  <2>2. [vm.mem EXCEPT ![q] = Assigned] \in [0 .. MemQwords - 1 -> Qws]
    BY <1>0, QwordValues DEF VMs
  <2>3. vm' \in VMs /\ vm'.copies = vm.copies
    BY <1>0, <2>1, <2>2 DEF VMs
  <2>. QED
    BY <1>2, <2>3 DEF Typed, Assign, Aligned
<1>3. CASE Return
  <2>1. frames' \in Seq(Frames)
    BY <1>0, <1>3, OneFrameLess DEF Return
  <2>. QED
    BY <1>3, <2>1 DEF Typed, Return, Aligned
<1>. QED
  BY <1>1, <1>2, <1>3

LEMMA TypedStep == Typed /\ [Next]_vars => Typed'
<1>. SUFFICES ASSUME Typed, [Next]_vars PROVE Typed'
  OBVIOUS
<1>1. CASE UNCHANGED vars
  BY <1>1 DEF vars, Typed, Aligned
<1>2. CASE Next
  BY <1>2, BindingIsAStep, BindTyped, SetupTyped, CallTyped, TargetTyped DEF Next
<1>. QED
  BY <1>1, <1>2

LEMMA TypedInvariant == Spec => []Typed
<1>. QED
  BY TypedInit, TypedStep, PTL DEF Spec

(* The counts stay within the registers, the size and the copies within    *)
(* the vector (dcVecAppend, dcArgAggr), whatever is bound and fetched.     *)
THEOREM Win64TypeCorrect == Spec => []TypeOK
<1>1. Typed => TypeOK
  <2>. SUFFICES ASSUME Typed PROVE TypeOK
    OBVIOUS
  <2>1. \A d \in DOMAIN frames : frames[d] \in Frames
    BY DEF Typed
  <2>2. \A f \in Frames : f.callee.count \in 0 .. NumRegs
    BY DEF Frames, Callees
  <2>3. \A d \in DOMAIN frames : frames[d].callee.count \in 0 .. NumRegs
    BY <2>1, <2>2
  <2>. QED
    BY <2>3 DEF Typed, TypeOK, VMs, Aligned
<1>. QED
  BY <1>1, TypedInvariant, PTL

-----------------------------------------------------------------------------
(* The hidden pointer.                                                     *)

(* The register dcBeginCallAggr reserves for the announced result.         *)
ReturnReg(vt, type) ==
  IF type = NoRet THEN -1 ELSE IF vt = "this" THEN 1 ELSE IF Hidden(type) THEN 0 ELSE -1

Reserved == vm.aggrReturnReg = ReturnReg(vm.vt, ret)

(* Caller and callee mean the same register, or none.                      *)
Agreed(f) ==
  /\ f.hidden <=> f.callee.aggrReturnReg >= 0
  /\ f.ret # NoRet /\ f.hidden => f.regs[f.callee.aggrReturnReg] = RetPtr

ReturnInv == Typed /\ Reserved /\ \A d \in DOMAIN frames : Agreed(frames[d])

LEMMA FrameFields ==
  ASSUME NEW s
  PROVE  /\ Frame(s).args = bound /\ Frame(s).ret = ret /\ Frame(s).epoch = epoch
         /\ Frame(s).hidden = (s.aggrReturnReg # -1) /\ Frame(s).met = (s.size > s.copies)
         /\ Frame(s).regs = s.regs
         /\ Frame(s).stack = [k \in 1 .. s.size \div 8 |-> s.mem[k - 1]]
         /\ Frame(s).callee.count = 0 /\ Frame(s).callee.stackPtr = 1
         /\ Frame(s).callee.aggrReturnReg = InitCallback(s.vt, ret)
         /\ Frame(s).got = <<>>
  BY DEF Frame

(* The callee derives from the signature what the caller did.              *)
LEMMA SameRegister ==
  ASSUME NEW vt \in {"x64", "this"}, NEW type \in RetTypes
  PROVE  /\ type = NoRet => InitCallback(vt, type) = -2
         /\ type # NoRet => InitCallback(vt, type) = ReturnReg(vt, type)
         /\ ReturnReg(vt, type) \in {-1, 0, 1}
<1>1. CASE vt = "this"
  BY <1>1 DEF InitCallback, ReturnReg
<1>2. CASE vt = "x64"
  BY <1>2 DEF InitCallback, ReturnReg
<1>. QED
  BY <1>1, <1>2

LEMMA CallAgrees ==
  ASSUME Typed, Reserved, dcCall \/ dcCallAggr
  PROVE  Reserved' /\ Agreed(Frame(vm'))
<1>1. /\ vm \in VMs /\ ret \in RetTypes /\ vm.vt \in {"x64", "this"}
      /\ vm.aggrReturnReg \in {-1, 0, 1} /\ UNCHANGED ret
  BY DEF Typed, VMs, dcCall, dcCallAggr
<1>2. vm.aggrReturnReg = ReturnReg(vm.vt, ret)
  BY DEF Reserved
<1>. DEFINE g == Frame(vm')
<1>0. /\ g.ret = ret /\ g.hidden = (vm'.aggrReturnReg # -1) /\ g.regs = vm'.regs
      /\ g.callee.aggrReturnReg = InitCallback(vm'.vt, ret)
  BY FrameFields
<1>. HIDE DEF g
<1>3. CASE dcCall
  <2>1. vm' = vm /\ ret = NoRet
    BY <1>3 DEF dcCall
  <2>2. InitCallback(vm.vt, ret) = -2 /\ vm.aggrReturnReg = -1
    BY <1>1, <1>2, <2>1, SameRegister DEF ReturnReg
  <2>3. g.hidden = FALSE /\ g.callee.aggrReturnReg = -2
    BY <1>0, <2>1, <2>2
  <2>4. Agreed(g)
    BY <2>3 DEF Agreed
  <2>. QED
    BY <1>1, <1>2, <2>1, <2>4 DEF Reserved, g
<1>4. CASE dcCallAggr
  <2>1. ret # NoRet /\ vm' = (IF vm.aggrReturnReg # -1
                              THEN [vm EXCEPT !.regs[vm.aggrReturnReg] = RetPtr] ELSE vm)
    BY <1>4 DEF dcCallAggr
  <2>2. /\ vm'.vt = vm.vt /\ vm'.aggrReturnReg = vm.aggrReturnReg
        /\ vm.aggrReturnReg # -1 => vm'.regs[vm.aggrReturnReg] = RetPtr
    BY <1>1, <2>1, Win64Assumption DEF VMs
  <2>3. InitCallback(vm'.vt, ret) = vm'.aggrReturnReg
    BY <1>1, <1>2, <2>1, <2>2, SameRegister
  <2>4. /\ g.callee.aggrReturnReg = vm.aggrReturnReg /\ g.hidden = (vm.aggrReturnReg # -1)
        /\ (vm.aggrReturnReg # -1 => g.regs[vm.aggrReturnReg] = RetPtr)
    BY <1>0, <2>2, <2>3
  <2>5. CASE vm.aggrReturnReg = -1
    <3>1. g.hidden = FALSE /\ g.callee.aggrReturnReg = -1
      BY <2>4, <2>5
    <3>2. Agreed(g)
      BY <3>1 DEF Agreed
    <3>. QED
      BY <1>1, <1>2, <2>2, <3>2 DEF Reserved, g
  <2>6. CASE vm.aggrReturnReg # -1
    <3>1. g.hidden = TRUE
      BY <2>4, <2>6, Zenon
    <3>2. g.callee.aggrReturnReg >= 0
      <4>1. g.callee.aggrReturnReg = vm.aggrReturnReg
        BY <2>4
      <4>2. vm.aggrReturnReg >= 0
        BY <1>1, <2>6
      <4>. QED
        BY <4>1, <4>2
    <3>3. g.regs[g.callee.aggrReturnReg] = RetPtr
      BY <2>4, <2>6, Zenon
    <3>4. Agreed(g)
      BY <3>1, <3>2, <3>3 DEF Agreed
    <3>. QED
      BY <1>1, <1>2, <2>2, <3>4 DEF Reserved, g
  <2>. QED
    BY <2>5, <2>6
<1>. QED
  BY <1>3, <1>4

LEMMA ReturnStep ==
  ASSUME ReturnInv, Next
  PROVE  ReturnInv'
<1>1. Typed /\ Typed' /\ Reserved /\ frames \in Seq(Frames)
  BY TypedStep DEF ReturnInv, Typed
<1>2. CASE BindStep
  <2>1. PICK type \in ArgTypes :
          Fits(vm, type) /\ Bind(type) /\ vm' = Taken(vm, type, epoch, Len(bound) + 1)
    BY <1>2 DEF BindStep
  <2>2. vm'.vt = vm.vt /\ vm'.aggrReturnReg = vm.aggrReturnReg
    <3>1. vm \in VMs /\ Aligned(vm) /\ epoch \in Int /\ Len(bound) + 1 \in Int
      BY <1>1 DEF Typed
    <3>. QED
      BY <2>1, <3>1, TakenTyped
  <2>. QED
    BY <1>1, <2>1, <2>2 DEF ReturnInv, Reserved, Agreed, Bind
<1>3. CASE dcReset
  <2>1. vm'.aggrReturnReg = -1 /\ ret' = NoRet /\ UNCHANGED frames
    BY <1>1, <1>3 DEF Typed, VMs, dcReset
  <2>. QED
    BY <1>1, <2>1 DEF ReturnInv, Reserved, ReturnReg, Agreed
<1>4. ASSUME NEW mode \in {"C", "THIS", "SYS"}, dcMode(mode)
      PROVE  ReturnInv'
  <2>1. vm' = vm \/ vm' = [vm EXCEPT !.vt = "x64"] \/ vm' = [vm EXCEPT !.vt = "this"]
    BY <1>4 DEF dcMode
  <2>2. vm'.aggrReturnReg = vm.aggrReturnReg /\ ret = NoRet /\ ret' = ret /\ UNCHANGED frames
    BY <1>1, <1>4, <2>1 DEF Typed, VMs, dcMode
  <2>. QED
    BY <1>1, <2>2 DEF ReturnInv, Reserved, ReturnReg, Agreed
<1>5. ASSUME NEW ag \in Aggrs \cup {NullAggr}, dcBeginCallAggr(ag)
      PROVE  ReturnInv'
  <2>1. ret = NoRet /\ ret' = ag /\ ag # NoRet /\ UNCHANGED frames
    BY <1>5, Kinds DEF dcBeginCallAggr, NullAggr, NoRet
  <2>2. vm.aggrReturnReg = -1 /\ vm \in VMs /\ (vm.vt = "x64" \/ vm.vt = "this")
    BY <1>1, <2>1 DEF Reserved, ReturnReg, Typed, VMs
  <2>3. vm'.vt = vm.vt /\ vm'.aggrReturnReg = ReturnReg(vm.vt, ag)
    <3>1. CASE vm.vt = "this"
      BY <1>5, <2>1, <2>2, <3>1 DEF dcBeginCallAggr, ReturnReg, VMs
    <3>2. CASE vm.vt = "x64"
      BY <1>5, <2>1, <2>2, <3>2 DEF dcBeginCallAggr, ReturnReg, VMs
    <3>. QED
      BY <2>2, <3>1, <3>2
  <2>. QED
    BY <1>1, <2>1, <2>3 DEF ReturnInv, Reserved, Agreed
<1>6. CASE dcCall \/ dcCallAggr
  <2>1. frames' = Append(frames, Frame(vm')) /\ Frame(vm') \in Frames
    BY <1>1, <1>6, CallTyped
  <2>2. Reserved' /\ Agreed(Frame(vm'))
    BY <1>1, <1>6, CallAgrees
  <2>3. \A d \in DOMAIN frames' : (d \in DOMAIN frames /\ frames'[d] = frames[d])
                                  \/ frames'[d] = Frame(vm')
    BY <1>1, <2>1, OneMoreFrame
  <2>. QED
    BY <1>1, <2>2, <2>3 DEF ReturnInv, Agreed
<1>7. CASE Fetch
  <2>. DEFINE d == Len(frames)
              f == frames[d]
  <2>1. frames # <<>> /\ f \in Frames /\ Len(f.got) < Len(f.args)
        /\ frames' = [frames EXCEPT ![d] = Fetched(f)]
    BY <1>1, <1>7, FetchStep
  <2>2. Fetched(f) \in Frames /\ d \in DOMAIN frames
    BY <1>1, <2>1, FetchedFrame DEF Typed
  <2>3. Agreed(Fetched(f))
    <3>1. Agreed(f)
      BY <2>2 DEF ReturnInv
    <3>2. arg_i64(f).callee.aggrReturnReg = f.callee.aggrReturnReg
      BY <2>1, FetchedTyped
    <3>. HIDE DEF f
    <3>. QED
      BY <2>1, <3>1, <3>2 DEF Agreed, Fetched, Frames
  <2>4. \A c \in DOMAIN frames' : Agreed(frames'[c])
    BY <1>1, <2>1, <2>2, <2>3, LastFrame DEF ReturnInv
  <2>. QED
    BY <1>1, <1>7, <2>4 DEF ReturnInv, Reserved, Agreed, Fetch
<1>8. CASE Assign
  <2>1. vm'.vt = vm.vt /\ vm'.aggrReturnReg = vm.aggrReturnReg
    BY <1>1, <1>8 DEF Assign, Typed, VMs
  <2>. QED
    BY <1>1, <1>8, <2>1 DEF ReturnInv, Reserved, Agreed, Assign
<1>9. CASE Return
  <2>1. \A d \in DOMAIN frames' : d \in DOMAIN frames /\ frames'[d] = frames[d]
    BY <1>1, <1>9, OneFrameLess DEF Return
  <2>. QED
    BY <1>1, <1>9, <2>1 DEF ReturnInv, Reserved, Agreed, Return
<1>. QED
  BY <1>1, <1>2, <1>3, <1>4, <1>5, <1>6, <1>7, <1>8, <1>9, BindingIsAStep DEF Next

LEMMA ReturnInvariant == Spec => []ReturnInv
<1>1. Init => ReturnInv
  <2>. SUFFICES ASSUME Init PROVE ReturnInv
    OBVIOUS
  <2>1. Typed
    BY TypedInit
  <2>2. Reserved /\ DOMAIN frames = {}
    BY DEF Init, NewCallVM, Reserved, ReturnReg
  <2>. QED
    BY <2>1, <2>2 DEF ReturnInv
<1>2. ReturnInv /\ [Next]_vars => ReturnInv'
  <2>1. ReturnInv /\ UNCHANGED vars => ReturnInv'
    BY DEF ReturnInv, Typed, Aligned, Reserved, Agreed, vars
  <2>. QED
    BY <2>1, ReturnStep
<1>. QED
  BY <1>1, <1>2, PTL DEF Spec

(* Whatever the convention, the types and the calls within handlers, the   *)
(* callee returns an aggregate where its caller looks for it: through the  *)
(* hidden pointer, in the register that the caller loaded and no argument  *)
(* took, or in a register (dcBeginCallAggr, dcbInitCallback2).             *)
THEOREM Win64ResultArrives == Spec => []ResultArrives
<1>1. ReturnInv => ResultArrives
  <2>. SUFFICES ASSUME ReturnInv, NEW d \in DOMAIN frames, frames[d].ret # NoRet
                PROVE  dcbReturnAggr(frames[d])
                         = IF frames[d].hidden THEN [place |-> "memory", at |-> RetPtr]
                                               ELSE [place |-> "register", at |-> Junk]
    BY DEF ResultArrives
  <2>1. Agreed(frames[d])
    BY DEF ReturnInv
  <2>. QED
    BY <2>1 DEF Agreed, dcbReturnAggr
<1>. QED
  BY <1>1, ReturnInvariant, PTL

-----------------------------------------------------------------------------
(***************************************************************************)
(* Positions.  With the hidden pointer in register r, or none if r < 0,    *)
(* the n-th argument is in register RegisterOf(r, n) as long as there are  *)
(* registers, and the ones behind are on the stack.  After n arguments     *)
(* the cursor of caller or callee is CountOf(r, n), and SlotsOf(r, n)      *)
(* qwords of the stack are in use.                                         *)
(***************************************************************************)
HiddenOf(r)      == IF r < 0 THEN 0 ELSE 1
RegisterOf(r, n) == IF r < 0 \/ n <= r THEN n - 1 ELSE n
CountOf(r, n)    == IF n = 0 THEN 0
                    ELSE IF n + HiddenOf(r) <= NumRegs THEN RegisterOf(r, n) + 1 ELSE NumRegs
SlotsOf(r, n)    == IF n + HiddenOf(r) <= NumRegs THEN 0 ELSE n + HiddenOf(r) - NumRegs
Cursor(r, count) == IF count = r THEN count + 1 ELSE count

LEMMA NextRegister ==
  ASSUME NEW r \in {-2, -1, 0, 1}, NEW n \in Nat, n + 1 + HiddenOf(r) <= NumRegs
  PROVE  /\ Cursor(r, CountOf(r, n)) = RegisterOf(r, n + 1)
         /\ RegisterOf(r, n + 1) \in 0 .. NumRegs - 1
         /\ CountOf(r, n + 1) = RegisterOf(r, n + 1) + 1
         /\ SlotsOf(r, n) = 0 /\ SlotsOf(r, n + 1) = 0
<1>1. NumRegs \in Nat /\ NumRegs >= 2
  BY Win64Assumption
<1>2. CASE r = -2
  BY <1>1, <1>2 DEF HiddenOf, RegisterOf, CountOf, SlotsOf, Cursor
<1>3. CASE r = -1
  BY <1>1, <1>3 DEF HiddenOf, RegisterOf, CountOf, SlotsOf, Cursor
<1>4. CASE r = 0
  BY <1>1, <1>4 DEF HiddenOf, RegisterOf, CountOf, SlotsOf, Cursor
<1>5. CASE r = 1
  BY <1>1, <1>5 DEF HiddenOf, RegisterOf, CountOf, SlotsOf, Cursor
<1>. QED
  BY <1>2, <1>3, <1>4, <1>5

LEMMA NextSlot ==
  ASSUME NEW r \in {-2, -1, 0, 1}, NEW n \in Nat, n + 1 + HiddenOf(r) > NumRegs
  PROVE  /\ Cursor(r, CountOf(r, n)) = NumRegs /\ CountOf(r, n + 1) = NumRegs
         /\ SlotsOf(r, n + 1) = SlotsOf(r, n) + 1
         /\ SlotsOf(r, n + 1) = n + 1 + HiddenOf(r) - NumRegs /\ SlotsOf(r, n) \in Nat
<1>1. NumRegs \in Nat /\ NumRegs >= 2
  BY Win64Assumption
<1>2. CASE r = -2
  BY <1>1, <1>2 DEF HiddenOf, RegisterOf, CountOf, SlotsOf, Cursor
<1>3. CASE r = -1
  BY <1>1, <1>3 DEF HiddenOf, RegisterOf, CountOf, SlotsOf, Cursor
<1>4. CASE r = 0
  BY <1>1, <1>4 DEF HiddenOf, RegisterOf, CountOf, SlotsOf, Cursor
<1>5. CASE r = 1
  BY <1>1, <1>5 DEF HiddenOf, RegisterOf, CountOf, SlotsOf, Cursor
<1>. QED
  BY <1>2, <1>3, <1>4, <1>5

LEMMA NextSize ==
  ASSUME NEW r \in {-2, -1, 0, 1}, NEW n \in Nat
  PROVE  /\ n + 1 + HiddenOf(r) <= NumRegs => SlotsOf(r, n) = 0 /\ SlotsOf(r, n + 1) = 0
         /\ n + 1 + HiddenOf(r) > NumRegs =>
              /\ SlotsOf(r, n + 1) = SlotsOf(r, n) + 1
              /\ SlotsOf(r, n + 1) = n + 1 + HiddenOf(r) - NumRegs
         /\ SlotsOf(r, n) \in Nat /\ SlotsOf(r, n + 1) \in Nat
<1>1. NumRegs \in Nat /\ HiddenOf(r) \in {0, 1}
  BY Win64Assumption DEF HiddenOf
<1>. QED
  BY <1>1 DEF SlotsOf

LEMMA OtherRegister ==
  ASSUME NEW r \in {-2, -1, 0, 1}, NEW n \in Nat, NEW m \in Nat
  PROVE  /\ n # m => RegisterOf(r, n) # RegisterOf(r, m)
         /\ RegisterOf(r, n) # r \/ r < 0
         /\ n # 0 /\ n + HiddenOf(r) <= NumRegs => RegisterOf(r, n) \in 0 .. NumRegs - 1
         /\ n <= m => SlotsOf(r, n) <= SlotsOf(r, m)
<1>1. NumRegs \in Nat
  BY Win64Assumption
<1>. QED
  BY <1>1 DEF RegisterOf, SlotsOf, HiddenOf

(* What is not hidden counts the same, whatever the sign says.             *)
LEMMA NoneHidden ==
  ASSUME NEW r \in {-2, -1, 0, 1}, NEW n \in Nat
  PROVE  r < 0 => /\ RegisterOf(r, n) = RegisterOf(-1, n) /\ HiddenOf(r) = HiddenOf(-1)
                  /\ CountOf(r, n) = CountOf(-1, n) /\ SlotsOf(r, n) = SlotsOf(-1, n)
  BY DEF RegisterOf, HiddenOf, CountOf, SlotsOf

(* The next argument to be bound.                                          *)
LEMMA Pushed ==
  ASSUME NEW s \in VMs, NEW x \in Qws, NEW n \in Nat, s.count = CountOf(s.aggrReturnReg, n)
  PROVE  LET r == s.aggrReturnReg
             t == argLongLong(s, x) IN
           /\ t.count = CountOf(r, n + 1)
           /\ n + 1 + HiddenOf(r) <= NumRegs =>
                /\ t.regs = [s.regs EXCEPT ![RegisterOf(r, n + 1)] = x]
                /\ t.mem = s.mem /\ t.size = s.size
           /\ n + 1 + HiddenOf(r) > NumRegs =>
                /\ t.regs = s.regs
                /\ s.size + 8 <= VecTotal => /\ t.mem = [s.mem EXCEPT ![s.size \div 8] = x]
                                             /\ t.size = s.size + 8
                /\ s.size + 8 > VecTotal => t.mem = s.mem /\ t.size = s.size
<1>. DEFINE r == s.aggrReturnReg
            k == Cursor(r, s.count)
<1>1. r \in {-2, -1, 0, 1} /\ NumRegs \in Nat /\ s.size \in Nat /\ VecTotal \in Nat
  BY Win64Assumption, VectorSize DEF VMs
<1>2. argLongLong(s, x) = IF k < NumRegs THEN [s EXCEPT !.regs[k] = x, !.count = k + 1]
                          ELSE dcVecAppend([s EXCEPT !.count = k], x)
  BY DEF argLongLong, Cursor
<1>3. CASE n + 1 + HiddenOf(r) <= NumRegs
  <2>0. /\ Cursor(r, CountOf(r, n)) = RegisterOf(r, n + 1)
        /\ RegisterOf(r, n + 1) \in 0 .. NumRegs - 1
        /\ CountOf(r, n + 1) = RegisterOf(r, n + 1) + 1
    <3>. HIDE DEF r
    <3>. QED
      BY <1>1, <1>3, NextRegister
  <2>1. k = RegisterOf(r, n + 1) /\ k \in 0 .. NumRegs - 1 /\ CountOf(r, n + 1) = k + 1
    BY <2>0
  <2>. HIDE DEF k
  <2>2. argLongLong(s, x) = [s EXCEPT !.regs = [s.regs EXCEPT ![k] = x], !.count = k + 1]
    BY <1>1, <1>2, <2>1 DEF VMs
  <2>3. ~(n + 1 + HiddenOf(r) > NumRegs)
    BY <1>1, <1>3 DEF HiddenOf
  <2>. HIDE DEF r
  <2>. QED
    BY <2>1, <2>2, <2>3 DEF VMs, r
<1>4. CASE n + 1 + HiddenOf(r) > NumRegs
  <2>0. Cursor(r, CountOf(r, n)) = NumRegs /\ CountOf(r, n + 1) = NumRegs
    <3>. HIDE DEF r
    <3>. QED
      BY <1>1, <1>4, NextSlot
  <2>1. k = NumRegs /\ CountOf(r, n + 1) = k
    BY <2>0
  <2>. HIDE DEF k
  <2>2. argLongLong(s, x) = dcVecAppend([s EXCEPT !.count = k], x)
    BY <1>1, <1>2, <2>1
  <2>3. ~(n + 1 + HiddenOf(r) <= NumRegs)
    BY <1>1, <1>4 DEF HiddenOf
  <2>4. CASE s.size + 8 <= VecTotal
    <3>1. argLongLong(s, x)
            = [s EXCEPT !.count = k, !.mem = [s.mem EXCEPT ![s.size \div 8] = x], !.size = s.size + 8]
      BY <2>2, <2>4 DEF dcVecAppend, VMs
    <3>2. ~(s.size + 8 > VecTotal)
      BY <1>1, <2>4
    <3>. QED
      BY <2>1, <2>3, <3>1, <3>2 DEF VMs
  <2>5. CASE ~(s.size + 8 <= VecTotal)
    <3>1. argLongLong(s, x) = [s EXCEPT !.count = k]
      BY <2>2, <2>5 DEF dcVecAppend, VMs
    <3>. QED
      BY <2>1, <2>3, <2>5, <3>1 DEF VMs
  <2>. QED
    BY <2>4, <2>5
<1>. QED
  BY <1>1, <1>3, <1>4 DEF HiddenOf

-----------------------------------------------------------------------------
(***************************************************************************)
(* What a position holds.  P[n] is the qword of the vector where the copy  *)
(* of the n-th argument begins.                                            *)
(***************************************************************************)
Held(e, type, n, p) == IF ByReference(type) THEN Pointer(8 * p) ELSE Piece(e, n, 1)

InRegs(regs, r, e, args, P) ==
  \A n \in 1 .. Len(args) :
    n + HiddenOf(r) <= NumRegs => regs[RegisterOf(r, n)] = Held(e, args[n], n, P[n])

Holds(stack, r, e, args, P) ==
  \A n \in 1 .. Len(args) :
    n + HiddenOf(r) > NumRegs =>
      /\ n + HiddenOf(r) - NumRegs \in DOMAIN stack
      /\ stack[n + HiddenOf(r) - NumRegs] = Held(e, args[n], n, P[n])

(* The copies are in the vector, behind what still is to be used of it.    *)
Above(low, args, P) ==
  \A n \in 1 .. Len(args) :
    ByReference(args[n]) => 8 * P[n] >= low /\ P[n] + Qwords(args[n]) <= MemQwords

Intact(mem, e, args, P) ==
  \A n \in 1 .. Len(args) :
    ByReference(args[n]) =>
      \A k \in 1 .. Qwords(args[n]) : mem[P[n] + k - 1] = Piece(e, n, k)

Shown(s) == [k \in 1 .. s.size \div 8 |-> s.mem[k - 1]]

LEMMA IndexOfMore ==
  ASSUME NEW l \in Nat, NEW n \in 1 .. l + 1
  PROVE  n \in Nat /\ (n = l + 1 \/ (n \in 1 .. l /\ n # l + 1))
  OBVIOUS

LEMMA OneMoreArg ==
  ASSUME NEW args \in Seq(ArgTypes), NEW type \in ArgTypes
  PROVE  /\ Append(args, type) \in Seq(ArgTypes) /\ Len(Append(args, type)) = Len(args) + 1
         /\ Len(args) \in Nat /\ Append(args, type)[Len(args) + 1] = type
         /\ \A n \in 1 .. Len(args) : Append(args, type)[n] = args[n]
  OBVIOUS

(* An argument takes its register, and disturbs no other one's.            *)
LEMMA PushedRegs ==
  ASSUME NEW s \in VMs, NEW args \in Seq(ArgTypes), NEW type \in ArgTypes, NEW P, NEW e,
         NEW x \in Qws, s.count = CountOf(s.aggrReturnReg, Len(args)),
         x = Held(e, type, Len(args) + 1, P[Len(args) + 1]),
         InRegs(s.regs, s.aggrReturnReg, e, args, P)
  PROVE  InRegs(argLongLong(s, x).regs, s.aggrReturnReg, e, Append(args, type), P)
<1>. DEFINE r == s.aggrReturnReg
            l == Len(args)
            t == argLongLong(s, x)
            more == Append(args, type)
<1>1. /\ r \in {-2, -1, 0, 1} /\ l \in Nat /\ Len(more) = l + 1 /\ more[l + 1] = type
      /\ (\A n \in 1 .. l : more[n] = args[n]) /\ NumRegs \in Nat
      /\ s.regs \in [0 .. NumRegs - 1 -> Qws]
  BY OneMoreArg, Win64Assumption DEF VMs
<1>2. \A n \in 1 .. l : n + HiddenOf(r) <= NumRegs => s.regs[RegisterOf(r, n)] = Held(e, args[n], n, P[n])
  BY DEF InRegs
<1>3. /\ l + 1 + HiddenOf(r) <= NumRegs => /\ t.regs = [s.regs EXCEPT ![RegisterOf(r, l + 1)] = x]
                                           /\ RegisterOf(r, l + 1) \in 0 .. NumRegs - 1
      /\ l + 1 + HiddenOf(r) > NumRegs => t.regs = s.regs
  <2>1. \A k \in Nat : k + 1 + HiddenOf(r) <= NumRegs => RegisterOf(r, k + 1) \in 0 .. NumRegs - 1
    <3>. HIDE DEF r
    <3>. QED
      BY <1>1, NextRegister
  <2>. HIDE DEF l
  <2>2. /\ l + 1 + HiddenOf(r) <= NumRegs => t.regs = [s.regs EXCEPT ![RegisterOf(r, l + 1)] = x]
        /\ l + 1 + HiddenOf(r) > NumRegs => t.regs = s.regs
    <3>1. s.count = CountOf(s.aggrReturnReg, l) /\ l \in Nat
      BY <1>1 DEF l
    <3>2. l + 1 + HiddenOf(s.aggrReturnReg) <= NumRegs
            => argLongLong(s, x).regs = [s.regs EXCEPT ![RegisterOf(s.aggrReturnReg, l + 1)] = x]
      BY <3>1, Pushed, ZenonT(60)
    <3>3. l + 1 + HiddenOf(s.aggrReturnReg) > NumRegs => argLongLong(s, x).regs = s.regs
      BY <3>1, Pushed
    <3>. QED
      BY <3>2, <3>3
  <2>. HIDE DEF r, t
  <2>. QED
    BY <1>1, <2>1, <2>2
<1>4. x = Held(e, type, l + 1, P[l + 1]) /\ HiddenOf(r) \in {0, 1}
  BY DEF HiddenOf
<1>. HIDE DEF t, more, l, r
<1>5. ASSUME NEW n \in 1 .. l + 1, n + HiddenOf(r) <= NumRegs
      PROVE  t.regs[RegisterOf(r, n)] = Held(e, more[n], n, P[n])
  <2>1. CASE n = l + 1
    BY <1>1, <1>3, <1>4, <1>5, <2>1
  <2>2. CASE n \in 1 .. l /\ n # l + 1
    <3>1. s.regs[RegisterOf(r, n)] = Held(e, more[n], n, P[n])
      BY <1>1, <1>2, <1>5, <2>2
    <3>2. RegisterOf(r, n) # RegisterOf(r, l + 1)
      BY <1>1, <2>2, OtherRegister
    <3>3. l + 1 + HiddenOf(r) <= NumRegs \/ l + 1 + HiddenOf(r) > NumRegs
      BY <1>1, <1>4
    <3>4. RegisterOf(r, n) \in 0 .. NumRegs - 1
      BY <1>1, <1>5, <2>2, OtherRegister
    <3>. QED
      BY <1>1, <1>3, <3>1, <3>2, <3>3, <3>4
  <2>. QED
    BY <1>1, <2>1, <2>2, IndexOfMore
<1>6. InRegs(t.regs, r, e, more, P)
  BY <1>1, <1>5 DEF InRegs
<1>. QED
  BY <1>6 DEF t, more, r

(* An argument that goes onto the stack is written behind what is there.   *)
LEMMA PushedStack ==
  ASSUME NEW s \in VMs, NEW n \in Nat, NEW x \in Qws,
         s.count = CountOf(s.aggrReturnReg, n), s.size = 8 * SlotsOf(s.aggrReturnReg, n),
         SlotsOf(s.aggrReturnReg, n + 1) <= VecTotal \div 8
  PROVE  LET t == argLongLong(s, x)
             r == s.aggrReturnReg IN
           /\ t.size = 8 * SlotsOf(r, n + 1)
           /\ \A q \in 0 .. MemQwords - 1 :
                q # s.size \div 8 \/ 8 * q >= t.size => t.mem[q] = s.mem[q]
           /\ n + 1 + HiddenOf(r) > NumRegs =>
                /\ s.size \div 8 = n + HiddenOf(r) - NumRegs
                /\ t.mem[s.size \div 8] = x
<1>. DEFINE r == s.aggrReturnReg
            t == argLongLong(s, x)
            a == SlotsOf(r, n)
            b == SlotsOf(r, n + 1)
<1>1. r \in {-2, -1, 0, 1} /\ NumRegs \in Nat /\ VecTotal \in Nat /\ HiddenOf(r) \in {0, 1}
      /\ s.mem \in [0 .. MemQwords - 1 -> Qws]
  BY Win64Assumption, VectorSize DEF VMs, HiddenOf
<1>2. /\ n + 1 + HiddenOf(r) <= NumRegs => t.mem = s.mem /\ t.size = s.size
      /\ n + 1 + HiddenOf(r) > NumRegs =>
           /\ s.size + 8 <= VecTotal => /\ t.mem = [s.mem EXCEPT ![s.size \div 8] = x]
                                        /\ t.size = s.size + 8
  BY Pushed
<1>3. s.size = 8 * a /\ b <= VecTotal \div 8
  OBVIOUS
<1>. HIDE DEF r, t
<1>4. /\ n + 1 + HiddenOf(r) <= NumRegs => a = 0 /\ b = 0
      /\ n + 1 + HiddenOf(r) > NumRegs => b = a + 1 /\ b = n + 1 + HiddenOf(r) - NumRegs
      /\ a \in Nat /\ b \in Nat
  BY <1>1, NextSize, ZenonT(60)
<1>. HIDE DEF a, b
<1>5. CASE n + 1 + HiddenOf(r) <= NumRegs
  BY <1>1, <1>2, <1>3, <1>4, <1>5 DEF r, t, a, b
<1>6. CASE n + 1 + HiddenOf(r) > NumRegs
  <2>1. s.size \div 8 = a /\ s.size + 8 <= VecTotal /\ s.size = 8 * a /\ a \in Nat
    BY <1>1, <1>3, <1>4, <1>6
  <2>2. a \in 0 .. MemQwords - 1
    BY <1>1, <2>1, VectorSize
  <2>3. t.mem = [s.mem EXCEPT ![a] = x] /\ t.size = s.size + 8 /\ b = a + 1
    BY <1>2, <1>4, <1>6, <2>1
  <2>4. t.mem[a] = x /\ \A q \in 0 .. MemQwords - 1 : q # a => t.mem[q] = s.mem[q]
    BY <1>1, <2>2, <2>3
  <2>5. \A q \in 0 .. MemQwords - 1 : q # a \/ 8 * q >= t.size => t.mem[q] = s.mem[q]
    BY <2>1, <2>3, <2>4
  <2>6. t.size = 8 * b
    BY <2>1, <2>3
  <2>7. s.size \div 8 = n + HiddenOf(r) - NumRegs
    BY <1>1, <1>4, <1>6, <2>1, <2>3, SMTT(30)
  <2>8. t.mem[s.size \div 8] = x
        /\ \A q \in 0 .. MemQwords - 1 : q # s.size \div 8 \/ 8 * q >= t.size => t.mem[q] = s.mem[q]
    BY <2>1, <2>4, <2>5
  <2>. QED
    BY <2>6, <2>7, <2>8 DEF r, t, b
<1>. QED
  BY <1>1, <1>5, <1>6

LEMMA PushedShown ==
  ASSUME NEW s \in VMs, NEW args \in Seq(ArgTypes), NEW type \in ArgTypes, NEW P, NEW e,
         NEW x \in Qws, s.count = CountOf(s.aggrReturnReg, Len(args)),
         s.size = 8 * SlotsOf(s.aggrReturnReg, Len(args)),
         SlotsOf(s.aggrReturnReg, Len(args) + 1) <= VecTotal \div 8,
         x = Held(e, type, Len(args) + 1, P[Len(args) + 1]),
         Holds(Shown(s), s.aggrReturnReg, e, args, P)
  PROVE  Holds(Shown(argLongLong(s, x)), s.aggrReturnReg, e, Append(args, type), P)
<1>. DEFINE r == s.aggrReturnReg
            l == Len(args)
            t == argLongLong(s, x)
            more == Append(args, type)
            at(n) == n + HiddenOf(r) - NumRegs
<1>1. /\ r \in {-2, -1, 0, 1} /\ l \in Nat /\ Len(more) = l + 1 /\ more[l + 1] = type
      /\ (\A n \in 1 .. l : more[n] = args[n]) /\ NumRegs \in Nat /\ HiddenOf(r) \in {0, 1}
  BY OneMoreArg, Win64Assumption DEF VMs, HiddenOf
<1>2. \A n \in 1 .. l : n + HiddenOf(r) > NumRegs =>
        at(n) \in DOMAIN Shown(s) /\ Shown(s)[at(n)] = Held(e, args[n], n, P[n])
  BY DEF Holds
<1>3. x = Held(e, type, l + 1, P[l + 1])
  OBVIOUS
<1>4. /\ s.size = 8 * SlotsOf(r, l) /\ s.size \in Nat /\ s.size <= VecTotal
      /\ s.count = CountOf(s.aggrReturnReg, l)
  BY VectorSize DEF VMs
<1>. HIDE DEF l
<1>5. /\ t.size = 8 * SlotsOf(r, l + 1)
      /\ \A q \in 0 .. MemQwords - 1 : q # s.size \div 8 \/ 8 * q >= t.size => t.mem[q] = s.mem[q]
      /\ l + 1 + HiddenOf(r) > NumRegs =>
           /\ s.size \div 8 = l + HiddenOf(r) - NumRegs
           /\ t.mem[s.size \div 8] = x
  <2>1. SlotsOf(s.aggrReturnReg, l + 1) <= VecTotal \div 8
    BY DEF l
  <2>2. l \in Nat /\ s.count = CountOf(s.aggrReturnReg, l) /\ s.size = 8 * SlotsOf(s.aggrReturnReg, l)
    BY <1>1, <1>4
  <2>3. argLongLong(s, x).size = 8 * SlotsOf(s.aggrReturnReg, l + 1)
    BY <2>1, <2>2, PushedStack
  <2>4. \A q \in 0 .. MemQwords - 1 : q # s.size \div 8 \/ 8 * q >= argLongLong(s, x).size
          => argLongLong(s, x).mem[q] = s.mem[q]
    BY <2>1, <2>2, PushedStack
  <2>5. l + 1 + HiddenOf(s.aggrReturnReg) > NumRegs =>
           /\ s.size \div 8 = l + HiddenOf(s.aggrReturnReg) - NumRegs
           /\ argLongLong(s, x).mem[s.size \div 8] = x
    BY <2>1, <2>2, PushedStack
  <2>. QED
    BY <2>3, <2>4, <2>5
<1>. HIDE DEF r, t, more
<1>6. /\ SlotsOf(r, l) \in Nat /\ SlotsOf(r, l + 1) \in Nat /\ SlotsOf(r, l) <= SlotsOf(r, l + 1)
      /\ l + 1 + HiddenOf(r) > NumRegs => SlotsOf(r, l + 1) = SlotsOf(r, l) + 1
      /\ \A n \in 1 .. l + 1 : n + HiddenOf(r) > NumRegs =>
           at(n) \in 1 .. SlotsOf(r, l + 1)
  <2>1. SlotsOf(r, l) \in Nat /\ SlotsOf(r, l + 1) \in Nat
        /\ (l + 1 + HiddenOf(r) > NumRegs => SlotsOf(r, l + 1) = SlotsOf(r, l) + 1)
    BY <1>1, NextSize
  <2>2. SlotsOf(r, l) <= SlotsOf(r, l + 1)
    BY <1>1 DEF SlotsOf
  <2>3. \A n \in 1 .. l + 1 : n + HiddenOf(r) > NumRegs => at(n) \in 1 .. SlotsOf(r, l + 1)
    BY <1>1 DEF SlotsOf
  <2>. QED
    BY <2>1, <2>2, <2>3
<1>7. s.size \div 8 = SlotsOf(r, l) /\ t.size \div 8 = SlotsOf(r, l + 1)
  BY <1>4, <1>5, <1>6
<1>8. /\ DOMAIN Shown(s) = 1 .. SlotsOf(r, l) /\ DOMAIN Shown(t) = 1 .. SlotsOf(r, l + 1)
      /\ \A k \in 1 .. SlotsOf(r, l) : Shown(s)[k] = s.mem[k - 1]
      /\ \A k \in 1 .. SlotsOf(r, l + 1) : Shown(t)[k] = t.mem[k - 1]
  BY <1>7 DEF Shown
<1>9. ASSUME NEW n \in 1 .. l + 1, n + HiddenOf(r) > NumRegs
      PROVE  at(n) \in DOMAIN Shown(t) /\ Shown(t)[at(n)] = Held(e, more[n], n, P[n])
  <2>. DEFINE k == at(n)
  <2>1. k \in 1 .. SlotsOf(r, l + 1) /\ Shown(t)[k] = t.mem[k - 1] /\ k \in DOMAIN Shown(t)
    BY <1>6, <1>8, <1>9
  <2>2. CASE n = l + 1
    <3>0. s.size \div 8 = l + HiddenOf(r) - NumRegs /\ t.mem[s.size \div 8] = x
      BY <1>5, <1>9, <2>2
    <3>1. s.size \div 8 = k - 1 /\ t.mem[s.size \div 8] = x
      BY <1>1, <2>2, <3>0, SMTT(30)
    <3>. QED
      BY <1>1, <1>3, <2>1, <2>2, <3>1
  <2>3. CASE n \in 1 .. l /\ n # l + 1
    <3>1. k \in 1 .. SlotsOf(r, l) /\ s.mem[k - 1] = Held(e, args[n], n, P[n])
      BY <1>2, <1>8, <1>9, <2>3
    <3>2. k - 1 # s.size \div 8 /\ k - 1 \in 0 .. MemQwords - 1
      BY <1>4, <1>6, <1>7, <3>1, StackSlot
    <3>3. t.mem[k - 1] = s.mem[k - 1]
      BY <1>5, <3>2
    <3>. QED
      BY <1>1, <2>1, <2>3, <3>1, <3>3
  <2>. QED
    BY <1>1, <2>2, <2>3, IndexOfMore
<1>10. Holds(Shown(t), r, e, more, P)
  BY <1>1, <1>9 DEF Holds
<1>. QED
  BY <1>10 DEF r, t, more

(* Binding writes below what it has not reached.                           *)
LEMMA PushKeeps ==
  ASSUME NEW s \in VMs, NEW x \in Qws
  PROVE  LET t == argLongLong(s, x) IN
           /\ t.size \in Nat /\ s.size \in Nat /\ t.size >= s.size
           /\ \A q \in 0 .. MemQwords - 1 : 8 * q >= t.size => t.mem[q] = s.mem[q]
<1>. DEFINE k == IF s.count = s.aggrReturnReg THEN s.count + 1 ELSE s.count
            t == argLongLong(s, x)
<1>1. s.size \in Nat /\ s.mem \in [0 .. MemQwords - 1 -> Qws]
  BY VectorSize DEF VMs
<1>2. CASE k < NumRegs
  <2>1. t = [s EXCEPT !.regs[k] = x, !.count = k + 1]
    BY <1>2 DEF argLongLong
  <2>2. t.size = s.size /\ t.mem = s.mem
    BY <2>1 DEF VMs
  <2>. QED
    BY <1>1, <2>2
<1>3. CASE ~(k < NumRegs)
  <2>1. t = dcVecAppend([s EXCEPT !.count = k], x)
    BY <1>3 DEF argLongLong
  <2>. HIDE DEF k
  <2>2. CASE s.size + 8 <= VecTotal
    <3>1. t.size = s.size + 8 /\ t.mem = [s.mem EXCEPT ![s.size \div 8] = x]
      BY <2>1, <2>2 DEF dcVecAppend, VMs
    <3>2. \A q \in Int : 8 * q >= s.size + 8 => q # s.size \div 8
      BY <1>1
    <3>. QED
      BY <1>1, <3>1, <3>2
  <2>3. CASE ~(s.size + 8 <= VecTotal)
    <3>1. t.size = s.size /\ t.mem = s.mem
      BY <2>1, <2>3 DEF dcVecAppend, VMs
    <3>. QED
      BY <1>1, <3>1
  <2>. QED
    BY <2>2, <2>3
<1>. QED
  BY <1>2, <1>3

-----------------------------------------------------------------------------
(* Places of copies.                                                       *)

Places(args) == [1 .. Len(args) -> Nat]

(* The places of one more argument.                                        *)
MorePlaces(args, P, p) == [n \in 1 .. Len(args) + 1 |-> IF n \in 1 .. Len(args) THEN P[n] ELSE p]

LEMMA MorePlacesOf ==
  ASSUME NEW args \in Seq(ArgTypes), NEW type \in ArgTypes, NEW P \in Places(args), NEW p \in Nat
  PROVE  /\ MorePlaces(args, P, p) \in Places(Append(args, type))
         /\ MorePlaces(args, P, p)[Len(args) + 1] = p
         /\ \A n \in 1 .. Len(args) : MorePlaces(args, P, p)[n] = P[n]
<1>1. Len(args) \in Nat /\ Len(Append(args, type)) = Len(args) + 1
  OBVIOUS
<1>. QED
  BY <1>1 DEF MorePlaces, Places

(* Only the places of the arguments there are count.                       *)
LEMMA SamePlaces ==
  ASSUME NEW args \in Seq(ArgTypes), NEW P, NEW Q, \A n \in 1 .. Len(args) : Q[n] = P[n]
  PROVE  /\ \A regs, r, e : InRegs(regs, r, e, args, P) => InRegs(regs, r, e, args, Q)
         /\ \A st, r, e : Holds(st, r, e, args, P) => Holds(st, r, e, args, Q)
  BY DEF InRegs, Holds

(* A copy lies below the earlier ones and disturbs nothing above, nor what *)
(* is below it.                                                            *)
LEMMA CopyKeeps ==
  ASSUME NEW s \in VMs, NEW ag \in Aggrs, CopyAt(s, ag) >= 0, NEW e \in Int, NEW n \in Int
  PROVE  LET u == Copied(s, ag, e, n)
             p == CopyAt(s, ag) \div 8 IN
           /\ \A q \in 0 .. MemQwords - 1 :
                8 * q >= s.copies \/ 8 * q < CopyAt(s, ag) => u.mem[q] = s.mem[q]
           /\ \A k \in 1 .. Qwords(ag) : u.mem[p + k - 1] = Piece(e, n, k)
<1>. DEFINE p == CopyAt(s, ag) \div 8
            Q == Qwords(ag)
<1>1. /\ p \in Nat /\ CopyAt(s, ag) = 8 * p /\ CopyAt(s, ag) + Size[ag] <= s.copies
      /\ p + Q <= MemQwords /\ Q \in Nat \ {0} /\ 8 * Q < Size[ag] + 8 /\ MemQwords \in Nat
      /\ s.copies \in Nat /\ Size[ag] \in Nat
  BY CopyPlace, QwordsOfAggr, VectorSize DEF VMs
<1>2. /\ DOMAIN s.mem = 0 .. MemQwords - 1
      /\ Copied(s, ag, e, n).mem = [q \in DOMAIN s.mem |->
           IF q \in p .. p + Q - 1 THEN Piece(e, n, q - p + 1) ELSE s.mem[q]]
  BY DEF Copied, VMs
<1>. HIDE DEF p, Q
<1>3. \A q \in 0 .. MemQwords - 1 : Copied(s, ag, e, n).mem[q]
        = IF q \in p .. p + Q - 1 THEN Piece(e, n, q - p + 1) ELSE s.mem[q]
  BY <1>2
<1>4. ASSUME NEW q \in 0 .. MemQwords - 1, 8 * q >= s.copies \/ 8 * q < CopyAt(s, ag)
      PROVE  Copied(s, ag, e, n).mem[q] = s.mem[q]
  <2>1. q \notin p .. p + Q - 1
    BY <1>1, <1>4
  <2>. QED
    BY <1>3, <2>1
<1>5. ASSUME NEW k \in 1 .. Q
      PROVE  Copied(s, ag, e, n).mem[p + k - 1] = Piece(e, n, k)
  <2>. DEFINE j == p + k - 1
  <2>1. j \in 0 .. MemQwords - 1 /\ j \in p .. p + Q - 1 /\ j - p + 1 = k
    BY <1>1
  <2>. HIDE DEF j
  <2>2. Copied(s, ag, e, n).mem[j] = Piece(e, n, k)
    BY <1>3, <2>1
  <2>. QED
    BY <2>2 DEF j
<1>. QED
  BY <1>4, <1>5 DEF p, Q

(* The frames' view: what lies at or above the copies stays.               *)
LEMMA TakenKeeps ==
  ASSUME NEW s \in VMs, Aligned(s), NEW type \in ArgTypes, Fits(s, type),
         NEW e \in Int, NEW n \in Int
  PROVE  LET t == Taken(s, type, e, n) IN
           /\ t.size \in Nat /\ s.size \in Nat /\ t.size >= s.size
           /\ t.copies \in Int /\ s.copies \in Int /\ t.copies <= s.copies
           /\ ~Met(t) => \A q \in 0 .. MemQwords - 1 : 8 * q >= s.copies => t.mem[q] = s.mem[q]
<1>. DEFINE u == Staged(s, type, e, n)
            x == Value(s, type, e, n)
            t == Taken(s, type, e, n)
<1>1. /\ u \in VMs /\ u.size = s.size /\ u.copies \in Int /\ s.copies \in Int
      /\ u.copies <= s.copies /\ x \in Qws
      /\ \A q \in 0 .. MemQwords - 1 : 8 * q >= s.copies => u.mem[q] = s.mem[q]
  <2>0. x \in Qws /\ u \in VMs
    BY TakenTyped
  <2>1. CASE ByReference(type)
    <3>1. type \in Aggrs /\ CopyAt(s, type) >= 0 /\ u = Copied(s, type, e, n)
      BY <2>1, Kinds DEF Fits, Staged
    <3>2. u.size = s.size /\ u.copies = CopyAt(s, type)
      BY <3>1, CopyTyped
    <3>3. CopyAt(s, type) \in Int /\ s.copies \in Int /\ Size[type] \in Nat
          /\ CopyAt(s, type) + Size[type] <= s.copies
      <4>1. CopyAt(s, type) \in 0 .. VecTotal /\ CopyAt(s, type) + Size[type] <= s.copies
        BY <3>1, CopyPlace
      <4>2. Size[type] \in Nat /\ s.copies \in 0 .. VecTotal
        BY <3>1, QwordsOfAggr DEF VMs
      <4>. QED
        BY <4>1, <4>2, VectorSize
    <3>4. \A q \in 0 .. MemQwords - 1 : 8 * q >= s.copies => u.mem[q] = s.mem[q]
      BY <3>1, CopyKeeps
    <3>. HIDE DEF u, x
    <3>. QED
      BY <2>0, <3>2, <3>3, <3>4
  <2>2. CASE ~ByReference(type)
    <3>1. u = s /\ s.copies \in Int
      BY <2>2, VectorSize DEF Staged, VMs
    <3>. QED
      BY <2>0, <3>1
  <2>. QED
    BY <2>1, <2>2
<1>2. t = argLongLong(u, x)
  BY DEF Taken
<1>. HIDE DEF u, x, t
<1>3. /\ t.size \in Nat /\ u.size \in Nat /\ t.size >= u.size /\ t.copies = u.copies
      /\ \A q \in 0 .. MemQwords - 1 : 8 * q >= t.size => t.mem[q] = u.mem[q]
  BY <1>1, <1>2, PushKeeps, ArgTyped
<1>4. ASSUME ~Met(t), NEW q \in 0 .. MemQwords - 1, 8 * q >= s.copies
      PROVE  t.mem[q] = s.mem[q]
  <2>1. 8 * q >= t.size
    BY <1>1, <1>3, <1>4 DEF Met
  <2>. QED
    BY <1>1, <1>3, <1>4, <2>1
<1>5. /\ t.size \in Nat /\ s.size \in Nat /\ t.size >= s.size
      /\ t.copies \in Int /\ s.copies \in Int /\ t.copies <= s.copies
  BY <1>1, <1>3
<1>. QED
  BY <1>4, <1>5 DEF t

(* The k-th of z qwords that begin at p.                                   *)
LEMMA QwordInside ==
  ASSUME NEW p \in Nat, NEW z \in Nat, NEW M \in Nat, NEW low \in Int, NEW k \in 1 .. z,
         8 * p >= low, p + z <= M
  PROVE  p + k - 1 \in 0 .. M - 1 /\ 8 * (p + k - 1) >= low
  OBVIOUS

LEMMA QwordBelow ==
  ASSUME NEW size \in Nat, NEW top \in Int, size <= top, NEW k \in 1 .. size \div 8
  PROVE  8 * (k - 1) < top
  OBVIOUS

LEMMA StagedHolds ==
  ASSUME NEW s \in VMs, NEW args \in Seq(ArgTypes), NEW type \in ArgTypes, Fits(s, type),
         NEW e \in Int, NEW P \in Places(args),
         s.size <= Staged(s, type, e, Len(args) + 1).copies,
         InRegs(s.regs, s.aggrReturnReg, e, args, P), Above(s.copies, args, P)
  PROVE  \E Q \in Places(Append(args, type)) :
           LET u == Staged(s, type, e, Len(args) + 1) IN
             /\ Value(s, type, e, Len(args) + 1) = Held(e, type, Len(args) + 1, Q[Len(args) + 1])
             /\ InRegs(u.regs, s.aggrReturnReg, e, args, Q)
             /\ Above(u.copies, Append(args, type), Q)
             /\ Holds(Shown(s), s.aggrReturnReg, e, args, P)
                  => Holds(Shown(u), s.aggrReturnReg, e, args, Q)
             /\ Intact(s.mem, e, args, P) => Intact(u.mem, e, Append(args, type), Q)
<1>. DEFINE l == Len(args)
            m == l + 1
            r == s.aggrReturnReg
            more == Append(args, type)
            u == Staged(s, type, e, m)
            p == IF ByReference(type) THEN CopyAt(s, type) \div 8 ELSE 0
            Q == MorePlaces(args, P, p)
<1>1. /\ more \in Seq(ArgTypes) /\ Len(more) = l + 1 /\ l \in Nat /\ more[m] = type
      /\ \A n \in 1 .. l : more[n] = args[n]
  BY OneMoreArg
<1>2. s.size \in Nat /\ s.copies \in Nat /\ s.size <= VecTotal
  BY VectorSize DEF VMs
<1>3. p \in Nat
  <2>1. CASE ByReference(type)
    BY <2>1, CopyPlace, Kinds DEF Fits
  <2>. QED
    BY <2>1
<1>. HIDE DEF p
<1>4. Q \in Places(more) /\ Q[m] = p /\ \A n \in 1 .. l : Q[n] = P[n]
  BY <1>3, MorePlacesOf
<1>5. InRegs(s.regs, r, e, args, Q)
      /\ (Holds(Shown(s), r, e, args, P) => Holds(Shown(s), r, e, args, Q))
  BY <1>4, SamePlaces
<1>. HIDE DEF Q, more
<1>6. CASE ByReference(type)
  <2>. DEFINE at == CopyAt(s, type)
  <2>0. type \in Aggrs /\ at >= 0 /\ u = Copied(s, type, e, m) /\ m \in Int
    BY <1>1, <1>6, Kinds DEF Fits, Staged
  <2>1. u.copies = at /\ u.regs = s.regs /\ u.size = s.size
    BY <2>0, CopyTyped
  <2>2. /\ p = at \div 8 /\ at = 8 * p /\ at + Size[type] <= s.copies /\ at \in Int
        /\ p + Qwords(type) <= MemQwords /\ Size[type] \in Nat /\ MemQwords \in Nat
    <3>1. p = at \div 8
      BY <1>6 DEF p
    <3>2. at \in 0 .. VecTotal /\ at = 8 * (at \div 8) /\ at + Size[type] <= s.copies
          /\ at \div 8 + Qwords(type) <= MemQwords
      BY <2>0, CopyPlace
    <3>3. Size[type] \in Nat
      BY <2>0, QwordsOfAggr
    <3>. HIDE DEF at
    <3>. QED
      BY <3>1, <3>2, <3>3, VectorSize
  <2>3. /\ \A q \in 0 .. MemQwords - 1 : 8 * q >= s.copies \/ 8 * q < at => u.mem[q] = s.mem[q]
        /\ \A k \in 1 .. Qwords(type) : u.mem[p + k - 1] = Piece(e, m, k)
    <3>1. \A q \in 0 .. MemQwords - 1 : 8 * q >= s.copies \/ 8 * q < CopyAt(s, type)
            => Copied(s, type, e, m).mem[q] = s.mem[q]
      BY <2>0, CopyKeeps
    <3>2. \A k \in 1 .. Qwords(type) :
            Copied(s, type, e, m).mem[CopyAt(s, type) \div 8 + k - 1] = Piece(e, m, k)
      BY <2>0, CopyKeeps
    <3>. HIDE DEF u
    <3>. QED
      BY <2>0, <2>2, <3>1, <3>2
  <2>4. s.size <= at
    BY <2>1
  <2>. HIDE DEF at, u
  <2>5. Value(s, type, e, m) = Held(e, type, m, Q[m])
    BY <1>4, <1>6, <2>2 DEF Value, Held, at
  <2>6. Shown(u) = Shown(s)
    <3>1. \A k \in 1 .. s.size \div 8 : k - 1 \in 0 .. MemQwords - 1 /\ 8 * (k - 1) < at
      <4>1. \A k \in 1 .. s.size \div 8 : k - 1 \in 0 .. MemQwords - 1
        BY <1>2, StackSlot
      <4>2. \A k \in 1 .. s.size \div 8 : 8 * (k - 1) < at
        BY <1>2, <2>2, <2>4, QwordBelow
      <4>. QED
        BY <4>1, <4>2
    <3>2. \A k \in 1 .. s.size \div 8 : u.mem[k - 1] = s.mem[k - 1]
      BY <2>3, <3>1
    <3>. QED
      BY <2>1, <3>2 DEF Shown
  <2>7. Above(at, more, Q)
    <3>. SUFFICES ASSUME NEW n \in 1 .. l + 1, ByReference(more[n])
                  PROVE  8 * Q[n] >= at /\ Q[n] + Qwords(more[n]) <= MemQwords
      BY <1>1 DEF Above
    <3>1. CASE n = l + 1
      BY <1>1, <1>4, <2>2, <3>1
    <3>2. CASE n \in 1 .. l
      <4>1. 8 * P[n] >= s.copies /\ P[n] + Qwords(args[n]) <= MemQwords /\ P[n] \in Nat
        BY <1>1, <3>2 DEF Above, Places
      <4>2. at \in Int /\ s.copies \in Int /\ at <= s.copies
        BY <1>2, <2>2
      <4>3. \A z \in Nat : 8 * z >= s.copies => 8 * z >= at
        BY <4>2
      <4>4. 8 * P[n] >= at
        BY <4>1, <4>3
      <4>. QED
        BY <1>1, <1>4, <3>2, <4>1, <4>4
    <3>. QED
      BY <1>1, <3>1, <3>2, IndexOfMore
  <2>8. ASSUME Intact(s.mem, e, args, P)
        PROVE  Intact(u.mem, e, more, Q)
    <3>. SUFFICES ASSUME NEW n \in 1 .. l + 1, ByReference(more[n]),
                         NEW k \in 1 .. Qwords(more[n])
                  PROVE  u.mem[Q[n] + k - 1] = Piece(e, n, k)
      BY <1>1 DEF Intact
    <3>1. CASE n = l + 1
      BY <1>1, <1>4, <2>3, <3>1
    <3>2. CASE n \in 1 .. l
      <4>. DEFINE q == P[n] + k - 1
      <4>1. 8 * P[n] >= s.copies /\ P[n] + Qwords(args[n]) <= MemQwords /\ P[n] \in Nat
            /\ k \in 1 .. Qwords(args[n]) /\ Qwords(args[n]) \in Nat
        <5>1. args[n] \in Aggrs /\ ByReference(args[n])
          BY <1>1, <3>2, Kinds
        <5>. QED
          BY <1>1, <3>2, <5>1, QwordsOfAggr DEF Above, Places
      <4>2. q \in 0 .. MemQwords - 1 /\ 8 * q >= s.copies
        <5>1. s.copies \in Int /\ MemQwords \in Nat
          BY <1>2, <2>2
        <5>. QED
          BY <4>1, <5>1, QwordInside
      <4>3. s.mem[q] = Piece(e, n, k)
        BY <1>1, <2>8, <3>2, <4>1 DEF Intact
      <4>. HIDE DEF q
      <4>4. u.mem[q] = Piece(e, n, k)
        BY <2>3, <4>2, <4>3
      <4>. QED
        BY <1>4, <3>2, <4>4 DEF q
    <3>. QED
      BY <1>1, <3>1, <3>2, IndexOfMore
  <2>. QED
    BY <1>4, <1>5, <2>1, <2>5, <2>6, <2>7, <2>8 DEF u, more
<1>7. CASE ~ByReference(type)
  <2>1. u = s
    BY <1>7 DEF Staged
  <2>2. Value(s, type, e, m) = Held(e, type, m, Q[m])
    BY <1>7 DEF Value, Held
  <2>3. Above(s.copies, more, Q)
    BY <1>1, <1>4, <1>7, IndexOfMore DEF Above
  <2>4. Intact(s.mem, e, args, P) => Intact(s.mem, e, more, Q)
    <3>. SUFFICES ASSUME Intact(s.mem, e, args, P), NEW n \in 1 .. l + 1, ByReference(more[n]),
                         NEW k \in 1 .. Qwords(more[n])
                  PROVE  s.mem[Q[n] + k - 1] = Piece(e, n, k)
      BY <1>1 DEF Intact
    <3>1. n \in 1 .. l /\ more[n] = args[n] /\ Q[n] = P[n]
      BY <1>1, <1>4, <1>7, IndexOfMore
    <3>. QED
      BY <3>1 DEF Intact
  <2>. QED
    BY <1>4, <1>5, <2>1, <2>2, <2>3, <2>4 DEF more
<1>. QED
  BY <1>6, <1>7

(* One more argument in its place, the earlier ones in theirs.             *)
LEMMA TakenHolds ==
  ASSUME NEW s \in VMs, Aligned(s), NEW args \in Seq(ArgTypes), NEW type \in ArgTypes,
         Fits(s, type), NEW e \in Int,
         s.count = CountOf(s.aggrReturnReg, Len(args)),
         s.size = 8 * SlotsOf(s.aggrReturnReg, Len(args)),
         SlotsOf(s.aggrReturnReg, Len(args) + 1) <= VecTotal \div 8,
         ~Met(Taken(s, type, e, Len(args) + 1)),
         NEW P \in Places(args),
         InRegs(s.regs, s.aggrReturnReg, e, args, P), Above(s.copies, args, P)
  PROVE  LET t == Taken(s, type, e, Len(args) + 1) IN
           \E Q \in Places(Append(args, type)) :
             /\ InRegs(t.regs, s.aggrReturnReg, e, Append(args, type), Q)
             /\ Above(t.copies, Append(args, type), Q)
             /\ Holds(Shown(s), s.aggrReturnReg, e, args, P)
                  => Holds(Shown(t), s.aggrReturnReg, e, Append(args, type), Q)
             /\ Intact(s.mem, e, args, P) => Intact(t.mem, e, Append(args, type), Q)
<1>. DEFINE m == Len(args) + 1
            r == s.aggrReturnReg
            more == Append(args, type)
            u == Staged(s, type, e, m)
            x == Value(s, type, e, m)
            t == Taken(s, type, e, m)
<1>1. /\ u \in VMs /\ x \in Qws /\ m \in Int /\ more \in Seq(ArgTypes)
      /\ Len(more) = Len(args) + 1
      /\ \A n \in 1 .. Len(args) + 1 : ByReference(more[n]) => Qwords(more[n]) \in Nat
  <2>1. m \in Int /\ more \in Seq(ArgTypes) /\ Len(more) = Len(args) + 1
    BY OneMoreArg
  <2>2. u \in VMs /\ x \in Qws
    BY <2>1, TakenTyped
  <2>3. \A n \in 1 .. Len(args) + 1 : ByReference(more[n]) => Qwords(more[n]) \in Nat
    BY Kinds, QwordsOfAggr
  <2>. QED
    BY <2>1, <2>2, <2>3
<1>2. u.count = s.count /\ u.size = s.size /\ u.aggrReturnReg = r
  <2>1. CASE ByReference(type)
    BY <1>1, <2>1, CopyTyped, Kinds DEF Staged, Fits
  <2>. QED
    BY <2>1 DEF Staged
<1>3. t = argLongLong(u, x)
  BY DEF Taken
<1>. HIDE DEF u, x, t
<1>4. /\ t.size \in Nat /\ u.size \in Nat /\ t.size >= u.size /\ t.copies = u.copies
      /\ \A q \in 0 .. MemQwords - 1 : 8 * q >= t.size => t.mem[q] = u.mem[q]
  BY <1>1, <1>3, PushKeeps, ArgTyped
<1>5. u.copies \in Int /\ t.size <= u.copies /\ s.size <= u.copies
  <2>1. u.copies \in Int
    BY <1>1, VectorSize DEF VMs
  <2>2. ~(t.size > t.copies)
    BY DEF t, Met
  <2>. QED
    BY <1>2, <1>4, <2>1, <2>2
<1>6. PICK Q \in Places(more) :
        /\ x = Held(e, type, m, Q[m])
        /\ InRegs(u.regs, r, e, args, Q)
        /\ Above(u.copies, more, Q)
        /\ Holds(Shown(s), r, e, args, P) => Holds(Shown(u), r, e, args, Q)
        /\ Intact(s.mem, e, args, P) => Intact(u.mem, e, more, Q)
  <2>1. s.size <= Staged(s, type, e, Len(args) + 1).copies
    BY <1>5 DEF u
  <2>. QED
    BY <2>1, StagedHolds DEF u, x
<1>7. InRegs(t.regs, r, e, more, Q)
  BY <1>1, <1>2, <1>3, <1>6, PushedRegs
<1>8. Holds(Shown(u), r, e, args, Q) => Holds(Shown(t), r, e, more, Q)
  BY <1>1, <1>2, <1>3, <1>6, PushedShown
<1>9. ASSUME Intact(u.mem, e, more, Q)
      PROVE  Intact(t.mem, e, more, Q)
  <2>. SUFFICES ASSUME NEW n \in 1 .. Len(more), ByReference(more[n]),
                       NEW k \in 1 .. Qwords(more[n])
                PROVE  t.mem[Q[n] + k - 1] = Piece(e, n, k)
    BY DEF Intact
  <2>. DEFINE q == Q[n] + k - 1
  <2>1. 8 * Q[n] >= u.copies /\ Q[n] + Qwords(more[n]) <= MemQwords /\ Q[n] \in Nat
        /\ Qwords(more[n]) \in Nat
    BY <1>1, <1>6 DEF Above, Places
  <2>2. q \in 0 .. MemQwords - 1 /\ 8 * q >= u.copies
    BY <1>5, <2>1, QwordInside, VectorSize
  <2>3. u.mem[q] = Piece(e, n, k)
    BY <1>9 DEF Intact
  <2>. HIDE DEF q
  <2>4. 8 * q >= t.size
    BY <1>4, <1>5, <2>2
  <2>5. t.mem[q] = Piece(e, n, k)
    BY <1>4, <2>2, <2>3, <2>4
  <2>. QED
    BY <2>5 DEF q
<1>. QED
  BY <1>4, <1>6, <1>7, <1>8, <1>9 DEF t

-----------------------------------------------------------------------------
(***************************************************************************)
(* The CallVM.  As long as the stack has room and has not met the copies,  *)
(* every argument bound is in its position and every copy in its place,    *)
(* unless a target assigned to one.                                        *)
(***************************************************************************)
Fitting(r, n) == SlotsOf(r, n) <= VecTotal \div 8

Laid(P) ==
  /\ InRegs(vm.regs, vm.aggrReturnReg, epoch, bound, P)
  /\ Above(vm.copies, bound, P)
  /\ Strayed(epoch) \/ Holds(Shown(vm), vm.aggrReturnReg, epoch, bound, P)
  /\ Spoiled(epoch) \/ Intact(vm.mem, epoch, bound, P)

BoundInv ==
  /\ vm.count = CountOf(vm.aggrReturnReg, Len(bound))
  /\ Fitting(vm.aggrReturnReg, Len(bound)) =>
       /\ vm.size = 8 * SlotsOf(vm.aggrReturnReg, Len(bound))
       /\ ~Met(vm) => \E P \in Places(bound) : Laid(P)

LEMMA BindKeepsBound ==
  ASSUME Typed, BoundInv, BindStep
  PROVE  BoundInv'
<1>. DEFINE r == vm.aggrReturnReg
            l == Len(bound)
<1>1. PICK type \in ArgTypes :
        Fits(vm, type) /\ Bind(type) /\ vm' = Taken(vm, type, epoch, Len(bound) + 1)
  BY DEF BindStep
<1>2. bound' = Append(bound, type) /\ epoch' = epoch /\ touched' = touched
  BY <1>1 DEF Bind
<1>3. /\ vm \in VMs /\ Aligned(vm) /\ bound \in Seq(ArgTypes) /\ epoch \in Int
      /\ l \in Nat /\ Len(bound') = l + 1 /\ r \in {-2, -1, 0, 1}
  BY <1>2 DEF Typed, VMs
<1>4. Strayed(epoch)' = Strayed(epoch) /\ Spoiled(epoch)' = Spoiled(epoch)
  BY <1>2 DEF Strayed, Spoiled
<1>5. LET u == Staged(vm, type, epoch, l + 1)
          x == Value(vm, type, epoch, l + 1) IN
        /\ u \in VMs /\ x \in Qws /\ vm' = argLongLong(u, x)
        /\ u.aggrReturnReg = r /\ vm'.aggrReturnReg = r /\ u.count = vm.count /\ u.size = vm.size
  <2>1. l + 1 \in Int
    BY <1>3
  <2>2. CASE ByReference(type)
    BY <1>1, <1>3, <2>1, <2>2, TakenTyped, CopyTyped, Kinds DEF Staged, Fits, Taken
  <2>3. CASE ~ByReference(type)
    BY <1>1, <1>3, <2>1, <2>3, TakenTyped DEF Staged, Taken
  <2>. QED
    BY <2>2, <2>3
<1>6. vm'.count = CountOf(r, l + 1) /\ vm'.aggrReturnReg = r
  <2>. DEFINE u == Staged(vm, type, epoch, l + 1)
              x == Value(vm, type, epoch, l + 1)
  <2>1. /\ u \in VMs /\ x \in Qws /\ vm' = argLongLong(u, x)
        /\ u.aggrReturnReg = r /\ vm'.aggrReturnReg = r /\ u.count = vm.count
    BY <1>5
  <2>2. u.count = CountOf(u.aggrReturnReg, l)
    BY <2>1 DEF BoundInv
  <2>. HIDE DEF u, x, l
  <2>3. argLongLong(u, x).count = CountOf(u.aggrReturnReg, l + 1)
    BY <1>3, <2>1, <2>2, Pushed
  <2>. QED
    BY <2>1, <2>3
<1>7. ASSUME Fitting(r, l + 1)
      PROVE  vm'.size = 8 * SlotsOf(r, l + 1)
             /\ (~Met(vm') => \E Q \in Places(bound') : Laid(Q)')
  <2>1. Fitting(r, l)
    <3>1. SlotsOf(r, l) \in Int /\ SlotsOf(r, l + 1) \in Int /\ SlotsOf(r, l) <= SlotsOf(r, l + 1)
          /\ VecTotal \div 8 \in Int
      <4>. HIDE DEF r, l
      <4>1. NumRegs \in Nat /\ r \in Int /\ l \in Nat /\ VecTotal \in Nat
        BY <1>3, Win64Assumption, VectorSize
      <4>. QED
        BY <4>1 DEF SlotsOf, HiddenOf
    <3>. QED
      BY <1>7, <3>1 DEF Fitting
  <2>2. vm.size = 8 * SlotsOf(r, l) /\ (~Met(vm) => \E P \in Places(bound) : Laid(P))
        /\ vm.count = CountOf(r, l)
    BY <2>1 DEF BoundInv
  <2>3. vm'.size = 8 * SlotsOf(r, l + 1)
    BY <1>3, <1>5, <1>7, <2>2, PushedStack DEF Fitting
  <2>4. ASSUME ~Met(vm')
        PROVE  \E Q \in Places(bound') : Laid(Q)'
    <3>1. ~Met(vm)
      <4>1. vm'.size >= vm.size /\ vm'.copies <= vm.copies /\ vm'.size \in Int
            /\ vm'.copies \in Int /\ vm.size \in Int /\ vm.copies \in Int
        BY <1>1, <1>3, TakenKeeps
      <4>. QED
        BY <2>4, <4>1 DEF Met
    <3>2. PICK P \in Places(bound) : Laid(P)
      BY <2>2, <3>1
    <3>3. InRegs(vm.regs, r, epoch, bound, P) /\ Above(vm.copies, bound, P)
      BY <3>2 DEF Laid
    <3>4. PICK Q \in Places(bound') :
            /\ InRegs(vm'.regs, r, epoch, bound', Q)
            /\ Above(vm'.copies, bound', Q)
            /\ Holds(Shown(vm), r, epoch, bound, P) => Holds(Shown(vm'), r, epoch, bound', Q)
            /\ Intact(vm.mem, epoch, bound, P) => Intact(vm'.mem, epoch, bound', Q)
      BY <1>1, <1>2, <1>3, <1>7, <2>2, <2>4, <3>3, TakenHolds DEF Fitting
    <3>5. Laid(Q)'
      BY <1>2, <1>4, <1>6, <3>2, <3>4 DEF Laid
    <3>. QED
      BY <3>5
  <2>. QED
    BY <2>3, <2>4
<1>. QED
  BY <1>3, <1>6, <1>7 DEF BoundInv

-----------------------------------------------------------------------------
(***************************************************************************)
(* A call in progress.  What its target fetched is right, or excused; what *)
(* it has yet to fetch is in the registers and the stack it was given, and *)
(* the copies are there unless overwritten.                                *)
(***************************************************************************)
Overwritten(f) == epoch # f.epoch \/ Met(vm) \/ Spoiled(f.epoch)
Excused(f, n)  == OnStack(f, n) /\ Strayed(f.epoch)

Carried(f, P) ==
  /\ InRegs(f.regs, f.callee.aggrReturnReg, f.epoch, f.args, P)
  /\ Strayed(f.epoch) \/ Holds(f.stack, f.callee.aggrReturnReg, f.epoch, f.args, P)
  /\ f.epoch = epoch => Above(vm.copies, f.args, P)
  /\ Overwritten(f) \/ Intact(vm.mem, f.epoch, f.args, P)
  /\ \A n \in 1 .. Len(f.got) :
       f.got[n].ref = Held(f.epoch, f.args[n], n, P[n]) \/ Excused(f, n)

GotRight(f, n) ==
  \/ f.got[n].val = Given(f, n)
  \/ ByReference(f.args[n]) /\ Overwritten(f)
  \/ Excused(f, n)

(* Of the CallVM's present arguments, a call since the last reset was      *)
(* given a first part.                                                     *)
Present(f) ==
  /\ Len(f.args) <= Len(bound)
  /\ Len(f.args) # 0 => (f.hidden <=> vm.aggrReturnReg # -1)
  /\ f.met => Met(vm)

FrameInv(f) ==
  /\ f.epoch <= epoch /\ Len(f.got) <= Len(f.args)
  /\ f.callee.count = CountOf(f.callee.aggrReturnReg, Len(f.got))
  /\ f.callee.stackPtr = 1 + SlotsOf(f.callee.aggrReturnReg, Len(f.got))
  /\ f.epoch = epoch => Present(f)
  /\ ~f.met /\ ~Lost(f) =>
       /\ \E P \in Places(f.args) : Carried(f, P)
       /\ \A n \in 1 .. Len(f.got) : GotRight(f, n)

FetchInv == ReturnInv /\ BoundInv /\ \A d \in DOMAIN frames : FrameInv(frames[d])

(* What a step may do to the CallVM while a call is in progress.           *)
Grows ==
  /\ epoch' >= epoch /\ touched \subseteq touched'
  /\ epoch' = epoch =>
       /\ vm'.copies <= vm.copies /\ (Met(vm) => Met(vm'))
       /\ Len(bound) <= Len(bound') /\ (Len(bound) # 0 => vm'.aggrReturnReg = vm.aggrReturnReg)
       /\ \/ Met(vm') \/ Spoiled(epoch)'
          \/ \A q \in 0 .. MemQwords - 1 : 8 * q >= vm.copies => vm'.mem[q] = vm.mem[q]

LEMMA PlaceQwords ==
  ASSUME NEW args \in Seq(ArgTypes), NEW P \in Places(args), NEW low \in Int, Above(low, args, P),
         NEW n \in 1 .. Len(args), ByReference(args[n]), NEW k \in 1 .. Qwords(args[n])
  PROVE  P[n] + k - 1 \in 0 .. MemQwords - 1 /\ 8 * (P[n] + k - 1) >= low
<1>1. 8 * P[n] >= low /\ P[n] + Qwords(args[n]) <= MemQwords /\ P[n] \in Nat
  BY DEF Above, Places
<1>2. Qwords(args[n]) \in Nat
  BY Kinds, QwordsOfAggr
<1>. QED
  BY <1>1, <1>2, QwordInside, VectorSize

LEMMA KeepsFrame ==
  ASSUME Typed, Typed', Grows, NEW f \in Frames, FrameInv(f)
  PROVE  FrameInv(f)'
<1>1. /\ epoch \in Nat /\ epoch' \in Nat /\ f.epoch \in Nat /\ f.args \in Seq(ArgTypes)
      /\ Len(f.args) \in Nat /\ Len(bound) \in Nat /\ Len(bound') \in Nat
      /\ vm.copies \in Int /\ vm'.copies \in Int
  BY VectorSize, SMTT(30) DEF Typed, Frames, VMs
<1>2. f.epoch <= epoch' /\ (f.epoch = epoch' => f.epoch = epoch /\ epoch' = epoch)
  BY <1>1 DEF Grows, FrameInv
<1>3. \A e : /\ Spoiled(e) => Spoiled(e)'
             /\ Strayed(e) => Strayed(e)'
  BY DEF Grows, Spoiled, Strayed
<1>4. Overwritten(f) => Overwritten(f)'
  BY <1>2, <1>3 DEF Overwritten, Grows
<1>5. \A n : Excused(f, n) => Excused(f, n)'
  BY <1>3 DEF Excused, OnStack, Position
<1>6. f.epoch = epoch' => Present(f)'
  <2>. SUFFICES ASSUME f.epoch = epoch' PROVE Present(f)'
    OBVIOUS
  <2>1. Present(f) /\ Len(bound) <= Len(bound') /\ (Met(vm) => Met(vm'))
        /\ (Len(bound) # 0 => vm'.aggrReturnReg = vm.aggrReturnReg)
    BY <1>2 DEF Grows, FrameInv
  <2>2. Len(f.args) <= Len(bound') /\ (Len(f.args) # 0 => Len(bound) # 0)
    BY <1>1, <2>1 DEF Present
  <2>. QED
    BY <2>1, <2>2 DEF Present
<1>7. ASSUME NEW P \in Places(f.args), Carried(f, P)
      PROVE  Carried(f, P)'
  <2>1. f.epoch = epoch' => Above(vm'.copies, f.args, P)
    <3>. SUFFICES ASSUME f.epoch = epoch', NEW n \in 1 .. Len(f.args), ByReference(f.args[n])
                  PROVE  8 * P[n] >= vm'.copies /\ P[n] + Qwords(f.args[n]) <= MemQwords
      BY DEF Above
    <3>1. 8 * P[n] >= vm.copies /\ P[n] + Qwords(f.args[n]) <= MemQwords /\ P[n] \in Nat
      BY <1>2, <1>7 DEF Carried, Above, Places
    <3>2. vm'.copies <= vm.copies
      BY <1>2 DEF Grows
    <3>3. \A z \in Nat : 8 * z >= vm.copies => 8 * z >= vm'.copies
      BY <1>1, <3>2
    <3>. QED
      BY <3>1, <3>3
  <2>2. Overwritten(f)' \/ Intact(vm'.mem, f.epoch, f.args, P)
    <3>. SUFFICES ASSUME ~Overwritten(f)' PROVE Intact(vm'.mem, f.epoch, f.args, P)
      OBVIOUS
    <3>1. /\ f.epoch = epoch' /\ epoch' = epoch /\ ~Met(vm') /\ ~Spoiled(epoch)'
          /\ Intact(vm.mem, f.epoch, f.args, P) /\ Above(vm.copies, f.args, P)
      BY <1>2, <1>4, <1>7 DEF Overwritten, Carried
    <3>2. \A q \in 0 .. MemQwords - 1 : 8 * q >= vm.copies => vm'.mem[q] = vm.mem[q]
      BY <3>1 DEF Grows
    <3>3. \A n \in 1 .. Len(f.args) : ByReference(f.args[n]) => \A k \in 1 .. Qwords(f.args[n]) :
            P[n] + k - 1 \in 0 .. MemQwords - 1 /\ 8 * (P[n] + k - 1) >= vm.copies
      BY <1>1, <3>1, PlaceQwords
    <3>. QED
      BY <3>1, <3>2, <3>3 DEF Intact
  <2>. QED
    BY <1>3, <1>5, <1>7, <2>1, <2>2 DEF Carried
<1>8. \A n : GotRight(f, n) => GotRight(f, n)'
  BY <1>4, <1>5 DEF GotRight, Given
<1>. QED
  BY <1>2, <1>6, <1>7, <1>8 DEF FrameInv, Lost, Position

LEMMA CountZero ==
  ASSUME NEW r \in {-2, -1, 0, 1}, NEW n \in Nat, CountOf(r, n) = 0
  PROVE  n = 0
<1>1. NumRegs \in Nat /\ NumRegs >= 2
  BY Win64Assumption
<1>. QED
  BY <1>1 DEF CountOf, RegisterOf

LEMMA NoPositions ==
  ASSUME NEW r \in {-2, -1, 0, 1}
  PROVE  CountOf(r, 0) = 0 /\ SlotsOf(r, 0) = 0 /\ Fitting(r, 0)
<1>1. NumRegs \in Nat /\ NumRegs >= 2 /\ VecTotal \in Nat
  BY Win64Assumption, VectorSize
<1>. QED
  BY <1>1 DEF CountOf, SlotsOf, HiddenOf, Fitting

(* With nothing bound there is nothing to be right about.                  *)
LEMMA NothingBound == bound = <<>> => \E P \in Places(bound) : Laid(P)
<1>. SUFFICES ASSUME bound = <<>> PROVE \E P \in Places(bound) : Laid(P)
  OBVIOUS
<1>1. [n \in 1 .. Len(bound) |-> 0] \in Places(bound) /\ Len(bound) = 0
  BY DEF Places
<1>2. \A P : Laid(P)
  BY <1>1 DEF Laid, InRegs, Above, Holds, Intact
<1>. QED
  BY <1>1, <1>2

LEMMA BindGrows ==
  ASSUME Typed, BindStep
  PROVE  Grows /\ frames' = frames
<1>1. PICK type \in ArgTypes :
        Fits(vm, type) /\ Bind(type) /\ vm' = Taken(vm, type, epoch, Len(bound) + 1)
  BY DEF BindStep
<1>2. /\ bound' = Append(bound, type) /\ epoch' = epoch /\ touched' = touched /\ frames' = frames
      /\ vm \in VMs /\ Aligned(vm) /\ epoch \in Int /\ Len(bound) + 1 \in Int
      /\ Len(bound') = Len(bound) + 1 /\ Len(bound) \in Nat
  BY <1>1 DEF Bind, Typed
<1>3. /\ vm'.size \in Nat /\ vm.size \in Nat /\ vm'.size >= vm.size
      /\ vm'.copies \in Int /\ vm.copies \in Int /\ vm'.copies <= vm.copies
      /\ ~Met(vm') => \A q \in 0 .. MemQwords - 1 : 8 * q >= vm.copies => vm'.mem[q] = vm.mem[q]
  BY <1>1, <1>2, TakenKeeps
<1>4. vm'.aggrReturnReg = vm.aggrReturnReg
  BY <1>1, <1>2, TakenTyped
<1>5. Met(vm) => Met(vm')
  BY <1>3 DEF Met
<1>. QED
  BY <1>2, <1>3, <1>4, <1>5 DEF Grows

LEMMA SetupGrows ==
  ASSUME Typed, BoundInv, dcReset \/ (\E mode \in {"C", "THIS", "SYS"} : dcMode(mode))
                            \/ \E ag \in Aggrs \cup {NullAggr} : dcBeginCallAggr(ag)
  PROVE  Grows /\ BoundInv' /\ frames' = frames
<1>0. vm \in VMs /\ vm.size \in Nat /\ vm.copies \in Nat /\ epoch \in Nat /\ VecTotal \in Nat
      /\ vm.aggrReturnReg \in {-2, -1, 0, 1} /\ bound \in Seq(ArgTypes)
  BY VectorSize DEF Typed, VMs
<1>1. CASE dcReset
  <2>1. /\ vm'.size = 0 /\ vm'.count = 0 /\ vm'.aggrReturnReg = -1
        /\ epoch' = epoch + 1 /\ bound' = <<>> /\ UNCHANGED <<frames, touched>>
    BY <1>0, <1>1 DEF dcReset, VMs
  <2>2. Grows
    BY <1>0, <2>1 DEF Grows
  <2>3. CountOf(-1, 0) = 0 /\ SlotsOf(-1, 0) = 0 /\ Fitting(-1, 0)
    BY NoPositions
  <2>4. (bound = <<>> => \E P \in Places(bound) : Laid(P))'
    BY NothingBound, PTL
  <2>5. BoundInv'
    BY <2>1, <2>3, <2>4 DEF BoundInv
  <2>. QED
    BY <2>1, <2>2, <2>5
<1>2. ASSUME Len(bound) = 0, bound = <<>>, UNCHANGED <<bound, epoch, frames, touched>>,
             vm'.mem = vm.mem, vm'.size = vm.size, vm'.copies = vm.copies, vm'.count = vm.count,
             vm'.aggrReturnReg \in {-2, -1, 0, 1}
      PROVE  Grows /\ BoundInv' /\ frames' = frames
  <2>1. Grows
    BY <1>0, <1>2 DEF Grows, Met
  <2>2. vm.count = 0 /\ vm.size = 0
    BY <1>0, <1>2, NoPositions DEF BoundInv
  <2>3. CountOf(vm'.aggrReturnReg, 0) = 0 /\ SlotsOf(vm'.aggrReturnReg, 0) = 0
    BY <1>2, NoPositions
  <2>4. (bound = <<>> => \E P \in Places(bound) : Laid(P))'
    BY NothingBound, PTL
  <2>5. BoundInv'
    BY <1>2, <2>2, <2>3, <2>4 DEF BoundInv
  <2>. QED
    BY <1>2, <2>1, <2>5
<1>3. ASSUME NEW mode \in {"C", "THIS", "SYS"}, dcMode(mode)
      PROVE  Grows /\ BoundInv' /\ frames' = frames
  <2>1. vm' = vm \/ vm' = [vm EXCEPT !.vt = "x64"] \/ vm' = [vm EXCEPT !.vt = "this"]
    BY <1>3 DEF dcMode
  <2>2. /\ vm'.mem = vm.mem /\ vm'.size = vm.size /\ vm'.copies = vm.copies
        /\ vm'.count = vm.count /\ vm'.aggrReturnReg = vm.aggrReturnReg
    BY <1>0, <2>1 DEF VMs
  <2>3. bound = <<>> /\ UNCHANGED <<bound, epoch, frames, touched>>
    BY <1>3 DEF dcMode
  <2>. QED
    BY <1>0, <1>2, <2>2, <2>3
<1>4. ASSUME NEW ag \in Aggrs \cup {NullAggr}, dcBeginCallAggr(ag)
      PROVE  Grows /\ BoundInv' /\ frames' = frames
  <2>0. vm.vt = "x64" \/ vm.vt = "this"
    BY <1>0 DEF VMs
  <2>1. PICK r \in {vm.aggrReturnReg, 0, 1} : vm' = [vm EXCEPT !.aggrReturnReg = r]
    BY <1>4, <2>0 DEF dcBeginCallAggr
  <2>2. /\ vm'.mem = vm.mem /\ vm'.size = vm.size /\ vm'.copies = vm.copies
        /\ vm'.count = vm.count /\ vm'.aggrReturnReg \in {-2, -1, 0, 1}
    BY <1>0, <2>1 DEF VMs
  <2>3. vm.count = 0 /\ UNCHANGED <<bound, epoch, frames, touched>>
    BY <1>4 DEF dcBeginCallAggr
  <2>4. Len(bound) = 0 /\ bound = <<>>
    <3>1. Len(bound) = 0
      <4>1. CountOf(vm.aggrReturnReg, Len(bound)) = 0 /\ Len(bound) \in Nat
        BY <1>0, <2>3 DEF BoundInv
      <4>. QED
        BY <1>0, <4>1, CountZero
    <3>. QED
      BY <1>0, <3>1
  <2>. QED
    BY <1>2, <2>2, <2>3, <2>4
<1>. QED
  BY <1>1, <1>3, <1>4

-----------------------------------------------------------------------------
(* A call: the hidden pointer takes a register that no argument is in.     *)

LEMMA CallGrows ==
  ASSUME ReturnInv, BoundInv, dcCall \/ dcCallAggr
  PROVE  Grows /\ BoundInv'
<1>0. /\ vm \in VMs /\ bound \in Seq(ArgTypes) /\ epoch \in Nat /\ vm.copies \in Int
      /\ vm.aggrReturnReg \in {-2, -1, 0, 1} /\ UNCHANGED <<bound, epoch, touched>>
  BY VectorSize DEF ReturnInv, Typed, VMs, dcCall, dcCallAggr
<1>1. /\ vm'.mem = vm.mem /\ vm'.size = vm.size /\ vm'.copies = vm.copies /\ vm'.count = vm.count
      /\ vm'.aggrReturnReg = vm.aggrReturnReg
      /\ \A k \in 0 .. NumRegs - 1 :
           k # vm.aggrReturnReg \/ vm.aggrReturnReg < 0 => vm'.regs[k] = vm.regs[k]
  <2>1. CASE dcCall
    BY <2>1 DEF dcCall
  <2>2. CASE dcCallAggr
    <3>1. vm' = IF vm.aggrReturnReg # -1 THEN [vm EXCEPT !.regs[vm.aggrReturnReg] = RetPtr] ELSE vm
      BY <2>2 DEF dcCallAggr
    <3>2. CASE vm.aggrReturnReg = -1
      BY <3>1, <3>2
    <3>3. CASE vm.aggrReturnReg # -1
      <4>1. vm' = [vm EXCEPT !.regs = [vm.regs EXCEPT ![vm.aggrReturnReg] = RetPtr]]
        BY <1>0, <3>1, <3>3 DEF VMs
      <4>2. ~(vm.aggrReturnReg < 0)
        BY <1>0, <3>3 DEF VMs
      <4>. QED
        BY <1>0, <4>1, <4>2 DEF VMs
    <3>. QED
      BY <3>2, <3>3
  <2>. QED
    BY <2>1, <2>2
<1>2. Grows
  BY <1>0, <1>1 DEF Grows, Met
<1>3. \A P : InRegs(vm.regs, vm.aggrReturnReg, epoch, bound, P)
               => InRegs(vm'.regs, vm.aggrReturnReg, epoch, bound, P)
  <2>. DEFINE r == vm.aggrReturnReg
  <2>. SUFFICES ASSUME NEW n \in 1 .. Len(bound), n + HiddenOf(r) <= NumRegs
                PROVE  vm'.regs[RegisterOf(r, n)] = vm.regs[RegisterOf(r, n)]
    BY DEF InRegs
  <2>1. n \in Nat /\ n # 0
    BY <1>0
  <2>2. RegisterOf(r, n) \in 0 .. NumRegs - 1 /\ (RegisterOf(r, n) # r \/ r < 0)
    <3>. HIDE DEF r
    <3>1. r \in {-2, -1, 0, 1}
      BY <1>0 DEF r
    <3>. QED
      BY <2>1, <3>1, OtherRegister
  <2>. QED
    BY <1>1, <2>2
<1>4. Shown(vm') = Shown(vm) /\ Met(vm') = Met(vm)
  BY <1>1 DEF Shown, Met
<1>5. Strayed(epoch)' = Strayed(epoch) /\ Spoiled(epoch)' = Spoiled(epoch)
  BY <1>0 DEF Strayed, Spoiled
<1>6. \A P : Laid(P) => Laid(P)'
  BY <1>0, <1>1, <1>3, <1>4, <1>5 DEF Laid
<1>7. BoundInv'
  BY <1>0, <1>1, <1>4, <1>6 DEF BoundInv
<1>. QED
  BY <1>2, <1>7

(* Behind the registers' arguments, or lost.                               *)
LEMMA LostOrFitting ==
  ASSUME NEW r \in {-2, -1, 0, 1}, NEW n \in Nat, n + HiddenOf(r) <= NumRegs + VecTotal \div 8
  PROVE  Fitting(r, n)
<1>1. NumRegs \in Nat /\ VecTotal \in Nat /\ VecTotal \div 8 \in Nat
  BY Win64Assumption, VectorSize
<1>. QED
  BY <1>1 DEF Fitting, SlotsOf, HiddenOf

LEMMA NewFrame ==
  ASSUME Typed, Typed', Reserved, BoundInv', dcCall \/ dcCallAggr, NEW f, f = Frame(vm')
  PROVE  FrameInv(f)'
<1>. DEFINE r == vm'.aggrReturnReg
            c == InitCallback(vm'.vt, ret)
<1>1. /\ f.args = bound /\ f.epoch = epoch /\ f.hidden = (r # -1) /\ f.met = Met(vm')
      /\ f.regs = vm'.regs /\ f.stack = Shown(vm')
      /\ f.callee.count = 0 /\ f.callee.stackPtr = 1 /\ f.callee.aggrReturnReg = c
      /\ f.got = <<>>
  BY FrameFields DEF Shown, Met
<1>2. /\ vm' \in VMs /\ r \in {-2, -1, 0, 1} /\ epoch \in Nat /\ bound \in Seq(ArgTypes)
      /\ Len(bound) \in Nat
      /\ UNCHANGED <<bound, epoch, ret>> /\ ret \in RetTypes
      /\ vm'.vt \in {"x64", "this"}
  BY DEF Typed, VMs, dcCall, dcCallAggr
<1>3. (c = r \/ (c = -2 /\ r = -1)) /\ c \in {-2, -1, 0, 1}
  <2>1. Reserved'
    BY CallAgrees
  <2>2. r = ReturnReg(vm'.vt, ret)
    BY <1>2, <2>1 DEF Reserved
  <2>3. CASE ret = NoRet
    BY <1>2, <2>2, <2>3, SameRegister DEF ReturnReg
  <2>4. CASE ret # NoRet
    BY <1>2, <2>2, <2>4, SameRegister
  <2>. QED
    BY <2>3, <2>4
<1>. HIDE DEF r, c
<1>4. \A n \in Nat : /\ RegisterOf(c, n) = RegisterOf(r, n) /\ HiddenOf(c) = HiddenOf(r)
                     /\ CountOf(c, n) = CountOf(r, n) /\ SlotsOf(c, n) = SlotsOf(r, n)
  <2>1. CASE c = r
    BY <2>1
  <2>2. CASE c = -2 /\ r = -1
    <3>1. HiddenOf(c) = 0 /\ HiddenOf(r) = 0
      BY <2>2 DEF HiddenOf
    <3>2. \A n \in Nat : RegisterOf(c, n) = n - 1 /\ RegisterOf(r, n) = n - 1
      BY <2>2 DEF RegisterOf
    <3>. QED
      BY <3>1, <3>2 DEF CountOf, SlotsOf
  <2>. QED
    BY <1>3, <2>1, <2>2
<1>5. CountOf(c, 0) = 0 /\ SlotsOf(c, 0) = 0
  BY <1>3, NoPositions
<1>6. Len(f.got) = 0 /\ \A n \in 1 .. Len(f.got) : FALSE
  BY <1>1
<1>7. Present(f)'
  <2>1. (f.hidden <=> vm'.aggrReturnReg # -1) /\ (f.met => Met(vm'))
    BY <1>1, Zenon DEF r
  <2>. QED
    BY <1>1, <1>2, <2>1 DEF Present
<1>8. ASSUME ~f.met, ~Lost(f)
      PROVE  \E P \in Places(f.args) : Carried(f, P)'
  <2>1. ~Met(vm')
    BY <1>1, <1>8
  <2>2. Fitting(r, Len(bound))
    <3>1. ~(Len(bound) + (IF f.hidden THEN 1 ELSE 0) > NumRegs + VecTotal \div 8)
      BY <1>1, <1>8 DEF Lost, Position
    <3>2. HiddenOf(r) = IF f.hidden THEN 1 ELSE 0
      <4>1. CASE r = -1
        <5>1. f.hidden = FALSE
          BY <1>1, <4>1, Zenon
        <5>. QED
          BY <4>1, <5>1 DEF HiddenOf
      <4>2. CASE r # -1
        <5>1. f.hidden = TRUE
          BY <1>1, <4>2, Zenon
        <5>2. ~(r < 0)
          BY <1>2, <4>2 DEF VMs, r
        <5>. QED
          BY <5>1, <5>2 DEF HiddenOf
      <4>. QED
        BY <4>1, <4>2
    <3>3. Len(bound) + HiddenOf(r) <= NumRegs + VecTotal \div 8
      <4>1. NumRegs \in Nat /\ VecTotal \div 8 \in Int /\ HiddenOf(r) \in Int
        BY Win64Assumption, VectorSize DEF HiddenOf
      <4>. QED
        BY <1>2, <3>1, <3>2, <4>1
    <3>. QED
      BY <1>2, <3>3, LostOrFitting
  <2>3. PICK P \in Places(bound') : Laid(P)'
    BY <1>2, <2>1, <2>2 DEF BoundInv, r
  <2>4. /\ InRegs(f.regs, c, f.epoch, f.args, P) /\ Above(vm'.copies, f.args, P)
        /\ Strayed(epoch)' \/ Holds(f.stack, c, f.epoch, f.args, P)
        /\ Spoiled(epoch)' \/ Intact(vm'.mem, f.epoch, f.args, P)
    <3>1. /\ InRegs(vm'.regs, r, epoch, bound, P) /\ Above(vm'.copies, bound, P)
          /\ Strayed(epoch)' \/ Holds(Shown(vm'), r, epoch, bound, P)
          /\ Spoiled(epoch)' \/ Intact(vm'.mem, epoch, bound, P)
      BY <1>2, <2>3 DEF Laid, r
    <3>2. /\ InRegs(vm'.regs, r, epoch, bound, P) => InRegs(vm'.regs, c, epoch, bound, P)
          /\ Holds(Shown(vm'), r, epoch, bound, P) => Holds(Shown(vm'), c, epoch, bound, P)
      BY <1>2, <1>4 DEF InRegs, Holds
    <3>. QED
      BY <1>1, <3>1, <3>2
  <2>5. Strayed(epoch)' = Strayed(f.epoch)' /\ Spoiled(epoch)' = Spoiled(f.epoch)'
    BY <1>1, <1>2 DEF Strayed, Spoiled
  <2>6. Carried(f, P)'
    <3>1. Strayed(f.epoch)' \/ Holds(f.stack, f.callee.aggrReturnReg, f.epoch, f.args, P)
      BY <1>1, <2>4, <2>5
    <3>2. Overwritten(f)' \/ Intact(vm'.mem, f.epoch, f.args, P)
      BY <2>4, <2>5 DEF Overwritten
    <3>. QED
      BY <1>1, <1>6, <2>4, <3>1, <3>2 DEF Carried
  <2>. QED
    BY <1>1, <1>2, <2>6
<1>. QED
  BY <1>1, <1>2, <1>5, <1>6, <1>7, <1>8 DEF FrameInv

-----------------------------------------------------------------------------
(* A fetch: the target's cursor moves like the caller's.                   *)

LEMMA FetchedCursor ==
  ASSUME NEW f \in Frames, NEW n \in Nat,
         f.callee.count = CountOf(f.callee.aggrReturnReg, n),
         f.callee.stackPtr = 1 + SlotsOf(f.callee.aggrReturnReg, n)
  PROVE  LET r == f.callee.aggrReturnReg
             a == arg_i64(f) IN
           /\ a.callee.count = CountOf(r, n + 1)
           /\ a.callee.stackPtr = 1 + SlotsOf(r, n + 1)
           /\ n + 1 + HiddenOf(r) <= NumRegs => a.val = f.regs[RegisterOf(r, n + 1)]
           /\ n + 1 + HiddenOf(r) > NumRegs /\ n + 1 + HiddenOf(r) - NumRegs \in DOMAIN f.stack
                => a.val = f.stack[n + 1 + HiddenOf(r) - NumRegs]
<1>. DEFINE r == f.callee.aggrReturnReg
            k == Cursor(r, f.callee.count)
            a == arg_i64(f)
<1>1. /\ r \in {-2, -1, 0, 1} /\ NumRegs \in Nat /\ HiddenOf(r) \in {0, 1}
      /\ f.callee \in Callees /\ f.callee.stackPtr \in Nat
  BY Win64Assumption DEF Frames, Callees, HiddenOf
<1>2. a = IF k < NumRegs
          THEN [callee |-> [f.callee EXCEPT !.count = k + 1], val |-> f.regs[k]]
          ELSE [callee |-> [f.callee EXCEPT !.count = k, !.stackPtr = @ + 1],
                val |-> IF f.callee.stackPtr \in DOMAIN f.stack
                        THEN f.stack[f.callee.stackPtr] ELSE Junk]
  BY DEF arg_i64, Cursor
<1>3. f.callee.count = CountOf(r, n) /\ f.callee.stackPtr = 1 + SlotsOf(r, n)
  OBVIOUS
<1>. HIDE DEF r, a
<1>4. CASE n + 1 + HiddenOf(r) <= NumRegs
  <2>1. /\ k = RegisterOf(r, n + 1) /\ k \in 0 .. NumRegs - 1 /\ CountOf(r, n + 1) = k + 1
        /\ SlotsOf(r, n) = 0 /\ SlotsOf(r, n + 1) = 0
    <3>1. /\ Cursor(r, CountOf(r, n)) = RegisterOf(r, n + 1)
          /\ RegisterOf(r, n + 1) \in 0 .. NumRegs - 1
          /\ CountOf(r, n + 1) = RegisterOf(r, n + 1) + 1
          /\ SlotsOf(r, n) = 0 /\ SlotsOf(r, n + 1) = 0
      BY <1>1, <1>4, NextRegister
    <3>. QED
      BY <1>3, <3>1
  <2>. HIDE DEF k
  <2>2. a = [callee |-> [f.callee EXCEPT !.count = k + 1], val |-> f.regs[k]]
    BY <1>1, <1>2, <2>1
  <2>3. ~(n + 1 + HiddenOf(r) > NumRegs)
    BY <1>1, <1>4
  <2>4. a.callee.count = k + 1 /\ a.callee.stackPtr = f.callee.stackPtr /\ a.val = f.regs[k]
    BY <1>1, <2>2 DEF Callees
  <2>. QED
    BY <1>3, <2>1, <2>3, <2>4 DEF r, a
<1>5. CASE n + 1 + HiddenOf(r) > NumRegs
  <2>1. /\ k = NumRegs /\ CountOf(r, n + 1) = NumRegs
        /\ SlotsOf(r, n + 1) = SlotsOf(r, n) + 1
        /\ SlotsOf(r, n + 1) = n + 1 + HiddenOf(r) - NumRegs /\ SlotsOf(r, n) \in Nat
    <3>1. /\ Cursor(r, CountOf(r, n)) = NumRegs /\ CountOf(r, n + 1) = NumRegs
          /\ SlotsOf(r, n + 1) = SlotsOf(r, n) + 1
          /\ SlotsOf(r, n + 1) = n + 1 + HiddenOf(r) - NumRegs /\ SlotsOf(r, n) \in Nat
      BY <1>1, <1>5, NextSlot
    <3>. QED
      BY <1>3, <3>1
  <2>. HIDE DEF k
  <2>2. a = [callee |-> [f.callee EXCEPT !.count = k, !.stackPtr = @ + 1],
             val |-> IF f.callee.stackPtr \in DOMAIN f.stack
                     THEN f.stack[f.callee.stackPtr] ELSE Junk]
    BY <1>1, <1>2, <2>1
  <2>3. ~(n + 1 + HiddenOf(r) <= NumRegs)
    BY <1>1, <1>5
  <2>4. /\ a.callee.count = k /\ a.callee.stackPtr = f.callee.stackPtr + 1
        /\ f.callee.stackPtr \in DOMAIN f.stack => a.val = f.stack[f.callee.stackPtr]
    BY <1>1, <2>2 DEF Callees
  <2>5. f.callee.stackPtr = n + 1 + HiddenOf(r) - NumRegs
        /\ f.callee.stackPtr + 1 = 1 + SlotsOf(r, n + 1)
    BY <1>1, <1>3, <2>1
  <2>. QED
    BY <2>1, <2>3, <2>4, <2>5 DEF r, a
<1>. QED
  BY <1>1, <1>4, <1>5

(* The qwords of an argument.                                              *)
Pieces(e, n, ag) == [k \in 1 .. Qwords(ag) |-> Piece(e, n, k)]

(* A handler reads what a pointer to a copy points to.                     *)
LEMMA DerefCopy ==
  ASSUME vm \in VMs, NEW ag \in Aggrs, NEW p \in Nat, NEW e, NEW n,
         \A k \in 1 .. Qwords(ag) : /\ p + k - 1 \in 0 .. MemQwords - 1
                                    /\ vm.mem[p + k - 1] = Piece(e, n, k)
  PROVE  Deref(Pointer(8 * p), ag) = Pieces(e, n, ag)
<1>1. Pointer(8 * p)[2] = 8 * p /\ (8 * p) \div 8 = p
  BY DEF Pointer
<1>2. DOMAIN vm.mem = 0 .. MemQwords - 1
  BY DEF VMs
<1>. DEFINE x == Pointer(8 * p)
<1>. HIDE DEF x
<1>3. Deref(x, ag) = [k \in 1 .. Qwords(ag) |-> IF p + k - 1 \in DOMAIN vm.mem
                                                THEN vm.mem[p + k - 1] ELSE Junk]
  BY <1>1 DEF Deref, x
<1>. QED
  BY <1>2, <1>3 DEF x, Pieces

LEMMA GivenSingle ==
  ASSUME NEW f, NEW n, ~ByReference(f.args[n])
  PROVE  Given(f, n) = <<Piece(f.epoch, n, 1)>>
<1>1. Given(f, n) = [k \in 1 .. 1 |-> Piece(f.epoch, n, k)]
  BY DEF Given
<1>2. [k \in 1 .. 1 |-> Piece(f.epoch, n, k)] = <<Piece(f.epoch, n, 1)>>
  OBVIOUS
<1>. QED
  BY <1>1, <1>2

LEMMA FetchedFields ==
  ASSUME NEW f \in Frames
  PROVE  LET g == Fetched(f) IN
           /\ g.args = f.args /\ g.epoch = f.epoch /\ g.hidden = f.hidden /\ g.met = f.met
           /\ g.regs = f.regs /\ g.stack = f.stack /\ g.callee = arg_i64(f).callee
           /\ g.got = Append(f.got, dcbArg(f, NextType(f)).got)
  BY DEF Fetched, Frames

LEMMA HiddenAgreed ==
  ASSUME NEW f \in Frames, Agreed(f)
  PROVE  \A n \in Nat : /\ OnStack(f, n) <=> n + HiddenOf(f.callee.aggrReturnReg) > NumRegs
                        /\ HiddenOf(f.callee.aggrReturnReg) \in {0, 1}
<1>1. HiddenOf(f.callee.aggrReturnReg) = IF f.hidden THEN 1 ELSE 0
  <2>1. f.callee.aggrReturnReg \in {-2, -1, 0, 1} /\ f.hidden \in BOOLEAN
    BY DEF Frames, Callees
  <2>2. CASE f.hidden
    BY <2>1, <2>2 DEF Agreed, HiddenOf
  <2>3. CASE ~f.hidden
    BY <2>1, <2>3 DEF Agreed, HiddenOf
  <2>. QED
    BY <2>1, <2>2, <2>3
<1>. QED
  BY <1>1 DEF OnStack, Position

(* What the target gets for the next argument.                             *)
LEMMA NextFetched ==
  ASSUME vm \in VMs, NEW f \in Frames, Agreed(f), FrameInv(f), Len(f.got) < Len(f.args),
         NEW P \in Places(f.args), Carried(f, P)
  PROVE  LET n == Len(f.got) + 1 IN
           \/ Excused(f, n)
           \/ /\ arg_i64(f).val = Held(f.epoch, f.args[n], n, P[n])
              /\ \/ dcbArg(f, NextType(f)).got.val = Given(f, n)
                 \/ ByReference(f.args[n]) /\ Overwritten(f)
<1>. DEFINE l == Len(f.got)
            n == Len(f.got) + 1
            r == f.callee.aggrReturnReg
            type == NextType(f)
            a == arg_i64(f)
<1>1. /\ l \in Nat /\ Len(f.args) \in Nat /\ n \in 1 .. Len(f.args) /\ n \in Nat
      /\ f.args \in Seq(ArgTypes) /\ type = f.args[n] /\ NumRegs \in Nat /\ P[n] \in Nat
      /\ HiddenOf(r) \in {0, 1}
  <2>1. l \in Nat /\ Len(f.args) \in Nat /\ f.args \in Seq(ArgTypes) /\ NumRegs \in Nat
        /\ type = f.args[n] /\ HiddenOf(r) \in {0, 1}
    BY Win64Assumption DEF Frames, NextType, HiddenOf
  <2>2. n \in 1 .. Len(f.args) /\ n \in Nat
    BY <2>1
  <2>. QED
    BY <2>1, <2>2 DEF Places
<1>2. type \in ArgTypes
  BY FetchedFrame
<1>3. ASSUME ~Excused(f, n)
      PROVE  a.val = Held(f.epoch, f.args[n], n, P[n])
  <2>0. f.callee.count = CountOf(f.callee.aggrReturnReg, l)
        /\ f.callee.stackPtr = 1 + SlotsOf(f.callee.aggrReturnReg, l)
    BY DEF FrameInv
  <2>1. CASE n + HiddenOf(r) <= NumRegs
    <3>1. a.val = f.regs[RegisterOf(r, n)]
      BY <1>1, <2>0, <2>1, FetchedCursor
    <3>2. f.regs[RegisterOf(r, n)] = Held(f.epoch, f.args[n], n, P[n])
      BY <1>1, <2>1 DEF Carried, InRegs
    <3>. QED
      BY <3>1, <3>2
  <2>2. CASE n + HiddenOf(r) > NumRegs
    <3>1. ~Strayed(f.epoch)
      BY <1>1, <1>3, <2>2, HiddenAgreed DEF Excused
    <3>2. /\ n + HiddenOf(r) - NumRegs \in DOMAIN f.stack
          /\ f.stack[n + HiddenOf(r) - NumRegs] = Held(f.epoch, f.args[n], n, P[n])
      BY <1>1, <2>2, <3>1 DEF Carried, Holds
    <3>3. a.val = f.stack[n + HiddenOf(r) - NumRegs]
      BY <1>1, <2>0, <2>2, <3>2, FetchedCursor
    <3>. QED
      BY <3>2, <3>3
  <2>. QED
    BY <1>1, <2>1, <2>2
<1>4. dcbArg(f, type).got.val = IF ByReference(type) THEN Deref(a.val, type) ELSE <<a.val>>
  BY <1>2, ArgFetched
<1>5. ASSUME a.val = Held(f.epoch, f.args[n], n, P[n]), ~(ByReference(f.args[n]) /\ Overwritten(f))
      PROVE  dcbArg(f, type).got.val = Given(f, n)
  <2>1. CASE ~ByReference(type)
    BY <1>1, <1>4, <1>5, <2>1, GivenSingle DEF Held
  <2>2. CASE ByReference(type)
    <3>1. type \in Aggrs /\ ~Overwritten(f) /\ a.val = Pointer(8 * P[n])
      BY <1>1, <1>5, <2>2, Kinds DEF Held
    <3>2. f.epoch = epoch /\ Intact(vm.mem, f.epoch, f.args, P) /\ Above(vm.copies, f.args, P)
          /\ vm.copies \in Int
      BY <3>1, VectorSize DEF Overwritten, Carried, VMs
    <3>3. \A k \in 1 .. Qwords(type) : /\ P[n] + k - 1 \in 0 .. MemQwords - 1
                                       /\ vm.mem[P[n] + k - 1] = Piece(f.epoch, n, k)
      <4>1. \A k \in 1 .. Qwords(f.args[n]) : P[n] + k - 1 \in 0 .. MemQwords - 1
        BY <1>1, <2>2, <3>2, PlaceQwords
      <4>2. \A k \in 1 .. Qwords(f.args[n]) : vm.mem[P[n] + k - 1] = Piece(f.epoch, n, k)
        BY <1>1, <2>2, <3>2 DEF Intact
      <4>. QED
        BY <1>1, <4>1, <4>2
    <3>. HIDE DEF n, type, a
    <3>4. Deref(Pointer(8 * P[n]), type) = Pieces(f.epoch, n, type)
      <4>. DEFINE p == P[n]
                  e == f.epoch
      <4>1. type \in Aggrs /\ p \in Nat
            /\ \A k \in 1 .. Qwords(type) : /\ p + k - 1 \in 0 .. MemQwords - 1
                                            /\ vm.mem[p + k - 1] = Piece(e, n, k)
        BY <1>1, <3>1, <3>3
      <4>. HIDE DEF p, e
      <4>2. Deref(Pointer(8 * p), type) = Pieces(e, n, type)
        BY <4>1, DerefCopy
      <4>. QED
        BY <4>2 DEF p, e
    <3>5. Given(f, n) = Pieces(f.epoch, n, type)
      BY <1>1, <2>2 DEF Given, Pieces
    <3>. QED
      BY <1>4, <2>2, <3>1, <3>4, <3>5
  <2>. QED
    BY <2>1, <2>2
<1>. QED
  BY <1>3, <1>5

LEMMA FetchedRight ==
  ASSUME Typed, NEW f \in Frames, Agreed(f), FrameInv(f), Len(f.got) < Len(f.args)
  PROVE  FrameInv(Fetched(f))
<1>. DEFINE l == Len(f.got)
            g == Fetched(f)
            r == f.callee.aggrReturnReg
<1>1. /\ g.args = f.args /\ g.epoch = f.epoch /\ g.hidden = f.hidden /\ g.met = f.met
      /\ g.regs = f.regs /\ g.stack = f.stack /\ g.callee = arg_i64(f).callee
      /\ g.got = Append(f.got, dcbArg(f, NextType(f)).got)
  BY FetchedFields
<1>2. /\ l \in Nat /\ Len(f.args) \in Nat /\ f.got \in Seq(Got) /\ dcbArg(f, NextType(f)).got \in Got
      /\ dcbArg(f, NextType(f)).got.ref = arg_i64(f).val /\ vm \in VMs
      /\ g.callee.aggrReturnReg = r
  <2>1. vm \in VMs /\ l \in Nat /\ Len(f.args) \in Nat /\ f.got \in Seq(Got)
    BY DEF Typed, Frames, Got
  <2>2. NextType(f) \in ArgTypes
    BY <2>1, FetchedFrame
  <2>. HIDE DEF g
  <2>. QED
    BY <1>1, <2>1, <2>2, ArgFetched, FetchedTyped
<1>3. /\ Len(g.got) = l + 1 /\ g.got[l + 1] = dcbArg(f, NextType(f)).got
      /\ \A n \in 1 .. l : g.got[n] = f.got[n]
  BY <1>1, <1>2
<1>4. g.callee.count = CountOf(r, l + 1) /\ g.callee.stackPtr = 1 + SlotsOf(r, l + 1)
  <2>1. f.callee.count = CountOf(f.callee.aggrReturnReg, l)
        /\ f.callee.stackPtr = 1 + SlotsOf(f.callee.aggrReturnReg, l)
    BY DEF FrameInv
  <2>2. arg_i64(f).callee.count = CountOf(r, l + 1)
    BY <1>2, <2>1, FetchedCursor
  <2>3. arg_i64(f).callee.stackPtr = 1 + SlotsOf(r, l + 1)
    BY <1>2, <2>1, FetchedCursor
  <2>. QED
    BY <1>1, <2>2, <2>3
<1>. HIDE DEF g, l
<1>5. Lost(g) = Lost(f) /\ Overwritten(g) = Overwritten(f) /\ (Present(f) => Present(g))
      /\ \A n : /\ Excused(g, n) = Excused(f, n) /\ Given(g, n) = Given(f, n)
  BY <1>1 DEF Lost, Overwritten, Present, Excused, OnStack, Position, Given
<1>6. ASSUME ~g.met, ~Lost(g)
      PROVE  /\ \E P \in Places(g.args) : Carried(g, P)
             /\ \A n \in 1 .. Len(g.got) : GotRight(g, n)
  <2>1. /\ \E P \in Places(f.args) : Carried(f, P)
        /\ \A n \in 1 .. l : GotRight(f, n)
    BY <1>1, <1>5, <1>6 DEF FrameInv, l
  <2>2. PICK P \in Places(f.args) : Carried(f, P)
    BY <2>1
  <2>3. \/ Excused(f, l + 1)
        \/ /\ arg_i64(f).val = Held(f.epoch, f.args[l + 1], l + 1, P[l + 1])
           /\ \/ dcbArg(f, NextType(f)).got.val = Given(f, l + 1)
              \/ ByReference(f.args[l + 1]) /\ Overwritten(f)
    BY <1>2, <2>2, NextFetched DEF l
  <2>4. \A n \in 1 .. l : f.got[n].ref = Held(f.epoch, f.args[n], n, P[n]) \/ Excused(f, n)
    BY <2>2 DEF Carried, l
  <2>5. \A n \in 1 .. l + 1 : g.got[n].ref = Held(g.epoch, g.args[n], n, P[n]) \/ Excused(g, n)
    <3>. SUFFICES ASSUME NEW n \in 1 .. l + 1
                  PROVE  g.got[n].ref = Held(f.epoch, f.args[n], n, P[n]) \/ Excused(f, n)
      BY <1>1, <1>5
    <3>1. CASE n = l + 1
      BY <1>2, <1>3, <2>3, <3>1
    <3>2. CASE n \in 1 .. l
      BY <1>3, <2>4, <3>2
    <3>. QED
      BY <1>2, <3>1, <3>2, IndexOfMore
  <2>6. Carried(g, P)
    BY <1>1, <1>2, <1>3, <1>5, <2>2, <2>5 DEF Carried
  <2>7. \A n \in 1 .. l + 1 : GotRight(g, n)
    <3>. SUFFICES ASSUME NEW n \in 1 .. l + 1
                  PROVE  \/ g.got[n].val = Given(f, n)
                         \/ ByReference(f.args[n]) /\ Overwritten(f)
                         \/ Excused(f, n)
      BY <1>1, <1>5 DEF GotRight
    <3>1. CASE n = l + 1
      BY <1>3, <2>3, <3>1
    <3>2. CASE n \in 1 .. l
      BY <1>3, <2>1, <3>2 DEF GotRight
    <3>. QED
      BY <1>2, <3>1, <3>2, IndexOfMore
  <2>. QED
    BY <1>1, <1>3, <2>6, <2>7
<1>7. Len(g.got) <= Len(g.args)
  BY <1>1, <1>2, <1>3 DEF l
<1>. QED
  BY <1>1, <1>2, <1>3, <1>4, <1>5, <1>6, <1>7 DEF FrameInv, g

-----------------------------------------------------------------------------
(* An assignment to a copy.                                                *)

(* As long as the stack has room for what is bound, no call since the last *)
(* reset has lost an argument.                                             *)
LEMMA PresentNotLost ==
  ASSUME Typed, NEW f \in Frames, Present(f), Len(f.args) # 0,
         Fitting(vm.aggrReturnReg, Len(bound))
  PROVE  ~Lost(f)
<1>. DEFINE r == vm.aggrReturnReg
            l == Len(bound)
            m == Len(f.args)
<1>1. /\ r \in {-1, 0, 1} /\ l \in Nat /\ m \in Nat /\ m <= l
      /\ NumRegs \in Nat /\ VecTotal \in Nat /\ VecTotal \div 8 \in Nat /\ f.hidden \in BOOLEAN
  BY Win64Assumption, VectorSize DEF Typed, VMs, Frames, Present
<1>2. (IF f.hidden THEN 1 ELSE 0) = HiddenOf(r)
  <2>1. f.hidden <=> r # -1
    BY DEF Present
  <2>2. r # -1 <=> ~(r < 0)
    BY <1>1
  <2>. HIDE DEF r
  <2>3. f.hidden <=> ~(r < 0)
    BY <2>1, <2>2
  <2>. QED
    BY <2>3 DEF HiddenOf
<1>. HIDE DEF r, l, m
<1>3. m + HiddenOf(r) <= NumRegs + VecTotal \div 8
  <2>1. SlotsOf(r, l) <= VecTotal \div 8
    BY DEF Fitting, r, l
  <2>. QED
    BY <1>1, <2>1 DEF SlotsOf, HiddenOf
<1>4. ~(m + HiddenOf(r) > NumRegs + VecTotal \div 8)
  BY <1>1, <1>3 DEF HiddenOf
<1>. QED
  BY <1>2, <1>4 DEF Lost, Position, m

LEMMA AssignGrows ==
  ASSUME FetchInv, Assign
  PROVE  Grows /\ BoundInv' /\ frames' = frames
<1>. DEFINE f == frames[Len(frames)]
<1>1. PICK n \in DOMAIN f.got :
        /\ ByReference(f.args[n]) /\ f.got[n].ref = Pointer(f.got[n].ref[2])
        /\ vm' = [vm EXCEPT !.mem[f.got[n].ref[2] \div 8] = Assigned]
  BY DEF Assign, Last
<1>2. /\ touched' = touched \cup {<<f.epoch, epoch>>} /\ frames # <<>>
      /\ UNCHANGED <<bound, epoch, frames>>
  BY DEF Assign, Last
<1>3. /\ Typed /\ BoundInv /\ vm \in VMs /\ f \in Frames /\ FrameInv(f) /\ Len(frames) \in DOMAIN frames
      /\ vm.size \in Nat /\ vm.copies \in Int /\ epoch \in Nat /\ vm.size <= VecTotal
      /\ f.got \in Seq(Got) /\ n \in 1 .. Len(f.got) /\ Len(f.got) \in Nat /\ Len(f.args) \in Nat
  <2>1. Typed /\ BoundInv /\ vm \in VMs /\ frames \in Seq(Frames) /\ epoch \in Nat
    BY DEF FetchInv, ReturnInv, Typed
  <2>2. Len(frames) \in DOMAIN frames /\ f \in Frames
    BY <1>2, <2>1
  <2>3. FrameInv(f)
    BY <2>2 DEF FetchInv
  <2>4. vm.size \in Nat /\ vm.copies \in Int /\ vm.size <= VecTotal
    BY <2>1, VectorSize DEF VMs
  <2>. HIDE DEF f
  <2>5. f.got \in Seq(Got) /\ Len(f.got) \in Nat /\ Len(f.args) \in Nat /\ n \in 1 .. Len(f.got)
    BY <1>1, <2>2 DEF Frames, Got
  <2>. QED
    BY <2>1, <2>2, <2>3, <2>4, <2>5
<1>. DEFINE q == f.got[n].ref[2] \div 8
<1>4. /\ vm'.copies = vm.copies /\ vm'.size = vm.size /\ vm'.count = vm.count
      /\ vm'.aggrReturnReg = vm.aggrReturnReg /\ vm'.regs = vm.regs
      /\ vm'.mem = [vm.mem EXCEPT ![q] = Assigned]
  BY <1>1, <1>3 DEF VMs
<1>5. Spoiled(epoch)' /\ (Strayed(epoch) => Strayed(epoch)')
      /\ (f.epoch # epoch => Strayed(epoch)')
  <2>. HIDE DEF f
  <2>1. <<f.epoch, epoch>> \in touched' /\ touched \subseteq touched' /\ epoch' = epoch
    BY <1>2
  <2>2. <<f.epoch, epoch>>[1] = f.epoch /\ <<f.epoch, epoch>>[2] = epoch
    OBVIOUS
  <2>. QED
    BY <2>1, <2>2 DEF Spoiled, Strayed
<1>6. Grows
  BY <1>2, <1>3, <1>4, <1>5 DEF Grows, Met
<1>7. ASSUME Fitting(vm.aggrReturnReg, Len(bound)), ~Met(vm)
      PROVE  Strayed(epoch)' \/ Shown(vm') = Shown(vm)
  <2>. SUFFICES ASSUME ~Strayed(epoch)' PROVE Shown(vm') = Shown(vm)
    OBVIOUS
  <2>1. f.epoch = epoch /\ ~Strayed(f.epoch)
    BY <1>5
  <2>2. Present(f)
    BY <1>3, <2>1 DEF FrameInv
  <2>3. ~f.met /\ Len(f.args) # 0
    <3>. HIDE DEF f
    <3>. QED
      BY <1>3, <1>7, <2>2 DEF Present, FrameInv
  <2>4. ~Lost(f)
    BY <1>3, <1>7, <2>2, <2>3, PresentNotLost
  <2>5. PICK P \in Places(f.args) : Carried(f, P)
    BY <1>3, <2>3, <2>4 DEF FrameInv
  <2>. HIDE DEF f
  <2>6. f.got[n].ref = Pointer(8 * P[n])
    BY <1>1, <1>3, <2>1, <2>5 DEF Carried, Excused, Held
  <2>7. n \in 1 .. Len(f.args) /\ P[n] \in Nat /\ 8 * P[n] >= vm.copies
    <3>1. n \in 1 .. Len(f.args)
      BY <1>3 DEF FrameInv
    <3>. QED
      BY <1>1, <2>1, <2>5, <3>1 DEF Carried, Above, Places
  <2>8. q = P[n]
    <3>1. f.got[n].ref[2] = 8 * P[n]
      BY <2>6 DEF Pointer
    <3>. QED
      BY <2>7, <3>1
  <2>9. 8 * q >= vm.size /\ q \in Nat
    BY <1>3, <1>7, <2>7, <2>8 DEF Met
  <2>. HIDE DEF q
  <2>10. \A k \in 1 .. vm.size \div 8 : k - 1 \in 0 .. MemQwords - 1 /\ k - 1 # q
    <3>1. \A k \in 1 .. vm.size \div 8 : k - 1 \in 0 .. MemQwords - 1
      BY <1>3, StackSlot
    <3>2. \A k \in 1 .. vm.size \div 8 : 8 * (k - 1) < 8 * q
      BY <1>3, <2>9, QwordBelow
    <3>. QED
      BY <2>9, <3>1, <3>2
  <2>11. \A k \in 1 .. vm.size \div 8 : vm'.mem[k - 1] = vm.mem[k - 1]
    BY <1>3, <1>4, <2>10 DEF VMs
  <2>. QED
    BY <1>4, <2>11 DEF Shown
<1>8. ASSUME Fitting(vm.aggrReturnReg, Len(bound)), ~Met(vm')
      PROVE  \E P \in Places(bound') : Laid(P)'
  <2>1. ~Met(vm)
    BY <1>4, <1>8 DEF Met
  <2>2. PICK P \in Places(bound) : Laid(P)
    BY <1>3, <1>8, <2>1 DEF BoundInv
  <2>3. Strayed(epoch)' \/ Shown(vm') = Shown(vm)
    BY <1>7, <1>8, <2>1
  <2>4. Laid(P)'
    BY <1>2, <1>4, <1>5, <2>2, <2>3 DEF Laid
  <2>. QED
    BY <1>2, <2>4
<1>9. BoundInv'
  BY <1>2, <1>3, <1>4, <1>8 DEF BoundInv
<1>. QED
  BY <1>2, <1>6, <1>9

-----------------------------------------------------------------------------
(* The invariant holds, and says what handlers find.                       *)

LEMMA FetchInvStep ==
  ASSUME FetchInv, Next
  PROVE  FetchInv'
<1>1. /\ ReturnInv /\ ReturnInv' /\ Typed /\ Typed' /\ Reserved /\ BoundInv
      /\ frames \in Seq(Frames) /\ vm \in VMs
      /\ \A d \in DOMAIN frames : frames[d] \in Frames /\ FrameInv(frames[d]) /\ Agreed(frames[d])
  <2>1. ReturnInv /\ ReturnInv' /\ Typed /\ Typed' /\ Reserved /\ BoundInv
    BY ReturnStep DEF FetchInv, ReturnInv
  <2>2. frames \in Seq(Frames) /\ vm \in VMs
    BY <2>1 DEF Typed
  <2>. QED
    BY <2>1, <2>2 DEF FetchInv, ReturnInv
<1>2. ASSUME Grows, NEW f \in Frames, FrameInv(f)
      PROVE  FrameInv(f)'
  BY <1>1, <1>2, KeepsFrame
<1>3. ASSUME Grows, BoundInv', frames' = frames
      PROVE  FetchInv'
  BY <1>1, <1>2, <1>3 DEF FetchInv
<1>4. CASE BindStep
  BY <1>1, <1>3, <1>4, BindGrows, BindKeepsBound
<1>5. CASE dcReset \/ (\E mode \in {"C", "THIS", "SYS"} : dcMode(mode))
             \/ \E ag \in Aggrs \cup {NullAggr} : dcBeginCallAggr(ag)
  BY <1>1, <1>3, <1>5, SetupGrows
<1>6. CASE dcCall \/ dcCallAggr
  <2>1. Grows /\ BoundInv'
    BY <1>1, <1>6, CallGrows
  <2>2. PICK g \in Frames : g = Frame(vm') /\ frames' = Append(frames, g)
    BY <1>1, <1>6, CallTyped
  <2>3. FrameInv(g)'
    BY <1>1, <1>6, <2>1, <2>2, NewFrame
  <2>4. \A d \in DOMAIN frames' : (d \in DOMAIN frames /\ frames'[d] = frames[d]) \/ frames'[d] = g
    BY <1>1, <2>2, OneMoreFrame
  <2>. QED
    BY <1>1, <1>2, <2>1, <2>3, <2>4 DEF FetchInv
<1>7. CASE Fetch
  <2>1. UNCHANGED <<vm, bound, ret, epoch, touched>>
    BY <1>7 DEF Fetch
  <2>2. Grows
    BY <1>1, <2>1, VectorSize DEF Grows, Typed, VMs
  <2>3. BoundInv'
    BY <1>1, <2>1 DEF BoundInv, Laid, Met, Strayed, Spoiled
  <2>4. /\ frames # <<>> /\ frames[Len(frames)] \in Frames
        /\ Len(frames[Len(frames)].got) < Len(frames[Len(frames)].args)
        /\ frames' = [frames EXCEPT ![Len(frames)] = Fetched(frames[Len(frames)])]
    BY <1>1, <1>7, FetchStep
  <2>5. PICK g \in Frames : g = Fetched(frames[Len(frames)])
    BY <1>1, <2>4, FetchedFrame
  <2>6. FrameInv(g)
    <3>1. Len(frames) \in DOMAIN frames
      BY <1>1, <2>4
    <3>. QED
      BY <1>1, <2>4, <2>5, <3>1, FetchedRight
  <2>7. FrameInv(g)'
    BY <1>2, <2>2, <2>6
  <2>8. \A d \in DOMAIN frames' : (d \in DOMAIN frames /\ frames'[d] = frames[d]) \/ frames'[d] = g
    BY <1>1, <2>4, <2>5, LastFrame
  <2>. QED
    BY <1>1, <1>2, <2>2, <2>3, <2>7, <2>8 DEF FetchInv
<1>8. CASE Assign
  BY <1>1, <1>3, <1>8, AssignGrows
<1>9. CASE Return
  <2>1. UNCHANGED <<vm, bound, ret, epoch, touched>>
    BY <1>9 DEF Return
  <2>2. Grows
    BY <1>1, <2>1, VectorSize DEF Grows, Typed, VMs
  <2>3. BoundInv'
    BY <1>1, <2>1 DEF BoundInv, Laid, Met, Strayed, Spoiled
  <2>4. \A d \in DOMAIN frames' : d \in DOMAIN frames /\ frames'[d] = frames[d]
    BY <1>1, <1>9, OneFrameLess DEF Return
  <2>. QED
    BY <1>1, <1>2, <2>2, <2>3, <2>4 DEF FetchInv
<1>. QED
  BY <1>1, <1>4, <1>5, <1>6, <1>7, <1>8, <1>9, BindingIsAStep DEF Next

LEMMA FetchInvariant == Spec => []FetchInv
<1>1. Init => FetchInv
  <2>. SUFFICES ASSUME Init PROVE FetchInv
    OBVIOUS
  <2>1. Typed /\ Reserved /\ DOMAIN frames = {}
    BY TypedInit DEF Init, NewCallVM, Reserved, ReturnReg
  <2>2. vm.aggrReturnReg = -1 /\ vm.count = 0 /\ vm.size = 0 /\ bound = <<>> /\ Len(bound) = 0
    BY DEF Init, NewCallVM
  <2>3. CountOf(-1, 0) = 0 /\ SlotsOf(-1, 0) = 0
    BY NoPositions
  <2>4. \E P \in Places(bound) : Laid(P)
    BY <2>2, NothingBound
  <2>5. BoundInv
    BY <2>2, <2>3, <2>4 DEF BoundInv
  <2>. QED
    BY <2>1, <2>5 DEF FetchInv, ReturnInv
<1>2. ASSUME FetchInv, UNCHANGED vars PROVE FetchInv'
  <2>1. /\ UNCHANGED <<vm, bound, ret, frames, epoch, touched>>
        /\ ReturnInv /\ Typed /\ BoundInv /\ vm \in VMs
    BY <1>2 DEF vars, FetchInv, ReturnInv, Typed
  <2>2. Typed'
    BY <2>1 DEF Typed, Aligned
  <2>3. ReturnInv'
    BY <2>1, <2>2 DEF ReturnInv, Reserved, Agreed
  <2>4. BoundInv'
    BY <2>1 DEF BoundInv, Laid, Met, Strayed, Spoiled
  <2>5. Grows
    BY <2>1, VectorSize DEF Grows, Typed, VMs
  <2>6. ASSUME NEW d \in DOMAIN frames PROVE frames[d] \in Frames /\ FrameInv(frames[d])'
    <3>1. frames[d] \in Frames /\ FrameInv(frames[d])
      BY <1>2, <2>1 DEF FetchInv, Typed
    <3>. QED
      BY <2>1, <2>2, <2>5, <3>1, KeepsFrame
  <2>. QED
    BY <2>1, <2>3, <2>4, <2>6 DEF FetchInv
<1>3. FetchInv /\ [Next]_vars => FetchInv'
  BY <1>2, FetchInvStep
<1>. QED
  BY <1>1, <1>3, PTL DEF Spec

(* Every handler, at any depth, finds every argument as it was bound, in   *)
(* the register or the stack slot of its position, by value and behind a   *)
(* pointer, whatever resets, refills and calls happen meanwhile; but for   *)
(* copies whose place was used again, stack arguments a target of an       *)
(* earlier call assigned to, and vectors too small (dcArgAggr, arg_i64).   *)
THEOREM Win64FetchedUnlessOverwritten == Spec => []FetchedUnlessOverwritten
<1>1. FetchInv => FetchedUnlessOverwritten
  <2>. SUFFICES ASSUME FetchInv, NEW d \in DOMAIN frames, ~frames[d].met, ~Lost(frames[d]),
                       NEW n \in DOMAIN frames[d].got
                PROVE  GotRight(frames[d], n)
    BY DEF FetchedUnlessOverwritten, GotRight, Overwritten, Excused
  <2>1. frames[d] \in Frames /\ FrameInv(frames[d])
    BY DEF FetchInv, ReturnInv, Typed
  <2>2. n \in 1 .. Len(frames[d].got)
    BY <2>1 DEF Frames
  <2>. QED
    BY <2>1, <2>2 DEF FrameInv
<1>. QED
  BY <1>1, FetchInvariant, PTL
=============================================================================
