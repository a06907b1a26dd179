------------------------------- MODULE CallVM -------------------------------
(***************************************************************************)
(* The dyncall CallVM for the x64 System V calling convention              *)
(* (dyncall_callvm_x64.c, the DC_UNIX branches): arguments are bound one   *)
(* by one, left to right, into integer registers, float registers or the   *)
(* argument vector, and a call hands all three to the target.              *)
(*                                                                         *)
(* Data is abstracted to identity.  The n-th argument bound since the e-th *)
(* dcReset is the tag <<e, n>>; what one register or one vector segment    *)
(* holds is a piece <<tag, k>>: its k-th eightbyte, or the whole value in  *)
(* memory when k = 0.  Sizes and offsets of the vector are real bytes.     *)
(*                                                                         *)
(* The caller keeps to the contract of dyncall.3: dcBeginCallAggr comes    *)
(* before the arguments and once per dcReset, dcCallAggr names the same    *)
(* description, and aggregate functions are not used in the system call    *)
(* mode, whose table has no such entries.  A plain call, or another one,   *)
(* may follow without the dcReset that a reused CallVM should get.         *)
(***************************************************************************)
EXTENDS SysV

CONSTANTS
  VMSize,     \* the size given to dcNewCallVM, in bytes
  MaxArgs,    \* bound: arguments bound between two resets
  MaxResets,  \* bound: calls of dcReset
  MaxDepth    \* bound: calls in progress at the same time

ASSUME CallVMAssumption ==
  VMSize \in Nat /\ MaxArgs \in Nat /\ MaxResets \in Nat /\ MaxDepth \in Nat

VARIABLES
  vm,      \* the DCCallVM_x64
  bound,   \* the arguments bound since the last reset, and where they went
  ret,     \* the aggregate announced by dcBeginCallAggr since the last reset
  epoch,   \* how many resets there were: makes every tag unique
  frames   \* the calls in progress: what the kernel handed to each target

vars == <<vm, bound, ret, epoch, frames>>

-----------------------------------------------------------------------------
(* The argument vector (dyncall_vector).                                   *)

(* The register area is inside the size the caller asked for. *)
RegDataSize == 8 * (NumIntRegs + NumFloatRegs)
VecTotal    == IF VMSize < RegDataSize THEN 0 ELSE VMSize - RegDataSize

(* Mutant: the room is checked before the element is counted. *)
FitsBefore(s, len) == s.vecSize <= VecTotal

Fits(s, len) == s.vecSize + len <= VecTotal

dcVecAppend(s, len, x) ==
  IF Fits(s, len)
  THEN [s EXCEPT !.vec = Append(@, [at |-> s.vecSize, len |-> len, val |-> x]),
                 !.vecSize = @ + len]
  ELSE s

(* Mutant: no realignment after an aggregate. *)
VecNoSkip(s, len) == s

dcVecSkip(s, len) == [s EXCEPT !.vecSize = @ + len]

-----------------------------------------------------------------------------
(* Binding one argument.                                                   *)

(* Mutant: the hidden pointer's register is not skipped. *)
NextIntRegNoSkip(s) == s.iCount

(* The integer register that is next, the hidden pointer's skipped. *)
NextIntReg(s) == IF s.iCount = s.aggrReturnReg THEN s.iCount + 1 ELSE s.iCount

ArgLongLong(s, x) ==
  LET k == NextIntReg(s) IN
    IF k < NumIntRegs
    THEN [s EXCEPT !.iRegs[k] = x, !.iCount = k + 1]
    ELSE dcVecAppend([s EXCEPT !.iCount = k], 8, x)

ArgPointer(s, x) ==
  LET k == NextIntReg(s) IN
    IF k < NumIntRegs
    THEN [s EXCEPT !.iCount = k + 1, !.iRegs[k] = x]
    ELSE dcVecAppend([s EXCEPT !.iCount = k], 8, x)

(* Mutants: a float on the stack is counted as if in a register; one in a  *)
(* register is not counted.                                                *)
ArgDoubleCounted(s, x) ==
  IF s.fCount < NumFloatRegs
  THEN [s EXCEPT !.fRegs[s.fCount] = x, !.fCount = @ + 1]
  ELSE dcVecAppend([s EXCEPT !.fCount = @ + 1], 8, x)

ArgDoubleUncounted(s, x) ==
  IF s.fCount < NumFloatRegs
  THEN [s EXCEPT !.fRegs[s.fCount] = x]
  ELSE dcVecAppend(s, 8, x)

ArgDouble(s, x) ==
  IF s.fCount < NumFloatRegs
  THEN [s EXCEPT !.fRegs[s.fCount] = x, !.fCount = @ + 1]
  ELSE dcVecAppend(s, 8, x)

(* Mutant: the float registers an aggregate needs are not checked. *)
PassedOnStackInts(s, ag) ==
  InMemory(ag) \/ s.iCount + Needs(ag, "INTEGER") > NumIntRegs

(* All of the aggregate goes to the stack when a part has no register. *)
PassedOnStack(s, ag) ==
  \/ InMemory(ag)
  \/ s.iCount + Needs(ag, "INTEGER") > NumIntRegs
  \/ s.fCount + Needs(ag, "SSE") > NumFloatRegs

ArgEightbyte(s, clz, x) ==
  IF clz = "INTEGER" THEN ArgLongLong(s, x) ELSE ArgDouble(s, x)

ArgFirst(s, ag, tag)  == ArgEightbyte(s, Classes[ag][1], <<tag, 1>>)
ArgSecond(s, ag, tag) == ArgEightbyte(s, Classes[ag][2], <<tag, 2>>)

ArgAggr(s, ag, tag) ==
  CASE PassedOnStack(s, ag) ->
         dcVecSkip(dcVecAppend(s, Size[ag], <<tag, 0>>),
                   RoundUp8(Size[ag]) - Size[ag])
    [] ~PassedOnStack(s, ag) /\ Eightbytes(ag) = 0 -> s
    [] ~PassedOnStack(s, ag) /\ Eightbytes(ag) = 1 -> ArgFirst(s, ag, tag)
    [] ~PassedOnStack(s, ag) /\ Eightbytes(ag) = 2 ->
         ArgSecond(ArgFirst(s, ag, tag), ag, tag)

(* Where a value bound next goes; "lost" when the vector has no room and   *)
(* dcVecAppend drops it.                                                   *)
Home(bank, k) == [bank |-> bank, k |-> k]

StackHome(s, len) ==
  IF Fits(s, len) THEN Home("stack", Len(s.vec) + 1) ELSE Home("lost", 0)

IntHome(s) ==
  IF NextIntReg(s) < NumIntRegs THEN Home("int", NextIntReg(s)) ELSE StackHome(s, 8)

FloatHome(s) ==
  IF s.fCount < NumFloatRegs THEN Home("float", s.fCount) ELSE StackHome(s, 8)

EightbyteHome(s, clz) == IF clz = "INTEGER" THEN IntHome(s) ELSE FloatHome(s)

AggrHomes(s, ag, tag) ==
  CASE PassedOnStack(s, ag) -> <<StackHome(s, Size[ag])>>
    [] ~PassedOnStack(s, ag) /\ Eightbytes(ag) = 0 -> <<>>
    [] ~PassedOnStack(s, ag) /\ Eightbytes(ag) = 1 ->
         <<EightbyteHome(s, Classes[ag][1])>>
    [] ~PassedOnStack(s, ag) /\ Eightbytes(ag) = 2 ->
         <<EightbyteHome(s, Classes[ag][1]),
           EightbyteHome(ArgFirst(s, ag, tag), Classes[ag][2])>>

-----------------------------------------------------------------------------
(* The operations of the API.                                              *)

Tag == <<epoch, Len(bound) + 1>>

(* Record the argument just bound. *)
Bind(type, homes) ==
  /\ Len(bound) < MaxArgs
  /\ bound' = Append(bound, [type |-> type, tag |-> Tag, at |-> homes])
  /\ UNCHANGED <<ret, epoch, frames>>

dcArgLongLong ==
  /\ Bind("int", <<IntHome(vm)>>)
  /\ vm' = ArgLongLong(vm, <<Tag, 1>>)

dcArgPointer ==
  /\ Bind("int", <<IntHome(vm)>>)
  /\ vm' = ArgPointer(vm, <<Tag, 1>>)

dcArgDouble ==
  /\ Bind("float", <<FloatHome(vm)>>)
  /\ vm' = ArgDouble(vm, <<Tag, 1>>)

(* Without a description the aggregate is the caller's own copy, by pointer. *)
dcArgAggr(ag) ==
  /\ vm.vt = "x64"
  /\ IF ag = NullAggr
     THEN Bind(ag, <<IntHome(vm)>>) /\ vm' = ArgPointer(vm, <<Tag, 1>>)
     ELSE Bind(ag, AggrHomes(vm, ag, Tag)) /\ vm' = ArgAggr(vm, ag, Tag)

(* Mutant: the hidden pointer's register outlives the call it was for.     *)
dcResetKeepsReturnReg ==
  /\ epoch < MaxResets
  /\ epoch' = epoch + 1
  /\ bound' = <<>>
  /\ ret' = NoRet
  /\ vm' = [vm EXCEPT !.vecSize = 0, !.vec = <<>>, !.iCount = 0, !.fCount = 0]
  /\ UNCHANGED frames

dcReset ==
  /\ epoch < MaxResets
  /\ epoch' = epoch + 1
  /\ bound' = <<>>
  /\ ret' = NoRet
  /\ vm' = [vm EXCEPT !.vecSize = 0, !.vec = <<>>, !.iCount = 0, !.fCount = 0,
                      !.aggrReturnReg = -1]
  /\ UNCHANGED frames

(* C modes share one table, the system call modes have their own, any      *)
(* other mode is refused and leaves the old one in place.                  *)
dcMode(mode) ==
  /\ vm' = CASE mode = "C"     -> [vm EXCEPT !.vt = "x64", !.mError = "NONE"]
             [] mode = "SYS"   -> [vm EXCEPT !.vt = "syscall", !.mError = "NONE"]
             [] mode = "other" -> [vm EXCEPT !.mError = "UNSUPPORTED_MODE"]
  /\ UNCHANGED <<bound, ret, epoch, frames>>

(* Mutant: a non-trivial C++ result is taken for one in registers. *)
BeginCallAggrPlain(ag) ==
  /\ vm.vt = "x64"
  /\ vm.iCount = 0 /\ vm.fCount = 0
  /\ ret = NoRet
  /\ ret' = ag
  /\ vm' = IF ag \in Aggrs /\ InMemory(ag) THEN [vm EXCEPT !.aggrReturnReg = 0] ELSE vm
  /\ UNCHANGED <<bound, epoch, frames>>

dcBeginCallAggr(ag) ==
  /\ vm.vt = "x64"
  /\ vm.iCount = 0 /\ vm.fCount = 0      \* the assertion in the code
  /\ ret = NoRet
  /\ ret' = ag
  /\ vm' = IF Hidden(ag) THEN [vm EXCEPT !.aggrReturnReg = 0] ELSE vm
  /\ UNCHANGED <<bound, epoch, frames>>

(* What the call kernel gives the target: copies of the registers and of   *)
(* the vector (a system call gets the integer registers only).  r is the   *)
(* aggregate result the call was made for.                                 *)
KernelFrame(s, r) ==
  [kernel  |-> s.vt,
   iRegs   |-> s.iRegs,
   fRegs   |-> IF s.vt = "x64" THEN s.fRegs ELSE <<>>,
   vec     |-> IF s.vt = "x64" THEN s.vec ELSE <<>>,
   vecSize |-> IF s.vt = "x64" THEN s.vecSize ELSE 0,
   args    |-> bound,
   ret     |-> r]

(* A call without an aggregate result looks at neither the announced one   *)
(* nor its register: after dcBeginCallAggr and no dcReset it goes out with *)
(* the hidden pointer's register skipped and not filled.                   *)
dcCall ==
  /\ Len(frames) < MaxDepth
  /\ frames' = Append(frames, KernelFrame(vm, NoRet))
  /\ UNCHANGED <<vm, bound, ret, epoch>>

(* The hidden pointer and uninitialised memory, told from every argument. *)
NoTag  == <<0, 0>>
Junk   == <<NoTag, 0>>
RetPtr == <<NoTag, 1>>

dcCallAggr ==
  /\ Len(frames) < MaxDepth
  /\ ret # NoRet /\ vm.vt = "x64"
  /\ vm' = IF vm.aggrReturnReg # -1
           THEN [vm EXCEPT !.iRegs[vm.aggrReturnReg] = RetPtr]
           ELSE vm
  /\ frames' = Append(frames, KernelFrame(vm', ret))
  /\ UNCHANGED <<bound, ret, epoch>>

(* The innermost target returns; nothing of the VM was kept in a register. *)
Return ==
  /\ frames # <<>>
  /\ frames' = SubSeq(frames, 1, Len(frames) - 1)
  /\ UNCHANGED <<vm, bound, ret, epoch>>

(* dcNewCallVM: mode default, vector empty, reset; the registers are       *)
(* whatever the allocator returned.                                        *)
NewCallVM ==
  [vt |-> "x64", mError |-> "NONE", aggrReturnReg |-> -1, iCount |-> 0, fCount |-> 0,
   iRegs |-> [k \in 0 .. NumIntRegs - 1 |-> Junk],
   fRegs |-> [k \in 0 .. NumFloatRegs - 1 |-> Junk],
   vecSize |-> 0, vec |-> <<>>]

Init ==
  /\ vm = NewCallVM
  /\ bound = <<>> /\ ret = NoRet /\ epoch = 0 /\ frames = <<>>

Next ==
  \/ dcArgLongLong
  \/ dcArgPointer
  \/ dcArgDouble
  \/ \E ag \in Aggrs \cup {NullAggr} : dcArgAggr(ag)
  \/ dcReset
  \/ \E mode \in {"C", "SYS", "other"} : dcMode(mode)
  \/ \E ag \in Aggrs \cup {NullAggr} : dcBeginCallAggr(ag)
  \/ dcCall
  \/ dcCallAggr
  \/ Return

Spec == Init /\ [][Next]_vars

-----------------------------------------------------------------------------
(* Properties.                                                             *)

Tags     == Nat \X Nat
Pieces   == Tags \X Nat
IntRegs  == 0 .. NumIntRegs - 1
FltRegs  == 0 .. NumFloatRegs - 1
Segments == [at : Nat, len : Nat, val : Pieces]
Homes    == [bank : {"int", "float", "stack", "lost"}, k : Nat]
Args     == [type : Aggrs \cup {NullAggr, "int", "float"}, tag : Tags, at : Seq(Homes)]
Rets     == Aggrs \cup {NullAggr, NoRet}

VMs ==
  [vt : {"x64", "syscall"}, mError : {"NONE", "UNSUPPORTED_MODE"},
   aggrReturnReg : {-1, 0}, iCount : 0 .. NumIntRegs, fCount : 0 .. NumFloatRegs,
   iRegs : [IntRegs -> Pieces], fRegs : [FltRegs -> Pieces],
   vecSize : Nat, vec : Seq(Segments)]

KernelFrames ==
  [kernel : {"x64", "syscall"}, iRegs : [IntRegs -> Pieces],
   fRegs : [FltRegs -> Pieces] \cup {<<>>}, vec : Seq(Segments), vecSize : Nat,
   args : Seq(Args), ret : Rets]

(* The state has the shape the C structures give it. *)
TypeOK ==
  /\ vm \in VMs
  /\ bound \in Seq(Args)
  /\ ret \in Rets
  /\ epoch \in Nat
  /\ frames \in Seq(KernelFrames)

(* What is found at a home. *)
Holds(s, h, x) ==
  CASE h.bank = "int"   -> h.k \in DOMAIN s.iRegs /\ s.iRegs[h.k] = x
    [] h.bank = "float" -> h.k \in DOMAIN s.fRegs /\ s.fRegs[h.k] = x
    [] h.bank = "stack" -> h.k \in DOMAIN s.vec /\ s.vec[h.k].val = x
    [] h.bank = "lost"  -> TRUE

(* What should be found at the j-th home of an argument. *)
PieceAt(arg, j) ==
  IF arg.type \in Aggrs /\ arg.at[j].bank = "stack" THEN <<arg.tag, 0>> ELSE <<arg.tag, j>>

Intact(s, arg) == \A j \in DOMAIN arg.at : Holds(s, arg.at[j], PieceAt(arg, j))

(* Every argument bound since the last reset is still where it was put:    *)
(* neither later arguments (dcVecAppend, the register counters) nor the    *)
(* hidden result pointer dcCallAggr stores overwrite it, and a second call *)
(* finds the same arguments.                                               *)
ArgsIntact == \A n \in DOMAIN bound : Intact(vm, bound[n])

(* A target sees the arguments that were bound when it was called, however *)
(* the VM is reset, refilled and called again while the target runs.  A    *)
(* system call sees those in integer registers.                            *)
FramesIntact ==
  \A d \in DOMAIN frames : \A n \in DOMAIN frames[d].args :
    LET arg == frames[d].args[n] IN
      \A j \in DOMAIN arg.at :
        frames[d].kernel = "x64" \/ arg.at[j].bank = "int"
          => Holds(frames[d], arg.at[j], PieceAt(arg, j))

(* A target whose result is returned in memory finds its address in the    *)
(* first integer register, where no argument is.                           *)
HiddenPointer ==
  \A d \in DOMAIN frames :
    Hidden(frames[d].ret) =>
      /\ frames[d].iRegs[0] = RetPtr
      /\ \A n \in DOMAIN frames[d].args : \A j \in DOMAIN frames[d].args[n].at :
           frames[d].args[n].at[j] # Home("int", 0)

(* Arguments bound from left to right take registers and stack slots from  *)
(* left to right, so no two of them ever share one.                        *)
LeftToRight ==
  \A m, n \in DOMAIN bound : \A i \in DOMAIN bound[m].at : \A j \in DOMAIN bound[n].at :
    LET h == bound[m].at[i]
        g == bound[n].at[j] IN
      (m < n \/ (m = n /\ i < j)) /\ h.bank = g.bank /\ h.bank # "lost" => h.k < g.k

(* No register is left out: an argument in a register that is not its      *)
(* bank's first follows one in the register before.  The only gap is the   *)
(* hidden pointer's register, and only while the aggregate result it is    *)
(* for is announced: after the dcReset that follows such a call the next   *)
(* call's arguments start at the first register again.                     *)
NoRegisterSkipped ==
  \A n \in DOMAIN bound : \A j \in DOMAIN bound[n].at :
    LET h     == bound[n].at[j]
        first == IF h.bank = "int" /\ Hidden(ret) THEN 1 ELSE 0 IN
      h.bank \in {"int", "float"} /\ h.k > first
        => \E m \in DOMAIN bound : \E i \in DOMAIN bound[m].at :
             bound[m].at[i] = Home(h.bank, h.k - 1)

(* An aggregate is never passed half in registers and half on the stack.   *)
WholeAggregates ==
  \A n \in DOMAIN bound :
    \/ \A j \in DOMAIN bound[n].at : bound[n].at[j].bank \in {"int", "float"}
    \/ Len(bound[n].at) = 1

Lost == \E n \in DOMAIN bound : \E j \in DOMAIN bound[n].at : bound[n].at[j].bank = "lost"

(* The vector is written inside its buffer only, segment after segment.    *)
VectorSafe ==
  \A i \in DOMAIN vm.vec :
    /\ vm.vec[i].at + vm.vec[i].len <= VecTotal
    /\ \A j \in DOMAIN vm.vec : i < j => vm.vec[i].at + vm.vec[i].len <= vm.vec[j].at

(* Every stack argument starts on a full stack slot, where a target looks  *)
(* for it ("realign to qword", argAggr).                                   *)
QwordAligned == vm.vecSize % 8 = 0 /\ \A i \in DOMAIN vm.vec : vm.vec[i].at % 8 = 0

(* That much is so as long as the vector had room for every argument.      *)
AlignedUnlessLost == Lost \/ QwordAligned
=============================================================================
