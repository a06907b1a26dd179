-------------------------------- MODULE Win64 -------------------------------
(***************************************************************************)
(* The CallVM and the callback of x64 on Windows (the DC_WINDOWS branches  *)
(* of dyncall_callvm_x64.c, dyncall_callback_x64.c, dyncall_args_x64.c).   *)
(* An argument takes the register of its position, whether it is an        *)
(* integer or a float.  An aggregate that is not 1, 2, 4 or 8 bytes long   *)
(* is passed by reference to a copy, which the CallVM makes at the end of  *)
(* its argument vector, below the earlier ones: unlike registers and       *)
(* stack, which a call copies, a copy stays in the CallVM while the target *)
(* runs.                                                                   *)
(*                                                                         *)
(* The vector is modelled by its qwords.  A qword holds <<e, n, k>>, the   *)
(* k-th qword of the n-th argument bound since the e-th reset, or a        *)
(* pointer.  The targets are callbacks made for the bound signature, whose *)
(* handlers may reset, refill and call through the same CallVM; or C       *)
(* functions, which may assign to the aggregates they were passed.         *)
(***************************************************************************)
EXTENDS Integers, Sequences, SequencesExt

CONSTANTS
  NumRegs,    \* numIntRegs and numFloatRegs (4)
  VMSize,     \* the size given to dcNewCallVM
  Aggrs,      \* closed aggregate descriptions
  Size,       \* DCaggr.size of each
  MaxArgs,    \* bound: arguments bound between two resets
  MaxResets,  \* bound: calls of dcReset
  MaxDepth    \* bound: calls in progress at the same time

NullAggr == "NULL"   \* the null DCaggr*: a non-trivial C++ aggregate
NoRet    == "none"   \* the return type is no aggregate

ASSUME Win64Assumption ==
  /\ NumRegs \in Nat /\ NumRegs >= 2
  /\ VMSize \in Nat
  /\ Size \in [Aggrs -> Nat \ {0}]
  /\ MaxArgs \in Nat /\ MaxResets \in Nat /\ MaxDepth \in Nat
  /\ {NullAggr, NoRet, "int", "double"} \cap Aggrs = {}

VARIABLES
  vm,      \* the DCCallVM_x64
  bound,   \* the types of the arguments bound since the last reset
  ret,     \* the aggregate announced by dcBeginCallAggr since the last reset
  epoch,   \* how many resets there were
  frames,  \* the calls in progress: what each target was given, its DCArgs
           \* and what it has fetched
  touched  \* by a target called in which epoch, and in which epoch, an
           \* aggregate was assigned to

vars == <<vm, bound, ret, epoch, frames, touched>>

-----------------------------------------------------------------------------
(* Aggregates, and the vector.                                             *)

Qwords(ag) == (Size[ag] + 7) \div 8

(* Passed like an integer of its size; every other one by reference. *)
InRegister(ag) == ag \in Aggrs /\ Size[ag] \in {1, 2, 4, 8}
ByReference(ag) == ag \in Aggrs /\ ~InRegister(ag)

(* Returned through a pointer: longer than 8 bytes or no power of two. *)
Hidden(ag) == ag = NullAggr \/ ByReference(ag)

RegDataSize == 8 * NumRegs
VecTotal    == IF VMSize < RegDataSize THEN 0 ELSE VMSize - RegDataSize

(* The last qword of the vector may be incomplete. *)
MemQwords == (VecTotal + 7) \div 8

Junk       == <<0, 0, 0>>
RetPtr     == <<0, 0, 1>>
Assigned   == <<0, 0, 2>>
Pointer(p) == <<-1, p, 0>>
Piece(e, n, k) == <<e, n, k>>

dcVecAppend(s, x) ==
  IF s.size + 8 <= VecTotal THEN [s EXCEPT !.mem[s.size \div 8] = x, !.size = @ + 8] ELSE s

Below16(p) == (p \div 16) * 16

-----------------------------------------------------------------------------
(* Binding.                                                                *)

(* Mutant: a float takes the hidden pointer's register. *)
argDoubleOver(s, x) ==
  IF s.count < NumRegs THEN [s EXCEPT !.regs[s.count] = x, !.count = @ + 1] ELSE dcVecAppend(s, x)

(* The hidden pointer's register is skipped by either kind of argument:    *)
(* the counts of integers and floats are one.                              *)
argDouble(s, x) ==
  LET k == IF s.count = s.aggrReturnReg THEN s.count + 1 ELSE s.count IN
    IF k < NumRegs
    THEN [s EXCEPT !.regs[k] = x, !.count = k + 1]
    ELSE dcVecAppend([s EXCEPT !.count = k], x)

argLongLong(s, x) ==
  LET k == IF s.count = s.aggrReturnReg THEN s.count + 1 ELSE s.count IN
    IF k < NumRegs
    THEN [s EXCEPT !.regs[k] = x, !.count = k + 1]
    ELSE dcVecAppend([s EXCEPT !.count = k], x)

(* Mutant: the copy is not aligned. *)
CopyUnaligned(s, ag) == s.copies - Size[ag]

(* Where the next copy goes; nothing tells whether it is in the vector.    *)
CopyAt(s, ag) == Below16(s.copies - Size[ag])

argByReference(s, ag, tag) ==
  LET p == CopyAt(s, ag)
      n == Qwords(ag) IN
    argLongLong([s EXCEPT !.copies = p,
                          !.mem = [q \in DOMAIN @ |-> IF q \in p \div 8 .. p \div 8 + n - 1
                                     THEN Piece(tag[1], tag[2], q - p \div 8 + 1) ELSE @[q]]],
                Pointer(p))

argAggr(s, ag, tag) ==
  CASE ag = NullAggr   -> argLongLong(s, Piece(tag[1], tag[2], 1))
    [] InRegister(ag)  -> argLongLong(s, Piece(tag[1], tag[2], 1))
    [] ByReference(ag) -> argByReference(s, ag, tag)

-----------------------------------------------------------------------------
(* The API.                                                                *)

Tag == <<epoch, Len(bound) + 1>>

(* A method's first argument is a pointer, this. *)
Bind(type) ==
  /\ Len(bound) < MaxArgs
  /\ vm.vt = "this" /\ bound = <<>> => type = "int"
  /\ bound' = Append(bound, type)
  /\ UNCHANGED <<ret, epoch, frames, touched>>

dcArgLongLong == Bind("int")    /\ vm' = argLongLong(vm, Piece(Tag[1], Tag[2], 1))
dcArgDouble   == Bind("double") /\ vm' = argDouble(vm, Piece(Tag[1], Tag[2], 1))

(* A copy that begins before the vector would overwrite the CallVM itself: *)
(* the program keeps to vectors that are not so small.                     *)
dcArgAggr(ag) ==
  /\ ByReference(ag) => CopyAt(vm, ag) >= 0
  /\ Bind(ag) /\ vm' = argAggr(vm, ag, Tag)

dcReset ==
  /\ epoch < MaxResets
  /\ epoch' = epoch + 1
  /\ bound' = <<>> /\ ret' = NoRet
  /\ vm' = [vm EXCEPT !.size = 0, !.count = 0, !.aggrReturnReg = -1, !.copies = VecTotal]
  /\ UNCHANGED <<frames, touched>>

(* Before anything is bound.  There is no system call mode: asking for it  *)
(* sets only mError, which nothing here reads (CallVM models it).          *)
dcMode(mode) ==
  /\ bound = <<>> /\ ret = NoRet
  /\ vm' = CASE mode = "C"    -> [vm EXCEPT !.vt = "x64"]
             [] mode = "THIS" -> [vm EXCEPT !.vt = "this"]
             [] mode = "SYS"  -> vm
  /\ UNCHANGED <<bound, ret, epoch, frames, touched>>

(* A method returns every aggregate through a pointer, which comes second. *)
dcBeginCallAggr(ag) ==
  /\ vm.count = 0 /\ ret = NoRet
  /\ ret' = ag
  /\ vm' = [vm EXCEPT !.aggrReturnReg =
              CASE vm.vt = "this"                -> 1
                [] vm.vt = "x64" /\ Hidden(ag)   -> 0
                [] vm.vt = "x64" /\ ~Hidden(ag)  -> @]
  /\ UNCHANGED <<bound, epoch, frames, touched>>

-----------------------------------------------------------------------------
(* Calls.                                                                  *)

(* Mutant: the prefix of the signature is not looked at. *)
InitCallbackPlain(vt, type) ==
  CASE type = NoRet -> -2 [] type # NoRet /\ Hidden(type) -> 0 [] OTHER -> -1

InitCallback(vt, type) ==
  CASE type = NoRet                                    -> -2
    [] type # NoRet /\ vt = "this"                     -> 1
    [] type # NoRet /\ vt = "x64" /\ Hidden(type)      -> 0
    [] type # NoRet /\ vt = "x64" /\ ~Hidden(type)     -> -1

(* The kernel loads the registers of both kinds with the same four qwords  *)
(* and copies the vector; the thunk spills the registers.                  *)
Frame(s) ==
  [args  |-> bound, ret |-> ret, epoch |-> epoch, hidden |-> s.aggrReturnReg # -1,
   met   |-> s.size > s.copies,
   regs  |-> s.regs, stack |-> [k \in 1 .. s.size \div 8 |-> s.mem[k - 1]],
   callee |-> [count |-> 0, stackPtr |-> 1, aggrReturnReg |-> InitCallback(s.vt, ret)],
   got   |-> <<>>]

HasThis == vm.vt = "this" => bound # <<>>

dcCall ==
  /\ Len(frames) < MaxDepth /\ HasThis /\ ret = NoRet
  /\ frames' = Append(frames, Frame(vm))
  /\ UNCHANGED <<vm, bound, ret, epoch, touched>>

dcCallAggr ==
  /\ Len(frames) < MaxDepth /\ HasThis /\ ret # NoRet
  /\ vm' = IF vm.aggrReturnReg # -1 THEN [vm EXCEPT !.regs[vm.aggrReturnReg] = RetPtr] ELSE vm
  /\ frames' = Append(frames, Frame(vm'))
  /\ UNCHANGED <<bound, ret, epoch, touched>>

-----------------------------------------------------------------------------
(* The target.                                                             *)

arg_i64(f) ==
  LET a == f.callee
      k == IF a.count = a.aggrReturnReg THEN a.count + 1 ELSE a.count IN
    IF k < NumRegs
    THEN [callee |-> [a EXCEPT !.count = k + 1], val |-> f.regs[k]]
    ELSE [callee |-> [a EXCEPT !.count = k, !.stackPtr = @ + 1],
          val |-> IF a.stackPtr \in DOMAIN f.stack THEN f.stack[a.stackPtr] ELSE Junk]

arg_f64(f) == arg_i64(f)

(* What a pointer points to, when it is read. *)
Deref(x, ag) ==
  [k \in 1 .. Qwords(ag) |->
     LET q == x[2] \div 8 + k - 1 IN
       IF x = Pointer(x[2]) /\ q \in DOMAIN vm.mem THEN vm.mem[q] ELSE Junk]

dcbArg(f, type) ==
  LET r == IF type = "double" THEN arg_f64(f) ELSE arg_i64(f) IN
    [callee |-> r.callee,
     got    |-> [ref |-> r.val,
                 val |-> IF ByReference(type) THEN Deref(r.val, type) ELSE <<r.val>>]]

Fetch ==
  /\ frames # <<>>
  /\ LET d == Len(frames)
         f == frames[d] IN
       /\ Len(f.got) < Len(f.args)
       /\ LET r == dcbArg(f, f.args[Len(f.got) + 1]) IN
            frames' = [frames EXCEPT ![d].callee = r.callee, ![d].got = Append(@, r.got)]
  /\ UNCHANGED <<vm, bound, ret, epoch, touched>>

(* A C function assigns to an aggregate it was passed by value, which is   *)
(* the copy in the vector; after a reset, the place may be that of a copy  *)
(* made since, or of an argument on the stack.                             *)
Assign ==
  /\ frames # <<>> /\ \A t \in touched : t[1] # Last(frames).epoch
  /\ LET f == Last(frames) IN
       /\ touched' = touched \cup {<<f.epoch, epoch>>}
       /\ \E n \in DOMAIN f.got :
            /\ ByReference(f.args[n]) /\ f.got[n].ref = Pointer(f.got[n].ref[2])
            /\ vm' = [vm EXCEPT !.mem[f.got[n].ref[2] \div 8] = Assigned]
  /\ UNCHANGED <<bound, ret, epoch, frames>>

Return ==
  /\ frames # <<>>
  /\ frames' = Front(frames)
  /\ UNCHANGED <<vm, bound, ret, epoch, touched>>

(* Where the handler of a frame would leave an aggregate, and what a       *)
(* caller's buffer would get.                                              *)
dcbReturnAggr(f) ==
  IF f.callee.aggrReturnReg >= 0
  THEN [place |-> "memory", at |-> f.regs[f.callee.aggrReturnReg]]
  ELSE [place |-> "register", at |-> Junk]

-----------------------------------------------------------------------------

NewCallVM ==
  [vt |-> "x64", aggrReturnReg |-> -1, count |-> 0,
   regs |-> [k \in 0 .. NumRegs - 1 |-> Junk], size |-> 0, copies |-> VecTotal,
   mem |-> [q \in 0 .. MemQwords - 1 |-> Junk]]

Init ==
  /\ vm = NewCallVM
  /\ bound = <<>> /\ ret = NoRet /\ epoch = 0 /\ frames = <<>> /\ touched = {}

Next ==
  \/ dcArgLongLong \/ dcArgDouble
  \/ \E ag \in Aggrs \cup {NullAggr} : dcArgAggr(ag) \/ dcBeginCallAggr(ag)
  \/ \E mode \in {"C", "THIS", "SYS"} : dcMode(mode)
  \/ dcReset \/ dcCall \/ dcCallAggr
  \/ Fetch \/ Assign \/ Return

Spec == Init /\ [][Next]_vars

-----------------------------------------------------------------------------
(* Properties.                                                             *)

(* The one count stays within the registers and the size within the        *)
(* vector; copies are where a 16 byte boundary is.                         *)
TypeOK ==
  /\ vm.vt \in {"x64", "this"}
  /\ vm.aggrReturnReg \in {-1, 0, 1} /\ vm.count \in 0 .. NumRegs
  /\ DOMAIN vm.regs = 0 .. NumRegs - 1 /\ DOMAIN vm.mem = 0 .. MemQwords - 1
  /\ vm.size \in 0 .. VecTotal
  /\ vm.copies \in 0 .. VecTotal /\ (vm.copies = VecTotal \/ vm.copies % 16 = 0)
  /\ \A d \in DOMAIN frames : frames[d].callee.count \in 0 .. NumRegs

Given(f, n) ==
  [k \in 1 .. (IF ByReference(f.args[n]) THEN Qwords(f.args[n]) ELSE 1) |-> Piece(f.epoch, n, k)]

(* The hidden pointer takes a position, too; behind the registers is the   *)
(* stack, which had no room for all of the arguments.                      *)
Position(f, n) == n + (IF f.hidden THEN 1 ELSE 0)
OnStack(f, n)  == Position(f, n) > NumRegs
Lost(f)        == Position(f, Len(f.args)) > NumRegs + VecTotal \div 8

(* The stack's arguments, growing upwards, have met the copies. *)
Met(s) == s.size > s.copies

(* A target assigned to an aggregate of that epoch, or one did in it; one  *)
(* called in an earlier epoch did.                                         *)
Spoiled(e) == \E t \in touched : t[1] = e \/ t[2] = e
Strayed(e) == \E t \in touched : t[1] # e /\ t[2] = e

(* A handler finds every argument as it was bound, by value and by         *)
(* reference, in the register or stack slot of its position.  An aggregate *)
(* by reference is there only until its copy's place in the CallVM is used *)
(* again: by what is bound after a reset, by a target that assigns to its  *)
(* copy of the same or of earlier arguments, or by arguments on the stack  *)
(* (mpAggrVecCopies).  A target of an earlier call that assigns to its     *)
(* copy, whose place has become the stack's, changes an argument there.    *)
FetchedUnlessOverwritten ==
  \A d \in DOMAIN frames :
    LET f == frames[d]
        overwritten == epoch # f.epoch \/ Met(vm) \/ Spoiled(f.epoch) IN
      f.met \/ Lost(f)
        \/ \A n \in DOMAIN f.got :
             \/ f.got[n].val = Given(f, n)
             \/ ByReference(f.args[n]) /\ overwritten
             \/ OnStack(f, n) /\ Strayed(f.epoch)

(* Caller and callee agree, each from its own description and convention,  *)
(* whether an aggregate is returned through the hidden pointer and in      *)
(* which register that is, first or behind this; and no argument took it.  *)
ResultArrives ==
  \A d \in DOMAIN frames :
    LET f == frames[d] IN
      f.ret # NoRet =>
        dcbReturnAggr(f) = IF f.hidden THEN [place |-> "memory", at |-> RetPtr]
                                       ELSE [place |-> "register", at |-> Junk]

(* "in any case the vector has to be big enough to hold all params": if it *)
(* holds all parameters, the copies at its end and the stack's arguments   *)
(* at its beginning are apart.                                             *)
ParamSize(type) == IF type \in Aggrs THEN 8 * Qwords(type) ELSE 8

ParamsSize == FoldLeft(LAMBDA n, type : n + ParamSize(type), 0, bound)

CopiesSafe == ParamsSize <= VecTotal => ~Met(vm)
=============================================================================
