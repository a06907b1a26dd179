----------------------------- MODULE Convention -----------------------------
(***************************************************************************)
(* A CallVM and a callback on each platform: a program sets a calling      *)
(* convention, binds arguments and calls, and the target, a callback made  *)
(* for the same types, fetches them.  Caller and callee know of each other *)
(* only the types; each decides by its own counts which register or which  *)
(* byte of the stack an argument is in.                                    *)
(***************************************************************************)
EXTENDS ArmConv, MipsConv, PpcConv, SparcConv, X86Conv, FiniteSets

CONSTANTS
  Types,        \* the types of arguments
  Modes,        \* Modes[abi]: the modes a program sets
  MaxArgs,      \* bound: arguments of a call
  MaxVariadic   \* bound: arguments of a call of a variadic function

(* The modes in which a program may call a callback of the platform: the   *)
(* platform's own, by whatever name, and those a callback on x86 can be    *)
(* made for.                                                               *)
OwnModes(abi) ==
  CASE abi = "arm"          -> {"ARM_ARM"}
    [] abi = "arm_eabi"     -> {"ARM_ARM_EABI"}
    [] abi = "thumb"        -> {"ARM_THUMB"}
    [] abi = "thumb_eabi"   -> {"ARM_THUMB_EABI"}
    [] abi = "armhf"        -> {"ARM_ARMHF"}
    [] abi \in Arm64        -> {"ARM64"}
    [] abi \in MipsO32      -> {"MIPS32_O32"}
    [] abi = "mips_eabi"    -> {"MIPS32_EABI"}
    [] abi \in MipsN64      -> {"MIPS64_N64"}
    [] abi = "mips_n32"     -> {"MIPS64_N32"}
    [] abi = "ppc32_darwin" -> {"PPC32_OSX", "SYS"}
    [] abi = "ppc32_sysv"   -> {"PPC32_SYSV", "SYS"}
    [] abi \in {"ppc64_v1", "ppc64_v2"} -> {"PPC64", "SYS"}
    [] abi = "sparc32"      -> {"SPARC32"}
    [] abi = "sparc64"      -> {"SPARC64"}
    [] abi = "x86"          -> {"X86_CDECL", "X86_STD", "X86_FAST_MS", "X86_FAST_GNU",
                                "X86_THIS_MS", "SYS"}
    [] abi = "x86_msvc"     -> {"X86_CDECL", "X86_STD", "X86_FAST_MS", "X86_FAST_GNU",
                                "X86_THIS_MS"}

KnownModes(abi) ==
  {"DEFAULT", "ELLIPSIS"} \cup OwnModes(abi) \cup (IF abi = "x86" THEN {} ELSE {"THIS"})

ASSUME ConventionAssumption ==
  /\ Types \subseteq IntTypes \cup Wide \cup Floats
  /\ ABIs \subseteq ArmABIs \cup MipsABIs \cup PpcABIs \cup SparcABIs \cup X86ABIs
  /\ MaxArgs \in Nat /\ MaxVariadic \in Nat
  /\ DOMAIN Modes = ABIs
  /\ \A abi \in ABIs : Modes[abi] \subseteq KnownModes(abi)

(* What the conventions rely on in the platforms' register files: r0 to r3 *)
(* are written down in the ARM kernels, ECX and EDX in those of x86; eight *)
(* bytes take an even register and the next; floats use up the integer     *)
(* registers beside them before their own.                                 *)
ASSUME RegistersAssumption == \A abi \in ABIs :
  /\ abi \in Arm32 => IntRegs[abi] = 4 /\ FloatRegs[abi] % 2 = 0
  /\ abi \in X86ABIs => IntRegs[abi] = 2
  /\ abi \in MipsO32 => FloatRegs[abi] <= 2
  /\ abi \in {"mips_eabi", "ppc32_sysv"} => IntRegs[abi] % 2 = 0
  /\ abi \in MipsN64 => FloatRegs[abi] \in {0, IntRegs[abi]}
  /\ abi = "mips_n32" => FloatRegs[abi] = IntRegs[abi]
  /\ abi \in PpcABIs \ {"ppc32_sysv"} => FloatRegs[abi] >= IntRegs[abi]
  /\ abi \in PpcABIs /\ "SYS" \in Modes[abi] => IntRegs[abi] >= 4

(* Bound: arguments of a system call, as many as have a register on every  *)
(* platform that can make one.                                             *)
SysArgs == 4

(* A program asks for a vector that has room for its calls, whatever the   *)
(* convention aligns or leaves free.                                       *)
ASSUME RoomAssumption == \A abi \in ABIs : \A n \in {MaxArgs, MaxVariadic, SysArgs} :
  16 + 8 * IntRegs[abi] + 8 * n <= VecTotal

VARIABLES
  vm,     \* the CallVM
  call,   \* the call as the program means it
  image,  \* what registers and stack held when the target was entered
  callee, \* the DCArgs of the callback
  got     \* the values fetched from it

vars == <<vm, call, image, callee, got>>

ABI == vm.abi

-----------------------------------------------------------------------------
(* The platform's part of each operation.                                  *)

ModeTable(abi, mode) ==
  CASE abi \in ArmABIs   -> ArmMode(abi, mode)
    [] abi \in MipsABIs  -> MipsMode(abi, mode)
    [] abi \in PpcABIs   -> PpcMode(abi, mode)
    [] abi \in SparcABIs -> SparcMode(abi, mode)
    [] abi \in X86ABIs   -> mode_x86(abi, mode)

Reset(s) ==
  CASE s.abi \in ArmABIs   -> ArmReset(s)
    [] s.abi \in MipsABIs  -> MipsReset(s)
    [] s.abi \in PpcABIs   -> PpcReset(s)
    [] s.abi \in SparcABIs -> SparcReset(s)
    [] s.abi \in X86ABIs   -> X86Reset(s)

BindArg(s, t, v) ==
  CASE s.abi \in ArmABIs   -> ArmArg(s, t, v)
    [] s.abi \in MipsABIs  -> MipsArg(s, t, v)
    [] s.abi \in PpcABIs   -> PpcArg(s, t, v)
    [] s.abi \in SparcABIs -> SparcArg(s, t, v)
    [] s.abi \in X86ABIs   -> X86Arg(s, t, v)

Kernel(s) ==
  CASE s.abi \in ArmABIs   -> ArmCall(s)
    [] s.abi \in MipsABIs  -> MipsCall(s)
    [] s.abi \in PpcABIs   -> PpcCall(s)
    [] s.abi \in SparcABIs -> SparcCall(s)
    [] s.abi \in X86ABIs   -> X86Call(s)

dcbArg(a, t) ==
  CASE a.abi \in ArmABIs   -> ArmFetch(a, t)
    [] a.abi \in MipsABIs  -> MipsFetch(a, t)
    [] a.abi \in PpcABIs   -> PpcFetch(a, t)
    [] a.abi \in SparcABIs -> SparcFetch(a, t)
    [] a.abi \in X86ABIs   -> dcbArg_x86(a, t)

(* dcbNewCallback, where the convention is part of the callback.           *)
InitCallback(abi, mode, types) ==
  IF abi \in X86ABIs
  THEN InitCallback_x86(abi, IF mode \in {"DEFAULT", "ELLIPSIS"} THEN "none" ELSE mode, types)
  ELSE [vt |-> "none", cleanup |-> 0]

ThunkEntry(abi, m, cb) == IF abi \in X86ABIs THEN Spilled_x86(abi, m, cb) ELSE Spilled(abi, m)

-----------------------------------------------------------------------------
(* Targets that are not callbacks: a variadic function in C, which reads   *)
(* its variable arguments with va_arg, and an operating system.            *)

(* Where variable arguments, or all arguments of a variadic function, are  *)
(* passed as integers.                                                     *)
VariadicAsIntegers == MipsABIs \cup {"ppc32_darwin", "ppc64_v1", "ppc64_v2", "sparc64"}
AllAsIntegers      == {"armhf", "arm64_win"}

AsInteger(t) == CASE t = "double" -> "longlong" [] t = "float" -> "int" [] OTHER -> t

va_arg(a, t) ==
  CASE a.abi = "arm64_apple"         -> FromStack(AlignSP(a, 8), 8, 8)
    [] a.abi \in VariadicAsIntegers  -> dcbArg(a, AsInteger(t))
    [] OTHER                         -> dcbArg(a, t)

IsVariadic(c, k) == k > c.named

TargetFetch(a, c, k) ==
  LET t == c.bound[k] IN
    CASE c.mode = "SYS" -> FromInt(a)
      [] c.mode \in CEllipsis /\ a.abi \in AllAsIntegers -> dcbArg(a, AsInteger(t))
      [] c.mode \in CEllipsis /\ a.abi \notin AllAsIntegers /\ IsVariadic(c, k) -> va_arg(a, t)
      [] OTHER -> dcbArg(a, t)

-----------------------------------------------------------------------------
(* The program.  reset is the kind of reset done last, named the number of *)
(* arguments before the variable ones.                                     *)

AllNamed == MaxArgs + MaxVariadic + 1

NewCall(mode, reset) ==
  [phase |-> "new", mode |-> mode, reset |-> reset, bound |-> <<>>, named |-> AllNamed]

NoImage == Image(<<>>, <<>>, <<>>)
NoCallee == <<>>

dcNewCallVM(abi) == Reset(Blank(abi, ModeTable(abi, "DEFAULT")))

Init ==
  /\ \E abi \in ABIs : vm = dcNewCallVM(abi)
  /\ call = NewCall("DEFAULT", vm.vt.reset)
  /\ image = NoImage /\ callee = NoCallee /\ got = <<>>

(* The initial mode, which dcReset follows. *)
dcMode(mode) ==
  /\ call.phase = "new" /\ call.mode # mode
  /\ vm' = SetVT(vm, ModeTable(ABI, mode))
  /\ call' = NewCall(mode, call.reset)
  /\ UNCHANGED <<image, callee, got>>

(* Also to call again, in the mode of the last call. *)
dcReset ==
  /\ call.phase \in {"new", "returned"} /\ vm.vt = ModeTable(ABI, call.mode)
  /\ vm' = Reset(vm)
  /\ call' = [NewCall(call.mode, vm.vt.reset) EXCEPT !.phase = "binding"]
  /\ image' = NoImage /\ callee' = NoCallee /\ got' = <<>>

(* dcCallF sets the mode of its signature's prefix after the reset. *)
handle_mode(mode) ==
  /\ call.phase = "binding" /\ call.bound = <<>> /\ call.mode = "DEFAULT" /\ mode # "DEFAULT"
  /\ vm' = SetVT(vm, ModeTable(ABI, mode))
  /\ call' = [call EXCEPT !.mode = mode]
  /\ UNCHANGED <<image, callee, got>>

(* Before the first variable argument. *)
dcModeVarargs ==
  /\ call.phase = "binding" /\ call.mode = "ELLIPSIS" /\ call.named = AllNamed
  /\ vm' = SetVT(vm, ModeTable(ABI, "VARARGS"))
  /\ call' = [call EXCEPT !.named = Len(call.bound)]
  /\ UNCHANGED <<image, callee, got>>

(* A method's first argument is this.  A system call takes words only, as  *)
(* many as there are registers; C promotes a variable float to a double.   *)
IsThisCall(mode) == mode \in {"THIS", "X86_THIS_MS"}

BindableTypes ==
  CASE IsThisCall(call.mode) /\ call.bound = <<>> -> {"pointer"}
    [] call.mode = "SYS"      -> {"char"}
    [] call.named # AllNamed  -> Types \ {"float"}
    [] OTHER                  -> Types

ArgsAllowed ==
  CASE call.mode = "SYS"      -> SysArgs
    [] call.mode = "ELLIPSIS" -> MaxVariadic
    [] OTHER                  -> MaxArgs

dcArg(t) ==
  /\ call.phase = "binding" /\ Len(call.bound) < ArgsAllowed
  /\ t \in BindableTypes
  /\ vm' = BindArg(vm, t, Value(Len(call.bound) + 1, SizeOf(ABI, t)))
  /\ call' = [call EXCEPT !.bound = Append(@, t)]
  /\ UNCHANGED <<image, callee, got>>

HasThis == IsThisCall(call.mode) => call.bound # <<>>

(* The registers a kernel takes from the vector must be in it. *)
Underflow == call.phase = "binding" /\ ABI \in X86ABIs /\ Underflows(vm)

dcCall ==
  /\ call.phase = "binding" /\ HasThis /\ ~Underflow
  /\ image' = Kernel(vm)
  /\ vm' = IF vm.vt.call = "ppc64" THEN PadVec(vm) ELSE vm
  /\ callee' = ThunkEntry(ABI, image', InitCallback(ABI, call.mode, call.bound))
  /\ call' = [call EXCEPT !.phase = "running"]
  /\ UNCHANGED got

(* Copying a negative number of bytes ends the process. *)
KernelFault ==
  /\ HasThis /\ Underflow
  /\ call' = [call EXCEPT !.phase = "fault"]
  /\ UNCHANGED <<vm, image, callee, got>>

Fetch ==
  /\ call.phase = "running" /\ Len(got) < Len(call.bound)
  /\ LET k == Len(got) + 1
         r == TargetFetch(callee, call, k) IN
       /\ callee' = r.args
       /\ got' = Append(got, Trunc(r.val, SizeOf(ABI, call.bound[k])))
  /\ UNCHANGED <<vm, call, image>>

Return ==
  /\ call.phase = "running" /\ Len(got) = Len(call.bound)
  /\ call' = [call EXCEPT !.phase = "returned"]
  /\ UNCHANGED <<vm, image, callee, got>>

Next ==
  \/ \E mode \in Modes[ABI] : dcMode(mode) \/ handle_mode(mode)
  \/ dcReset \/ dcModeVarargs
  \/ \E t \in Types \cup {"pointer"} : dcArg(t)
  \/ dcCall \/ KernelFault \/ Fetch \/ Return

Spec == Init /\ [][Next]_vars

-----------------------------------------------------------------------------
(* Properties.                                                             *)

(* The CallVM stays within its vector and its registers, the callback      *)
(* within the registers it was given.                                      *)
TypeOK ==
  /\ ABI \in ABIs /\ vm.err = "NONE"
  /\ dcVecSize(vm) <= VecTotal
  /\ DOMAIN vm.ireg = 0 .. IntRegs[ABI] - 1 /\ DOMAIN vm.freg = 0 .. FloatRegs[ABI] - 1
  /\ call.phase \in {"new", "binding", "running", "returned", "fault"}
  /\ Len(got) <= Len(call.bound)
  /\ vm.f <= FloatRegs[ABI] /\ (call.phase = "running" => callee.f <= FloatRegs[ABI])

(* The MIPS eabi callback aligns the stack pointer for a long value that   *)
(* is in registers: after an odd number of floats on the stack the next    *)
(* argument there is read four bytes too far (dyncall_args_mips.c:46).     *)
EabiMisreads ==
  ABI = "mips_eabi"
    /\ Cardinality({k \in DOMAIN call.bound : call.bound[k] = "float"}) > FloatRegs[ABI]

(* The ARM hard float callback looks for a float that has no register in   *)
(* the integer registers, while there are some, and then on the stack      *)
(* where it is (arm_float, arm_double: args_arm32.c:75, 99).               *)
OnStack(k) == \E p \in DOMAIN image.stack : image.stack[p] = <<k, 1>>
IntRegsLeft(k) == LET n == image.ireg[IntRegs[ABI] - 1][1][1] IN n = 0 \/ n > k

ArmhfMisreads ==
  ABI = "armhf" /\ call.mode \notin CEllipsis
    /\ \E k \in DOMAIN call.bound : call.bound[k] \in Floats /\ OnStack(k) /\ IntRegsLeft(k)

(* A pointer on n32 is read as eight bytes, of which it is the first four  *)
(* (argPointer: callvm_mips_n32.c:99): the target finds what is behind it. *)
N32Misreads == ABI = "mips_n32" /\ \E k \in DOMAIN call.bound : call.bound[k] = "pointer"

(* A fastcall mode of a signature's prefix comes after the reset that      *)
(* makes the room for its registers.                                       *)
Unreserved == call.reset # vm.vt.reset

(* The target finds each argument as it was bound: callee and caller agree *)
(* on every place, in every convention and whatever came before.           *)
FetchedAsBound == \A k \in DOMAIN got : got[k] = Value(k, SizeOf(ABI, call.bound[k]))

FetchedUnlessKnown ==
  FetchedAsBound \/ EabiMisreads \/ ArmhfMisreads \/ N32Misreads \/ Unreserved

(* The arguments such a call may lose: what an eabi callback takes from    *)
(* the stack after a long value for which it skipped a word there, what an *)
(* armhf callback takes from the float on the stack on, n32's pointers.    *)
SkippedFor(j) ==
  call.bound[j] \in Wide /\ ~OnStack(j)
    /\ Cardinality({n \in 1 .. j - 1 : OnStack(n)}) % 2 = 1

Lost(k) ==
  CASE ABI = "mips_eabi" -> OnStack(k) /\ \E j \in 1 .. k - 1 : SkippedFor(j)
    [] ABI = "armhf"     -> ArmhfMisreads /\ \E j \in 1 .. k :
                              call.bound[j] \in Floats /\ OnStack(j) /\ IntRegsLeft(j)
    [] ABI = "mips_n32"  -> call.bound[k] = "pointer"
    [] OTHER             -> FALSE

(* Also in a call that meets one of these faults every argument it does    *)
(* not reach arrives: those before it, those in registers of the other     *)
(* file, floats on an eabi stack with no long value behind an odd number.  *)
OnlyLostMisread ==
  \A k \in DOMAIN got :
    got[k] = Value(k, SizeOf(ABI, call.bound[k])) \/ Lost(k) \/ Unreserved

(* Where the ABI aligns eight bytes, neither the stack nor a pair of       *)
(* registers has them at an odd word, so that a C function, and not only   *)
(* dyncall's own callback, finds them (dcVecAlign, dcVecSkip, i & 1).      *)
Unaligned == {"arm", "thumb", "ppc32_darwin", "sparc32"} \cup X86ABIs

FirstByte(k) == InMemory(ABI, Value(k, 8))[1]

DoublewordsAligned ==
  ABI \in Unaligned
    \/ \A k \in DOMAIN call.bound : call.bound[k] \in Wide =>
         /\ \A p \in DOMAIN image.stack : image.stack[p] = FirstByte(k) => p % 8 = 1
         /\ \A r \in DOMAIN image.ireg :
              image.ireg[r] = WordOf(ABI, Value(k, 8), 0) => r % 2 = 0

(* What the kernel pushed is removed exactly once, by it or by the target. *)
Balance == CallerPops(vm.vt, image) + InitCallback(ABI, call.mode, call.bound).cleanup
             - Len(image.stack)

CallsCallback == ABI \in X86ABIs /\ call.phase = "running" /\ call.mode # "SYS"

(* But the thiscall callback removes this too, which was in a register     *)
(* (dcbCleanupSize_x86_this_ms).                                           *)
ThisCounted == IF vm.vt.call = "this_ms" THEN 4 ELSE 0

BalancedUnlessKnown == CallsCallback => Balance = ThisCounted \/ Unreserved

(* "A second call using the same arguments can be issued": calling changes *)
(* nothing that a further call would be made of.                           *)
CallRepeatable == call.phase = "running" => Kernel(vm) = image

(* The kernels of callee-cleanup conventions run short of arguments only   *)
(* if the reset was another convention's.                                  *)
FaultOnlyUnreserved == call.phase = "fault" => Unreserved
=============================================================================
