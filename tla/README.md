# TLA+ models of Dyn.pm and of the dyncall it carries

Dyn.pm calls C functions from Perl and lets C call Perl subs.  It does so with
dyncall (`src/dyncall/`), which binds arguments one by one into the registers
and the stack of the platform's calling convention, and with a thin XS layer
(`src/lib/Dyn/*.xs`, `*.xsh`).  The models cover dyncall's placement of
arguments on every platform it has in C: x64 System V in most detail, with
aggregates, reentrancy and proofs; x64 on Windows, whose aggregates go by
reference; and the conventions of ARM, MIPS, PowerPC, SPARC and x86.

## 1. Inventory

| Component | Source | State | Operations |
|---|---|---|---|
| CallVM | `dyncall_callvm_x64.c/.h`, `dyncall_vector.c/.h`, `dyncall_api.c` | register counters, register data, argument vector, hidden result register, mode and error | `dcNewCallVM`, `dcReset`, `dcMode`, `dcArg*`, `dcArgAggr`, `dcBeginCallAggr`, `dcCall*`, `dcCallAggr` |
| Call kernels | `dyncall_call_x64.S` | the stack frame of a call in progress | load registers, copy the vector, jump, hand back result registers |
| Callback and DCArgs | `dyncall_callback_x64.c/.S`, `dyncall_args_x64.c` | per callback: handler, how it returns an aggregate, descriptions; per call: spilled registers, two counters, stack pointer, cursor | `dcbNewCallback2`, `dcbInitCallback2`, the thunk, `dcbArg*`, `dcbArgAggr`, `dcbReturnAggr` |
| Aggregates | `dyncall_aggregate.c`, `dyncall_aggregate_x64.c` | descriptions: fields, size, alignment, classes | `dcNewAggr`, `dcAggrField`, `dcCloseAggr`, `dcFreeAggr` |
| Dyn::Callback | `lib/Dyn/Callback.xs` | per callback a container: sub, signature, return type, user data, a CallVM of its own | `dcbNewCallback`, `dcbInitCallback`, `call`, `dcbFreeCallback`, `dcbGetUserData`, `callback_handler` |
| Executable memory | `dyncall_alloc_wx_mmap.c` | one page per callback, writable until it is made executable | map, protect, free |
| Dyn::Callback::Args, ::Value | `Callback/Args.xsh`, `Callback/Value.xsh` | none of their own | accessors over `dcbArg*` and `DCValue` |
| Dyn::Call | `Call.xs`, `Call/*.xsh` | pointer, aggregate and field objects | wrappers of the dyncall API |
| dcCallF, dcArgF | `dyncall_callf.c` | none beyond the CallVM | walk a signature, switch modes |
| x64 on Windows | the `DC_WINDOWS` branches of the x64 files | one register count, where the next copy of an aggregate goes | the same as on System V |
| ARM, MIPS, PowerPC, SPARC, x86 | `dyncall_callvm_*.c`, `dyncall_call_*.S`, `dyncall_args_*.c`, `dyncall_callback_*.c/.S` | vector, counts of each register bank, register data, mode; the callback's cursor | the same interface, a table per convention |
| Dyn::Load, dynload | `Load.xs`, `dynload_*.c` | libraries, symbol tables | load, find, free |
| Build | `builder/Dyn.pm` | none between steps | run compilers |

How they interact.  Everything is synchronous: a call of a C function is a
call, a callback is a call from C back into Perl, and the nesting of calls is
the only concurrency.  A handler runs while the call that led to it, its frame
and its CallVM are all alive, and may do anything with them: reset and refill
the CallVM, call through it again, call or free the callback it is the handler
of.  Caller and callee never exchange a description of where the arguments
are: both derive it, each from its own counters, so that one counter that
differs moves every later argument.

What is hard, and what would be correct:

* *Placement.*  An argument must not be overwritten by a later one or by the
  hidden result pointer; aggregates go whole into registers or whole onto the
  stack; the vector never overflows.
* *Agreement.*  `dcbArg*` must look for each argument where `dcArg*` put it,
  and the caller must reassemble an aggregate result from the registers the
  callee put it in.
* *Conventions.*  Each platform has its own rules of alignment, of skipped or
  filled registers, of what a variadic function or a system call expects and
  of who removes the arguments; each rule exists twice, once in a CallVM and
  once in a callback.
* *Copies.*  On Windows an aggregate by reference stays in the CallVM while the
  target runs, and shares the vector with the stack's arguments.
* *Classification.*  Both sides rely on `sysv_classes`; a class that differs
  from the C compiler's moves arguments.
* *Reentrancy.*  A call in progress keeps its arguments whatever its handler
  does to the CallVM; a callback freed by its handler is not used again.
* *Errors.*  `call()` refuses exactly the wrong numbers of arguments, and
  before it uses any of them.
* *Lifetimes* (buffers behind strings and pointers, libraries behind symbols,
  reference counts).  Planned, see section 7.

There are no threads, messages, timers or retries, and nothing is persisted:
no hazard of these kinds is listed and no liveness is claimed.  Everything a
program may do next is the program's choice, which no scheduler makes fair; no
specification here assumes fairness.  Configurations turn the deadlock check
off because each of them bounds the length of a program: a run that has spent
its bounds stops.

## 2. Modules

| Module | Models | Extends |
|---|---|---|
| `SysV` | register counts, aggregate descriptions and their classes as constants | |
| `CallVM` | the caller's side, from `dcReset` to the jump into the target | `SysV` |
| `DCArgs` | the callee's side: thunk, fetching arguments, returning an aggregate | `SysV` |
| `ArgList` | the abstract promise: a list is bound, a call hands it over, the target reads it in order | |
| `Roundtrip` | caller and callee composed; shown to implement `ArgList` | `CallVM`, `DCArgs` |
| `Platform` | values as bytes, the vector, the records of CallVM and DCArgs every convention shares | |
| `ArmConv`, `MipsConv`, `PpcConv`, `SparcConv`, `X86Conv` | the modes, resets, argument functions, call kernels and callbacks of each family | `Platform` |
| `Convention` | a program that sets a mode, binds, calls and fetches on any of these platforms | the five |
| `Win64` | CallVM, kernel, thunk and callback of x64 on Windows | |
| `Aggregate` | building and classifying descriptions | |
| `Callback` | Dyn::Callback objects in a Perl program | |
| `CallVM_proofs` | proofs about `CallVM` | `CallVM`, `TLAPS` |
| `Callback_proofs` | proofs about `Callback` | `Callback`, `TLAPS` |
| `Roundtrip_proofs` | proofs about `Roundtrip`: both sides of a call follow one reading of the convention, so that arguments and results arrive | `Roundtrip`, `CallVM_proofs` |
| `Refinement_proofs` | proof that `Roundtrip` implements `ArgList` | `Roundtrip_proofs` |
| `Win64_proofs` | proofs about `Win64` | `Win64`, `TLAPS` |
| `Platform_proofs` | lemmas about bytes, the vector and the registers | `Platform`, `TLAPS` |
| `Convention_proofs` | proofs about `Convention`: its types on every platform, calls that can be repeated, kernels that do not run short | `Convention`, `Platform_proofs` |
| `Passing_proofs` | proofs about `Convention`: arguments are found where they were put, what is pushed is removed | `Convention_proofs` |
| `MC*` | instances for TLC | |

### CallVM

`vm` is the `DCCallVM_x64`: `iCount`, `fCount` are `mRegCount`, `iRegs`, `fRegs`
are `mRegData`, `vecSize` and `vec` are the vector head and its contents,
`aggrReturnReg` is `mAggrReturnReg`, `vt` the function table, `mError` the
error.  `frames` are the calls in progress: for each, what the kernel gave to
the target.  `bound`, `ret` and `epoch` are history: which argument was given
which homes, what result was announced, how many resets there were.

Values are abstracted to identity: the n-th argument after the e-th reset is
the tag `<<e, n>>`, a register or segment holds a piece of it.  Whether a
`dcArgChar` sign-extends is therefore not visible (all integer types share one
function of the code, `argLongLong`, and one action here); which argument is
where is.  Sizes and offsets of the vector are real bytes, since rounding,
dropping and realigning depend on them.

`dcMode` has three values: the C modes (one table), the system call modes and
any other, which sets the error and changes nothing else.  The caller keeps to
the contract of `dyncall.3`: aggregates are not used in the system call mode,
whose table has null entries for them; `dcBeginCallAggr` comes first (the code
asserts it) and once per reset; `dcCallAggr` names the same description.  Not
everything that is wise is assumed: a plain `dcCall` may follow the announcement
of an aggregate result, in the same binding or with no `dcReset` after the call
it was for.  Its arguments then begin at the second register, the first being
reserved still, and the target finds no pointer there; `NoRegisterSkipped` says
that this is the only gap there ever is, and that `dcReset` ends it.

The code's `assert` is the guard of `dcBeginCallAggr`.  `dcFree` ends the
object's life and is not an action.  What is left out: the bytes the kernel
copies behind the vector (it rounds up to 32 and adds 8), the alignment of the
machine stack, and the vector's bytes within a segment.

### DCArgs and Roundtrip

`DCArgs` has no variables: a `DCArgs` is a record with the fields of the C
structure, and each `dcbArg*` an operator from a record to a record and the
value read.  A read from the stack finds the segment that begins exactly at
the stack pointer and `Garbage` otherwise, so that a caller and a callee whose
sizes differ do not find each other's values.

`dcbArgAggr` takes no description of the aggregate it is asked for: it takes
the next of the array that `dcbNewCallback2` was given.  That array is the
program's, and `descrs` is what it holds: the aggregates bound, in order, with
the result's behind them (`Listed`).

In `Roundtrip` every target is a callback made for the signature the caller
bound, which is how the two meet in Dyn when a Perl sub is called through a C
function pointer.  `Enter` is the call kernel's jump and the thunk,
`Fetch` one `dcbArg*` call of the innermost handler, `HandlerReturn` covers
`dcbReturnAggr`, the epilogue, and the reassembly in `dcCallAggr`.  Between any
two steps the handler may bind, reset and call through the same CallVM.  Since
the callback was made for the result that was announced, a plain call while an
aggregate is announced is not made in this module.

`ArgList` says what a user of dyncall relies on and nothing of registers:
`ImplementsArgList` maps `list` to the tags of `bound` and the `active` calls to
the values the handlers read back.  Since the mapping takes fetched values from
registers and stack, a value fetched from the wrong place is a step `ArgList`
does not have.

### Platform, the families and Convention

Here the data is bytes, since that is what the platforms disagree about: a
value is the sequence of its bytes `<<n, k>>` (the k-th of the n-th argument),
the vector is the bytes it holds, `InMemory` turns them to the platform's byte
order, and `Extend`, `Trunc`, `Widen` and `Narrow` are the C conversions.  A
sign extension, a float widened to a double and what nobody wrote are bytes of
their own kinds, so that an argument read at the wrong offset, width or end
does not compare equal.

A CallVM is one record for all platforms: the table in use (`vt`, the names of
its reset, argument and call functions), the vector, the counts and the
registers.  `i`, `f` and `d` are the counts each platform keeps: registers
used, the byte offset of armhf, `mArgCount` of o32, `mUseDouble` of n64.  The
operators of a family carry the names of the C functions or of their tables,
and a kernel (`ArmCall` ...) is the assembly: what registers and stack hold
when the target is entered.  The callback's side is the same record with a
stack pointer.

`Convention` is the program.  `dcMode`, `dcReset`, `handle_mode` (the prefix
of a signature, which `dcCallF` handles after the reset), `dcModeVarargs` and
`dcArg` bind, `dcCall` is the kernel and the thunk, `Fetch` a `dcbArg*` of the
callback.  A target that is no callback, a variadic C function or the
operating system, is read by the platform's rule instead (`va_arg`,
`TargetFetch`; external), which is how variadic modes and system calls are
checked.  `KernelFault` is a callee-cleanup kernel that is asked for more
registers than the vector has: it copies a negative number of bytes.

Known disagreements are exceptions the properties name: `ArmhfMisreads`,
`EabiMisreads`, `N32Misreads`, `Unreserved`, `ThisCounted` (section 5).
`FetchedUnlessKnown` leaves a call that meets one of the first three out as a
whole.  `OnlyLostMisread` covers these calls argument by argument: only the
arguments of `Lost` may be misread, which are, on eabi, those on the stack after
a long value for which the callback skipped a word there, on armhf those from
the first float on the stack with integer registers left, on n32 the pointer
itself.  `ThisCounted` is no latitude either: `BalancedUnlessKnown` demands that a
thiscall is out of balance by exactly the four bytes of `this`.

What the conventions take for granted is assumed by name.  `RegistersAssumption`
is what the code relies on in the platforms' register files (the ARM kernels
load r0 to r3, those of x86 ECX and EDX, eight bytes take an even register and
the next), `RoomAssumption` that the program asked `dcNewCallVM` for a vector
that holds its calls, and `KnownModes` are the modes a platform's `dcMode`
accepts and a callback of the platform can be made for.

### Win64

The state is that of `CallVM` with one register count, and `copies`, where
`mpAggrVecCopies` points.  The vector's qwords are in `vm.mem`, below `size`
the stack's arguments, from `copies` on the copies.  A by-reference argument is
`Pointer(p)`, and what it points to is looked up when it is read: in the
CallVM, which the handler may have reset, refilled or called through again in
the meantime.  `Assign` is a C function that assigns to its by-value
parameter.  `touched` is history: of every such assignment, in which epoch the
target's call was bound and in which it assigned.

`FetchedUnlessOverwritten` therefore promises less than `FetchedAsBound` does
on System V: what is in registers arrives always, aggregates until their copies'
place is used again, scalars on the stack unless a target of an earlier call
assigns to its copy, in whose place they may be by now.  That a copy's place may
be used again within a single call is what `CopiesSafe` shows.

### Aggregate

A caller describes structs, packed structs and unions field by field; offsets
and sizes are those a C compiler gives them (external).  `dcCloseAggr` computes
the classes as the code does, field by field and element by element, with the
unsigned arithmetic of the loop bounds.  The reference is the rule of the ABI
on the flat layout (`ABIClasses`), which is written independently: the scalars of
the description at their final offsets, each eightbyte INTEGER when any scalar
in it is.

The index of an array's first element is computed by an unsigned division cut to
an `int`, also when the array begins behind the eightbyte.  For some sizes (3, 5,
9) that `int` is positive and the loop ends before it begins; for others (the
powers of two, 6, 7, 10, 13) it is negative, and the loop runs from far in front of the
array, for 6, 7, 10 and 13 through offsets that wrap around at 2^32.
`ElementsAt` gives the places the loop looks at inside the eightbyte, real
elements and others alike (`Wraps` is how far a wrap moves them).

### Callback

`cbs` are the callbacks with their containers (signature, CallVM contents),
`frames` the calls of `call()` in progress, `fault` the first touch of memory the
process may not touch; after one nothing runs.  `call()` is one action per
character of the signature, because Perl code can run in the middle of it: the
conversion of an argument that is an object with overloaded operators
(`SvTRUE`, `SvPV_nolen`) is `BeginConversion` ... `EndConversion`, and the handler runs
between `Go` and `HandlerReturn`.  At both places, and at the top level, the
program may do everything: make, call, reinitialise and free any callback, or
die, which unwinds to any depth.

A scalar is its kind (integer, integer above the signed maximum, floating
point, string, object): what `SvIOK`, `SvUOK` and `SvNIOK` tell apart.  What lies
behind the arguments on the Perl stack is a null pointer or some earlier
value.  `disturbed` is history: the callback was called or freed while this
call was converting an argument.

A signature (`IsSignature`) is what `Dyn.pm` documents: a closing parenthesis and a
return type, an opening one in front if at all, calling convention prefixes
anywhere, `v` only in place of parameters.  Others are not refused by the
code; they are not modelled.  `Params` are the parameters of a signature as it
is documented, so that neither `(` nor a prefix is one, while `call()` counts
characters: a signature that has either is `Marked`, and `callback_marked` shows what
becomes of it.  Parameters of types `p` and `A` are counted and bound to nothing.

Left out: user data, reference counts, the signature's buffer (a program here
does not change the string it gave), the handler's return value, warnings.

## 3. Runs

| Run | Shows |
|---|---|
| `callvm_bind` | every sequence of up to four arguments: no argument moves, no register is given twice, no aggregate is split, the vector stays inside its buffer and on full slots, the hidden pointer is where it belongs, no register is left out but the hidden pointer's, and a target keeps its frame while the CallVM is reset, refilled and switched to system calls |
| `roundtrip_fetch` | each argument is fetched where it was bound, results arrive, `ArgList` is implemented |
| `roundtrip_nested` | handlers that reset, refill and call through the CallVM between two fetches, with a vector that overflows: each still fetches its own arguments |
| `aggregate_classes` | closing a description gives the classes of the ABI when nested aggregates begin on eightbytes |
| `aggregate_nested` | violation: not otherwise |
| `callback_calls` | two callbacks, nested calls, frees and exceptions anywhere |
| `callback_missing`, `callback_marked` | violations, section 5 |
| `conventions` | 24 builds for five families, in the modes named under Bounds: each argument is fetched as bound, in a call that meets a known fault each one the fault does not reach, eight bytes are aligned where the ABI wants it, the stack is balanced, a call can be repeated, and a kernel runs short of arguments only after another convention's reset |
| `conv_armhf` | violation, section 5: the exception `ArmhfMisreads` that `conventions` names |
| `win64` | x64 on Windows with nested handlers: each argument is fetched as bound until its copy is overwritten, and aggregate results arrive through the register both sides mean |
| `win64_copies` | violation, section 5 |

### Bounds

* Registers: three integer registers instead of six, one or two float registers
  instead of eight (none in `roundtrip_nested`).  Three is the least number the
  code's counting is right for: two eightbytes behind a hidden pointer
  (`SysVAssumption`).  Nothing in the code depends on the number otherwise, and
  the proofs hold for every number.
* `MaxArgs = 4`: enough to fill the float registers and pass beyond them, to
  leave one integer register when an aggregate needs two, and to overflow the
  vector.  `VMSize` is chosen so that the vector holds 40 bytes in
  `callvm_bind`: a second aggregate in memory does not fit and a smaller argument
  behind it does; in `roundtrip_fetch` it holds 96 bytes, enough for all; in
  `roundtrip_nested` 16.  In `callvm_bind` a reset CallVM is refilled with one
  argument, for no aggregate result and in a supported mode (`FewAfterReset`), which
  reuses the first register or slot; no longer refill is explored there.
* Aggregates: `II` (size 12: two integer eightbytes and a realignment), `IS`
  (mixed), `MEM` (size 20: memory and a realignment), `SI` (mixed, reversed),
  and the null description.
* `MaxDepth = 2`, `MaxResets = 1` in `roundtrip_nested`: an outer call in
  progress while the CallVM has been emptied, refilled and called again.  A
  deeper call relates to its caller as the second to the first.
* Aggregates are built from `c`, `f` and `d`, arrays of 1 and 3, two fields, up
  to three closed descriptions, 24 bytes: an eightbyte split by an array,
  elements across an eightbyte, padding, memory by size and by misalignment,
  and nesting two deep.
* Callbacks: two objects, three calls, three deep; signatures with a void
  parameter, an overloadable one, a float, unsigned ones, one that is not
  bound, a return type `call()` does not pass on, and an opening parenthesis.
* Modes in `conventions`: default C calls on every build, variadic ones on the
  eleven of `Variadic` (one per way of treating them), `THIS` on `x86_msvc` and
  `mips_n32`, `SYS` on `x86` and `ppc32_sysv`, stdcall and both fastcalls on `x86`.
  The other modes a table or a callback has (`KnownModes`) are not run; the proofs
  of section 4 take all of them.
* `conventions`: six arguments of `char`, `longlong`, `float` and `double`
  (four in a variadic call): one narrow and one wide type of each bank, which
  is what the rules distinguish.  Register files are two to four registers
  instead of four to thirteen, so that six arguments run out of both and
  leave gaps; where on the platform one file runs out before the other, it
  does here; where the number is part of a rule (armhf's pairs, o32's two
  float registers, x86's ECX and EDX) it is the platform's or even.  `VecTotal
  = 96` bytes hold every call; dropping is what `CallVM` is about.
* `win64`: two registers instead of four, so that the hidden pointer and one
  argument fill them; a vector of 40 bytes, which two copies and one argument
  on the stack overfill; three arguments, one reset and one nested call, the
  refill one argument long (`FewAfterReset`): enough to put a copy on a copy.

### Mutants

Each property of a passing run has a mutated operator beside the operator it
replaces ("Mutant: ..."), such as a register counted twice or an aggregate whose
float registers are not checked; the property fails for it under the same
configuration.

## 4. Proofs

`CallVM_proofs` proves for every number of registers (at least three), every set
of aggregates with classes as `SysVAssumption` has them, every vector size and
all bounds, that `Spec` implies always

`TypeOK`, `ArgsIntact`, `FramesIntact`, `LeftToRight`, `WholeAggregates`,
`VectorSafe` and `HiddenPointer`.

`ArgsIntact` is not inductive: that an argument stays where it is depends on the
next one going somewhere else.  The invariant `IInv` adds

* `HomesInUse`: every home given to an argument is *in use*, that is, below the
  counter of its bank and not the hidden pointer's register;
* `SoundVec`: every segment ends where the next one will begin at the latest;
* `ReturnReg`: a register is reserved exactly when the announced result needs it.

The lemmas say of each operation what it does to homes.  `Takes(s, t, g, x)`: from
`s` to `t` the piece `x` was put at the home `g`, which was above every home in
use, and everything in use kept its contents.  It is proved for an append
(`AppendTakes`: also when the segment is dropped), for integers and floats in
registers and on the stack, and survives the realignment (`SkipTakes`).  For an
aggregate of two eightbytes the lemmas are chained: `RoomFirst` and `RoomSecond`
derive from the counts checked by `argAggr` that each eightbyte finds a register,
the hidden pointer's register notwithstanding, which is where the assumption
of three registers is used.  `BindStep` turns what was taken into the invariant
of the next state; the remaining lemmas are one per other action.  That
`dcBeginCallAggr` comes before any integer argument is what makes reserving
register 0 harmless (`BeginStep`), and that the reserved register is not in use is
what makes storing the pointer there harmless (`CallAggrStep`).

It also proves `AlignedUnlessLost`: the vector ends on a full slot, and
every argument on the stack begins on one, until something did not fit.  The
step that matters is `dcVecSkip` after an aggregate (`AggrStackAligned`): an aggregate
ends anywhere, and the next slot is aligned only because the skip looks at the
size the append left.

And it proves `NoRegisterSkipped`.  The invariant is the converse of `HomesInUse`:
every register in use, the reserved one not counted, is the home of some argument
(`GivenOut`).  `Fills(s, t, homes)` says that from `s` to `t` no register but `homes`
came into use; dropping an argument or taking it to the stack brings none, although
it may move the counter over the reserved register (`IntFills`).  `ReturnReg` then
says that the reserved register is the announced result's and no other.

`Callback_proofs` proves, for any callbacks, signatures (`IsSignature`), arguments
and depth of nesting (`CallbackAssumption`), that `Spec` implies always

`TypeOK`, `DeliveredUnlessDisturbed`, `RefusedOnlyIfWrongUnlessMarked` and
`NoUseAfterFree`.

A call's arguments are in a CallVM it shares with every other call of its
callback, so that what a handler finds depends on what ran while they were
bound.  The invariant `IInv` says of each call (`CallOK`) that its count is that of
the characters behind it but `v` and, while it is undisturbed and its handler has
not started, that its callback is live and the CallVM holds what was converted
so far (`Filled`).  Two facts keep that true while other calls run: only the
innermost call walks its signature (`Shape`), and of two calls of one callback
the outer one, if it waits for a conversion, is marked (`Apart`).  `TopStep` is the
lemma for a step of the innermost call, `MarkStep` for calling and freeing, which
mark; `PrefixStep` for returning and dying, which end calls.  That the
count is the number of parameters, and the n-th character the n-th parameter, is a
fact about signatures that are not `Marked` (`UnmarkedParams`, `AllCounted`).  Where the process
has written to a read-only page nothing is claimed of the calls in progress.

### Roundtrip

`Roundtrip_proofs` proves, under the same assumptions, that `RoundtripSpec` implies
always

`RoundtripTypeOK`, `FetchedAsBound` and `ResultArrivesAfterFetches`.

Caller and callee never say to each other where an argument is, so the proof
compares both with a third account.  A *position* says how
many registers of each bank and how many bytes of the stack the arguments so far
have taken; `After(p, hid, type)` is the next one, written once for an argument's
type and whether there is a hidden pointer.  Two families of lemmas show that
binding moves the counters of a `DCCallVM_x64` along it and puts the argument's
pieces there (`ArgAt`, until one is lost), and that fetching moves those of a
`DCArgs` along it and reads the pieces from there (`ArgFetched`): through
registers, stack slots, aggregates in one and two registers of either bank,
aggregates in memory and the realignment behind them.

None of the three invariants is inductive: a handler's next fetch is right only if
its counters are.  `RoundtripIInv` is `IInv` of `CallVM` and

* `BoundSide`: there is a trace of positions from the reset to the CallVM's
  counters, with every argument at the position of its index, as long as none was
  lost; and `descrs` lists the aggregates;
* `CallSide`: for each call in progress there is such a trace of its frame, the
  handler that has fetched n arguments stands at its n-th position, and what is
  left of its array of descriptions is what is left of the arguments' aggregates
  (`OnTrace`, `OnListing`).

A trace belongs to the frame that the kernel made, not to the CallVM, which is why
resets, refills and calls within the handler do not matter.  `dcbArgAggr` finds
the right description only because of `OnListing`, and `dcbReturnAggr` the
result's only after all aggregates were fetched.  The invariant was checked by TLC
on the instances of `roundtrip_fetch` and `roundtrip_nested` before it was proved,
which showed that descriptions of size zero with classes had to be excluded: the
classification makes none, and `SysVAssumption` now says so.

### The refinement

`ImplementsArgList` does not hold of every program: an argument the vector
dropped is not handed over, and an aggregate of no eightbyte is never put
anywhere.  `Refinement_proofs` proves

* `RoundtripIsACall`: it holds of every behaviour in which every argument bound has
  a place (`[]BoundPlaced`); initial states map to initial states, each step to the
  step of `ArgList` it is meant to be or to a stutter;
* `RoomSuffices`: `BoundPlaced` always holds if `HasRoom`: some number of bytes, at
  least 8, holds the largest aggregate, the vector has that much for each of
  `MaxArgs` arguments, and every aggregate has classes;
* `RoundtripImplements`: hence with `HasRoom` it holds of every behaviour.

How large a vector to ask of `dcNewCallVM` is left to the program ("the max size of
the internal stack", `dyncall.3:117`), so that `HasRoom` is a choice it has; the
instance of `roundtrip_fetch` has it with 24 bytes an argument.

### Win64

`Win64_proofs` proves, for every number of registers from two on, every size of the
vector, whole qwords or not, and all aggregates (`Win64Assumption`), that `Spec`
implies always

`TypeOK`, `ResultArrives` and `FetchedUnlessOverwritten`.

Here a position is a number: argument n is in register `RegisterOf(r, n)` or, behind
the registers, in slot `n + HiddenOf(r) - NumRegs` of the stack, where `r` is the
register of the hidden pointer.  `ReturnInv` says that `r` is what the mode and the
announced result make it, in the CallVM and in every callback, and that no argument
took it; `ResultArrives` follows.  For the copies the invariant `FetchInv` adds

* `BoundInv`: the CallVM's counts are those of its position, and while the stack has
  room and has not met the copies, there is a map `P` from arguments to qwords of
  the vector, above `copies` and apart from each other, such that every register,
  slot and copy holds what was bound (`Laid`), but for what targets assigned to;
* `FrameInv(f)` for each call: its cursor is that of the arguments it fetched, and
  for such a map `P` its registers and stack hold what was bound, and the copies do
  as long as nothing happened that `overwritten` names (`Carried`).

`Grows` is the little that any step may do to the CallVM seen by a call in progress
(within an epoch copies are added only below, nothing above `copies` changes
unless a target assigns or the stack has met them), and `KeepsFrame` that this
keeps `FrameInv`: there is one such lemma instead of one for each pair of step and
frame.

The proof was worth its trouble for what it found: `FetchedUnlessOverwritten` as the
run had it was false on larger instances, see section 5.  `FetchInv` was then checked
by TLC, with `P` computed from the sizes, on the instance of `win64` and on one with
five arguments in which a target of an earlier epoch assigns.

### Convention

`Convention_proofs` proves of every platform, for any register files and vector
sizes (`RegistersAssumption`, `RoomAssumption`), any types and any number of
arguments, that `Spec` implies always

`TypeOK`, `CallRepeatable` and `FaultOnlyUnreserved`.

The inductive invariant is `Running`.  Its part `Typed` says what the record of a
CallVM may be on its platform: the mode's table is one the platform has and goes
with the mode of the call (`VMOK`), the counts are within the register banks, the
vector has taken eight bytes an argument at most behind what the convention
reserves (`Filled`, which with `RoomAssumption` is why nothing is ever dropped), and
the callback's record was made for the same mode (`CalleeOK`).  `Stocked` says that
the bytes which the fastcall and thiscall kernels take from the vector are in it
if the reset was their table's own: from it `FaultOnlyUnreserved` follows.
`Repeats` is `CallRepeatable`, to which only ppc64 makes a difference, whose call
changes the vector it has just copied.  The lemmas are one per family and
operation: `Stays*` of the reset, the mode and the argument functions, `Goes*` of
the callbacks.

`Passing_proofs` proves that `Spec` implies always

* `ABI \in Done => FetchedUnlessKnown`, where `Done` are SPARC (v8 and v9), x86,
  64 bit ARM (Unix, Windows and Apple) and 64 bit MIPS (n64 and n32, hard and soft
  float), with every mode they have: cdecl, stdcall, both fastcalls, thiscall,
  variadic and system calls;
* `BalancedUnlessKnown`, which is about x86 only.

For the first, caller and callee are again compared with a third account. A *cursor*
is how far the arguments so far have come in the registers and in the vector, and a
family's `Via` says where an argument of a type lies when the cursor stands here and
where the cursor stands behind it. `Located` is the invariant: while binding there
is a trace of cursors along which every argument has been put into the CallVM
(`Placed`), and while the target runs there is one along which every argument lies
in the image the kernel made (`Found`), and the callback that has fetched n
arguments stands at the n-th cursor. For each family the lemmas `New*` (an argument
function puts its argument where the cursor is), `Kept*` (and leaves those before
it), `Start*` (a reset and a callback's beginning are the first cursor), `Switch*`
(to variable arguments, which SPARC and x86 leave alone and Apple does not), on MIPS
`Loads*` (what the kernel loads from the banks) and `Fetch*` (`dcbArg*` reads at the
cursor and moves it) make the steps. What differs between the families is small in
the code and large in these lemmas, which is why the theorem names the families it
is about. On 64 bit MIPS one count numbers both banks, so that a register is written
at most once and the cursor is that count; but the kernel loads a floating point
register whole only if its bit of `mUseDouble` is set, so that each bit has to be
carried along as well.

For the second, `Counting` says that until the call the vector's size and the count
of ECX and EDX are sums over the types bound.  `dcbInitCallback2` computes the
callback's cleanup from the same types in the signature, so that the two cancel
(`X86Balance`), but for the four bytes of `this`.

The proofs changed the model in three places.  That MIPS n32 reads a pointer as
eight bytes stood in the way of its lemma about values and is now a named
exception (`N32Misreads`, section 5).  `mUseDouble` was a sequence where the code has
a bit for each register.  And the assumptions on registers and room, which every
configuration had satisfied, were nowhere stated.

### What only TLC checks

* `Aggregate` (`TypeOK`, `ClassifiedAsABIOnEightbytes`): classes are computed
  recursively over nested descriptions, and what a recursive definition computes
  is proved by induction over data, which is out of the prover's reach.
* `FetchedUnlessKnown` on 32 bit MIPS, PowerPC and 32 bit ARM, `OnlyLostMisread`
  and `DoublewordsAligned`: nothing about them is out of reach, but the lemmas about
  these families' own cursors (pairs of registers, gaps left by alignment, banks
  that count together) are not written.  The run `conventions` checks them on six
  arguments.

There is no liveness to prove.

## 5. Where the code and its documentation disagree

Five of these are runs that end in a counterexample:

* `aggregate_nested`: a nested aggregate that begins in the middle of an eightbyte
  is misclassified, since the index of its first element is computed by an
  unsigned division that wraps (`dyncall_aggregate_x64.c:105`).
* `callback_missing`: missing arguments are read before they are found missing
  (`Callback.xs:249`).
* `callback_marked`: `call()` counts an opening parenthesis and the two characters
  of a calling convention prefix as parameters, and refuses the right number of
  arguments (`Callback.xs:190`); `Dyn.pm:114-120` allows both.
* `conv_armhf`: on ARM with hard floats a callback looks for a float that found
  no VFP register in the integer registers, while there are some; the CallVM
  has put it on the stack (`dyncall_args_arm32.c:75`, `:99`).
* `win64_copies`: "it's a bit of a hack, but should be safe" says the comment on
  the copies at the vector's end; three 16-byte aggregates in a vector of 48
  bytes are not (`dyncall_callvm_x64.c:220`).

Others were met and are described by the properties' preconditions, or, the
fifth, by an action that ends the process:

* the MIPS eabi callback aligns its stack pointer for an eight byte value that is
  in registers (`dyncall_args_mips.c:46`), so that a float behind it on the stack is
  read four bytes too far (`EabiMisreads`, `Lost`);
* MIPS n32 binds a pointer, which has four bytes there, by reading eight from its
  address, and what is behind it becomes part of the argument
  (`dyncall_callvm_mips_n32.c:99`; `N32Misreads`, `Lost`);
* a fastcall mode from a signature's prefix comes after the reset of another
  table, and the kernel then takes registers from a vector that has no room for
  them (`dyncall_callf.c:35`; `Unreserved`, `KernelFault`);
* the x86 thiscall callback removes `this` from the stack, where it is not
  (`dyncall_callback_x86.c:87`; `ThisCounted`);
* reinitialising a callback, which `Callback.pm:92` documents, writes to a page
  that is read-only (`dyncall_callback_x64.c:54`; the fault `"write"` of
  `dcbInitCallback`);
* an aggregate dropped for want of room is followed by its realignment all the
  same, so that the vector's size is no multiple of 8 (`AlignedUnlessLost`);
* `dcbReturnAggr` before all aggregate arguments have been fetched takes the
  description of an argument (`ResultArrivesAfterFetches`);
* a callback called while one of its own arguments is converted receives, in
  the outer call, the inner call's arguments (`DeliveredUnlessDisturbed`);
* arguments of types `p` and `A` are counted but not bound, and return types `p`
  and `A` never call the handler;
* `call()` asks `SvUOK` of unsigned arguments, which an ordinary integer does
  not have, and passes zero (`Callback.xs:207`; `Suits`);
* on ppc64 a call leaves the vector extended to the register area: it can be
  repeated (`CallRepeatable`), but not added to;
* on Windows a target that assigns to a by-value aggregate changes what "a
  second call using the same arguments" (`dyncall.3:169`) passes
  (`FetchedUnlessOverwritten`); and if its handler chain has reset and refilled the
  CallVM meanwhile, so that the copy's place is now the stack's, it changes an
  argument that is no aggregate (`Strayed`).  It takes five arguments to see this,
  more than the bounds of `win64` have.

## 6. Not modelled, and why

* Return values of the scalar types: a register each, per kernel.
* Plan 9 on x86; the assembly of other assemblers than GNU's (`*_masm.asm`,
  `*_nasm.asm`), which repeats the same kernels.
* Thunks (`dyncall_thunk_*.c`): a few fixed instructions that load the
  callback's address, written once.
* The prewalk of `dcVCallF` for aggregate results and the Perl wrappers of the
  API (Dyn::Call), which add no state.
* The ELF reader of dynload and the builder: data and processes, no control
  worth exploring.
* Failure to map or protect a callback's page: `dcbNewCallback` returns null and
  the XS layer blesses it; its first use ends the process.
* Pointer, Args, Value, Dyn::Load: planned.

## 7. Plan

In this order:

1. `Handles`: who owns the memory behind Pointer, Value, Args and aggregate
   objects and behind the strings given to callbacks (`container->signature`,
   `Value::Z`), late and double use, reference counts of sub and user data; an
   abstract ownership module it is compared with.
2. `Callback` with its return path: `callback_handler`'s context and return type,
   failing to map a page, user data.
3. `Load`: libraries, symbols and symbol tables over `dlLoadLibrary`,
   `dlFindSymbol`, `dlFreeLibrary`.
4. Return values per convention, in `Convention`.
5. `FetchedUnlessKnown` for the families that `Passing_proofs` does not cover,
   32 bit MIPS, PowerPC and 32 bit ARM; and `DoublewordsAligned`.
