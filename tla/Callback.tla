------------------------------ MODULE Callback ------------------------------
(***************************************************************************)
(* Dyn::Callback objects as a Perl program uses them (Callback.xs): make   *)
(* one, call it, reinitialise it, free it, in any order the program likes. *)
(* Perl code also runs in the middle of a call: the handler itself, and    *)
(* the conversion of an argument that is an object with overloaded         *)
(* operators.  Everything the program can do at the top level it can do    *)
(* there, on the same callback too.                                        *)
(*                                                                         *)
(* The n-th argument of the c-th call is the value <<c, n>>.  A C call     *)
(* hands the target what the callback's CallVM has bound, which is what    *)
(* CallVM and Roundtrip show.  Pages are mapped whenever asked for, and    *)
(* the program does not use a callback it has freed.                       *)
(***************************************************************************)
EXTENDS Integers, Sequences, FiniteSets

CONSTANTS
  Handles,     \* callback objects the program may make
  Signatures,  \* their signatures, as sequences of characters
  ArgLists,    \* what the program passes to call: sequences of scalar kinds
  MaxCalls,    \* bound: calls made
  MaxDepth     \* bound: calls in progress at the same time

VARIABLES
  cbs,     \* the callback objects, with their containers and CallVMs
  frames,  \* the calls in progress, the innermost last
  calls,   \* how many calls were made: makes every value unique
  fault    \* memory the process may not touch was touched

vars == <<cbs, frames, calls, fault>>

-----------------------------------------------------------------------------
(* Signatures and scalars.                                                 *)

Signed   == {"c", "s", "i", "j", "l"}
Unsigned == {"C", "S", "I", "J", "L"}
Floats   == {"f", "d"}
Bound    == Signed \cup Unsigned \cup Floats \cup {"B", "Z"}

(* What call() passes to dcCall*; "p" and "A" are known but not handled.   *)
ReturnHandled == Bound \cup {"v"}

EndArg(sig)  == CHOOSE i \in DOMAIN sig : sig[i] = ")"
RetType(sig) == sig[EndArg(sig) + 1]

(* A calling convention prefix is _ and one of these characters.           *)
ModeChars == {":", "*", "e", ".", "c", "s", "F", "f", "+", "#", "A", "a", "$"}

(* Where the parameters are, as the signature is documented: neither an    *)
(* opening parenthesis nor a prefix takes an argument.                     *)
ParamsAt(sig) ==
  {n \in 1 .. EndArg(sig) - 1 : sig[n] \notin {"v", "_", "("} /\ (n = 1 \/ sig[n - 1] # "_")}

Marked(sig) == \E n \in 1 .. EndArg(sig) - 1 : sig[n] \in {"_", "("}

(* A signature has one closing parenthesis and a return type behind it, an *)
(* opening one in front if at all, the void type last and only without     *)
(* parameters, and prefixes wherever the program likes.                    *)
IsSignature(sig) ==
  /\ \E i \in 1 .. Len(sig) - 1 : sig[i] = ")"
  /\ \A i \in DOMAIN sig :
       /\ sig[i] = ")" => i = EndArg(sig)
       /\ sig[i] = "(" => i = 1
       /\ sig[i] = "_" => i < EndArg(sig) /\ sig[i + 1] \in ModeChars
       /\ sig[i] = "v" /\ i < EndArg(sig) => i = EndArg(sig) - 1 /\ ParamsAt(sig) = {}

(* Kinds of scalars: an integer, one above the largest signed integer, a   *)
(* floating point number, a string, an object with overloaded operators.   *)
Kinds == {"iv", "uv", "nv", "pv", "obj"}

ASSUME CallbackAssumption ==
  /\ Signatures \subseteq Seq(STRING) /\ \A sig \in Signatures : IsSignature(sig)
  /\ ArgLists \subseteq Seq(Kinds)
  /\ MaxCalls \in Nat /\ MaxDepth \in Nat

(* The flag each type asks for; a scalar without it counts as zero.        *)
HasFlag(ch, kind) ==
  CASE kind = "stale"      -> TRUE
    [] ch \in Signed       -> kind \in {"iv", "uv"}   \* SvIOK
    [] ch \in Unsigned     -> kind = "uv"             \* SvUOK
    [] ch \in Floats       -> kind \in {"iv", "uv", "nv"}   \* SvNIOK
    [] ch \in {"B", "Z"}   -> TRUE

Zero  == <<0, 0>>
Stale == <<0, 1>>   \* beyond the arguments of this call

(* Mutant: the arguments are counted from zero. *)
ST0(f, i) == IF i - 1 \in DOMAIN f.given
             THEN [kind |-> f.given[i - 1], val |-> <<f.call, i - 1>>]
             ELSE [kind |-> "stale", val |-> Stale]

(* ST(i), where ST(0) is the callback; behind the arguments of this call   *)
(* is whatever an earlier one left on the Perl stack, or a null pointer.   *)
ST(f, i) == IF i <= Len(f.given) THEN [kind |-> f.given[i], val |-> <<f.call, i>>]
            ELSE [kind |-> "stale", val |-> Stale]

Converted(f) ==
  LET sv == ST(f, f.i) IN IF HasFlag(cbs[f.cb].sig[f.i], sv.kind) THEN sv.val ELSE Zero

(* SvTRUE and SvPV of an object run the program's own code. *)
RunsPerl(f, kind) == cbs[f.cb].sig[f.i] \in {"B", "Z"} /\ kind = "obj"

(* What a scalar may turn out to be. *)
KindsOf(f) == LET k == ST(f, f.i).kind IN IF k = "stale" THEN {"iv", "obj"} ELSE {k}

-----------------------------------------------------------------------------
(* The life of a callback.                                                 *)

Top == frames[Len(frames)]

(* Perl code runs, at the top level or inside a call. *)
PerlRuns ==
  /\ fault = "none"
  /\ frames # <<>> => Top.phase # "walk"

(* Every call of the callback that is converting an argument is marked.    *)
Disturbed(h) ==
  [d \in DOMAIN frames |-> [frames[d] EXCEPT
     !.disturbed = @ \/ (frames[d].cb = h /\ frames[d].phase = "convert")]]

NoCallback == [state |-> "none", sig |-> <<>>, vm |-> <<>>]

dcbNewCallback(h, sig) ==
  /\ PerlRuns
  /\ cbs[h].state = "none"
  /\ cbs' = [cbs EXCEPT ![h] = [state |-> "live", sig |-> sig, vm |-> <<>>]]
  /\ UNCHANGED <<frames, calls, fault>>

(* The container is changed, then the callback itself, whose page          *)
(* dcInitExecWX has made read-only.                                        *)
dcbInitCallback(h, sig) ==
  /\ PerlRuns
  /\ cbs[h].state = "live"
  /\ cbs' = [cbs EXCEPT ![h].sig = sig]
  /\ fault' = "write"
  /\ UNCHANGED <<frames, calls>>

(* The CallVM, the page and the container go at once, whoever is inside.   *)
dcbFreeCallback(h) ==
  /\ PerlRuns
  /\ cbs[h].state = "live"
  /\ cbs' = [cbs EXCEPT ![h] = [state |-> "freed", sig |-> @.sig, vm |-> <<>>]]
  /\ frames' = Disturbed(h)
  /\ UNCHANGED <<calls, fault>>

-----------------------------------------------------------------------------
(* One call.                                                               *)

call(h, given) ==
  /\ PerlRuns
  /\ cbs[h].state = "live"
  /\ calls < MaxCalls /\ Len(frames) < MaxDepth
  /\ calls' = calls + 1
  /\ cbs' = [cbs EXCEPT ![h].vm = <<>>]
  /\ frames' = Append(Disturbed(h),
                 [cb |-> h, call |-> calls + 1, given |-> given, i |-> 1, tally |-> 0,
                  phase |-> "walk", got |-> <<>>, disturbed |-> FALSE])
  /\ UNCHANGED fault

SetTop(f) == frames' = [frames EXCEPT ![Len(frames)] = f]

Walks(phase) ==
  /\ fault = "none"
  /\ frames # <<>> /\ Top.phase = phase

Char == cbs[Top.cb].sig[Top.i]

(* Mutant: void is counted. *)
CountedVoid(ch) == 1

(* A character that binds nothing; all but the void type are counted. *)
Counted(ch) == IF ch = "v" THEN 0 ELSE 1

(* Mutant: the void type also skips the character behind it. *)
SkipCharTwice ==
  /\ Walks("walk")
  /\ Char \notin Bound \cup {")"}
  /\ SetTop([Top EXCEPT !.i = @ + (IF Char = "v" THEN 2 ELSE 1), !.tally = @ + Counted(Char)])
  /\ UNCHANGED <<cbs, calls, fault>>

SkipChar ==
  /\ Walks("walk")
  /\ Char \notin Bound \cup {")"}
  /\ SetTop([Top EXCEPT !.i = @ + 1, !.tally = @ + Counted(Char)])
  /\ UNCHANGED <<cbs, calls, fault>>

(* dcArg* on the container's CallVM. *)
Bind ==
  /\ SetTop([Top EXCEPT !.i = @ + 1, !.tally = @ + Counted(Char), !.phase = "walk"])
  /\ IF cbs[Top.cb].state = "live"
     THEN cbs' = [cbs EXCEPT ![Top.cb].vm = Append(@, Converted(Top))] /\ UNCHANGED fault
     ELSE fault' = "freed" /\ UNCHANGED cbs
  /\ UNCHANGED calls

BindPlain ==
  /\ Walks("walk") /\ Char \in Bound
  /\ \E kind \in KindsOf(Top) : ~RunsPerl(Top, kind)
  /\ Bind

(* The slot behind the arguments is a null pointer, and SvIOK reads from it. *)
BindNull ==
  /\ Walks("walk") /\ Char \in Bound
  /\ ST(Top, Top.i).kind = "stale"
  /\ fault' = "stale"
  /\ UNCHANGED <<cbs, frames, calls>>

(* The object's code starts; when it returns, its result is bound. *)
BeginConversion ==
  /\ Walks("walk")
  /\ Char \in Bound
  /\ \E kind \in KindsOf(Top) : RunsPerl(Top, kind)
  /\ SetTop([Top EXCEPT !.phase = "convert"])
  /\ UNCHANGED <<cbs, calls, fault>>

EndConversion == Walks("convert") /\ Bind

(* At ")" the number of arguments is compared with the characters counted. *)
CountIsWrong(f) == f.tally + 1 # Len(f.given) + 1

(* An exception ends every call up to the eval that catches it. *)
Unwind == \E k \in 0 .. Len(frames) - 1 : frames' = SubSeq(frames, 1, k)

Refuse ==
  /\ Walks("walk")
  /\ Char = ")" /\ CountIsWrong(Top)
  /\ Unwind
  /\ UNCHANGED <<cbs, calls, fault>>

(* The return type decides which dcCall* is made, if any; the handler      *)
(* finds what is bound to the CallVM now.                                  *)
Go ==
  /\ Walks("walk")
  /\ Char = ")" /\ ~CountIsWrong(Top)
  /\ IF RetType(cbs[Top.cb].sig) \in ReturnHandled
     THEN SetTop([Top EXCEPT !.phase = "handler", !.got = cbs[Top.cb].vm])
     ELSE frames' = SubSeq(frames, 1, Len(frames) - 1)
  /\ UNCHANGED <<cbs, calls, fault>>

(* Mutant: the return type is read again after the call. *)
HandlerReturnReads ==
  /\ Walks("handler")
  /\ frames' = SubSeq(frames, 1, Len(frames) - 1)
  /\ fault' = IF cbs[Top.cb].state = "live" THEN fault ELSE "freed"
  /\ UNCHANGED <<cbs, calls>>

(* Handler, callback_handler, thunk, call kernel and call() return; none   *)
(* of them touches the callback or its container again.                    *)
HandlerReturn ==
  /\ Walks("handler")
  /\ frames' = SubSeq(frames, 1, Len(frames) - 1)
  /\ UNCHANGED <<cbs, calls, fault>>

(* The program's code dies inside a call. *)
Die ==
  /\ fault = "none"
  /\ frames # <<>> /\ Top.phase \in {"convert", "handler"}
  /\ Unwind
  /\ UNCHANGED <<cbs, calls, fault>>

Init ==
  /\ cbs = [h \in Handles |-> NoCallback]
  /\ frames = <<>> /\ calls = 0 /\ fault = "none"

Next ==
  \/ \E h \in Handles, sig \in Signatures : dcbNewCallback(h, sig)
  \/ \E h \in Handles, sig \in Signatures : dcbInitCallback(h, sig)
  \/ \E h \in Handles : dcbFreeCallback(h)
  \/ \E h \in Handles, given \in ArgLists : call(h, given)
  \/ SkipChar \/ BindPlain \/ BindNull \/ BeginConversion \/ EndConversion
  \/ Refuse \/ Go \/ HandlerReturn \/ Die

Spec == Init /\ [][Next]_vars

-----------------------------------------------------------------------------
(* Properties.                                                             *)

Values == (0 .. MaxCalls) \X Nat

(* Callbacks are made once, and a call in progress stands at a character   *)
(* of its callback's signature.                                            *)
TypeOK ==
  /\ \A h \in Handles :
       /\ cbs[h].state \in {"none", "live", "freed"}
       /\ cbs[h].sig \in Signatures \cup {<<>>}
       /\ cbs[h].vm \in Seq(Values)
  /\ calls \in 0 .. MaxCalls
  /\ fault \in {"none", "write", "freed", "stale"}
  /\ \A d \in DOMAIN frames :
       /\ frames[d].cb \in Handles /\ frames[d].call \in 1 .. calls
       /\ fault # "write" => frames[d].i \in 1 .. EndArg(cbs[frames[d].cb].sig)
       /\ frames[d].phase \in {"walk", "convert", "handler"}
       /\ frames[d].phase = "walk" => d = Len(frames)

(* The parameters a signature stands for, in their order. *)
ParamAt(sig, n) ==
  CHOOSE p \in ParamsAt(sig) : Cardinality({q \in ParamsAt(sig) : q <= p}) = n

Params(sig) == [n \in 1 .. Cardinality(ParamsAt(sig)) |-> sig[ParamAt(sig, n)]]

(* Arguments that arrive: an object only where its conversion is asked     *)
(* for, numbers and strings where they belong.  A parameter of an unsigned *)
(* type takes only integers above the largest signed one, although every   *)
(* other one that is not negative is documented: it arrives as zero; what  *)
(* is passed for p and A does not arrive at all.                           *)
Suits(ch, kind) ==
  CASE ch \in Signed   -> kind = "iv"
    [] ch \in Unsigned -> kind = "uv"
    [] ch \in Floats   -> kind \in {"iv", "nv"}
    [] ch = "B"        -> TRUE
    [] ch = "Z"        -> kind \in {"pv", "obj"}
    [] OTHER           -> FALSE

SuitsAll(sig, given) ==
  \A n \in 1 .. Len(given) : n <= Len(Params(sig)) => Suits(Params(sig)[n], given[n])

(* A handler runs with as many arguments as its signature has, each with   *)
(* the value that was passed to call().                                    *)
ArrivesAsGiven(sig, f) ==
  /\ Len(f.given) = Len(Params(sig))
  /\ SuitsAll(sig, f.given) => f.got = [n \in 1 .. Len(f.given) |-> <<f.call, n>>]

(* Every handler finds the arguments of its own call, however calls nest,  *)
(* unless the same callback was called while one of the arguments was      *)
(* converted: both calls then fill the same CallVM.  With a parenthesis or *)
(* a prefix in the signature the arguments are looked for further back.    *)
DeliveredUnlessDisturbed ==
  fault # "write" =>
    \A d \in DOMAIN frames :
      LET sig == cbs[frames[d].cb].sig IN
        frames[d].phase = "handler" /\ ~frames[d].disturbed /\ ~Marked(sig)
          => ArrivesAsGiven(sig, frames[d])

(* The innermost call is about to be refused for its number of arguments,  *)
(* although that is the number of parameters of the signature.             *)
RefusesRightCount(sig, f) ==
  /\ f.phase = "walk" /\ sig[f.i] = ")" /\ CountIsWrong(f)
  /\ Len(f.given) = Len(Params(sig))

(* call() refuses a call for its number of arguments only when that is not *)
(* the number of parameters of the signature as it is documented.          *)
RefusedOnlyIfWrong ==
  fault = "none" =>
    \A d \in DOMAIN frames : ~RefusesRightCount(cbs[frames[d].cb].sig, frames[d])

(* That much is so of signatures with neither an opening parenthesis nor a *)
(* calling convention prefix, whose characters call() counts.              *)
RefusedOnlyIfWrongUnlessMarked ==
  fault = "none" =>
    \A d \in DOMAIN frames :
      LET sig == cbs[frames[d].cb].sig IN ~Marked(sig) => ~RefusesRightCount(sig, frames[d])

(* A callback may be freed by its own handler: nothing of it is used when  *)
(* the handler has returned.  Only while an argument is converted it may   *)
(* not.                                                                    *)
NoUseAfterFree == fault = "freed" => \E d \in DOMAIN frames : frames[d].disturbed

(* A call with too few arguments is refused before a missing one is used.  *)
MissingNotRead == fault # "stale"
=============================================================================
