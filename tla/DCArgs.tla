------------------------------- MODULE DCArgs -------------------------------
(***************************************************************************)
(* The callee's side on x64 System V: a callback (dyncall_callback_x64.c)  *)
(* whose thunk spills the argument registers into a DCArgs on its own      *)
(* stack (dyncall_callback_x64.S), from which the handler fetches the      *)
(* arguments one by one (dyncall_args_x64.c).                              *)
(*                                                                         *)
(* A read yields the tuple of the pieces it copied: one, or one per        *)
(* eightbyte of an aggregate.                                              *)
(***************************************************************************)
EXTENDS SysV

(* What is at an address no argument was put at. *)
Garbage == <<<<0, 0>>, 2>>

-----------------------------------------------------------------------------
(* The callback object: how it returns an aggregate, which it takes.       *)

IsAggr(type) == type \in Aggrs \cup {NullAggr}

(* -2: no aggregate; -1: in registers; 0: through the hidden pointer.  The *)
(* array is the program's: an entry per aggregate of the signature.        *)
InitCallback(aggrs, ret) ==
  [aggrReturnReg |-> IF ret = NoRet THEN -2 ELSE IF Hidden(ret) THEN 0 ELSE -1,
   aggrs |-> aggrs]

(* The thunk's DCArgs: register counts zero, the registers spilled, the    *)
(* stack pointer at the caller's first stack argument.                     *)
NewDCArgs(cb, frame) ==
  [stackPtr |-> 0, iCount |-> 0, fCount |-> 0, aggrReturnReg |-> cb.aggrReturnReg,
   aggrs |-> cb.aggrs, iRegs |-> frame.iRegs, fRegs |-> frame.fRegs, stack |-> frame.vec]

-----------------------------------------------------------------------------
(* Fetching the next argument.                                             *)

(* What the caller put at the stack pointer. *)
AtStackPtr(a) ==
  IF \E k \in DOMAIN a.stack : a.stack[k].at = a.stackPtr
  THEN a.stack[CHOOSE k \in DOMAIN a.stack : a.stack[k].at = a.stackPtr].val
  ELSE Garbage

(* Mutant: the hidden pointer is fetched as an argument. *)
NextIntParamNoSkip(a) == a.iCount

NextIntParam(a) == IF a.iCount = a.aggrReturnReg THEN a.iCount + 1 ELSE a.iCount

arg_i64(a) ==
  LET k == NextIntParam(a) IN
    IF k < NumIntRegs
    THEN [args |-> [a EXCEPT !.iCount = k + 1], val |-> a.iRegs[k]]
    ELSE [args |-> [a EXCEPT !.iCount = k, !.stackPtr = @ + 8], val |-> AtStackPtr(a)]

(* Mutants: a float fetched from the stack is counted as one from a        *)
(* register; the stack pointer stays.                                      *)
arg_f64Counted(a) ==
  [args |-> [a EXCEPT !.fCount = @ + 1,
                      !.stackPtr = IF a.fCount < NumFloatRegs THEN @ ELSE @ + 8],
   val |-> IF a.fCount < NumFloatRegs THEN a.fRegs[a.fCount] ELSE AtStackPtr(a)]

arg_f64Stuck(a) ==
  IF a.fCount < NumFloatRegs
  THEN [args |-> [a EXCEPT !.fCount = @ + 1], val |-> a.fRegs[a.fCount]]
  ELSE [args |-> a, val |-> AtStackPtr(a)]

arg_f64(a) ==
  IF a.fCount < NumFloatRegs
  THEN [args |-> [a EXCEPT !.fCount = @ + 1], val |-> a.fRegs[a.fCount]]
  ELSE [args |-> [a EXCEPT !.stackPtr = @ + 8], val |-> AtStackPtr(a)]

FetchEightbyte(a, clz) == IF clz = "INTEGER" THEN arg_i64(a) ELSE arg_f64(a)

(* Mutant: only the integer registers left are checked. *)
FetchFromStackInts(a, ag) ==
  InMemory(ag) \/ a.iCount + Needs(ag, "INTEGER") > NumIntRegs

FetchFromStack(a, ag) ==
  \/ InMemory(ag)
  \/ a.iCount + Needs(ag, "INTEGER") > NumIntRegs
  \/ a.fCount + Needs(ag, "SSE") > NumFloatRegs

(* The eightbytes of an aggregate in registers, one after the other. *)
FetchOne(a, c) == LET r == FetchEightbyte(a, c) IN [args |-> r.args, val |-> <<r.val>>]

FetchTwo(a, c, d) ==
  LET r == FetchEightbyte(a, c)
      q == FetchEightbyte(r.args, d) IN
    [args |-> q.args, val |-> <<r.val, q.val>>]

(* The description is the next one of the callback's array, whatever the   *)
(* handler is about to read. *)
dcbArgAggr(a) ==
  LET ag == Head(a.aggrs)
      b  == [a EXCEPT !.aggrs = Tail(@)]
      inRegs == ag # NullAggr /\ ~FetchFromStack(b, ag) IN
    CASE ag = NullAggr -> LET r == arg_i64(b) IN [args |-> r.args, val |-> <<r.val>>]
      [] ag # NullAggr /\ FetchFromStack(b, ag) ->
           [args |-> [b EXCEPT !.stackPtr = @ + RoundUp8(Size[ag])], val |-> <<AtStackPtr(b)>>]
      [] inRegs /\ Eightbytes(ag) = 0 -> [args |-> b, val |-> <<>>]
      [] inRegs /\ Eightbytes(ag) = 1 -> FetchOne(b, Classes[ag][1])
      [] inRegs /\ Eightbytes(ag) = 2 -> FetchTwo(b, Classes[ag][1], Classes[ag][2])

(* The dcbArg* function for a type of the signature. *)
dcbArg(a, type) ==
  CASE IsAggr(type)    -> dcbArgAggr(a)
    [] type = "int"    -> LET r == arg_i64(a) IN [args |-> r.args, val |-> <<r.val>>]
    [] type = "float"  -> LET r == arg_f64(a) IN [args |-> r.args, val |-> <<r.val>>]

-----------------------------------------------------------------------------
(* Returning an aggregate by value.                                        *)

(* The pieces of the value the handler returns. *)
Returned(k) == <<<<0, -1>>, k>>

(* Which register of its class an eightbyte travels in. *)
Rank(ag, i) == IF i = 2 /\ Classes[ag][1] = Classes[ag][2] THEN 2 ELSE 1

(* Mutant: the second eightbyte goes to the second register of its class. *)
ReturnRegsByPosition(ag) ==
  [clz \in RegClass |-> [r \in 1 .. 2 |->
     IF ag # NullAggr /\ r <= Eightbytes(ag) /\ Classes[ag][r] = clz THEN Returned(r)
     ELSE Garbage]]

(* rax, rdx and xmm0, xmm1 after dcbReturnAggr and the thunk's epilogue. *)
ReturnRegs(ag) ==
  [clz \in RegClass |-> [r \in 1 .. 2 |->
     IF ag # NullAggr /\ \E i \in 1 .. Eightbytes(ag) : Classes[ag][i] = clz /\ Rank(ag, i) = r
     THEN Returned(CHOOSE i \in 1 .. Eightbytes(ag) : Classes[ag][i] = clz /\ Rank(ag, i) = r)
     ELSE Garbage]]

(* How many bytes dcbReturnAggr copies; without a description the handler  *)
(* has to make the copy itself.                                            *)
CopySize(ag) == IF ag = NullAggr THEN 0 ELSE Size[ag]

(* What it leaves: bytes at an address, or the return registers. *)
dcbReturnAggr(a) ==
  LET ag == Head(a.aggrs) IN
    IF a.aggrReturnReg >= 0
    THEN [place |-> "memory", at |-> a.iRegs[a.aggrReturnReg], bytes |-> CopySize(ag)]
    ELSE [place |-> "registers", regs |-> ReturnRegs(ag)]
=============================================================================
