----------------------------- MODULE Roundtrip ------------------------------
(***************************************************************************)
(* CallVM and DCArgs composed: every target called through the VM is a     *)
(* callback made for the signature the caller binds, as when Dyn calls a   *)
(* Perl sub through a C function pointer.  The handler fetches arguments   *)
(* one step at a time, and between two fetches may reset, refill and call  *)
(* through the same CallVM; it may return before it has fetched all.       *)
(***************************************************************************)
EXTENDS CallVM, DCArgs

VARIABLES
  descrs,    \* the aggregates bound since the last reset, which the program
             \* lists for the callback
  handlers,  \* per call in progress: its DCArgs and what it has fetched
  result     \* the last aggregate a call returned: announced type, what the
             \* caller finds, and whether the handler had fetched all arguments

rvars == <<vars, descrs, handlers, result>>

(* The array given to dcbNewCallback2: the result's description is last. *)
Listed == descrs \o (IF ret = NoRet THEN <<>> ELSE <<ret>>)

(* The thunk runs as soon as the kernel has jumped to it.  The target is a *)
(* callback made for the result that was announced, so a call that expects *)
(* none (dcCall while an aggregate is announced) is not made here.         *)
Enter ==
  /\ vm.vt = "x64"
  /\ (dcCall /\ ret = NoRet) \/ dcCallAggr
  /\ handlers' = Append(handlers,
       [args |-> NewDCArgs(InitCallback(Listed, ret), frames'[Len(frames')]),
        got  |-> <<>>])
  /\ UNCHANGED <<descrs, result>>

(* The innermost handler fetches its next argument. *)
Fetch ==
  /\ handlers # <<>>
  /\ LET d == Len(handlers)
         h == handlers[d]
         n == Len(h.got) + 1 IN
       /\ n <= Len(frames[d].args)
       /\ LET r == dcbArg(h.args, frames[d].args[n].type) IN
            handlers' = [handlers EXCEPT ![d] = [args |-> r.args, got |-> Append(h.got, r.val)]]
  /\ UNCHANGED <<vars, descrs, result>>

(* dcCallAggr after the kernel: the caller's memory, written through the   *)
(* hidden pointer or reassembled from the return registers.                *)
Reassemble(ag, regs) ==
  [i \in 1 .. Eightbytes(ag) |->
     IF InMemory(ag) THEN Garbage ELSE regs[Classes[ag][i]][Rank(ag, i)]]

Found(ag, r) ==
  IF r.place = "registers"
  THEN [pieces |-> Reassemble(ag, r.regs), bytes |-> CopySize(ag)]
  ELSE [pieces |-> IF r.at = RetPtr THEN <<Returned(0)>> ELSE <<Garbage>>, bytes |-> r.bytes]

(* The innermost handler returns, an aggregate through dcbReturnAggr. *)
HandlerReturn ==
  /\ Return
  /\ LET d == Len(handlers)
         f == frames[d] IN
       /\ handlers' = SubSeq(handlers, 1, d - 1)
       /\ result' = IF f.ret = NoRet THEN result
                    ELSE [type |-> f.ret,
                          found |-> Found(f.ret, dcbReturnAggr(handlers[d].args)),
                          fetchedAll |-> Len(handlers[d].got) = Len(f.args)]
  /\ UNCHANGED descrs

BindStep ==
  /\ \/ (dcArgLongLong \/ dcArgPointer \/ dcArgDouble) /\ UNCHANGED descrs
     \/ \E ag \in Aggrs \cup {NullAggr} : dcArgAggr(ag) /\ descrs' = Append(descrs, ag)
     \/ \E ag \in Aggrs \cup {NullAggr} : dcBeginCallAggr(ag) /\ UNCHANGED descrs
     \/ dcReset /\ descrs' = <<>>
     \/ \E mode \in {"C", "other"} : dcMode(mode) /\ UNCHANGED descrs
  /\ UNCHANGED <<handlers, result>>

NoResult == [type |-> NoRet, found |-> [pieces |-> <<>>, bytes |-> 0], fetchedAll |-> TRUE]

RoundtripInit == Init /\ descrs = <<>> /\ handlers = <<>> /\ result = NoResult
RoundtripNext == BindStep \/ Enter \/ Fetch \/ HandlerReturn
RoundtripSpec == RoundtripInit /\ [][RoundtripNext]_rvars

-----------------------------------------------------------------------------
(* Properties.                                                             *)

(* The handlers and the frames they run in come and go together. *)
RoundtripTypeOK ==
  /\ TypeOK
  /\ Len(handlers) = Len(frames)
  /\ \A d \in DOMAIN handlers :
       /\ Len(handlers[d].got) <= Len(frames[d].args)
       /\ handlers[d].args.iCount \in 0 .. NumIntRegs
       /\ handlers[d].args.fCount \in 0 .. NumFloatRegs
       /\ handlers[d].args.stackPtr \in Nat

(* The value whose pieces a fetch returned. *)
Value(type, pieces) ==
  LET whole(tag) == pieces = <<<<tag, 0>>>>
      parts(tag) == pieces = [k \in 1 .. (IF type \in Aggrs THEN Eightbytes(type) ELSE 1) |-> <<tag, k>>]
      tags       == {<<e, n>> : e \in 0 .. MaxResets, n \in 1 .. MaxArgs} IN
    IF \E tag \in tags : whole(tag) \/ parts(tag)
    THEN CHOOSE tag \in tags : whole(tag) \/ parts(tag)
    ELSE NoTag

(* The handler fetches the arguments that were bound when it was called,   *)
(* in order and whole, as long as the vector had room for all of them:     *)
(* dcbArg* looks for each one exactly where dcArg* put it.                 *)
FetchedAsBound ==
  \A d \in DOMAIN handlers :
    LET given == frames[d].args IN
      (\E n \in DOMAIN given : \E j \in DOMAIN given[n].at : given[n].at[j].bank = "lost")
      \/ \A n \in DOMAIN handlers[d].got :
           given[n].at # <<>> => Value(given[n].type, handlers[d].got[n]) = given[n].tag

(* The caller of dcCallAggr finds the aggregate the handler returned. *)
ResultArrives ==
  result.type # NoRet =>
    /\ result.found.bytes = CopySize(result.type)
    /\ result.found.pieces = IF Hidden(result.type) THEN <<Returned(0)>>
                             ELSE [i \in 1 .. Eightbytes(result.type) |-> Returned(i)]

(* That much is so when the handler had fetched every argument. *)
ResultArrivesAfterFetches == result.fetchedAll => ResultArrives

(* The roundtrip implements the list of arguments; the fetched values are  *)
(* the ones read back from registers and stack.                            *)
TagsOf(args) == [n \in DOMAIN args |-> args[n].tag]

AbstractList == INSTANCE ArgList WITH
  Values <- (0 .. MaxResets) \X (1 .. MaxArgs),
  list   <- TagsOf(bound),
  active <- [d \in DOMAIN handlers |->
               [given |-> TagsOf(frames[d].args),
                got   |-> [n \in DOMAIN handlers[d].got |->
                             Value(frames[d].args[n].type, handlers[d].got[n])]]]

ImplementsArgList == AbstractList!Spec
=============================================================================
