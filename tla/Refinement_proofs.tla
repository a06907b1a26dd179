-------------------------- MODULE Refinement_proofs --------------------------
(***************************************************************************)
(* Proof that Roundtrip implements ArgList: what dyncall and dyncallback   *)
(* do with registers, stacks and cursors is, step by step, what ArgList    *)
(* says of a list, as long as every argument finds a place.                *)
(*                                                                         *)
(* Two kinds of argument have none: one the vector has no room for, and an *)
(* aggregate of no eightbyte.  A program that binds one of them leaves     *)
(* what ArgList describes, so the theorem is about those that do not.      *)
(***************************************************************************)
EXTENDS Roundtrip_proofs

(* Every argument of a list has a place.                                   *)
AllPlaced(args) == \A n \in DOMAIN args : args[n].at # <<>> /\ KeptAll(args[n].at)

BoundPlaced  == AllPlaced(bound)
CallsPlaced  == \A d \in DOMAIN frames : AllPlaced(frames[d].args)

-----------------------------------------------------------------------------
(* The abstract state.                                                     *)

(* A call that was given args and has fetched k of them. *)
Progress(args, k) == [given |-> TagsOf(args), got |-> [n \in 1 .. k |-> args[n].tag]]

Progresses == [given : Seq(Tags), got : Seq(Tags)]

Got(d) == [n \in DOMAIN handlers[d].got |-> Value(frames[d].args[n].type, handlers[d].got[n])]

(* What active stands for, as Roundtrip says it. *)
Active == [d \in DOMAIN handlers |-> [given |-> TagsOf(frames[d].args), got |-> Got(d)]]

ActiveIsProgress ==
  Active = [d \in 1 .. Len(handlers) |-> Progress(frames[d].args, Len(handlers[d].got))]

(* A sequence given by a formula, one element longer. *)
LEMMA MappedAppend ==
  ASSUME NEW k \in Nat, NEW S, NEW F \in [1 .. k + 1 -> S],
         NEW s, s = [n \in 1 .. k |-> F[n]]
  PROVE  Append(s, F[k + 1]) = F /\ s \in Seq(S) /\ Len(s) = k
<1>1. /\ \A n \in 1 .. k : n \in 1 .. k + 1
      /\ k + 1 \in 1 .. k + 1 /\ k + 1 \in Nat
  OBVIOUS
<1>2. s \in Seq(S) /\ Len(s) = k
  BY <1>1
<1>3. F[k + 1] \in S
  BY <1>1
<1>4. /\ Append(s, F[k + 1]) \in Seq(S) /\ Len(Append(s, F[k + 1])) = k + 1
      /\ \A n \in 1 .. Len(s) : Append(s, F[k + 1])[n] = s[n]
      /\ Append(s, F[k + 1])[Len(s) + 1] = F[k + 1]
  BY <1>2, <1>3, AppendProperties
<1>5. \A n \in 1 .. k + 1 : Append(s, F[k + 1])[n] = F[n]
  BY <1>2, <1>4, LastIndex
<1>6. Append(s, F[k + 1]) = [n \in 1 .. k + 1 |-> Append(s, F[k + 1])[n]]
  BY <1>4, <1>1
<1> QED  BY <1>2, <1>5, <1>6

LEMMA TagsOfAppend ==
  ASSUME NEW args \in Seq(Args), NEW arg \in Args
  PROVE  /\ TagsOf(args) \in Seq(Tags) /\ Len(TagsOf(args)) = Len(args)
         /\ TagsOf(Append(args, arg)) = Append(TagsOf(args), arg.tag)
<1> DEFINE k == Len(args)
           l == Append(args, arg)
           F == [n \in 1 .. k + 1 |-> l[n].tag]
<1>1. /\ k \in Nat /\ l \in Seq(Args)
      /\ DOMAIN l = 1 .. k + 1 /\ DOMAIN args = 1 .. k
      /\ \A n \in 1 .. k : l[n] = args[n]
      /\ l[k + 1] = arg
  BY OneMore
<1>2. \A n \in 1 .. k + 1 : l[n] \in Args
  BY <1>1
<1>3. F \in [1 .. k + 1 -> Tags] /\ TagsOf(l) = F
  BY <1>1, <1>2 DEF Args, TagsOf
<1> HIDE DEF l, k
<1>4. k + 1 \in 1 .. k + 1 /\ \A n \in 1 .. k : n \in 1 .. k + 1
  BY <1>1
<1>5. F[k + 1] = arg.tag /\ TagsOf(args) = [n \in 1 .. k |-> F[n]]
  BY <1>1, <1>4 DEF TagsOf
<1> HIDE DEF F
<1>6. Append(TagsOf(args), F[k + 1]) = F /\ TagsOf(args) \in Seq(Tags) /\ Len(TagsOf(args)) = k
  BY <1>1, <1>3, <1>5, MappedAppend
<1> QED  BY <1>3, <1>5, <1>6 DEF l, k

(* One argument more has been fetched. *)
LEMMA ProgressMade ==
  ASSUME NEW args \in Seq(Args), NEW k \in Nat, k + 1 <= Len(args)
  PROVE  /\ Progress(args, k) \in Progresses
         /\ Len(Progress(args, k).got) = k /\ Len(Progress(args, k).given) = Len(args)
         /\ Progress(args, k).given[k + 1] = args[k + 1].tag
         /\ Progress(args, k + 1) =
              [given |-> TagsOf(args), got |-> Append(Progress(args, k).got, args[k + 1].tag)]
<1> DEFINE F == [n \in 1 .. k + 1 |-> args[n].tag]
           s == Progress(args, k).got
<1>1. Len(args) \in Nat /\ DOMAIN args = 1 .. Len(args) /\ \A n \in 1 .. Len(args) : args[n] \in Args
  OBVIOUS
<1>2. \A n \in 1 .. k + 1 : n \in 1 .. Len(args)
  BY <1>1
<1>3. k + 1 \in 1 .. k + 1 /\ \A n \in 1 .. k : n \in 1 .. k + 1
  OBVIOUS
<1>4. \A n \in 1 .. k + 1 : args[n].tag \in Tags
  BY <1>1, <1>2 DEF Args
<1>5. F \in [1 .. k + 1 -> Tags] /\ F[k + 1] = args[k + 1].tag
  BY <1>3, <1>4
<1>6. s = [n \in 1 .. k |-> F[n]]
  BY <1>3 DEF Progress
<1>7. /\ TagsOf(args) \in Seq(Tags) /\ Len(TagsOf(args)) = Len(args)
      /\ TagsOf(args)[k + 1] = args[k + 1].tag
  <2>1. k + 1 \in 1 .. Len(args)
    BY <1>2, <1>3
  <2> QED  BY <1>1, <2>1, TagsOfAppend DEF TagsOf
<1>8. Progress(args, k + 1) = [given |-> TagsOf(args), got |-> F]
  BY DEF Progress
<1> HIDE DEF F
<1>9. Append(s, F[k + 1]) = F /\ s \in Seq(Tags) /\ Len(s) = k
  BY <1>5, <1>6, MappedAppend
<1> QED  BY <1>5, <1>7, <1>8, <1>9 DEF Progress, Progresses

LEMMA ProgressTyped ==
  ASSUME NEW args \in Seq(Args), NEW k \in Nat, k <= Len(args)
  PROVE  /\ Progress(args, k) \in Progresses
         /\ Progress(args, 0) = [given |-> TagsOf(args), got |-> <<>>]
<1>1. Len(args) \in Nat /\ \A n \in 1 .. Len(args) : args[n] \in Args /\ DOMAIN args = 1 .. Len(args)
  OBVIOUS
<1>2. \A n \in 1 .. k : n \in 1 .. Len(args)
  BY <1>1
<1>3. TagsOf(args) \in Seq(Tags)
  <2>1. \A n \in 1 .. Len(args) : args[n].tag \in Tags
    BY <1>1 DEF Args
  <2> QED  BY <1>1, <2>1 DEF TagsOf
<1>4. [n \in 1 .. k |-> args[n].tag] \in Seq(Tags)
  <2>1. \A n \in 1 .. k : args[n].tag \in Tags
    BY <1>1, <1>2 DEF Args
  <2> QED  BY <2>1
<1>5. [n \in 1 .. 0 |-> args[n].tag] = <<>>
  OBVIOUS
<1> QED  BY <1>3, <1>4, <1>5 DEF Progress, Progresses

(* What the handlers have fetched is what they were given. *)
LEMMA ProgressFollows == RoundtripIInv /\ CallsPlaced => ActiveIsProgress
<1> SUFFICES ASSUME RoundtripIInv, CallsPlaced  PROVE ActiveIsProgress
  OBVIOUS
<1>1. FetchedAsBound
  BY FetchesFollow
<1>2. /\ handlers \in Seq(Handlers) /\ Len(handlers) = Len(frames)
      /\ frames \in Seq(KernelFrames)
  BY DEF RoundtripIInv, CallSide, IInv, TypeOK
<1>3. DOMAIN handlers = 1 .. Len(handlers) /\ DOMAIN frames = DOMAIN handlers
  BY <1>2
<1>4. ASSUME NEW d \in DOMAIN handlers
      PROVE  Got(d) = [n \in 1 .. Len(handlers[d].got) |-> frames[d].args[n].tag]
  <2> DEFINE given == frames[d].args
             got   == handlers[d].got
  <2>1. /\ given \in Seq(Args) /\ got \in Seq(Seq(Pieces)) /\ Len(got) <= Len(given)
    <3>1. frames[d] \in KernelFrames /\ handlers[d] \in Handlers
      BY <1>2, <1>3
    <3> QED  BY <1>3, <3>1 DEF KernelFrames, Handlers, RoundtripIInv, CallSide, HandlerOK
  <2>2. /\ Len(given) \in Nat /\ Len(got) \in Nat
        /\ DOMAIN given = 1 .. Len(given) /\ DOMAIN got = 1 .. Len(got)
    BY <2>1
  <2>3. \A n \in DOMAIN got : n \in DOMAIN given
    BY <2>1, <2>2
  <2>4. AllPlaced(given)
    BY <1>3 DEF CallsPlaced
  <2>5. ~ \E n \in DOMAIN given : \E j \in DOMAIN given[n].at : given[n].at[j].bank = "lost"
    BY <2>4 DEF AllPlaced, KeptAll
  <2>6. \A n \in DOMAIN got : given[n].at # <<>> => Value(given[n].type, got[n]) = given[n].tag
    BY <1>1, <2>5 DEF FetchedAsBound
  <2>7. \A n \in DOMAIN got : Value(given[n].type, got[n]) = given[n].tag
    BY <2>3, <2>4, <2>6 DEF AllPlaced
  <2> QED  BY <2>2, <2>7 DEF Got
<1> QED  BY <1>3, <1>4 DEF ActiveIsProgress, Active, Progress

LEMMA ProgressFollowsNext == (RoundtripIInv /\ CallsPlaced => ActiveIsProgress)'
BY ProgressFollows, PTL

(* The abstract state has its types. *)
ActiveSequence ==
  /\ Active \in Seq(Progresses) /\ Len(Active) = Len(handlers)
  /\ DOMAIN Active = 1 .. Len(handlers) /\ Len(handlers) \in Nat
  /\ \A d \in 1 .. Len(handlers) :
       /\ frames[d].args \in Seq(Args)
       /\ Len(handlers[d].got) \in Nat /\ Len(handlers[d].got) <= Len(frames[d].args)
       /\ Active[d] = Progress(frames[d].args, Len(handlers[d].got))

LEMMA ActiveTyped == RoundtripIInv /\ ActiveIsProgress => ActiveSequence
<1> SUFFICES ASSUME RoundtripIInv, ActiveIsProgress  PROVE ActiveSequence
  OBVIOUS
<1>1. /\ handlers \in Seq(Handlers) /\ Len(handlers) = Len(frames)
      /\ frames \in Seq(KernelFrames) /\ Len(handlers) \in Nat
      /\ DOMAIN handlers = 1 .. Len(handlers) /\ DOMAIN frames = 1 .. Len(handlers)
  BY DEF RoundtripIInv, CallSide, IInv, TypeOK
<1>2. ASSUME NEW d \in 1 .. Len(handlers)
      PROVE  /\ frames[d].args \in Seq(Args)
             /\ Len(handlers[d].got) \in Nat /\ Len(handlers[d].got) <= Len(frames[d].args)
             /\ Active[d] = Progress(frames[d].args, Len(handlers[d].got))
             /\ Active[d] \in Progresses
  <2>1. frames[d] \in KernelFrames /\ handlers[d] \in Handlers
    BY <1>1
  <2>2. HandlerOK(frames[d], handlers[d])
    BY <1>1 DEF RoundtripIInv, CallSide
  <2>3. Len(handlers[d].got) <= Len(frames[d].args)
    BY <2>2 DEF HandlerOK
  <2>4. frames[d].args \in Seq(Args) /\ handlers[d].got \in Seq(Seq(Pieces))
    BY <2>1 DEF KernelFrames, Handlers
  <2>5. Len(handlers[d].got) \in Nat
    BY <2>4
  <2>6. Active[d] = Progress(frames[d].args, Len(handlers[d].got))
    BY DEF ActiveIsProgress
  <2> QED  BY <2>3, <2>4, <2>5, <2>6, ProgressTyped
<1>3. DOMAIN Active = 1 .. Len(handlers)
  BY DEF ActiveIsProgress
<1>4. Active \in Seq(Progresses) /\ Len(Active) = Len(handlers)
  <2>1. Active = [d \in 1 .. Len(handlers) |-> Active[d]]
    BY DEF ActiveIsProgress
  <2> HIDE DEF Active
  <2> QED  BY <1>1, <1>2, <2>1
<1> QED  BY <1>1, <1>2, <1>3, <1>4 DEF ActiveSequence

LEMMA ActiveTypedNext == (RoundtripIInv /\ ActiveIsProgress => ActiveSequence)'
BY ActiveTyped, PTL

-----------------------------------------------------------------------------
(* The steps.                                                              *)

(* Binding an argument or dcReset changes the list only; what else the     *)
(* caller may do between calls is not seen. *)
LEMMA BindImplements ==
  ASSUME RoundtripIInv, RoundtripIInv', BindStep
  PROVE  \/ \E v \in (0 .. MaxResets) \X (1 .. MaxArgs) : AbstractList!Bind(v)
         \/ AbstractList!Clear
         \/ UNCHANGED AbstractList!avars
<1>1. UNCHANGED <<frames, handlers>>
  BY DEF BindStep, dcArgLongLong, dcArgPointer, dcArgDouble, dcArgAggr, Bind,
         dcBeginCallAggr, dcReset, dcMode
<1>2. Active' = Active
  BY <1>1 DEF Active, Got
<1>3. \/ \E type, homes : Bind(type, homes)
      \/ bound' = <<>>
      \/ bound' = bound
  BY DEF BindStep, dcArgLongLong, dcArgPointer, dcArgDouble, dcArgAggr,
         dcBeginCallAggr, dcReset, dcMode
<1>4. ASSUME NEW type, NEW homes, Bind(type, homes)
      PROVE  \E v \in (0 .. MaxResets) \X (1 .. MaxArgs) : AbstractList!Bind(v)
  <2> DEFINE arg == [type |-> type, tag |-> Tag, at |-> homes]
  <2>1. bound' = Append(bound, arg) /\ arg.tag = Tag
    BY <1>4 DEF Bind
  <2> HIDE DEF arg
  <2>2. bound \in Seq(Args) /\ bound' \in Seq(Args)
    BY DEF RoundtripIInv, IInv, TypeOK
  <2>3. arg \in Args
    BY <2>1, <2>2, LastTyped
  <2>4. TagsOf(bound') = Append(TagsOf(bound), Tag)
    BY <2>1, <2>2, <2>3, TagsOfAppend
  <2>5. Tag \in (0 .. MaxResets) \X (1 .. MaxArgs)
    <3>1. epoch \in 0 .. MaxResets /\ Len(bound) < MaxArgs /\ Len(bound) \in Nat /\ MaxArgs \in Nat
      BY <1>4, <2>2, CallVMAssumption DEF Bind, RoundtripIInv, BoundSide
    <3>2. Len(bound) + 1 \in 1 .. MaxArgs
      BY <3>1
    <3> QED  BY <3>1, <3>2 DEF Tag
  <2>6. AbstractList!Bind(Tag)
    BY <1>2, <2>4 DEF AbstractList!Bind, Active, Got
  <2> QED  BY <2>5, <2>6
<1>5. CASE bound' = <<>>
  <2>1. TagsOf(bound') = <<>>
    BY <1>5 DEF TagsOf
  <2> QED  BY <1>2, <2>1 DEF AbstractList!Clear, Active, Got
<1>6. CASE bound' = bound
  <2>1. TagsOf(bound') = TagsOf(bound)
    BY <1>6
  <2> QED  BY <1>2, <2>1 DEF AbstractList!avars, Active, Got
<1> QED  BY <1>3, <1>4, <1>5, <1>6

(* A call gives its target the list as it is. *)
LEMMA CallImplements ==
  ASSUME RoundtripIInv, RoundtripIInv', CallsPlaced, CallsPlaced', Enter
  PROVE  AbstractList!Call
<1> DEFINE k   == Len(handlers)
           new == [given |-> TagsOf(bound), got |-> <<>>]
<1>1. ActiveSequence /\ ActiveSequence'
  BY ProgressFollows, ProgressFollowsNext, ActiveTyped, ActiveTypedNext
<1>2. \E f : frames' = Append(frames, f) /\ f.args = bound
  BY DEF Enter, dcCall, dcCallAggr, KernelFrame
<1>3. \E h : handlers' = Append(handlers, h) /\ h.got = <<>>
  BY DEF Enter
<1>4. bound' = bound /\ bound \in Seq(Args)
  BY DEF Enter, dcCall, dcCallAggr, RoundtripIInv, IInv, TypeOK
<1>5. PICK f : frames' = Append(frames, f) /\ f.args = bound
  BY <1>2
<1>6. PICK h : handlers' = Append(handlers, h) /\ h.got = <<>>
  BY <1>3
<1>7. /\ handlers \in Seq(Handlers) /\ frames \in Seq(KernelFrames)
      /\ k \in Nat /\ Len(frames) = k
      /\ DOMAIN handlers = 1 .. k /\ DOMAIN frames = 1 .. k
  BY DEF RoundtripIInv, CallSide, IInv, TypeOK
<1>8. /\ Len(handlers') = k + 1 /\ handlers'[k + 1] = h
      /\ \A d \in 1 .. k : handlers'[d] = handlers[d]
  BY <1>6, <1>7
<1>9. /\ frames'[k + 1] = f
      /\ \A d \in 1 .. k : frames'[d] = frames[d]
  BY <1>5, <1>7
<1>10. /\ Active \in Seq(Progresses) /\ Len(Active) = k
       /\ \A d \in 1 .. k : Active[d] = Progress(frames[d].args, Len(handlers[d].got))
  BY <1>1 DEF ActiveSequence
<1>11. /\ Active' \in Seq(Progresses) /\ Len(Active') = k + 1
       /\ \A d \in 1 .. k + 1 : Active'[d] = Progress(frames'[d].args, Len(handlers'[d].got))
  BY <1>1, <1>8 DEF ActiveSequence
<1>12. new = Progress(bound, 0) /\ new \in Progresses
  BY <1>4, <1>7, ProgressTyped
<1> HIDE DEF k, new, Active
<1>13. k + 1 \in 1 .. k + 1 /\ \A d \in 1 .. k : d \in 1 .. k + 1
  BY <1>7
<1>14. Active'[k + 1] = new
  <2>1. frames'[k + 1].args = bound /\ Len(handlers'[k + 1].got) = 0
    BY <1>5, <1>6, <1>8, <1>9
  <2> QED  BY <1>11, <1>12, <1>13, <2>1
<1>15. \A d \in 1 .. k : Active'[d] = Active[d]
  BY <1>8, <1>9, <1>10, <1>11, <1>13
<1>16. /\ Append(Active, new) \in Seq(Progresses) /\ Len(Append(Active, new)) = k + 1
       /\ \A d \in 1 .. k : Append(Active, new)[d] = Active[d]
       /\ Append(Active, new)[k + 1] = new
  BY <1>10, <1>12, AppendProperties
<1>17. \A d \in 1 .. k + 1 : Active'[d] = Append(Active, new)[d]
  BY <1>7, <1>14, <1>15, <1>16, LastIndex
<1>18. Active' = Append(Active, new)
  BY <1>11, <1>16, <1>17, SeqEqual
<1> QED  BY <1>4, <1>18 DEF AbstractList!Call, Active, Got, new

(* A target that returns leaves the calls before its own as they are. *)
LEMMA LeaveImplements ==
  ASSUME RoundtripIInv, RoundtripIInv', CallsPlaced, CallsPlaced', HandlerReturn
  PROVE  AbstractList!Leave
<1> DEFINE k == Len(handlers)
           t == SubSeq(Active, 1, Len(Active) - 1)
<1>1. ActiveSequence /\ ActiveSequence'
  BY ProgressFollows, ProgressFollowsNext, ActiveTyped, ActiveTypedNext
<1>2. /\ bound' = bound /\ frames # <<>>
      /\ frames' = SubSeq(frames, 1, Len(frames) - 1)
      /\ handlers' = SubSeq(handlers, 1, k - 1)
  BY DEF HandlerReturn, Return
<1>3. /\ handlers \in Seq(Handlers) /\ frames \in Seq(KernelFrames)
      /\ k \in Nat /\ Len(frames) = k
  BY DEF RoundtripIInv, CallSide, IInv, TypeOK
<1>4. k # 0 /\ handlers # <<>>
  BY <1>2, <1>3
<1>5. /\ Len(handlers') = k - 1
      /\ \A d \in 1 .. k - 1 : handlers'[d] = handlers[d] /\ d \in 1 .. k
  BY <1>2, <1>3, <1>4, Shortened
<1>6. \A d \in 1 .. k - 1 : frames'[d] = frames[d]
  BY <1>2, <1>3, Shortened
<1>7. /\ Active \in Seq(Progresses) /\ Len(Active) = k
      /\ \A d \in 1 .. k : Active[d] = Progress(frames[d].args, Len(handlers[d].got))
  BY <1>1 DEF ActiveSequence
<1>8. /\ Active' \in Seq(Progresses) /\ Len(Active') = k - 1
      /\ \A d \in 1 .. k - 1 : Active'[d] = Progress(frames'[d].args, Len(handlers'[d].got))
  BY <1>1, <1>5 DEF ActiveSequence
<1> HIDE DEF k, Active
<1>9. Active # <<>>
  BY <1>4, <1>7
<1>10. /\ t \in Seq(Progresses) /\ Len(t) = k - 1
       /\ \A d \in 1 .. k - 1 : t[d] = Active[d]
  BY <1>7, <1>9, Shortened
<1>11. \A d \in 1 .. k - 1 : Active'[d] = t[d]
  BY <1>5, <1>6, <1>7, <1>8, <1>10
<1> HIDE DEF t
<1>12. Active' = t
  BY <1>8, <1>10, <1>11, SeqEqual
<1> QED  BY <1>2, <1>9, <1>12 DEF AbstractList!Leave, Active, Got, t

(* A fetch takes the next element of the list its call was given. *)
LEMMA FetchImplements ==
  ASSUME RoundtripIInv, RoundtripIInv', CallsPlaced, CallsPlaced', Fetch
  PROVE  AbstractList!Fetch
<1> DEFINE k   == Len(handlers)
           n   == Len(handlers[k].got)
           top == Active[Len(Active)]
           new == [top EXCEPT !.got = Append(@, top.given[Len(top.got) + 1])]
<1>1. ActiveSequence /\ ActiveSequence'
  BY ProgressFollows, ProgressFollowsNext, ActiveTyped, ActiveTypedNext
<1>2. /\ handlers # <<>> /\ n + 1 <= Len(frames[k].args)
      /\ frames' = frames /\ bound' = bound
      /\ \E x, v : handlers' = [handlers EXCEPT ![k] =
                                  [args |-> x, got |-> Append(handlers[k].got, v)]]
  BY DEF Fetch, vars
<1>3. PICK x, v : handlers' = [handlers EXCEPT ![k] =
                                 [args |-> x, got |-> Append(handlers[k].got, v)]]
  BY <1>2
<1>4. /\ handlers \in Seq(Handlers) /\ handlers' \in Seq(Handlers)
      /\ k \in Nat /\ DOMAIN handlers = 1 .. k
  BY DEF RoundtripIInv, CallSide
<1>5. k \in 1 .. k
  BY <1>2, <1>4
<1>6. /\ frames[k].args \in Seq(Args) /\ n \in Nat
      /\ Active \in Seq(Progresses) /\ Len(Active) = k
      /\ \A d \in 1 .. k : Active[d] = Progress(frames[d].args, Len(handlers[d].got))
  BY <1>1, <1>5 DEF ActiveSequence
<1>7. /\ Len(handlers') = k
      /\ \A d \in 1 .. k : d # k => handlers'[d] = handlers[d]
      /\ handlers'[k].got = Append(handlers[k].got, v)
  <2> DEFINE g == [args |-> x, got |-> Append(handlers[k].got, v)]
  <2>1. handlers' = [handlers EXCEPT ![k] = g] /\ g.got = Append(handlers[k].got, v)
    BY <1>3
  <2> HIDE DEF g, k
  <2> QED  BY <1>4, <1>5, <2>1
<1>8. Len(handlers'[k].got) = n + 1
  <2>1. handlers[k] \in Handlers
    BY <1>4, <1>5
  <2>2. handlers[k].got \in Seq(Seq(Pieces)) /\ handlers'[k].got = Append(handlers[k].got, v)
    BY <1>7, <2>1 DEF Handlers
  <2> QED  BY <2>2
<1>9. /\ Active' \in Seq(Progresses) /\ Len(Active') = k
      /\ \A d \in 1 .. k : Active'[d] = Progress(frames'[d].args, Len(handlers'[d].got))
  BY <1>1, <1>7 DEF ActiveSequence
<1>10. top = Progress(frames[k].args, n) /\ Active'[k] = Progress(frames[k].args, n + 1)
  BY <1>2, <1>5, <1>6, <1>8, <1>9
<1> HIDE DEF k, n, Active, top, new
<1>11. /\ top \in Progresses /\ Len(top.got) = n /\ Len(top.given) = Len(frames[k].args)
       /\ Active'[k] = [given |-> TagsOf(frames[k].args),
                        got   |-> Append(top.got, top.given[n + 1])]
       /\ top.given = TagsOf(frames[k].args)
  <2> DEFINE args == frames[k].args
             now  == Progress(args, n)
  <2>1. now.given = TagsOf(args)
    BY DEF Progress
  <2>2. /\ now \in Progresses /\ Len(now.got) = n /\ Len(now.given) = Len(args)
        /\ now.given[n + 1] = args[n + 1].tag
        /\ Progress(args, n + 1) =
             [given |-> TagsOf(args), got |-> Append(now.got, args[n + 1].tag)]
    BY <1>2, <1>6, ProgressMade
  <2>3. top = now /\ Active'[k] = Progress(args, n + 1)
    BY <1>10
  <2> HIDE DEF now, args
  <2>4. Active'[k] = [given |-> TagsOf(args), got |-> Append(top.got, top.given[n + 1])]
    BY <2>2, <2>3
  <2> QED  BY <2>1, <2>2, <2>3, <2>4 DEF args
<1>12. Active'[k] = new /\ new \in Progresses
  <2>1. new = [given |-> top.given, got |-> Append(top.got, top.given[n + 1])]
    <3>1. \A y : [top EXCEPT !.got = y] = [given |-> top.given, got |-> y]
      BY <1>11 DEF Progresses
    <3> QED  BY <1>11, <3>1 DEF new
  <2>2. Active'[k] \in Progresses
    BY <1>5, <1>9
  <2> QED  BY <1>11, <2>1, <2>2
<1> HIDE DEF new
<1>13. \A d \in 1 .. k : d # k => Active'[d] = Active[d]
  BY <1>2, <1>6, <1>7, <1>9
<1> DEFINE t == [Active EXCEPT ![k] = new]
<1>14. /\ t \in Seq(Progresses) /\ Len(t) = k
       /\ \A d \in 1 .. k : t[d] = IF d = k THEN new ELSE Active[d]
  BY <1>4, <1>5, <1>6, <1>12
<1> HIDE DEF t
<1>15. \A d \in 1 .. k : Active'[d] = t[d]
  BY <1>12, <1>13, <1>14
<1>16. Active' = t
  BY <1>9, <1>14, <1>15, SeqEqual
<1>17. Active # <<>> /\ Len(Active) = k /\ Len(top.got) < Len(top.given)
  <2>1. Len(frames[k].args) \in Nat
    BY <1>6
  <2> QED  BY <1>2, <1>5, <1>6, <1>11, <2>1
<1>18. Active' = [Active EXCEPT ![Len(Active)] = new]
  BY <1>16, <1>17 DEF t
<1>19. /\ Active # <<>>
       /\ Len(Active[Len(Active)].got) < Len(Active[Len(Active)].given)
       /\ Active' = [Active EXCEPT ![Len(Active)].got =
                       Append(@, Active[Len(Active)].given[Len(Active[Len(Active)].got) + 1])]
  BY <1>17, <1>18 DEF new, top
<1> QED  BY <1>2, <1>19 DEF AbstractList!Fetch, Active, Got

-----------------------------------------------------------------------------
(* The theorem.                                                            *)

(* A target called with a list of placed arguments keeps it. *)
LEMMA CallsStayPlaced ==
  ASSUME RoundtripIInv, BoundPlaced, CallsPlaced, [RoundtripNext]_rvars
  PROVE  CallsPlaced'
<1>1. /\ frames \in Seq(KernelFrames) /\ DOMAIN frames = 1 .. Len(frames) /\ Len(frames) \in Nat
  BY DEF RoundtripIInv, IInv, TypeOK
<1>2. CASE UNCHANGED frames
  BY <1>2 DEF CallsPlaced
<1>3. CASE Enter
  <2>1. PICK f : frames' = Append(frames, f) /\ f.args = bound
    BY <1>3 DEF Enter, dcCall, dcCallAggr, KernelFrame
  <2>2. /\ DOMAIN frames' = 1 .. Len(frames) + 1 /\ frames'[Len(frames) + 1] = f
        /\ \A d \in 1 .. Len(frames) : frames'[d] = frames[d]
    BY <1>1, <2>1
  <2>3. ASSUME NEW d \in 1 .. Len(frames) + 1
        PROVE  AllPlaced(frames'[d].args)
    <3>1. CASE d = Len(frames) + 1
      BY <2>1, <2>2, <3>1 DEF BoundPlaced
    <3>2. CASE d \in 1 .. Len(frames)
      BY <1>1, <2>2, <3>2 DEF CallsPlaced
    <3> QED  BY <1>1, <3>1, <3>2, LastIndex
  <2> QED  BY <2>2, <2>3 DEF CallsPlaced
<1>4. CASE HandlerReturn
  <2>1. frames # <<>> /\ frames' = SubSeq(frames, 1, Len(frames) - 1)
    BY <1>4 DEF HandlerReturn, Return
  <2>2. /\ DOMAIN frames' = 1 .. Len(frames) - 1
        /\ \A d \in 1 .. Len(frames) - 1 : d \in DOMAIN frames /\ frames'[d] = frames[d]
    BY <1>1, <2>1, Shortened
  <2> QED  BY <2>2 DEF CallsPlaced
<1>5. BindStep \/ Fetch \/ UNCHANGED rvars => UNCHANGED frames
  BY DEF BindStep, dcArgLongLong, dcArgPointer, dcArgDouble, dcArgAggr, Bind,
         dcBeginCallAggr, dcReset, dcMode, Fetch, rvars, vars
<1> QED  BY <1>2, <1>3, <1>4, <1>5 DEF RoundtripNext

(* Initially no argument is bound and no call in progress. *)
LEMMA InitImplements == RoundtripInit => AbstractList!Init /\ CallsPlaced
<1> SUFFICES ASSUME RoundtripInit  PROVE AbstractList!Init /\ CallsPlaced
  OBVIOUS
<1>1. bound = <<>> /\ frames = <<>> /\ handlers = <<>>
  BY DEF RoundtripInit, Init
<1>2. TagsOf(bound) = <<>> /\ Active = <<>> /\ DOMAIN frames = {}
  BY <1>1 DEF TagsOf, Active
<1> QED  BY <1>2 DEF AbstractList!Init, Active, Got, CallsPlaced

(* Every step is one of ArgList's, or none. *)
LEMMA StepImplements ==
  ASSUME RoundtripIInv, RoundtripIInv', CallsPlaced, CallsPlaced', [RoundtripNext]_rvars
  PROVE  [AbstractList!Next]_(AbstractList!avars)
<1>1. CASE BindStep
  BY <1>1, BindImplements DEF AbstractList!Next
<1>2. CASE Enter
  BY <1>2, CallImplements DEF AbstractList!Next
<1>3. CASE Fetch
  BY <1>3, FetchImplements DEF AbstractList!Next
<1>4. CASE HandlerReturn
  BY <1>4, LeaveImplements DEF AbstractList!Next
<1>5. CASE UNCHANGED rvars
  <2>1. TagsOf(bound') = TagsOf(bound) /\ Active' = Active
    BY <1>5 DEF rvars, vars, Active, Got
  <2> QED  BY <2>1 DEF AbstractList!avars, Active, Got
<1> QED  BY <1>1, <1>2, <1>3, <1>4, <1>5 DEF RoundtripNext

(* A call through registers, stack and thunk is a call with a list: every  *)
(* step of caller and callee is one of ArgList's or is not seen there, as  *)
(* long as the program binds only arguments that find a place.             *)
THEOREM RoundtripIsACall == RoundtripSpec /\ []BoundPlaced => ImplementsArgList
<1>1. RoundtripInit => AbstractList!Init /\ CallsPlaced
  BY InitImplements
<1>2. RoundtripIInv /\ BoundPlaced /\ CallsPlaced /\ [RoundtripNext]_rvars => CallsPlaced'
  BY CallsStayPlaced
<1>3. RoundtripIInv /\ RoundtripIInv' /\ CallsPlaced /\ CallsPlaced' /\ [RoundtripNext]_rvars
        => [AbstractList!Next]_(AbstractList!avars)
  BY StepImplements
<1> QED  BY <1>1, <1>2, <1>3, RoundtripInvariance, PTL
         DEF RoundtripSpec, ImplementsArgList, AbstractList!Spec

-----------------------------------------------------------------------------
(* When every argument finds a place.                                      *)

(* Each argument takes a slot of the vector at most. *)
Roomy(slot) ==
  /\ slot \in Nat /\ slot >= 8
  /\ \A ag \in Aggrs : Classes[ag] # <<>> /\ RoundUp8(Size[ag]) <= slot
  /\ MaxArgs * slot <= VecTotal

(* From s to t something was bound in room to spare. *)
PlacedIn(s, t, homes, slot) ==
  s.vecSize + slot <= VecTotal =>
    homes # <<>> /\ KeptAll(homes) /\ t.vecSize <= s.vecSize + slot

LEMMA SlotArithmetic ==
  ASSUME NEW n \in Nat, NEW max \in Nat, n < max, NEW slot \in Nat, NEW total \in Nat,
         max * slot <= total, NEW v \in Nat, v <= n * slot
  PROVE  /\ v + slot <= total
         /\ (n + 1) * slot = n * slot + slot /\ n * slot \in Nat
<1>1. n + 1 <= max /\ n * slot \in Nat
  OBVIOUS
<1>2. (n + 1) * slot = n * slot + slot
  OBVIOUS
<1>3. PICK j \in Nat : max = n + 1 + j
  <2>1. max - (n + 1) \in Nat /\ max = n + 1 + (max - (n + 1))
    BY <1>1
  <2> QED  BY <2>1
<1>4. max * slot = n * slot + slot + j * slot /\ j * slot \in Nat
  BY <1>3
<1> QED  BY <1>1, <1>2, <1>4

(* A home, and the bytes it takes. *)
LEMMA StackRoom ==
  ASSUME NEW s \in VMs, NEW len \in Nat, NEW x, Fits(s, len)
  PROVE  /\ StackHome(s, len).bank # "lost"
         /\ dcVecAppend(s, len, x).vecSize = s.vecSize + len
<1>1. StackHome(s, len).bank # "lost"
  BY DEF StackHome, Home
<1>2. dcVecAppend(s, len, x)
        = [s EXCEPT !.vec = Append(@, [at |-> s.vecSize, len |-> len, val |-> x]),
                    !.vecSize = @ + len]
  BY DEF dcVecAppend
<1> QED  BY <1>1, <1>2 DEF VMs

LEMMA IntRoom ==
  ASSUME NEW s \in VMs, NEW x \in Pieces
  PROVE  /\ NextIntReg(s) < NumIntRegs => ArgLongLong(s, x).vecSize = s.vecSize
         /\ s.vecSize + 8 <= VecTotal => /\ IntHome(s).bank # "lost"
                                         /\ ArgLongLong(s, x).vecSize <= s.vecSize + 8
<1> DEFINE k == NextIntReg(s)
<1>1. s.vecSize \in Nat
  BY DEF VMs
<1>2. CASE k < NumIntRegs
  <2>1. ArgLongLong(s, x) = [s EXCEPT !.iRegs[k] = x, !.iCount = k + 1]
        /\ IntHome(s) = Home("int", k)
    BY <1>2 DEF ArgLongLong, IntHome
  <2> HIDE DEF k
  <2>2. ArgLongLong(s, x).vecSize = s.vecSize
    BY <2>1 DEF VMs
  <2> QED  BY <1>1, <2>1, <2>2 DEF Home
<1>3. CASE ~(k < NumIntRegs)
  <2> DEFINE u == [s EXCEPT !.iCount = k]
  <2>1. ArgLongLong(s, x) = dcVecAppend(u, 8, x) /\ IntHome(s) = StackHome(s, 8)
    BY <1>3 DEF ArgLongLong, IntHome
  <2>2. k \in 0 .. NumIntRegs
    BY NextIntRegRange
  <2> HIDE DEF k
  <2>3. u \in VMs /\ u.vecSize = s.vecSize
    BY <2>2, CountWrite DEF VMs
  <2> HIDE DEF u
  <2>4. ASSUME s.vecSize + 8 <= VecTotal
        PROVE  /\ IntHome(s).bank # "lost"
               /\ ArgLongLong(s, x).vecSize = s.vecSize + 8
    <3>1. Fits(s, 8) /\ Fits(u, 8)
      BY <2>3, <2>4 DEF Fits
    <3> QED  BY <2>1, <2>3, <3>1, StackRoom
  <2> QED  BY <1>1, <1>3, <2>4 DEF k
<1> QED  BY <1>2, <1>3

LEMMA FloatRoom ==
  ASSUME NEW s \in VMs, NEW x \in Pieces
  PROVE  /\ s.fCount < NumFloatRegs => ArgDouble(s, x).vecSize = s.vecSize
         /\ s.vecSize + 8 <= VecTotal => /\ FloatHome(s).bank # "lost"
                                         /\ ArgDouble(s, x).vecSize <= s.vecSize + 8
<1>1. s.vecSize \in Nat
  BY DEF VMs
<1>2. CASE s.fCount < NumFloatRegs
  <2>1. ArgDouble(s, x) = [s EXCEPT !.fRegs[s.fCount] = x, !.fCount = @ + 1]
        /\ FloatHome(s) = Home("float", s.fCount)
    BY <1>2 DEF ArgDouble, FloatHome
  <2>2. ArgDouble(s, x).vecSize = s.vecSize
    BY <2>1 DEF VMs
  <2> QED  BY <1>1, <2>1, <2>2 DEF Home
<1>3. CASE ~(s.fCount < NumFloatRegs)
  <2>1. ArgDouble(s, x) = dcVecAppend(s, 8, x) /\ FloatHome(s) = StackHome(s, 8)
    BY <1>3 DEF ArgDouble, FloatHome
  <2>2. ASSUME s.vecSize + 8 <= VecTotal
        PROVE  /\ FloatHome(s).bank # "lost"
               /\ ArgDouble(s, x).vecSize = s.vecSize + 8
    <3>1. Fits(s, 8)
      BY <2>2 DEF Fits
    <3> QED  BY <2>1, <3>1, StackRoom
  <2> QED  BY <1>1, <1>3, <2>2
<1> QED  BY <1>2, <1>3

(* An eightbyte that has a register takes no room. *)
LEMMA EightbyteRoom ==
  ASSUME NEW s \in VMs, NEW clz \in RegClass, NEW x \in Pieces,
         clz = "INTEGER" => NextIntReg(s) < NumIntRegs,
         clz = "SSE" => s.fCount < NumFloatRegs
  PROVE  /\ ArgEightbyte(s, clz, x).vecSize = s.vecSize
         /\ ArgEightbyte(s, clz, x) \in VMs
         /\ ArgEightbyte(s, clz, x).aggrReturnReg = s.aggrReturnReg
         /\ EightbyteHome(s, clz).bank # "lost"
<1>1. Takes(s, ArgEightbyte(s, clz, x), EightbyteHome(s, clz), x)
      /\ EightbyteHome(s, clz).bank \in {"int", "float"}
  BY EightbyteTakes
<1>2. CASE clz = "INTEGER"
  <2>1. ArgEightbyte(s, clz, x) = ArgLongLong(s, x)
    BY <1>2 DEF ArgEightbyte
  <2> QED  BY <1>1, <1>2, <2>1, IntRoom DEF Takes, Keeps
<1>3. CASE clz = "SSE"
  <2>1. ArgEightbyte(s, clz, x) = ArgDouble(s, x)
    BY <1>3 DEF ArgEightbyte
  <2> QED  BY <1>1, <1>3, <2>1, FloatRoom DEF Takes, Keeps
<1> QED  BY <1>2, <1>3 DEF RegClass

LEMMA AggrRoom ==
  ASSUME NEW s \in VMs, NEW ag \in Aggrs, NEW tag \in Tags, NEW slot \in Nat,
         Classes[ag] # <<>>, RoundUp8(Size[ag]) <= slot
  PROVE  PlacedIn(s, ArgAggr(s, ag, tag), AggrHomes(s, ag, tag), slot)
<1> DEFINE homes == AggrHomes(s, ag, tag)
           t == ArgAggr(s, ag, tag)
           c == Classes[ag][1]
           d == Classes[ag][2]
<1>1. <<tag, 1>> \in Pieces /\ <<tag, 2>> \in Pieces /\ <<tag, 0>> \in Pieces /\ s.vecSize \in Nat
  BY DEF Pieces, VMs
<1>2. CASE PassedOnStack(s, ag)
  <2> DEFINE len == Size[ag]
             pad == RoundUp8(len) - len
             g == StackHome(s, len)
             u == dcVecAppend(s, len, <<tag, 0>>)
  <2>1. homes = <<g>> /\ t = dcVecSkip(u, pad)
    BY <1>2 DEF AggrHomes, ArgAggr
  <2>2. len \in Nat
    BY ClassCases
  <2> HIDE DEF len
  <2>3. RoundUp8(len) \in Nat /\ len <= RoundUp8(len) /\ pad \in Nat /\ len + pad = RoundUp8(len)
    BY <2>2 DEF RoundUp8
  <2> HIDE DEF pad, homes, t
  <2> SUFFICES ASSUME s.vecSize + slot <= VecTotal
               PROVE  homes # <<>> /\ KeptAll(homes) /\ t.vecSize <= s.vecSize + slot
    BY DEF PlacedIn, homes, t
  <2>4. RoundUp8(len) <= slot
    BY DEF len
  <2>5. Fits(s, len)
    BY <1>1, <2>2, <2>3, <2>4, VecTotalNat DEF Fits
  <2>6. g.bank # "lost" /\ u.vecSize = s.vecSize + len
    BY <2>2, <2>5, StackRoom
  <2>7. u \in VMs
    BY <1>1, <2>2, AppendTakes DEF Takes
  <2> HIDE DEF g, u
  <2>8. t.vecSize = u.vecSize + pad
    BY <2>1, <2>7 DEF dcVecSkip, VMs
  <2>9. t.vecSize <= s.vecSize + slot
    BY <1>1, <2>2, <2>3, <2>4, <2>6, <2>8
  <2> QED  BY <2>1, <2>6, <2>9 DEF KeptAll
<1>3. CASE ~PassedOnStack(s, ag) /\ Eightbytes(ag) = 0
  <2>1. Classes[ag] = <<>>
    BY <1>3, SysVAssumption DEF Eightbytes
  <2> QED  BY <2>1
<1>4. CASE ~PassedOnStack(s, ag) /\ Eightbytes(ag) = 1
  <2> DEFINE g == EightbyteHome(s, c)
  <2>1. t = ArgEightbyte(s, c, <<tag, 1>>) /\ homes = <<g>>
    BY <1>4 DEF ArgAggr, AggrHomes, ArgFirst
  <2>2. c \in RegClass
    BY <1>4, ClassCases DEF PassedOnStack
  <2> HIDE DEF t, g, homes
  <2>3. t.vecSize = s.vecSize /\ g.bank # "lost"
    BY <1>1, <1>4, <2>1, <2>2, RoomFirst, EightbyteRoom DEF g
  <2>4. homes # <<>> /\ KeptAll(homes) /\ t.vecSize <= s.vecSize + slot
    BY <1>1, <2>1, <2>3 DEF KeptAll
  <2> QED  BY <2>4 DEF PlacedIn, t, homes
<1>5. CASE ~PassedOnStack(s, ag) /\ Eightbytes(ag) = 2
  <2> DEFINE u == ArgEightbyte(s, c, <<tag, 1>>)
             g == EightbyteHome(s, c)
             h == EightbyteHome(u, d)
  <2>1. t = ArgEightbyte(u, d, <<tag, 2>>) /\ homes = <<g, h>>
    BY <1>5 DEF ArgAggr, AggrHomes, ArgFirst, ArgSecond
  <2>2. c \in RegClass /\ d \in RegClass
    BY <1>5, ClassCases DEF PassedOnStack
  <2>3. /\ c = "INTEGER" => NextIntReg(s) < NumIntRegs
        /\ c = "SSE" => s.fCount < NumFloatRegs
    BY <1>5, RoomFirst
  <2> HIDE DEF t, homes
  <2>4. /\ u.vecSize = s.vecSize /\ g.bank # "lost"
        /\ u \in VMs /\ u.aggrReturnReg = s.aggrReturnReg
    BY <1>1, <2>2, <2>3, EightbyteRoom
  <2>5. /\ c = "INTEGER" => u.iCount = NextIntReg(s) + 1 /\ u.fCount = s.fCount
        /\ c = "SSE" => u.iCount = s.iCount /\ u.fCount = s.fCount + 1
    BY <1>1, <2>2, <2>3, EightbyteTakes
  <2> HIDE DEF u, g
  <2>6. /\ d = "INTEGER" => NextIntReg(u) < NumIntRegs
        /\ d = "SSE" => u.fCount < NumFloatRegs
    BY <1>5, <2>2, <2>4, <2>5, RoomSecond
  <2>7. t.vecSize = u.vecSize /\ h.bank # "lost"
    BY <1>1, <2>1, <2>2, <2>4, <2>6, EightbyteRoom
  <2> HIDE DEF h
  <2>8. homes # <<>> /\ KeptAll(homes) /\ t.vecSize <= s.vecSize + slot
    BY <1>1, <2>1, <2>4, <2>7 DEF KeptAll
  <2> QED  BY <2>8 DEF PlacedIn, t, homes
<1>6. ~PassedOnStack(s, ag) => Eightbytes(ag) \in {0, 1, 2}
  BY ClassCases DEF PassedOnStack
<1> QED  BY <1>2, <1>3, <1>4, <1>5, <1>6

HasRoom == \E slot : Roomy(slot)

RoomInv == \E slot : Roomy(slot) /\ vm.vecSize <= Len(bound) * slot /\ BoundPlaced

(* An argument bound in room to spare is placed, and leaves room. *)
LEMMA BindKeepsRoom ==
  ASSUME IInv, IInv', NEW slot, Roomy(slot), vm.vecSize <= Len(bound) * slot, BoundPlaced,
         NEW type, NEW homes, Bind(type, homes), PlacedIn(vm, vm', homes, slot)
  PROVE  vm'.vecSize <= Len(bound') * slot /\ BoundPlaced'
<1> DEFINE arg == [type |-> type, tag |-> Tag, at |-> homes]
           k   == Len(bound)
<1>1. bound' = Append(bound, arg) /\ k < MaxArgs /\ arg.at = homes
  BY DEF Bind
<1> HIDE DEF arg
<1>2. bound \in Seq(Args) /\ bound' \in Seq(Args) /\ vm \in VMs /\ vm' \in VMs
  BY DEF IInv, TypeOK
<1>3. arg \in Args
  BY <1>1, <1>2, LastTyped
<1>4. /\ Len(bound') = k + 1 /\ k \in Nat /\ DOMAIN bound = 1 .. k /\ DOMAIN bound' = 1 .. k + 1
      /\ \A n \in 1 .. k : bound'[n] = bound[n]
      /\ bound'[k + 1] = arg
  BY <1>1, <1>2, <1>3, OneMore
<1> HIDE DEF k
<1>5. vm.vecSize \in Nat /\ vm'.vecSize \in Nat
  BY <1>2 DEF VMs
<1>6. slot \in Nat /\ MaxArgs * slot <= VecTotal /\ MaxArgs \in Nat /\ VecTotal \in Nat
  BY VecTotalNat, CallVMAssumption DEF Roomy
<1>7. /\ vm.vecSize + slot <= VecTotal
      /\ (k + 1) * slot = k * slot + slot /\ k * slot \in Nat
  BY <1>1, <1>4, <1>5, <1>6, SlotArithmetic DEF k
<1>8. homes # <<>> /\ KeptAll(homes) /\ vm'.vecSize <= vm.vecSize + slot
  BY <1>7 DEF PlacedIn
<1>9. vm'.vecSize <= Len(bound') * slot
  <2>1. vm.vecSize <= k * slot
    BY DEF k
  <2>2. vm'.vecSize <= k * slot + slot
    BY <1>5, <1>6, <1>7, <1>8, <2>1
  <2> QED  BY <1>4, <1>7, <2>2
<1>10. BoundPlaced'
  <2> SUFFICES ASSUME NEW n \in 1 .. k + 1
               PROVE  bound'[n].at # <<>> /\ KeptAll(bound'[n].at)
    BY <1>4 DEF BoundPlaced, AllPlaced
  <2>1. CASE n = k + 1
    BY <1>1, <1>4, <1>8, <2>1
  <2>2. CASE n \in 1 .. k
    BY <1>4, <2>2 DEF BoundPlaced, AllPlaced
  <2> QED  BY <1>4, <2>1, <2>2, LastIndex
<1> QED  BY <1>9, <1>10

(* No other step takes room. *)
LEMMA NextKeepsRoom ==
  ASSUME IInv, IInv', RoomInv, [RoundtripNext]_rvars
  PROVE  RoomInv'
<1>1. PICK slot : Roomy(slot) /\ vm.vecSize <= Len(bound) * slot /\ BoundPlaced
  BY DEF RoomInv
<1>2. /\ vm \in VMs /\ Tag \in Tags /\ <<Tag, 1>> \in Pieces
      /\ vm.vecSize \in Nat /\ slot \in Nat /\ slot >= 8
  <2>1. vm \in VMs /\ Tag \in Tags
    BY DEF IInv, TypeOK, Tag, Tags
  <2> QED  BY <1>1, <2>1 DEF VMs, Pieces, Roomy
<1> SUFFICES vm'.vecSize <= Len(bound') * slot /\ BoundPlaced'
  BY <1>1 DEF RoomInv
<1>3. ASSUME NEW type, NEW homes, Bind(type, homes), PlacedIn(vm, vm', homes, slot)
      PROVE  vm'.vecSize <= Len(bound') * slot /\ BoundPlaced'
  BY <1>1, <1>3, BindKeepsRoom
<1>4. ASSUME NEW g, g.bank # "lost"
      PROVE  <<g>> # <<>> /\ KeptAll(<<g>>)
  BY <1>4 DEF KeptAll
<1>5. PlacedIn(vm, ArgLongLong(vm, <<Tag, 1>>), <<IntHome(vm)>>, slot)
  <2> SUFFICES ASSUME vm.vecSize + slot <= VecTotal
               PROVE  /\ IntHome(vm).bank # "lost"
                      /\ ArgLongLong(vm, <<Tag, 1>>).vecSize <= vm.vecSize + slot
    BY <1>4 DEF PlacedIn
  <2>1. vm.vecSize + 8 <= VecTotal
    BY <1>2, VecTotalNat
  <2>2. ArgLongLong(vm, <<Tag, 1>>).vecSize \in Nat
    BY <1>2, IntTakes DEF Takes, VMs
  <2> QED  BY <1>2, <2>1, <2>2, IntRoom
<1>6. PlacedIn(vm, ArgDouble(vm, <<Tag, 1>>), <<FloatHome(vm)>>, slot)
  <2> SUFFICES ASSUME vm.vecSize + slot <= VecTotal
               PROVE  /\ FloatHome(vm).bank # "lost"
                      /\ ArgDouble(vm, <<Tag, 1>>).vecSize <= vm.vecSize + slot
    BY <1>4 DEF PlacedIn
  <2>1. vm.vecSize + 8 <= VecTotal
    BY <1>2, VecTotalNat
  <2>2. ArgDouble(vm, <<Tag, 1>>).vecSize \in Nat
    BY <1>2, FloatTakes DEF Takes, VMs
  <2> QED  BY <1>2, <2>1, <2>2, FloatRoom
<1>7. CASE dcArgLongLong \/ dcArgPointer
  <2>1. Bind("int", <<IntHome(vm)>>) /\ vm' = ArgLongLong(vm, <<Tag, 1>>)
    BY <1>2, <1>7, IntTakes DEF dcArgLongLong, dcArgPointer
  <2> QED  BY <1>3, <1>5, <2>1
<1>8. CASE dcArgDouble
  BY <1>3, <1>6, <1>8 DEF dcArgDouble
<1>9. ASSUME NEW ag \in Aggrs \cup {NullAggr}, dcArgAggr(ag)
      PROVE  vm'.vecSize <= Len(bound') * slot /\ BoundPlaced'
  <2>1. CASE ag = NullAggr
    <3>1. Bind(ag, <<IntHome(vm)>>) /\ vm' = ArgLongLong(vm, <<Tag, 1>>)
      BY <1>2, <1>9, <2>1, IntTakes DEF dcArgAggr
    <3> QED  BY <1>3, <1>5, <3>1
  <2>2. CASE ag # NullAggr
    <3>1. ag \in Aggrs /\ Bind(ag, AggrHomes(vm, ag, Tag)) /\ vm' = ArgAggr(vm, ag, Tag)
      BY <1>9, <2>2 DEF dcArgAggr
    <3>2. Classes[ag] # <<>> /\ RoundUp8(Size[ag]) <= slot
      BY <1>1, <3>1 DEF Roomy
    <3>3. PlacedIn(vm, ArgAggr(vm, ag, Tag), AggrHomes(vm, ag, Tag), slot)
      BY <1>2, <3>1, <3>2, AggrRoom
    <3> QED  BY <1>3, <3>1, <3>3
  <2> QED  BY <2>1, <2>2
<1>10. CASE dcReset
  <2>1. bound' = <<>> /\ vm'.vecSize = 0
    BY <1>2, <1>10 DEF dcReset, VMs
  <2>2. Len(bound') * slot = 0 /\ DOMAIN bound' = {}
    BY <1>2, <2>1
  <2> QED  BY <2>1, <2>2 DEF BoundPlaced, AllPlaced
<1>11. CASE bound' = bound /\ vm'.vecSize = vm.vecSize
  BY <1>1, <1>11 DEF BoundPlaced
<1>12. ASSUME NEW ag, dcBeginCallAggr(ag)
       PROVE  bound' = bound /\ vm'.vecSize = vm.vecSize
  BY <1>2, <1>12 DEF dcBeginCallAggr, VMs
<1>13. ASSUME NEW mode \in {"C", "other"}, dcMode(mode)
       PROVE  bound' = bound /\ vm'.vecSize = vm.vecSize
  BY <1>2, <1>13 DEF dcMode, VMs
<1>14. Enter \/ Fetch \/ HandlerReturn \/ UNCHANGED rvars
         => bound' = bound /\ vm'.vecSize = vm.vecSize
  BY <1>2 DEF Enter, dcCall, dcCallAggr, Fetch, HandlerReturn, Return, rvars, vars, VMs
<1> QED  BY <1>7, <1>8, <1>9, <1>10, <1>11, <1>12, <1>13, <1>14 DEF RoundtripNext, BindStep

(* A vector with a slot of the largest argument's size for each argument   *)
(* loses none, whatever is bound in which order (dcVecAppend drops what    *)
(* does not fit and says nothing of it).                                   *)
THEOREM RoomSuffices == HasRoom /\ RoundtripSpec => []BoundPlaced
<1>1. HasRoom /\ RoundtripInit => RoomInv
  <2> SUFFICES ASSUME HasRoom, RoundtripInit  PROVE RoomInv
    OBVIOUS
  <2>1. PICK slot : Roomy(slot)
    BY DEF HasRoom
  <2>2. vm.vecSize = 0 /\ bound = <<>>
    BY DEF RoundtripInit, Init, NewCallVM
  <2>3. Len(bound) * slot = 0 /\ DOMAIN bound = {}
    BY <2>1, <2>2 DEF Roomy
  <2> QED  BY <2>1, <2>2, <2>3 DEF RoomInv, BoundPlaced, AllPlaced
<1>2. RoundtripIInv /\ RoundtripIInv' /\ RoomInv /\ [RoundtripNext]_rvars => RoomInv'
  BY NextKeepsRoom DEF RoundtripIInv
<1>3. RoomInv => BoundPlaced
  BY DEF RoomInv
<1> QED  BY <1>1, <1>2, <1>3, RoundtripInvariance, PTL DEF RoundtripSpec

(* With such a vector the roundtrip implements the list of arguments. *)
THEOREM RoundtripImplements == HasRoom /\ RoundtripSpec => ImplementsArgList
BY RoundtripIsACall, RoomSuffices, PTL
=============================================================================
