---------------------------- MODULE Callback_proofs ----------------------------
(***************************************************************************)
(* Proofs about Callback, for any callbacks, signatures and arguments and  *)
(* calls nested as deep as a program likes.                                *)
(*                                                                         *)
(* The argument: as long as a call is not disturbed, the CallVM of its     *)
(* callback holds what the call has converted so far and the callback is   *)
(* live, for two reasons.  Only the innermost call walks its signature;    *)
(* and a call that waits for a conversion is marked as disturbed by the    *)
(* first call or free of its callback.                                     *)
(***************************************************************************)
EXTENDS Callback, FiniteSetTheorems, SequenceTheorems, TLAPS

Phases == {"walk", "convert", "handler"}
Faults == {"none", "write", "freed", "stale"}

CbTypes ==
  [state : {"none", "live", "freed"}, sig : Signatures \cup {<<>>}, vm : Seq(Values)]

FrameTypes ==
  [cb : Handles, call : 1 .. MaxCalls, given : Seq(Kinds), i : Nat, tally : Nat,
   phase : Phases, got : Seq(Values), disturbed : BOOLEAN]

(* Every variable has its type; only the innermost call walks.             *)
Shape ==
  /\ cbs \in [Handles -> CbTypes]
  /\ frames \in Seq(FrameTypes)
  /\ calls \in 0 .. MaxCalls
  /\ fault \in Faults
  /\ \A h \in Handles : cbs[h].state # "none" => cbs[h].sig \in Signatures
  /\ \A d \in DOMAIN frames :
       /\ frames[d].call \in 1 .. calls
       /\ frames[d].phase = "walk" => d = Len(frames)

(* What the n-th argument of a call is converted to. *)
ConvertedAt(sig, f, n) ==
  IF HasFlag(sig[n], ST(f, n).kind) THEN ST(f, n).val ELSE Zero

(* The CallVM holds the arguments that were counted, as long as all of     *)
(* them could be bound.                                                    *)
Filled(c, f) ==
  (\A n \in 1 .. f.tally : c.sig[n] \in Bound)
    => c.vm = [n \in 1 .. f.tally |-> ConvertedAt(c.sig, f, n)]

(* The characters in front of the i-th one, without the void type.         *)
Before(sig, i) == IF i > 1 /\ sig[i - 1] = "v" THEN i - 2 ELSE i - 1

(* A call in progress and its callback. *)
CallOK(c, f) ==
  /\ c.state # "none"
  /\ f.i \in 1 .. EndArg(c.sig)
  /\ f.tally = Before(c.sig, f.i)
  /\ f.phase = "convert" => c.sig[f.i] \in Bound
  /\ f.phase # "handler" /\ ~f.disturbed => c.state = "live" /\ Filled(c, f)
  /\ f.phase = "handler" /\ ~f.disturbed /\ ~Marked(c.sig) => ArrivesAsGiven(c.sig, f)

AllCallsOK == \A d \in DOMAIN frames : CallOK(cbs[frames[d].cb], frames[d])

(* A call that waits while its callback is called again is disturbed.      *)
Apart ==
  \A d, e \in DOMAIN frames :
    d < e /\ frames[d].cb = frames[e].cb /\ frames[d].phase = "convert" => frames[d].disturbed

IInv == Shape /\ Apart /\ (fault # "write" => AllCallsOK) /\ NoUseAfterFree

-----------------------------------------------------------------------------
(* Signatures.                                                             *)

LEMMA SignatureFacts ==
  ASSUME NEW sig \in Signatures
  PROVE  /\ sig \in Seq(STRING)
         /\ EndArg(sig) \in DOMAIN sig /\ sig[EndArg(sig)] = ")"
         /\ EndArg(sig) \in Nat /\ EndArg(sig) >= 1 /\ EndArg(sig) <= Len(sig)
         /\ \A i \in 1 .. EndArg(sig) : sig[i] = ")" => i = EndArg(sig)
         /\ \A i \in 1 .. EndArg(sig) :
              sig[i] = "v" => i = EndArg(sig) - 1 /\ ParamsAt(sig) = {}
<1>1. sig \in Seq(STRING) /\ IsSignature(sig)
  BY CallbackAssumption
<1>2. DOMAIN sig = 1 .. Len(sig) /\ Len(sig) \in Nat
  BY <1>1
<1>3. \E i \in DOMAIN sig : sig[i] = ")"
  <2>1. \E i \in 1 .. Len(sig) - 1 : sig[i] = ")"
    BY <1>1 DEF IsSignature
  <2>2. \A i \in 1 .. Len(sig) - 1 : i \in 1 .. Len(sig)
    BY <1>2
  <2> QED  BY <1>2, <2>1, <2>2
<1>4. EndArg(sig) \in DOMAIN sig /\ sig[EndArg(sig)] = ")"
  BY <1>3 DEF EndArg
<1>5. \A i \in DOMAIN sig : /\ sig[i] = ")" => i = EndArg(sig)
                            /\ sig[i] = "v" /\ i < EndArg(sig)
                                 => i = EndArg(sig) - 1 /\ ParamsAt(sig) = {}
  BY <1>1 DEF IsSignature
<1>6. EndArg(sig) \in 1 .. Len(sig)
  BY <1>2, <1>4
<1>7. \A i \in 1 .. EndArg(sig) : sig[i] = "v" => i = EndArg(sig) - 1 /\ ParamsAt(sig) = {}
  <2> SUFFICES ASSUME NEW i \in 1 .. EndArg(sig), sig[i] = "v"
               PROVE  i = EndArg(sig) - 1 /\ ParamsAt(sig) = {}
    OBVIOUS
  <2>1. i # EndArg(sig)
    BY <1>4
  <2>2. i < EndArg(sig) /\ i \in DOMAIN sig
    BY <1>2, <1>6, <2>1
  <2> QED  BY <1>5, <2>2
<1> QED  BY <1>1, <1>2, <1>4, <1>5, <1>6, <1>7

(* Neither the parenthesis nor the void type binds anything.               *)
LEMMA BoundFacts == ")" \notin Bound /\ "v" \notin Bound
BY DEF Bound, Signed, Unsigned, Floats

(* Arguments that suit their types are converted to what was passed.       *)
LEMMA SuitedIsFlagged ==
  ASSUME NEW ch, NEW kind, Suits(ch, kind)
  PROVE  ch \in Bound /\ HasFlag(ch, kind)
<1>1. CASE ch \in Signed
  <2>1. kind = "iv" /\ ch \notin Unsigned /\ ch \notin Floats /\ ch \notin {"B", "Z"}
    BY <1>1 DEF Suits, Signed, Unsigned, Floats
  <2> QED  BY <1>1, <2>1 DEF HasFlag, Bound
<1>2. CASE ch \in Unsigned
  <2>1. kind = "uv" /\ ch \notin Signed /\ ch \notin Floats /\ ch \notin {"B", "Z"}
    BY <1>2 DEF Suits, Signed, Unsigned, Floats
  <2> QED  BY <1>2, <2>1 DEF HasFlag, Bound
<1>3. CASE ch \in Floats
  <2>1. kind \in {"iv", "nv"} /\ ch \notin Signed /\ ch \notin Unsigned /\ ch \notin {"B", "Z"}
    BY <1>3 DEF Suits, Signed, Unsigned, Floats
  <2> QED  BY <1>3, <2>1 DEF HasFlag, Bound
<1>4. CASE ch \in {"B", "Z"}
  <2>1. ch \notin Signed /\ ch \notin Unsigned /\ ch \notin Floats
    BY <1>4 DEF Signed, Unsigned, Floats
  <2> QED  BY <1>4, <2>1 DEF HasFlag, Bound
<1>5. CASE ch \notin Signed \cup Unsigned \cup Floats \cup {"B", "Z"}
  BY <1>5 DEF Suits
<1> QED  BY <1>1, <1>2, <1>3, <1>4, <1>5

(* What is converted has the type of a value. *)
LEMMA ConvertedType ==
  ASSUME NEW f \in FrameTypes, NEW sig, NEW n \in Nat
  PROVE  ConvertedAt(sig, f, n) \in Values
<1>1. f.call \in 0 .. MaxCalls
  BY CallbackAssumption DEF FrameTypes
<1>2. <<f.call, n>> \in Values /\ Zero \in Values /\ Stale \in Values
  BY <1>1, CallbackAssumption DEF Values, Zero, Stale
<1> QED  BY <1>2 DEF ConvertedAt, ST

-----------------------------------------------------------------------------
(* The parts of a state.                                                   *)

(* The innermost call. *)
LEMMA TopFacts ==
  ASSUME Shape, frames # <<>>
  PROVE  /\ Len(frames) \in DOMAIN frames /\ Top \in FrameTypes /\ Top = frames[Len(frames)]
         /\ Len(frames) \in Nat /\ Len(frames) >= 1 /\ DOMAIN frames = 1 .. Len(frames)
         /\ \A d \in DOMAIN frames : frames[d] \in FrameTypes /\ cbs[frames[d].cb] \in CbTypes
         /\ Top.cb \in Handles /\ cbs[Top.cb] \in CbTypes
<1>1. frames \in Seq(FrameTypes) /\ Len(frames) \in Nat /\ Len(frames) # 0
      /\ DOMAIN frames = 1 .. Len(frames)
  BY DEF Shape
<1>2. Len(frames) \in DOMAIN frames
  BY <1>1
<1>3. \A d \in DOMAIN frames : frames[d] \in FrameTypes
  BY <1>1
<1>4. \A d \in DOMAIN frames : frames[d].cb \in Handles
  BY <1>3 DEF FrameTypes
<1>5. \A d \in DOMAIN frames : cbs[frames[d].cb] \in CbTypes
  BY <1>4 DEF Shape
<1>6. Top = frames[Len(frames)] /\ Len(frames) >= 1
  BY <1>1 DEF Top
<1> QED  BY <1>1, <1>2, <1>3, <1>4, <1>5, <1>6

LEMMA PrefixIndices ==
  ASSUME NEW n \in Nat, NEW k \in 0 .. n - 1
  PROVE  k \in Nat /\ k < n /\ \A d \in 1 .. k : d \in 1 .. n /\ d # n
OBVIOUS

(* A proper prefix of a sequence. *)
LEMMA PrefixFacts ==
  ASSUME NEW S, NEW s \in Seq(S), NEW k \in 0 .. Len(s) - 1
  PROVE  /\ SubSeq(s, 1, k) \in Seq(S) /\ DOMAIN SubSeq(s, 1, k) = 1 .. k
         /\ Len(SubSeq(s, 1, k)) = k
         /\ \A d \in 1 .. k : d \in DOMAIN s /\ d # Len(s) /\ SubSeq(s, 1, k)[d] = s[d]
<1>1. Len(s) \in Nat /\ DOMAIN s = 1 .. Len(s)
  OBVIOUS
<1>2. k \in Nat /\ k < Len(s)
  BY <1>1, PrefixIndices
<1>3. \A d \in 1 .. k : d \in 1 .. Len(s) /\ d # Len(s)
  BY <1>1, PrefixIndices
<1>4. \A d \in 1 .. k : d \in DOMAIN s /\ s[d] \in S
  <2> SUFFICES ASSUME NEW d \in 1 .. Len(s)  PROVE s[d] \in S
    BY <1>1, <1>3
  <2> QED  OBVIOUS
<1>5. /\ SubSeq(s, 1, k) \in Seq(S)
      /\ Len(SubSeq(s, 1, k)) = (IF 1 <= k THEN k - 1 + 1 ELSE 0)
      /\ \A d \in 1 .. k - 1 + 1 : SubSeq(s, 1, k)[d] = s[1 + d - 1]
  BY <1>2, <1>4, SubSeqProperties
<1>6. Len(SubSeq(s, 1, k)) = k
  BY <1>2, <1>5
<1>7. DOMAIN SubSeq(s, 1, k) = 1 .. k
  BY <1>5, <1>6
<1>8. \A d \in 1 .. k : SubSeq(s, 1, k)[d] = s[d]
  BY <1>2, <1>5
<1> QED  BY <1>3, <1>4, <1>5, <1>6, <1>7, <1>8

(* Calls end from the innermost to some outer one. *)
LEMMA PrefixStep ==
  ASSUME IInv, fault = "none", frames # <<>>,
         NEW k \in 0 .. Len(frames) - 1, frames' = SubSeq(frames, 1, k),
         UNCHANGED <<cbs, calls, fault>>
  PROVE  IInv'
<1>1. frames \in Seq(FrameTypes)
  BY DEF IInv, Shape
<1>2. /\ frames' \in Seq(FrameTypes) /\ DOMAIN frames' = 1 .. k /\ Len(frames') = k
      /\ \A d \in 1 .. k : d \in DOMAIN frames /\ d # Len(frames) /\ frames'[d] = frames[d]
  BY <1>1, PrefixFacts
<1>3. \A d \in DOMAIN frames' : d \in DOMAIN frames /\ d # Len(frames) /\ frames'[d] = frames[d]
  BY <1>2
<1>4. Shape'
  BY <1>2, <1>3 DEF IInv, Shape
<1>5. Apart'
  BY <1>3 DEF IInv, Apart
<1>6. AllCallsOK'
  BY <1>3 DEF IInv, AllCallsOK
<1> QED  BY <1>4, <1>5, <1>6 DEF IInv, NoUseAfterFree

(* The innermost call goes on. *)
LEMMA TopStep ==
  ASSUME IInv, fault = "none", frames # <<>>,
         NEW f \in FrameTypes, SetTop(f), f.cb = Top.cb, f.call = Top.call,
         f.disturbed = Top.disturbed,
         cbs' \in [Handles -> CbTypes], calls' = calls,
         fault' \in {"none", "freed"}, fault' = "freed" => f.disturbed,
         \A h \in Handles : cbs'[h].state = cbs[h].state /\ cbs'[h].sig = cbs[h].sig,
         \A h \in Handles : h # Top.cb => cbs'[h] = cbs[h],
         CallOK(cbs'[f.cb], f)
  PROVE  IInv'
<1> DEFINE n == Len(frames)
<1>1. /\ n \in DOMAIN frames /\ n \in Nat /\ DOMAIN frames = 1 .. n
      /\ Top = frames[n]
      /\ \A d \in DOMAIN frames : frames[d] \in FrameTypes
      /\ frames \in Seq(FrameTypes)
  BY TopFacts DEF IInv, Shape
<1>2. /\ frames' \in Seq(FrameTypes) /\ DOMAIN frames' = DOMAIN frames /\ Len(frames') = n
      /\ frames'[n] = f
      /\ \A d \in DOMAIN frames : d # n => frames'[d] = frames[d] /\ d < n
  BY <1>1 DEF SetTop
<1>3. Shape'
  <2>1. fault' \in Faults
    BY DEF Faults
  <2>2. \A d \in DOMAIN frames' : /\ frames'[d].call \in 1 .. calls
                                  /\ frames'[d].phase = "walk" => d = n
    BY <1>1, <1>2 DEF IInv, Shape
  <2> QED  BY <1>2, <2>1, <2>2 DEF IInv, Shape
<1>4. Apart'
  <2> SUFFICES ASSUME NEW d \in DOMAIN frames, NEW e \in DOMAIN frames, d < e,
                      frames'[d].cb = frames'[e].cb, frames'[d].phase = "convert"
               PROVE  frames'[d].disturbed
    BY <1>2 DEF Apart
  <2>1. d # n
    BY <1>1
  <2>2. frames'[d] = frames[d] /\ frames'[e].cb = frames[e].cb
    BY <1>1, <1>2, <2>1
  <2> QED  BY <2>2 DEF IInv, Apart
<1>5. AllCallsOK'
  <2> SUFFICES ASSUME NEW d \in DOMAIN frames
               PROVE  CallOK(cbs'[frames'[d].cb], frames'[d])
    BY <1>2 DEF AllCallsOK
  <2>1. CASE d = n
    BY <1>2, <2>1
  <2>2. CASE d # n
    <3> DEFINE g == frames[d]
               c == cbs[g.cb]
               b == cbs'[g.cb]
    <3>1. frames'[d] = g /\ CallOK(c, g) /\ g.phase # "walk" /\ g \in FrameTypes
      BY <1>1, <1>2, <2>2 DEF IInv, AllCallsOK, Shape
    <3>2. CASE g.cb # Top.cb
      <4>1. b = c
        BY <3>1, <3>2 DEF FrameTypes
      <4> QED  BY <3>1, <4>1
    <3>3. CASE g.cb = Top.cb
      <4>1. g.phase = "convert" => g.disturbed
        BY <1>1, <1>2, <2>2, <3>3 DEF IInv, Apart
      <4>2. g.phase \in {"convert", "handler"}
        BY <3>1 DEF FrameTypes, Phases
      <4>3. b.state = c.state /\ b.sig = c.sig
        BY <3>1 DEF FrameTypes
      <4> HIDE DEF g, c, b
      <4>4. CallOK(b, g)
        BY <3>1, <4>1, <4>2, <4>3 DEF CallOK
      <4> QED  BY <3>1, <4>4 DEF g, b
    <3> QED  BY <3>2, <3>3
  <2> QED  BY <2>1, <2>2
<1>6. NoUseAfterFree'
  BY <1>1, <1>2 DEF NoUseAfterFree
<1> QED  BY <1>3, <1>4, <1>5, <1>6 DEF IInv

(* The same when it leaves the callbacks alone. *)
LEMMA TopOnly ==
  ASSUME IInv, fault = "none", frames # <<>>,
         NEW f \in FrameTypes, SetTop(f), f.cb = Top.cb, f.call = Top.call,
         f.disturbed = Top.disturbed, UNCHANGED <<cbs, calls, fault>>,
         CallOK(cbs[f.cb], f)
  PROVE  IInv'
<1>1. cbs' \in [Handles -> CbTypes] /\ cbs' = cbs
  BY DEF IInv, Shape
<1>2. /\ \A h \in Handles : cbs'[h].state = cbs[h].state /\ cbs'[h].sig = cbs[h].sig
      /\ \A h \in Handles : h # Top.cb => cbs'[h] = cbs[h]
      /\ CallOK(cbs'[f.cb], f)
  BY <1>1
<1>3. calls' = calls /\ fault' = "none"
  OBVIOUS
<1> QED  BY <1>1, <1>2, <1>3, TopStep

(* Waiting calls of a callback are marked, and nothing else of them. *)
LEMMA DisturbedFacts ==
  ASSUME Shape, NEW h
  PROVE  /\ Disturbed(h) \in Seq(FrameTypes) /\ Len(Disturbed(h)) = Len(frames)
         /\ DOMAIN Disturbed(h) = DOMAIN frames
         /\ \A d \in DOMAIN frames :
              LET f == frames[d]
                  g == Disturbed(h)[d] IN
                /\ g \in FrameTypes
                /\ g.cb = f.cb /\ g.call = f.call /\ g.given = f.given /\ g.i = f.i
                /\ g.tally = f.tally /\ g.phase = f.phase /\ g.got = f.got
                /\ f.disturbed => g.disturbed
                /\ f.cb = h /\ f.phase = "convert" => g.disturbed
                /\ ~(f.cb = h /\ f.phase = "convert") => g = f
<1>1. frames \in Seq(FrameTypes) /\ DOMAIN frames = 1 .. Len(frames) /\ Len(frames) \in Nat
  BY DEF Shape
<1>2. ASSUME NEW d \in DOMAIN frames
      PROVE  LET f == frames[d]
                 g == Disturbed(h)[d] IN
               /\ g \in FrameTypes
               /\ g.cb = f.cb /\ g.call = f.call /\ g.given = f.given /\ g.i = f.i
               /\ g.tally = f.tally /\ g.phase = f.phase /\ g.got = f.got
               /\ f.disturbed => g.disturbed
               /\ f.cb = h /\ f.phase = "convert" => g.disturbed
               /\ ~(f.cb = h /\ f.phase = "convert") => g = f
  <2> DEFINE f == frames[d]
             b == f.disturbed \/ (f.cb = h /\ f.phase = "convert")
  <2>1. f \in FrameTypes
    BY <1>1
  <2>2. Disturbed(h)[d] = [f EXCEPT !.disturbed = b]
    BY DEF Disturbed
  <2>3. b \in BOOLEAN /\ (~(f.cb = h /\ f.phase = "convert") => b = f.disturbed)
    BY <2>1 DEF FrameTypes
  <2> HIDE DEF f, b
  <2>4. b \in BOOLEAN
    BY <2>3
  <2>5. [f EXCEPT !.disturbed = b] \in FrameTypes
    BY <2>1, <2>4 DEF FrameTypes
  <2>6. f.disturbed \in BOOLEAN
    BY <2>1 DEF FrameTypes
  <2>7. b = f.disturbed => [f EXCEPT !.disturbed = b] = f
    BY <2>1 DEF FrameTypes
  <2>8. LET g == [f EXCEPT !.disturbed = b] IN
          /\ g.cb = f.cb /\ g.call = f.call /\ g.given = f.given /\ g.i = f.i
          /\ g.tally = f.tally /\ g.phase = f.phase /\ g.got = f.got
          /\ g.disturbed = b
    BY <2>1 DEF FrameTypes
  <2>9. (f.disturbed => b) /\ (f.cb = h /\ f.phase = "convert" => b)
    BY DEF b
  <2> QED  BY <2>2, <2>3, <2>5, <2>7, <2>8, <2>9 DEF f
<1>3. DOMAIN Disturbed(h) = DOMAIN frames
  BY DEF Disturbed
<1>4. Disturbed(h) = [d \in 1 .. Len(frames) |-> Disturbed(h)[d]]
  BY <1>1 DEF Disturbed
<1>5. Disturbed(h) \in Seq(FrameTypes) /\ Len(Disturbed(h)) = Len(frames)
  BY <1>1, <1>2, <1>3, <1>4
<1> QED  BY <1>2, <1>3, <1>5

(* While Perl code runs, no call walks its signature, and a callback whose *)
(* waiting calls are marked may change.                                    *)
LEMMA MarkedOK ==
  ASSUME IInv, PerlRuns, NEW h \in Handles, NEW c \in CbTypes,
         c.state # "none", c.sig = cbs[h].sig,
         NEW d \in DOMAIN frames
  PROVE  CallOK([cbs EXCEPT ![h] = c][Disturbed(h)[d].cb], Disturbed(h)[d])
<1> DEFINE f == frames[d]
           g == Disturbed(h)[d]
<1>1. Shape /\ fault = "none" /\ AllCallsOK
  BY DEF IInv, PerlRuns
<1>2. frames # <<>> /\ Top.phase # "walk"
  BY <1>1 DEF PerlRuns, Shape
<1>3. f.phase # "walk" /\ f \in FrameTypes /\ CallOK(cbs[f.cb], f)
  BY <1>1, <1>2, TopFacts DEF Shape, AllCallsOK
<1>4. /\ g.cb = f.cb /\ g.call = f.call /\ g.given = f.given /\ g.i = f.i
      /\ g.tally = f.tally /\ g.phase = f.phase /\ g.got = f.got
      /\ f.cb = h /\ f.phase = "convert" => g.disturbed
      /\ ~(f.cb = h /\ f.phase = "convert") => g = f
  BY <1>1, DisturbedFacts
<1>5. f.phase \in {"convert", "handler"} /\ f.cb \in Handles
  BY <1>3 DEF FrameTypes, Phases
<1>6. cbs \in [Handles -> CbTypes]
  BY <1>1 DEF Shape
<1> HIDE DEF f, g
<1>7. CASE f.cb = h
  <2>1. [cbs EXCEPT ![h] = c][g.cb] = c
    BY <1>4, <1>6, <1>7
  <2>2. CallOK(c, g)
    <3>1. CASE f.phase = "convert"
      BY <1>3, <1>4, <1>7, <3>1 DEF CallOK
    <3>2. CASE f.phase = "handler"
      <4>1. g = f
        BY <1>4, <3>2
      <4> QED  BY <1>3, <1>7, <3>2, <4>1 DEF CallOK
    <3> QED  BY <1>5, <3>1, <3>2
  <2> QED  BY <2>1, <2>2 DEF g
<1>8. CASE f.cb # h
  <2>1. [cbs EXCEPT ![h] = c][g.cb] = cbs[f.cb] /\ g = f
    BY <1>4, <1>5, <1>6, <1>8
  <2> QED  BY <1>3, <2>1 DEF g
<1> QED  BY <1>7, <1>8
-----------------------------------------------------------------------------
(* Every action.                                                           *)

(* No call is of a callback that is made now. *)
LEMMA NewStep ==
  ASSUME IInv, NEW h \in Handles, NEW sig \in Signatures, dcbNewCallback(h, sig)
  PROVE  IInv'
<1> DEFINE c == [state |-> "live", sig |-> sig, vm |-> <<>>]
<1>1. /\ fault = "none" /\ cbs[h].state = "none" /\ cbs' = [cbs EXCEPT ![h] = c]
      /\ UNCHANGED <<frames, calls, fault>>
  BY DEF dcbNewCallback, PerlRuns
<1>2. Shape /\ Apart /\ AllCallsOK
  BY <1>1 DEF IInv
<1>3. c \in CbTypes /\ c.state = "live" /\ c.sig = sig
  BY DEF CbTypes
<1> HIDE DEF c
<1>4. /\ cbs' \in [Handles -> CbTypes] /\ cbs'[h] = c
      /\ \A g \in Handles : g # h => cbs'[g] = cbs[g]
  BY <1>1, <1>2, <1>3 DEF Shape
<1>5. Shape'
  BY <1>1, <1>2, <1>3, <1>4 DEF Shape
<1>6. ASSUME NEW d \in DOMAIN frames
      PROVE  cbs'[frames[d].cb] = cbs[frames[d].cb]
  <2>1. cbs[frames[d].cb].state # "none"
    BY <1>2 DEF AllCallsOK, CallOK
  <2>2. frames[d] \in FrameTypes
    BY <1>2 DEF Shape
  <2> QED  BY <1>1, <1>4, <2>1, <2>2 DEF FrameTypes
<1>7. AllCallsOK'
  BY <1>1, <1>2, <1>6 DEF AllCallsOK
<1>8. Apart' /\ NoUseAfterFree'
  BY <1>1, <1>2 DEF Apart, NoUseAfterFree
<1> QED  BY <1>5, <1>7, <1>8 DEF IInv

(* The process ends where the page is written. *)
LEMMA ReinitStep ==
  ASSUME IInv, NEW h \in Handles, NEW sig \in Signatures, dcbInitCallback(h, sig)
  PROVE  IInv'
<1>1. cbs' = [cbs EXCEPT ![h].sig = sig] /\ fault' = "write" /\ UNCHANGED <<frames, calls>>
  BY DEF dcbInitCallback
<1>2. Shape
  BY DEF IInv
<1>3. cbs[h] \in CbTypes
  BY <1>2 DEF Shape
<1>4. [cbs[h] EXCEPT !.sig = sig] \in CbTypes
  BY <1>3 DEF CbTypes
<1>5. cbs' = [cbs EXCEPT ![h] = [cbs[h] EXCEPT !.sig = sig]]
  BY <1>1
<1>6. cbs' \in [Handles -> CbTypes]
  BY <1>2, <1>4, <1>5 DEF Shape
<1>7. ASSUME NEW g \in Handles, cbs'[g].state # "none"
      PROVE  cbs'[g].sig \in Signatures
  <2>1. CASE g = h
    BY <1>2, <1>3, <1>5, <2>1 DEF Shape, CbTypes
  <2>2. CASE g # h
    BY <1>2, <1>5, <1>7, <2>2 DEF Shape
  <2> QED  BY <2>1, <2>2
<1>8. Shape'
  BY <1>1, <1>2, <1>6, <1>7 DEF Shape, Faults
<1>9. Apart' /\ NoUseAfterFree'
  BY <1>1 DEF IInv, Apart, NoUseAfterFree
<1> QED  BY <1>1, <1>8, <1>9 DEF IInv

(* The waiting calls of a callback are marked when it is freed or called.  *)
LEMMA MarkStep ==
  ASSUME IInv, PerlRuns, NEW h \in Handles, NEW c \in CbTypes,
         c.state # "none", c.sig = cbs[h].sig, cbs[h].state = "live",
         cbs' = [cbs EXCEPT ![h] = c], frames' = Disturbed(h), UNCHANGED fault,
         calls' \in Nat, calls <= calls', calls' <= MaxCalls
  PROVE  /\ IInv'
         /\ \A d \in DOMAIN frames' :
              /\ frames'[d].phase # "walk"
              /\ frames'[d].cb = h /\ frames'[d].phase = "convert" => frames'[d].disturbed
<1>1. Shape /\ Apart /\ AllCallsOK /\ fault = "none" /\ fault' = "none"
  BY DEF IInv, PerlRuns
<1>2. /\ frames' \in Seq(FrameTypes) /\ Len(frames') = Len(frames)
      /\ DOMAIN frames' = DOMAIN frames
      /\ \A d \in DOMAIN frames :
           /\ frames'[d].cb = frames[d].cb /\ frames'[d].call = frames[d].call
           /\ frames'[d].phase = frames[d].phase
           /\ frames[d].disturbed => frames'[d].disturbed
           /\ frames[d].cb = h /\ frames[d].phase = "convert" => frames'[d].disturbed
  BY <1>1, DisturbedFacts
<1>3. /\ cbs' \in [Handles -> CbTypes] /\ cbs'[h] = c
      /\ \A g \in Handles : g # h => cbs'[g] = cbs[g]
  BY <1>1 DEF Shape
<1>4. calls \in Nat /\ calls' \in 0 .. MaxCalls /\ 1 .. calls \subseteq 1 .. calls'
  BY <1>1, CallbackAssumption DEF Shape
<1>5. \A d \in DOMAIN frames' : /\ frames'[d].call \in 1 .. calls'
                                /\ frames'[d].phase = "walk" => d = Len(frames')
  BY <1>1, <1>2, <1>4 DEF Shape
<1>6. \A g \in Handles : cbs'[g].state # "none" => cbs'[g].sig \in Signatures
  BY <1>1, <1>3 DEF Shape
<1>7. Shape'
  BY <1>1, <1>2, <1>3, <1>4, <1>5, <1>6 DEF Shape
<1>8. Apart'
  BY <1>1, <1>2 DEF Apart
<1>9. AllCallsOK'
  BY <1>2, MarkedOK DEF AllCallsOK
<1>10. NoUseAfterFree'
  BY <1>1 DEF NoUseAfterFree
<1>11. ASSUME NEW d \in DOMAIN frames  PROVE frames[d].phase # "walk"
  <2>1. frames # <<>>
    BY <1>1 DEF Shape
  <2> QED  BY <1>1, <2>1, TopFacts DEF PerlRuns, Shape
<1> QED  BY <1>2, <1>7, <1>8, <1>9, <1>10, <1>11 DEF IInv

LEMMA FreeStep ==
  ASSUME IInv, NEW h \in Handles, dcbFreeCallback(h)
  PROVE  IInv'
<1> DEFINE c == [state |-> "freed", sig |-> cbs[h].sig, vm |-> <<>>]
<1>1. /\ PerlRuns /\ cbs[h].state = "live" /\ cbs' = [cbs EXCEPT ![h] = c]
      /\ frames' = Disturbed(h) /\ UNCHANGED <<calls, fault>>
  BY DEF dcbFreeCallback
<1>2. cbs[h] \in CbTypes /\ calls \in 0 .. MaxCalls
  BY DEF IInv, Shape
<1>3. c \in CbTypes /\ c.state # "none" /\ c.sig = cbs[h].sig
  BY <1>2 DEF CbTypes
<1> HIDE DEF c
<1>4. calls' \in Nat /\ calls <= calls' /\ calls' <= MaxCalls
  BY <1>1, <1>2, CallbackAssumption
<1> QED  BY <1>1, <1>3, <1>4, MarkStep

(* Only the CallVM of a callback changes. *)
LEMMA NewVM ==
  ASSUME NEW c \in CbTypes, NEW vm \in Seq(Values)
  PROVE  LET b == [c EXCEPT !.vm = vm] IN
           b \in CbTypes /\ b.state = c.state /\ b.sig = c.sig /\ b.vm = vm
BY DEF CbTypes

(* A call begins with an empty CallVM. *)
LEMMA CallStep ==
  ASSUME IInv, NEW h \in Handles, NEW given \in ArgLists, call(h, given)
  PROVE  IInv'
<1> DEFINE c == [cbs[h] EXCEPT !.vm = <<>>]
           m == Disturbed(h)
           f == [cb |-> h, call |-> calls + 1, given |-> given, i |-> 1, tally |-> 0,
                 phase |-> "walk", got |-> <<>>, disturbed |-> FALSE]
<1>1. /\ PerlRuns /\ cbs[h].state = "live" /\ calls < MaxCalls
      /\ cbs' = [cbs EXCEPT ![h] = c] /\ frames' = Append(m, f)
      /\ calls' = calls + 1 /\ fault' = fault
  BY DEF call
<1>2. Shape /\ AllCallsOK /\ Apart /\ fault = "none"
  BY <1>1 DEF IInv, PerlRuns
<1>3. cbs[h] \in CbTypes /\ calls \in Nat /\ MaxCalls \in Nat /\ cbs[h].sig \in Signatures
  BY <1>1, <1>2, CallbackAssumption DEF Shape
<1>4. c \in CbTypes /\ c.state = "live" /\ c.sig = cbs[h].sig /\ c.vm = <<>>
  <2>1. <<>> \in Seq(Values)
    OBVIOUS
  <2>2. c \in CbTypes /\ c.state = cbs[h].state /\ c.sig = cbs[h].sig /\ c.vm = <<>>
    BY <1>3, <2>1, NewVM
  <2> QED  BY <1>1, <2>2
<1>5. given \in Seq(Kinds)
  BY CallbackAssumption
<1>6. calls + 1 \in 1 .. MaxCalls /\ calls + 1 \in 1 .. calls'
  BY <1>1, <1>3
<1>7. f \in FrameTypes
  BY <1>5, <1>6 DEF FrameTypes, Phases
<1>8. f.cb = h /\ f.call = calls + 1 /\ f.i = 1 /\ f.tally = 0 /\ f.phase = "walk" /\ ~f.disturbed
  OBVIOUS
<1>9. CallOK(c, f)
  <2>1. f.i \in 1 .. EndArg(c.sig) /\ f.tally = Before(c.sig, f.i)
    BY <1>3, <1>4, <1>8, SignatureFacts DEF Before
  <2>2. Filled(c, f)
    <3> HIDE DEF c, f
    <3> QED  BY <1>4, <1>8 DEF Filled
  <2> HIDE DEF c, f
  <2> QED  BY <1>4, <1>8, <2>1, <2>2 DEF CallOK
<1> HIDE DEF c, f
<1>10. /\ m \in Seq(FrameTypes) /\ Len(m) = Len(frames) /\ DOMAIN m = DOMAIN frames
       /\ \A d \in DOMAIN m : /\ m[d] \in FrameTypes
                              /\ m[d].call = frames[d].call /\ m[d].cb = frames[d].cb
                              /\ m[d].phase = frames[d].phase
                              /\ frames[d].disturbed => m[d].disturbed
                              /\ frames[d].cb = h /\ frames[d].phase = "convert" => m[d].disturbed
  BY <1>2, DisturbedFacts
<1>11. \A d \in DOMAIN m : CallOK(cbs'[m[d].cb], m[d])
  BY <1>1, <1>4, <1>10, MarkedOK
<1>12. \A d \in DOMAIN m : m[d].phase # "walk"
  <2> SUFFICES ASSUME NEW d \in DOMAIN frames  PROVE frames[d].phase # "walk"
    BY <1>10
  <2>1. frames # <<>>
    BY <1>2 DEF Shape
  <2> QED  BY <1>1, <1>2, <2>1, TopFacts DEF PerlRuns, Shape
<1> HIDE DEF m
<1>13. /\ frames' \in Seq(FrameTypes) /\ Len(frames') = Len(m) + 1 /\ Len(m) \in Nat
       /\ DOMAIN m = 1 .. Len(m) /\ DOMAIN frames' = 1 .. Len(m) + 1
       /\ frames'[Len(m) + 1] = f /\ \A d \in 1 .. Len(m) : frames'[d] = m[d]
  BY <1>1, <1>7, <1>10
<1>14. /\ cbs' \in [Handles -> CbTypes] /\ cbs'[h] = c
       /\ \A g \in Handles : g # h => cbs'[g] = cbs[g]
  BY <1>1, <1>2, <1>4 DEF Shape
<1>15. \A d \in DOMAIN frames' : (d \in DOMAIN m /\ d <= Len(m)) \/ d = Len(m) + 1
  BY <1>13
<1>16. \A d \in DOMAIN m : m[d].call \in 1 .. calls'
  BY <1>1, <1>2, <1>3, <1>10 DEF Shape
<1>17. Shape'
  <2>1. calls' \in 0 .. MaxCalls /\ fault' \in Faults
    BY <1>1, <1>2, <1>3 DEF Faults
  <2>2. \A g \in Handles : cbs'[g].state # "none" => cbs'[g].sig \in Signatures
    BY <1>2, <1>3, <1>4, <1>14 DEF Shape
  <2>3. \A d \in DOMAIN frames' : /\ frames'[d].call \in 1 .. calls'
                                  /\ frames'[d].phase = "walk" => d = Len(frames')
    BY <1>6, <1>8, <1>12, <1>13, <1>15, <1>16
  <2> QED  BY <1>13, <1>14, <2>1, <2>2, <2>3 DEF Shape
<1>18. Apart'
  <2> SUFFICES ASSUME NEW d \in DOMAIN frames', NEW e \in DOMAIN frames', d < e,
                      frames'[d].cb = frames'[e].cb, frames'[d].phase = "convert"
               PROVE  frames'[d].disturbed
    BY DEF Apart
  <2>1. d \in DOMAIN m /\ frames'[d] = m[d]
    BY <1>13, <1>15
  <2>2. CASE e = Len(m) + 1
    BY <1>8, <1>10, <1>13, <2>1, <2>2
  <2>3. CASE e \in DOMAIN m
    <3>1. frames[d].cb = frames[e].cb /\ frames[d].phase = "convert"
      BY <1>10, <1>13, <2>1, <2>3
    <3>2. frames[d].disturbed
      BY <1>2, <1>10, <2>1, <2>3, <3>1 DEF Apart
    <3> QED  BY <1>10, <2>1, <3>2
  <2> QED  BY <1>15, <2>2, <2>3
<1>19. AllCallsOK'
  BY <1>8, <1>9, <1>11, <1>13, <1>14, <1>15 DEF AllCallsOK
<1> QED  BY <1>1, <1>2, <1>17, <1>18, <1>19 DEF IInv, NoUseAfterFree

(* What holds of the innermost call while it walks or converts. *)
LEMMA WalkFacts ==
  ASSUME IInv, NEW phase \in Phases, Walks(phase)
  PROVE  /\ fault = "none" /\ frames # <<>> /\ Top.phase = phase
         /\ Top \in FrameTypes /\ Top.cb \in Handles /\ cbs[Top.cb] \in CbTypes
         /\ CallOK(cbs[Top.cb], Top) /\ cbs[Top.cb].sig \in Signatures
         /\ Char = cbs[Top.cb].sig[Top.i]
         /\ cbs \in [Handles -> CbTypes]
<1>1. fault = "none" /\ frames # <<>> /\ Top.phase = phase
  BY DEF Walks
<1>2. Shape /\ AllCallsOK
  BY <1>1 DEF IInv
<1>3. Top \in FrameTypes /\ Top.cb \in Handles /\ cbs[Top.cb] \in CbTypes
  BY <1>1, <1>2, TopFacts
<1>4. CallOK(cbs[Top.cb], Top)
  BY <1>1, <1>2, TopFacts DEF AllCallsOK
<1>5. cbs[Top.cb].sig \in Signatures
  BY <1>2, <1>3, <1>4 DEF CallOK, Shape
<1> QED  BY <1>1, <1>2, <1>3, <1>4, <1>5 DEF Char, Shape

(* Before the parenthesis, one character further is still in the signature, *)
(* and the count keeps up with the position.                                *)
LEMMA NextChar ==
  ASSUME NEW sig \in Signatures, NEW i \in 1 .. EndArg(sig), sig[i] # ")",
         NEW tally, tally = Before(sig, i)
  PROVE  /\ i + 1 \in 1 .. EndArg(sig)
         /\ tally = i - 1 /\ tally + Counted(sig[i]) = Before(sig, i + 1)
<1>1. /\ EndArg(sig) \in Nat /\ EndArg(sig) >= 1 /\ sig[EndArg(sig)] = ")"
      /\ \A j \in 1 .. EndArg(sig) : sig[j] = "v" => j = EndArg(sig) - 1
  BY SignatureFacts
<1>2. i # EndArg(sig) /\ i \in Nat /\ i >= 1 /\ i < EndArg(sig)
  BY <1>1
<1>3. i > 1 => i - 1 \in 1 .. EndArg(sig) /\ i - 1 # EndArg(sig) - 1
  BY <1>1, <1>2
<1>4. ~(i > 1 /\ sig[i - 1] = "v")
  BY <1>1, <1>3
<1>5. tally = i - 1
  BY <1>4 DEF Before
<1>6. i + 1 \in 1 .. EndArg(sig) /\ i + 1 > 1 /\ i + 1 - 1 = i /\ i + 1 - 2 = i - 1
  BY <1>1, <1>2
<1>7. Before(sig, i + 1) = IF sig[i] = "v" THEN i - 1 ELSE i
  BY <1>6 DEF Before
<1>8. i - 1 + 0 = i - 1 /\ i - 1 + 1 = i
  BY <1>2
<1>9. CASE sig[i] = "v"
  BY <1>5, <1>6, <1>7, <1>8, <1>9 DEF Counted
<1>10. CASE sig[i] # "v"
  BY <1>5, <1>6, <1>7, <1>8, <1>10 DEF Counted
<1> QED  BY <1>9, <1>10

LEMMA OneLess ==
  ASSUME NEW i \in Nat  PROVE \A n \in 1 .. i - 1 : n \in 1 .. i
OBVIOUS

(* What is converted depends on the call and its arguments only. *)
LEMMA SameConverted ==
  ASSUME NEW f, NEW g, g.call = f.call, g.given = f.given, NEW sig, NEW n
  PROVE  ConvertedAt(sig, g, n) = ConvertedAt(sig, f, n)
BY DEF ConvertedAt, ST

(* A sequence given by a formula, one element longer. *)
LEMMA AppendMapped ==
  ASSUME NEW i \in Nat, i >= 1, NEW S, NEW F \in [1 .. i -> S],
         NEW s, s = [n \in 1 .. i - 1 |-> F[n]]
  PROVE  Append(s, F[i]) = [n \in 1 .. i |-> F[n]]
<1>1. i - 1 \in Nat /\ \A n \in 1 .. i - 1 : n \in 1 .. i
  OBVIOUS
<1>2. s \in Seq(S) /\ Len(s) = i - 1
  BY <1>1
<1>3. i \in 1 .. i /\ F[i] \in S
  OBVIOUS
<1>4. /\ Append(s, F[i]) \in Seq(S) /\ Len(Append(s, F[i])) = i - 1 + 1
      /\ \A n \in 1 .. Len(s) : Append(s, F[i])[n] = s[n]
      /\ Append(s, F[i])[Len(s) + 1] = F[i]
  BY <1>2, <1>3, AppendProperties
<1>5. Len(Append(s, F[i])) = i /\ DOMAIN Append(s, F[i]) = 1 .. i
  BY <1>1, <1>4
<1>6. \A n \in 1 .. i : Append(s, F[i])[n] = F[n]
  <2> SUFFICES ASSUME NEW n \in 1 .. i  PROVE Append(s, F[i])[n] = F[n]
    OBVIOUS
  <2>1. CASE n = i
    BY <1>1, <1>2, <1>4, <2>1
  <2>2. CASE n # i
    <3>1. n \in 1 .. i - 1 /\ n \in 1 .. Len(s)
      BY <1>1, <1>2, <2>2
    <3> QED  BY <1>4, <3>1
  <2> QED  BY <2>1, <2>2
<1>7. Append(s, F[i]) = [n \in 1 .. i |-> Append(s, F[i])[n]]
  BY <1>4, <1>5
<1> QED  BY <1>6, <1>7

(* One character further, with its argument bound if it binds one. *)
LEMMA AdvanceOK ==
  ASSUME NEW c \in CbTypes, c.sig \in Signatures, NEW f \in FrameTypes, CallOK(c, f),
         f.phase # "handler", c.sig[f.i] # ")",
         NEW g, g.i = f.i + 1, g.tally = f.tally + Counted(c.sig[f.i]),
         g.phase = "walk", g.call = f.call, g.given = f.given, g.disturbed = f.disturbed,
         NEW b, b.state = c.state, b.sig = c.sig,
         c.sig[f.i] \in Bound /\ c.state = "live"
           => b.vm = Append(c.vm, ConvertedAt(c.sig, f, f.i)),
         c.sig[f.i] \notin Bound => b.vm = c.vm
  PROVE  CallOK(b, g)
<1> DEFINE sig == c.sig
           i == f.i
<1>1. /\ sig \in Signatures /\ i \in 1 .. EndArg(sig) /\ sig[i] # ")"
      /\ f.tally = Before(sig, i)
      /\ ~f.disturbed => c.state = "live" /\ Filled(c, f)
      /\ c.state # "none" /\ i \in Nat /\ f.tally \in Nat
  BY DEF CallOK, FrameTypes
<1>2. /\ i + 1 \in 1 .. EndArg(sig)
      /\ f.tally = i - 1 /\ g.tally = Before(sig, i + 1)
  BY <1>1, NextChar
<1>3. ASSUME ~f.disturbed
      PROVE  Filled(b, g)
  <2>1. CASE sig[i] = "v"
    <3>1. g.tally = f.tally /\ b.vm = c.vm
      BY <1>1, <2>1, BoundFacts DEF Counted
    <3> QED  BY <1>1, <1>3, <3>1, SameConverted DEF Filled
  <2>2. CASE sig[i] # "v" /\ sig[i] \notin Bound
    <3>1. g.tally = i - 1 + 1 /\ i \in Nat /\ i >= 1
      <4>1. EndArg(sig) \in Nat /\ Counted(sig[i]) = 1
        BY <1>1, <2>2, SignatureFacts DEF Counted
      <4> QED  BY <1>1, <1>2, <4>1
    <3>2. i \in 1 .. g.tally
      <4> HIDE DEF i
      <4> QED  BY <3>1
    <3> QED  BY <2>2, <3>2 DEF Filled
  <2>3. CASE sig[i] \in Bound
    <3>1. g.tally = i /\ f.tally = i - 1 /\ i >= 1 /\ i - 1 \in Nat
      <4>1. EndArg(sig) \in Nat /\ Counted(sig[i]) = 1
        BY <1>1, <2>3, BoundFacts, SignatureFacts DEF Counted
      <4>2. g.tally = i - 1 + 1 /\ f.tally = i - 1
        BY <1>2, <4>1
      <4> HIDE DEF i
      <4> QED  BY <1>1, <4>1, <4>2
    <3> SUFFICES ASSUME \A n \in 1 .. i : sig[n] \in Bound
                 PROVE  b.vm = [n \in 1 .. i |-> ConvertedAt(sig, g, n)]
      BY <3>1 DEF Filled
    <3>2. \A n \in 1 .. i - 1 : n \in 1 .. i
      BY <1>1, OneLess
    <3>3. c.vm = [n \in 1 .. i - 1 |-> ConvertedAt(sig, f, n)]
      BY <1>1, <1>3, <3>1, <3>2 DEF Filled
    <3>4. b.vm = Append(c.vm, ConvertedAt(sig, f, i))
      BY <1>1, <1>3, <2>3
    <3>5. \A n : ConvertedAt(sig, g, n) = ConvertedAt(sig, f, n)
      BY SameConverted
    <3> DEFINE F == [n \in 1 .. i |-> ConvertedAt(sig, f, n)]
    <3>6. F \in [1 .. i -> Values]
      BY <1>1, ConvertedType
    <3>7. F[i] = ConvertedAt(sig, f, i) /\ c.vm = [n \in 1 .. i - 1 |-> F[n]]
      BY <1>1, <3>1, <3>2, <3>3
    <3>8. i \in Nat /\ i >= 1
      BY <1>1, <3>1
    <3> HIDE DEF F
    <3>9. Append(c.vm, F[i]) = [n \in 1 .. i |-> F[n]]
      BY <3>6, <3>7, <3>8, AppendMapped
    <3>10. b.vm = [n \in 1 .. i |-> F[n]]
      BY <3>4, <3>7, <3>9
    <3> QED  BY <3>5, <3>10 DEF F
  <2> QED  BY <2>1, <2>2, <2>3
<1> QED  BY <1>1, <1>2, <1>3 DEF CallOK

(* The count goes on in the types of a frame. *)
LEMMA CountedType ==
  ASSUME NEW f \in FrameTypes, NEW ch
  PROVE  f.i + 1 \in Nat /\ f.tally + Counted(ch) \in Nat
<1>1. f.i \in Nat /\ f.tally \in Nat /\ Counted(ch) \in Nat
  BY DEF FrameTypes, Counted
<1> QED  BY <1>1

LEMMA SkipStep ==
  ASSUME IInv, SkipChar
  PROVE  IInv'
<1> DEFINE c == cbs[Top.cb]
           i == Top.i + 1
           tally == Top.tally + Counted(Char)
           g == [Top EXCEPT !.i = i, !.tally = tally]
<1>1. Walks("walk") /\ Char \notin Bound /\ Char # ")" /\ SetTop(g) /\ UNCHANGED <<cbs, calls, fault>>
  BY DEF SkipChar
<1>2. /\ fault = "none" /\ frames # <<>> /\ Top.phase = "walk"
      /\ Top \in FrameTypes /\ Top.cb \in Handles /\ c \in CbTypes
      /\ CallOK(c, Top) /\ c.sig \in Signatures /\ Char = c.sig[Top.i]
      /\ cbs \in [Handles -> CbTypes]
  BY <1>1, WalkFacts DEF Phases
<1>3. /\ g \in FrameTypes /\ g.cb = Top.cb /\ g.call = Top.call /\ g.disturbed = Top.disturbed
      /\ g.i = Top.i + 1 /\ g.tally = Top.tally + Counted(Char) /\ g.phase = "walk"
      /\ g.given = Top.given
  <2>1. i \in Nat /\ tally \in Nat
    BY <1>2, CountedType
  <2> HIDE DEF i, tally
  <2>2. /\ g \in FrameTypes /\ g.cb = Top.cb /\ g.call = Top.call /\ g.given = Top.given
        /\ g.disturbed = Top.disturbed /\ g.i = i /\ g.tally = tally /\ g.phase = "walk"
    BY <1>2, <2>1 DEF FrameTypes
  <2> HIDE DEF g
  <2> QED  BY <2>2 DEF i, tally
<1> HIDE DEF g
<1>4. CallOK(c, g)
  BY <1>1, <1>2, <1>3, AdvanceOK
<1> HIDE DEF c
<1>5. CallOK(cbs[g.cb], g)
  BY <1>3, <1>4 DEF c
<1> QED  BY <1>1, <1>2, <1>3, <1>5, TopOnly

(* What Bind does to the CallVM of a live callback. *)
LEMMA BoundType ==
  ASSUME NEW c \in CbTypes, NEW v \in Values
  PROVE  LET b == [c EXCEPT !.vm = Append(@, v)] IN
           b \in CbTypes /\ b.state = c.state /\ b.sig = c.sig /\ b.vm = Append(c.vm, v)
<1>1. Append(c.vm, v) \in Seq(Values)
  BY DEF CbTypes
<1> QED  BY <1>1, NewVM

LEMMA BindStep ==
  ASSUME IInv, NEW phase \in {"walk", "convert"}, Walks(phase), Char \in Bound, Bind
  PROVE  IInv'
<1> DEFINE c == cbs[Top.cb]
           i == Top.i + 1
           tally == Top.tally + Counted(Char)
           g == [Top EXCEPT !.i = i, !.tally = tally, !.phase = "walk"]
           v == Converted(Top)
           b == [c EXCEPT !.vm = Append(@, v)]
<1>1. /\ SetTop(g) /\ calls' = calls
      /\ IF c.state = "live"
         THEN cbs' = [cbs EXCEPT ![Top.cb].vm = Append(@, v)] /\ fault' = fault
         ELSE fault' = "freed" /\ cbs' = cbs
  BY DEF Bind
<1>2. /\ fault = "none" /\ frames # <<>> /\ Top.phase = phase
      /\ Top \in FrameTypes /\ Top.cb \in Handles /\ c \in CbTypes
      /\ CallOK(c, Top) /\ c.sig \in Signatures /\ Char = c.sig[Top.i]
      /\ cbs \in [Handles -> CbTypes]
  BY WalkFacts DEF Phases
<1>3. /\ g \in FrameTypes /\ g.cb = Top.cb /\ g.call = Top.call /\ g.disturbed = Top.disturbed
      /\ g.i = Top.i + 1 /\ g.tally = Top.tally + Counted(Char) /\ g.phase = "walk"
      /\ g.given = Top.given
  <2>1. i \in Nat /\ tally \in Nat
    BY <1>2, CountedType
  <2> HIDE DEF i, tally
  <2>2. /\ g \in FrameTypes /\ g.cb = Top.cb /\ g.call = Top.call /\ g.given = Top.given
        /\ g.disturbed = Top.disturbed /\ g.i = i /\ g.tally = tally /\ g.phase = "walk"
    BY <1>2, <2>1 DEF FrameTypes, Phases
  <2> HIDE DEF g
  <2> QED  BY <2>2 DEF i, tally
<1>4. v = ConvertedAt(c.sig, Top, Top.i)
  BY DEF Converted, ConvertedAt
<1>5. Top.i \in Nat /\ Top.phase # "handler" /\ Char # ")"
  BY <1>2, BoundFacts DEF FrameTypes
<1>6. v \in Values
  BY <1>2, <1>4, <1>5, ConvertedType
<1> HIDE DEF g, v
<1>7. CASE c.state = "live"
  <2>1. cbs' = [cbs EXCEPT ![Top.cb] = b] /\ fault' = "none"
    BY <1>1, <1>2, <1>7
  <2>2. b \in CbTypes /\ b.state = c.state /\ b.sig = c.sig /\ b.vm = Append(c.vm, v)
    BY <1>2, <1>6, BoundType
  <2> HIDE DEF b
  <2>3. /\ cbs' \in [Handles -> CbTypes] /\ cbs'[Top.cb] = b
        /\ \A h \in Handles : h # Top.cb => cbs'[h] = cbs[h]
    BY <1>2, <2>1, <2>2
  <2>4. CallOK(b, g)
    <3> HIDE DEF c
    <3> QED  BY <1>2, <1>3, <1>4, <1>5, <1>7, <2>2, AdvanceOK
  <2>5. \A h \in Handles : cbs'[h].state = cbs[h].state /\ cbs'[h].sig = cbs[h].sig
    BY <2>2, <2>3
  <2>6. CallOK(cbs'[g.cb], g)
    BY <1>3, <2>3, <2>4
  <2>7. fault' = "none" /\ calls' = calls /\ SetTop(g)
    BY <1>1, <2>1
  <2> HIDE DEF c
  <2> QED  BY <1>2, <1>3, <2>3, <2>5, <2>6, <2>7, TopStep
<1>8. CASE c.state # "live"
  <2>1. cbs' = cbs /\ fault' = "freed"
    BY <1>1, <1>8
  <2>2. Top.disturbed
    BY <1>2, <1>5, <1>8 DEF CallOK
  <2>3. CallOK([c EXCEPT !.vm = Append(@, v)], g)
    <3>1. b \in CbTypes /\ b.state = c.state /\ b.sig = c.sig /\ b.vm = Append(c.vm, v)
      BY <1>2, <1>6, BoundType
    <3> HIDE DEF b, c
    <3>2. CallOK(b, g)
      BY <1>2, <1>3, <1>4, <1>5, <3>1, AdvanceOK
    <3> QED  BY <3>2 DEF b
  <2>4. CallOK(c, g)
    <3>1. b.state = c.state /\ b.sig = c.sig
      BY <1>2, <1>6, BoundType
    <3>2. CallOK(b, g)
      BY <2>3
    <3> HIDE DEF b, c
    <3> QED  BY <1>3, <2>2, <3>1, <3>2 DEF CallOK
  <2>5. CallOK(cbs'[g.cb], g)
    BY <1>3, <2>1, <2>4
  <2>6. g.disturbed
    BY <1>3, <2>2
  <2> QED  BY <1>1, <1>2, <1>3, <2>1, <2>5, <2>6, TopStep
<1> QED  BY <1>7, <1>8

LEMMA ConversionStep ==
  ASSUME IInv, BeginConversion
  PROVE  IInv'
<1> DEFINE c == cbs[Top.cb]
           g == [Top EXCEPT !.phase = "convert"]
<1>1. Walks("walk") /\ Char \in Bound /\ SetTop(g) /\ UNCHANGED <<cbs, calls, fault>>
  BY DEF BeginConversion
<1>2. /\ fault = "none" /\ frames # <<>> /\ Top.phase = "walk"
      /\ Top \in FrameTypes /\ Top.cb \in Handles /\ c \in CbTypes
      /\ CallOK(c, Top) /\ c.sig \in Signatures /\ Char = c.sig[Top.i]
      /\ cbs \in [Handles -> CbTypes]
  BY <1>1, WalkFacts DEF Phases
<1>3. /\ g \in FrameTypes /\ g.cb = Top.cb /\ g.call = Top.call /\ g.disturbed = Top.disturbed
      /\ g.i = Top.i /\ g.tally = Top.tally /\ g.phase = "convert" /\ g.given = Top.given
  BY <1>2 DEF FrameTypes, Phases
<1> HIDE DEF g
<1>4. Filled(c, Top) => Filled(c, g)
  <2>1. \A n : ConvertedAt(c.sig, g, n) = ConvertedAt(c.sig, Top, n)
    BY <1>3, SameConverted
  <2> QED  BY <1>3, <2>1 DEF Filled
<1>5. CallOK(c, g)
  <2> HIDE DEF c
  <2> QED  BY <1>1, <1>2, <1>3, <1>4 DEF CallOK
<1> HIDE DEF c
<1>6. CallOK(cbs[g.cb], g)
  BY <1>3, <1>5 DEF c
<1> QED  BY <1>1, <1>2, <1>3, <1>6, TopOnly

LEMMA NullStep ==
  ASSUME IInv, BindNull
  PROVE  IInv'
<1>1. UNCHANGED <<cbs, frames, calls>> /\ fault = "none" /\ fault' = "stale"
  BY DEF BindNull, Walks
<1>2. Shape' /\ Apart' /\ AllCallsOK'
  BY <1>1 DEF IInv, Shape, Apart, AllCallsOK, Faults
<1> QED  BY <1>1, <1>2 DEF IInv, NoUseAfterFree

-----------------------------------------------------------------------------
(* The end of a call's arguments.                                          *)

(* Without marks every character but the void type is a parameter. *)
LEMMA UnmarkedParams ==
  ASSUME NEW sig \in Signatures, ~Marked(sig)
  PROVE  /\ ParamsAt(sig) = 1 .. Before(sig, EndArg(sig))
         /\ Before(sig, EndArg(sig)) \in Nat
<1> DEFINE e == EndArg(sig)
<1>1. /\ e \in Nat /\ e >= 1
      /\ \A i \in 1 .. e : sig[i] = "v" => i = e - 1 /\ ParamsAt(sig) = {}
  BY SignatureFacts
<1>2. \A n \in 1 .. e - 1 : n \in 1 .. e /\ (n # 1 => n - 1 \in 1 .. e - 1)
  BY <1>1
<1>3. \A n \in 1 .. e - 1 : sig[n] # "_" /\ sig[n] # "("
  BY DEF Marked
<1>4. \A n \in 1 .. e - 1 : n = 1 \/ sig[n - 1] # "_"
  BY <1>2, <1>3
<1>5. \A n \in 1 .. e - 1 : sig[n] # "v" => n \in ParamsAt(sig)
  BY <1>3, <1>4 DEF ParamsAt
<1>6. CASE e > 1 /\ sig[e - 1] = "v"
  <2>1. e - 1 \in 1 .. e - 1
    BY <1>1, <1>6
  <2>2. ParamsAt(sig) = {}
    BY <1>1, <1>2, <1>6, <2>1
  <2>3. \A n \in 1 .. e - 1 : n = e - 1
    BY <1>1, <1>2, <1>5, <2>2
  <2>4. e = 2
    BY <1>1, <1>6, <2>3
  <2>5. Before(sig, e) = 0
    BY <1>6, <2>4 DEF Before
  <2> QED  BY <2>2, <2>5
<1>7. CASE ~(e > 1 /\ sig[e - 1] = "v")
  <2>1. \A n \in 1 .. e - 1 : sig[n] # "v"
    BY <1>1, <1>2, <1>7
  <2>2. ParamsAt(sig) = 1 .. e - 1
    BY <1>5, <2>1 DEF ParamsAt
  <2>3. Before(sig, e) = e - 1
    BY <1>7 DEF Before
  <2> QED  BY <1>1, <2>2, <2>3
<1> QED  BY <1>6, <1>7

(* The n-th member of 1 .. k is n. *)
LEMMA NthOfInterval ==
  ASSUME NEW k \in Nat, NEW n \in 1 .. k
  PROVE  n = CHOOSE p \in 1 .. k : Cardinality({q \in 1 .. k : q <= p}) = n
<1>1. ASSUME NEW p \in 1 .. k
      PROVE  Cardinality({q \in 1 .. k : q <= p}) = p
  <2>1. {q \in 1 .. k : q <= p} = 1 .. p
    OBVIOUS
  <2>2. Cardinality(1 .. p) = IF 1 > p THEN 0 ELSE p - 1 + 1
    BY FS_Interval
  <2>3. Cardinality(1 .. p) = p
    BY <2>2
  <2> QED  BY <2>1, <2>3
<1> QED  BY <1>1

(* At the parenthesis every parameter has been counted. *)
LEMMA AllCounted ==
  ASSUME NEW c, c.sig \in Signatures, ~Marked(c.sig), NEW f, CallOK(c, f), c.sig[f.i] = ")"
  PROVE  /\ f.tally = Len(Params(c.sig)) /\ f.tally \in Nat
         /\ \A n \in 1 .. f.tally : Params(c.sig)[n] = c.sig[n]
<1> DEFINE sig == c.sig
           k == Before(sig, EndArg(sig))
<1>1. f.i = EndArg(sig) /\ f.tally = k
  BY SignatureFacts DEF CallOK
<1>2. ParamsAt(sig) = 1 .. k /\ k \in Nat
  BY UnmarkedParams
<1> HIDE DEF k, sig
<1>3. Cardinality(1 .. k) = k
  BY <1>2, FS_Interval
<1>4. \A n \in 1 .. k : ParamAt(sig, n) = n
  BY <1>2, NthOfInterval DEF ParamAt
<1>5. Params(sig) = [n \in 1 .. k |-> sig[n]]
  BY <1>2, <1>3, <1>4 DEF Params
<1>6. Len(Params(sig)) = k /\ \A n \in 1 .. k : Params(sig)[n] = sig[n]
  BY <1>2, <1>5
<1> QED  BY <1>1, <1>2, <1>6 DEF sig

(* The handler starts with what was passed, if the call was not disturbed. *)
LEMMA GoArrives ==
  ASSUME NEW c, c.sig \in Signatures, ~Marked(c.sig), NEW f \in FrameTypes, CallOK(c, f),
         Filled(c, f),
         c.sig[f.i] = ")", ~CountIsWrong(f),
         NEW g, g.given = f.given, g.call = f.call, g.got = c.vm
  PROVE  ArrivesAsGiven(c.sig, g)
<1> DEFINE sig == c.sig
           t == f.tally
<1>1. t = Len(Params(sig)) /\ t \in Nat /\ \A n \in 1 .. t : Params(sig)[n] = sig[n]
  BY AllCounted
<1>2. Len(f.given) \in Nat
  BY DEF FrameTypes
<1>3. t = Len(f.given)
  BY <1>1, <1>2 DEF CountIsWrong
<1>4. ASSUME SuitsAll(sig, f.given)
      PROVE  c.vm = [n \in 1 .. t |-> <<f.call, n>>]
  <2>1. \A n \in 1 .. t : Suits(sig[n], f.given[n])
    BY <1>1, <1>3, <1>4 DEF SuitsAll
  <2>2. \A n \in 1 .. t : sig[n] \in Bound /\ HasFlag(sig[n], f.given[n])
    BY <2>1, SuitedIsFlagged
  <2>3. \A n \in 1 .. t : ST(f, n).kind = f.given[n] /\ ST(f, n).val = <<f.call, n>>
    BY <1>1, <1>3 DEF ST
  <2>4. \A n \in 1 .. t : ConvertedAt(sig, f, n) = <<f.call, n>>
    BY <2>2, <2>3 DEF ConvertedAt
  <2>5. c.vm = [n \in 1 .. t |-> ConvertedAt(sig, f, n)]
    BY <2>2 DEF Filled
  <2> QED  BY <2>4, <2>5
<1> QED  BY <1>1, <1>3, <1>4 DEF ArrivesAsGiven

(* The innermost call ends. *)
LEMMA PopStep ==
  ASSUME IInv, fault = "none", frames # <<>>,
         frames' = SubSeq(frames, 1, Len(frames) - 1), UNCHANGED <<cbs, calls, fault>>
  PROVE  IInv'
<1>1. Len(frames) \in Nat /\ Len(frames) >= 1
  BY TopFacts DEF IInv
<1>2. Len(frames) - 1 \in 0 .. Len(frames) - 1
  BY <1>1
<1> QED  BY <1>2, PrefixStep

LEMMA GoStep ==
  ASSUME IInv, Go
  PROVE  IInv'
<1> DEFINE c == cbs[Top.cb]
           g == [Top EXCEPT !.phase = "handler", !.got = cbs[Top.cb].vm]
<1>1. /\ Walks("walk") /\ Char = ")" /\ ~CountIsWrong(Top) /\ UNCHANGED <<cbs, calls, fault>>
      /\ SetTop(g) \/ frames' = SubSeq(frames, 1, Len(frames) - 1)
  BY DEF Go
<1>2. /\ fault = "none" /\ frames # <<>> /\ Top.phase = "walk"
      /\ Top \in FrameTypes /\ Top.cb \in Handles /\ c \in CbTypes
      /\ CallOK(c, Top) /\ c.sig \in Signatures /\ Char = c.sig[Top.i]
      /\ cbs \in [Handles -> CbTypes]
  BY <1>1, WalkFacts DEF Phases
<1>3. CASE SetTop(g)
  <2>1. c.vm \in Seq(Values)
    BY <1>2 DEF CbTypes
  <2>2. /\ g \in FrameTypes /\ g.cb = Top.cb /\ g.call = Top.call /\ g.disturbed = Top.disturbed
        /\ g.i = Top.i /\ g.tally = Top.tally /\ g.phase = "handler" /\ g.given = Top.given
        /\ g.got = c.vm
    BY <1>2, <2>1 DEF FrameTypes, Phases
  <2> HIDE DEF g
  <2>3. ~Top.disturbed => Filled(c, Top)
    BY <1>2 DEF CallOK
  <2>4. ~Top.disturbed /\ ~Marked(c.sig) => ArrivesAsGiven(c.sig, g)
    BY <1>1, <1>2, <2>2, <2>3, GoArrives
  <2>5. CallOK(c, g)
    <3> HIDE DEF c
    <3> QED  BY <1>2, <2>2, <2>4 DEF CallOK
  <2> HIDE DEF c
  <2>6. CallOK(cbs[g.cb], g)
    BY <2>2, <2>5 DEF c
  <2> QED  BY <1>1, <1>2, <1>3, <2>2, <2>6, TopOnly
<1>4. CASE frames' = SubSeq(frames, 1, Len(frames) - 1)
  BY <1>1, <1>2, <1>4, PopStep
<1> QED  BY <1>1, <1>3, <1>4

(* Whatever ends calls early leaves the outer ones as they are. *)
LEMMA UnwindStep ==
  ASSUME IInv, fault = "none", frames # <<>>, Unwind, UNCHANGED <<cbs, calls, fault>>
  PROVE  IInv'
<1>1. PICK k \in 0 .. Len(frames) - 1 : frames' = SubSeq(frames, 1, k)
  BY DEF Unwind
<1> QED  BY <1>1, PrefixStep

-----------------------------------------------------------------------------
(* The invariant.                                                          *)

LEMMA InitIInv == Init => IInv
<1> SUFFICES ASSUME Init  PROVE IInv
  OBVIOUS
<1>1. NoCallback \in CbTypes /\ NoCallback.state = "none"
  BY DEF NoCallback, CbTypes
<1>2. cbs \in [Handles -> CbTypes] /\ \A h \in Handles : cbs[h].state = "none"
  BY <1>1 DEF Init
<1>3. frames = <<>> /\ calls = 0 /\ fault = "none" /\ DOMAIN frames = {}
  BY DEF Init
<1>4. Shape
  BY <1>2, <1>3, CallbackAssumption DEF Shape, Faults
<1> QED  BY <1>3, <1>4 DEF IInv, Apart, AllCallsOK, NoUseAfterFree

LEMMA NextIInv == IInv /\ [Next]_vars => IInv'
<1> SUFFICES ASSUME IInv, [Next]_vars  PROVE IInv'
  OBVIOUS
<1>1. ASSUME NEW h \in Handles, NEW sig \in Signatures, dcbNewCallback(h, sig)  PROVE IInv'
  BY <1>1, NewStep
<1>2. ASSUME NEW h \in Handles, NEW sig \in Signatures, dcbInitCallback(h, sig)  PROVE IInv'
  BY <1>2, ReinitStep
<1>3. ASSUME NEW h \in Handles, dcbFreeCallback(h)  PROVE IInv'
  BY <1>3, FreeStep
<1>4. ASSUME NEW h \in Handles, NEW given \in ArgLists, call(h, given)  PROVE IInv'
  BY <1>4, CallStep
<1>5. CASE SkipChar
  BY <1>5, SkipStep
<1>6. CASE BindPlain
  BY <1>6, BindStep DEF BindPlain
<1>7. CASE BindNull
  BY <1>7, NullStep
<1>8. CASE BeginConversion
  BY <1>8, ConversionStep
<1>9. CASE EndConversion
  <2>1. Walks("convert") /\ Bind
    BY <1>9 DEF EndConversion
  <2>2. Char \in Bound
    BY <2>1, WalkFacts DEF Phases, CallOK
  <2> QED  BY <2>1, <2>2, BindStep
<1>10. CASE Refuse
  BY <1>10, UnwindStep DEF Refuse, Walks
<1>11. CASE Go
  BY <1>11, GoStep
<1>12. CASE HandlerReturn
  BY <1>12, PopStep DEF HandlerReturn, Walks
<1>13. CASE Die
  BY <1>13, UnwindStep DEF Die
<1>14. CASE UNCHANGED vars
  BY <1>14 DEF vars, IInv, Shape, Apart, AllCallsOK, NoUseAfterFree
<1> QED  BY <1>1, <1>2, <1>3, <1>4, <1>5, <1>6, <1>7, <1>8, <1>9, <1>10, <1>11, <1>12,
            <1>13, <1>14 DEF Next

LEMMA SpecIInv == Spec => []IInv
BY InitIInv, NextIInv, PTL DEF Spec

-----------------------------------------------------------------------------
(* The theorems.                                                           *)

LEMMA IInvTypes == IInv => TypeOK
<1> SUFFICES ASSUME IInv  PROVE TypeOK
  OBVIOUS
<1>1. Shape
  BY DEF IInv
<1>2. \A h \in Handles : /\ cbs[h].state \in {"none", "live", "freed"}
                         /\ cbs[h].sig \in Signatures \cup {<<>>}
                         /\ cbs[h].vm \in Seq(Values)
  <2> SUFFICES ASSUME NEW h \in Handles, NEW c, c = cbs[h]
               PROVE  /\ c.state \in {"none", "live", "freed"}
                      /\ c.sig \in Signatures \cup {<<>>} /\ c.vm \in Seq(Values)
    OBVIOUS
  <2>1. c \in CbTypes
    BY <1>1 DEF Shape
  <2> QED  BY <2>1 DEF CbTypes
<1>3. \A d \in DOMAIN frames :
        /\ frames[d].cb \in Handles /\ frames[d].call \in 1 .. calls
        /\ frames[d].phase \in {"walk", "convert", "handler"}
        /\ frames[d].phase = "walk" => d = Len(frames)
  <2> SUFFICES ASSUME NEW d \in DOMAIN frames
               PROVE  frames[d].cb \in Handles /\ frames[d].phase \in {"walk", "convert", "handler"}
    BY <1>1 DEF Shape
  <2>1. frames[d] \in FrameTypes
    BY <1>1 DEF Shape
  <2> QED  BY <2>1 DEF FrameTypes, Phases
<1>4. fault # "write" =>
        \A d \in DOMAIN frames : frames[d].i \in 1 .. EndArg(cbs[frames[d].cb].sig)
  BY DEF IInv, AllCallsOK, CallOK
<1> QED  BY <1>1, <1>2, <1>3, <1>4 DEF TypeOK, Shape, Faults

(* Every callback, CallVM and call in progress keeps its type, and a call  *)
(* never walks past the parenthesis of its callback's signature.           *)
THEOREM TypeCorrect == Spec => []TypeOK
BY SpecIInv, IInvTypes, PTL

(* Every handler finds the arguments of its own call, however deep calls   *)
(* nest, unless its callback was called again or freed while one of the    *)
(* arguments was converted, or its signature has characters in front of    *)
(* the parenthesis that are no parameters.                                 *)
THEOREM HandlersGetTheirArguments == Spec => []DeliveredUnlessDisturbed
<1>1. IInv => DeliveredUnlessDisturbed
  BY DEF IInv, AllCallsOK, CallOK, DeliveredUnlessDisturbed
<1> QED  BY <1>1, SpecIInv, PTL

(* The count that call() keeps is the number of parameters of a signature  *)
(* without an opening parenthesis and calling convention prefixes: a call  *)
(* with as many arguments is never refused for their number.               *)
THEOREM RightCountAccepted == Spec => []RefusedOnlyIfWrongUnlessMarked
<1>1. IInv => RefusedOnlyIfWrongUnlessMarked
  <2> SUFFICES ASSUME IInv, fault = "none", NEW d \in DOMAIN frames,
                      ~Marked(cbs[frames[d].cb].sig)
               PROVE  ~RefusesRightCount(cbs[frames[d].cb].sig, frames[d])
    BY DEF RefusedOnlyIfWrongUnlessMarked
  <2> DEFINE f == frames[d]
             c == cbs[f.cb]
  <2>1. Shape /\ CallOK(c, f)
    BY DEF IInv, AllCallsOK
  <2>2. c.sig \in Signatures /\ f \in FrameTypes
    <3>1. f \in FrameTypes
      BY <2>1 DEF Shape
    <3>2. f.cb \in Handles /\ c.state # "none"
      BY <2>1, <3>1 DEF FrameTypes, CallOK
    <3> QED  BY <2>1, <3>1, <3>2 DEF Shape
  <2>3. c.sig[f.i] = ")" => f.tally = Len(Params(c.sig)) /\ f.tally \in Nat
    BY <2>1, <2>2, AllCounted
  <2>4. Len(f.given) \in Nat
    BY <2>2 DEF FrameTypes
  <2> QED  BY <2>3, <2>4 DEF RefusesRightCount, CountIsWrong
<1> QED  BY <1>1, SpecIInv, PTL

(* A callback that is freed, by its own handler or inside any other call,  *)
(* is used again only by a call that was converting an argument then.      *)
THEOREM FreedNotUsed == Spec => []NoUseAfterFree
<1>1. IInv => NoUseAfterFree
  BY DEF IInv
<1> QED  BY <1>1, SpecIInv, PTL
=============================================================================
