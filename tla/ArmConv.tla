------------------------------- MODULE ArmConv ------------------------------
(***************************************************************************)
(* The ARM conventions: 32 bit in ARM and THUMB code (ATPCS, and EABI with *)
(* its aligned double words), hard float, 64 bit, and 64 bit of Apple.     *)
(***************************************************************************)
EXTENDS Platform

Arm32   == {"arm", "arm_eabi", "thumb", "thumb_eabi", "armhf"}
Arm64   == {"arm64", "arm64_win", "arm64_apple"}
ArmABIs == Arm32 \cup Arm64

-----------------------------------------------------------------------------
(* 32 bit: everything goes to the vector, whose first four words the       *)
(* kernel loads into r0 to r3.                                             *)

gVT_arm32_arm        == [reset |-> "arm32", arg |-> "atpcs", call |-> "arm32"]
gVT_arm32_arm_eabi   == [reset |-> "arm32", arg |-> "eabi", call |-> "arm32"]
gVT_arm32_thumb      == [reset |-> "thumb", arg |-> "thumb_atpcs", call |-> "thumb"]
gVT_arm32_thumb_eabi == [reset |-> "thumb", arg |-> "thumb_eabi", call |-> "thumb"]

arg_arm32_arm(s, t, v) ==
  CASE t \in IntTypes \cup {"float"} -> dcVecAppend(s, Extend(v, 4))
    [] t \in Wide /\ s.vt.arg = "atpcs" -> dcVecAppend(s, v)
    [] t \in Wide /\ s.vt.arg = "eabi"  -> dcVecAppend(dcVecSkip4(s), v)

(* The THUMB file has the same rules. *)
arg_arm32_thumb(s, t, v) ==
  LET aligned == s.vt.arg = "thumb_eabi" /\ t \in Wide IN
    dcVecAppend(IF aligned THEN dcVecSkip4(s) ELSE s, IF t \in Wide THEN v ELSE Extend(v, 4))

mode_arm32_arm(abi, mode) ==
  CASE mode \in CDefault \cup CEllipsis ->
         IF abi = "arm_eabi" THEN gVT_arm32_arm_eabi ELSE gVT_arm32_arm
    [] mode = "ARM_ARM"      -> gVT_arm32_arm
    [] mode = "ARM_ARM_EABI" -> gVT_arm32_arm_eabi
    [] OTHER -> NoVT

mode_arm32_thumb(abi, mode) ==
  CASE mode \in CDefault \cup CEllipsis ->
         IF abi = "thumb_eabi" THEN gVT_arm32_thumb_eabi ELSE gVT_arm32_thumb
    [] mode = "ARM_THUMB"      -> gVT_arm32_thumb
    [] mode = "ARM_THUMB_EABI" -> gVT_arm32_thumb_eabi
    [] OTHER -> NoVT

dcCall_arm32_arm(s)   == Image(FirstWords(s, 4, 4), s.freg, VecRest(s, 16))
dcCall_arm32_thumb(s) == Image(FirstWords(s, 4, 4), s.freg, VecRest(s, 16))

-----------------------------------------------------------------------------
(* Hard float: i is a byte offset into the 16 bytes of integer registers   *)
(* at the start of the vector, s (here f) the next single, d the next pair *)
(* of singles a double fits.                                               *)

vt_armhf          == [reset |-> "armhf", arg |-> "armhf", call |-> "armhf"]
vt_armhf_ellipsis == [reset |-> "armhf", arg |-> "armhf_ellipsis", call |-> "armhf"]

reset_armhf(s) == dcVecResize(Zeroed(s), 16)

armhf_int(s, v) ==
  IF s.i < 16 THEN [VecWrite(s, s.i, v) EXCEPT !.i = @ + 4] ELSE dcVecAppend(s, v)

armhf_longlong(s, v) ==
  LET r == [s EXCEPT !.i = ((@ + 4) \div 8) * 8] IN
    IF r.i < 16
    THEN [VecWrite(r, r.i, v) EXCEPT !.i = @ + 8]
    ELSE dcVecAppend(dcVecSkip4(r), v)

(* Mutant: a float that fills the gap before a double leaves s behind it. *)
armhf_floatBehind(s, v) ==
  IF s.f < FloatRegs[s.abi]
  THEN LET r == PutFloat(s, v) IN
         IF r.d < r.f THEN [r EXCEPT !.d = RoundUp(r.f, 2)] ELSE r
  ELSE dcVecAppend(s, v)

armhf_float(s, v) ==
  IF s.f < FloatRegs[s.abi]
  THEN LET r == PutFloat(s, v) IN
         IF r.d < r.f THEN [r EXCEPT !.d = RoundUp(r.f, 2)] ELSE [r EXCEPT !.f = r.d]
  ELSE dcVecAppend(s, v)

armhf_double(s, v) ==
  IF s.d < FloatRegs[s.abi]
  THEN [s EXCEPT !.freg[s.d] = WordOf(s.abi, v, 0), !.freg[s.d + 1] = WordOf(s.abi, v, 1),
                 !.d = @ + 2, !.f = IF @ % 2 = 0 THEN s.d + 2 ELSE @]
  ELSE dcVecAppend(dcVecSkip4([s EXCEPT !.f = FloatRegs[s.abi]]), v)

arg_armhf(s, t, v) ==
  LET ellipsis == s.vt.arg = "armhf_ellipsis" IN
    CASE t \in IntTypes \/ (t = "float" /\ ellipsis)      -> armhf_int(s, Extend(v, 4))
      [] t = "longlong" \/ (t = "double" /\ ellipsis)     -> armhf_longlong(s, v)
      [] t = "float" /\ ~ellipsis                         -> armhf_float(s, v)
      [] t = "double" /\ ~ellipsis                        -> armhf_double(s, v)

mode_armhf(mode) ==
  CASE mode \in CDefault \cup {"ARM_ARMHF"} -> vt_armhf
    [] mode \in CEllipsis -> vt_armhf_ellipsis
    [] OTHER -> NoVT

dcCall_arm32_armhf(s) == Image(FirstWords(s, 4, 4), s.freg, VecRest(s, 16))

-----------------------------------------------------------------------------
(* The callback's side of the 32 bit conventions; f counts singles and d   *)
(* doubles again, in the registers d0 to d7 the thunk stores.              *)

IsHF(a)   == a.abi = "armhf"
IsATPCS(a) == a.abi \in {"arm", "thumb"}

arm_align_64(a) ==
  IF IsATPCS(a) THEN a
  ELSE LET r == IF a.i < 4 THEN [a EXCEPT !.i = RoundUp(@, 2)] ELSE a IN
         IF r.i >= 4 THEN SkipSP(r) ELSE r

arm_word(a) == IF a.i < 4 THEN FromInt(a) ELSE FromStack(a, 4, 4)

arm_longlong(a) == TwoWords(arm_word, arm_align_64(a))

arm_float(a) ==
  IF IsHF(a) /\ a.f < FloatRegs[a.abi]
  THEN LET r == FromFloat(a) IN
         IF r.args.f % 2 = 0 /\ r.args.f < r.args.d
         THEN [r EXCEPT !.args.f = r.args.d] ELSE r
  ELSE arm_word(a)

arm_double(a) ==
  LET n == FloatRegs[a.abi]
      b == IF a.d < a.f THEN [a EXCEPT !.d = RoundUp(a.f, 2)] ELSE a IN
    CASE IsHF(a) /\ b.d < n ->
           Fetched([b EXCEPT !.d = @ + 2, !.f = IF @ % 2 = 0 THEN b.d + 2 ELSE @],
                   Joined(a.abi, b.freg[b.d], b.freg[b.d + 1]))
      [] IsHF(a) /\ b.d >= n -> arm_longlong([b EXCEPT !.f = n])
      [] ~IsHF(a)            -> arm_longlong(a)

dcbArg_arm32(a, t) ==
  CASE t \in IntTypes   -> arm_word(a)
    [] t = "longlong"   -> arm_longlong(a)
    [] t = "float"      -> arm_float(a)
    [] t = "double"     -> arm_double(a)

-----------------------------------------------------------------------------
(* 64 bit: eight integer and eight float registers, then stack slots of    *)
(* eight bytes.                                                            *)

vt_arm64             == [reset |-> "arm64", arg |-> "arm64", call |-> "arm64"]
vt_arm64_win_varargs == [reset |-> "arm64", arg |-> "win_varargs", call |-> "arm64"]

a_i64(s, v) == IF s.i < IntRegs[s.abi] THEN PutInt(s, v) ELSE dcVecAppend(s, v)

arg_arm64(s, t, v) ==
  LET inReg == s.f < FloatRegs[s.abi] IN
    CASE t \in IntTypes \cup {"longlong"} -> a_i64(s, Extend(v, 8))
      [] t = "float" /\ inReg   -> PutFloat(s, Padded(v))
      [] t = "float" /\ ~inReg  -> dcVecSkip(dcVecAppend(s, v), 4)
      [] t = "double" /\ inReg  -> PutFloat(s, v)
      [] t = "double" /\ ~inReg -> dcVecAppend(s, v)

(* Windows passes variadic floats as integers. *)
arg_arm64_win_varargs(s, t, v) == a_i64(s, Extend(v, 8))

mode_arm64(abi, mode) ==
  CASE mode \in CEllipsis /\ abi = "arm64_win" -> vt_arm64_win_varargs
    [] mode \in CEllipsis /\ abi # "arm64_win" -> vt_arm64
    [] mode \in CDefault \cup {"ARM64"} -> vt_arm64
    [] OTHER -> NoVT

(* Pairs of slots are copied: eight bytes too many after an odd slot. *)
call_arm64(s) == Image(s.ireg, s.freg, Bytes(s.vec, 0, RoundUp(dcVecSize(s), 16)))

dcbArg_arm64(a, t) ==
  IF t \in Floats
  THEN IF a.f < FloatRegs[a.abi] THEN FromFloat(a) ELSE FromStack(a, 8, 8)
  ELSE IF a.i < IntRegs[a.abi] THEN FromInt(a) ELSE FromStack(a, 8, 8)

-----------------------------------------------------------------------------
(* Apple's 64 bit: on the stack a value takes its own size at its own      *)
(* alignment; variadic arguments take slots of eight bytes, on the stack   *)
(* only.                                                                   *)

vt_arm64_apple    == [reset |-> "arm64", arg |-> "apple", call |-> "apple"]
vt_arm64_variadic == [reset |-> "arm64", arg |-> "variadic", call |-> "apple"]

(* A char is appended without aligning: its alignment is one. *)
AppleStack(s, t, v) == dcVecAppend(dcVecAlign(s, SizeOf(s.abi, t)), v)

arg_arm64_apple(s, t, v) ==
  CASE t \in Floats /\ s.f < FloatRegs[s.abi] ->
         PutFloat(s, Padded(v))
    [] t \notin Floats /\ s.i < IntRegs[s.abi] -> PutInt(s, Extend(v, 8))
    [] OTHER -> AppleStack(s, t, v)

arg_arm64_variadic(s, t, v) ==
  dcVecAppend(dcVecAlign(s, 8), IF t = "float" THEN Widen(v) ELSE Extend(v, 8))

mode_arm64_apple(mode) ==
  CASE mode \in CDefault \cup {"ARM64", "ELLIPSIS"} -> vt_arm64_apple
    [] mode = "VARARGS" -> vt_arm64_variadic
    [] OTHER -> NoVT

call_arm64_apple(s) == Image(s.ireg, s.freg, Bytes(s.vec, 0, RoundUp(dcVecSize(s), 16)))

AppleAtSP(a, t) == LET w == SizeOf(a.abi, t) IN FromStack(AlignSP(a, w), w, w)

dcbArg_arm64_apple(a, t) ==
  CASE t \in Floats /\ a.f < FloatRegs[a.abi]  -> FromFloat(a)
    [] t \notin Floats /\ a.i < IntRegs[a.abi] -> FromInt(a)
    [] OTHER -> AppleAtSP(a, t)

-----------------------------------------------------------------------------
(* The family.                                                             *)

ArmReset(s) == IF s.vt.reset = "armhf" THEN reset_armhf(s) ELSE Zeroed(s)

ArmArg(s, t, v) ==
  CASE s.vt.arg \in {"atpcs", "eabi"}              -> arg_arm32_arm(s, t, v)
    [] s.vt.arg \in {"thumb_atpcs", "thumb_eabi"}  -> arg_arm32_thumb(s, t, v)
    [] s.vt.arg \in {"armhf", "armhf_ellipsis"}    -> arg_armhf(s, t, v)
    [] s.vt.arg = "arm64"                          -> arg_arm64(s, t, v)
    [] s.vt.arg = "win_varargs"                    -> arg_arm64_win_varargs(s, t, v)
    [] s.vt.arg = "apple"                          -> arg_arm64_apple(s, t, v)
    [] s.vt.arg = "variadic"                       -> arg_arm64_variadic(s, t, v)

ArmMode(abi, mode) ==
  CASE abi \in {"arm", "arm_eabi"}     -> mode_arm32_arm(abi, mode)
    [] abi \in {"thumb", "thumb_eabi"} -> mode_arm32_thumb(abi, mode)
    [] abi = "armhf"                   -> mode_armhf(mode)
    [] abi \in {"arm64", "arm64_win"}  -> mode_arm64(abi, mode)
    [] abi = "arm64_apple"             -> mode_arm64_apple(mode)

ArmCall(s) ==
  CASE s.vt.call = "arm32" -> dcCall_arm32_arm(s)
    [] s.vt.call = "thumb" -> dcCall_arm32_thumb(s)
    [] s.vt.call = "armhf" -> dcCall_arm32_armhf(s)
    [] s.vt.call = "arm64" -> call_arm64(s)
    [] s.vt.call = "apple" -> call_arm64_apple(s)

ArmFetch(a, t) ==
  CASE a.abi \in Arm32                  -> dcbArg_arm32(a, t)
    [] a.abi \in {"arm64", "arm64_win"} -> dcbArg_arm64(a, t)
    [] a.abi = "arm64_apple"            -> dcbArg_arm64_apple(a, t)
=============================================================================
