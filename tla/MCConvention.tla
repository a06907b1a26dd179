---------------------------- MODULE MCConvention ----------------------------
(* Instances of Convention.  The register files are smaller than the       *)
(* platforms' so that a few arguments run out of them; where one file      *)
(* overflows before the other on the platform, it does here.               *)
EXTENDS Convention

MCIntRegs ==
  [arm |-> 4, arm_eabi |-> 4, thumb |-> 4, thumb_eabi |-> 4, armhf |-> 4,
   arm64 |-> 2, arm64_win |-> 2, arm64_apple |-> 2,
   mips_o32_le |-> 0, mips_o32_be |-> 0, mips_o32_soft |-> 0,
   mips_eabi |-> 4, mips_n64 |-> 3, mips_n64_le |-> 3, mips_n64_soft |-> 3, mips_n32 |-> 3,
   ppc32_darwin |-> 3, ppc32_sysv |-> 4, ppc64_v1 |-> 2, ppc64_v2 |-> 2,
   sparc32 |-> 3, sparc64 |-> 2, x86 |-> 2, x86_msvc |-> 2]

MCFloatRegs ==
  [arm |-> 0, arm_eabi |-> 0, thumb |-> 0, thumb_eabi |-> 0, armhf |-> 4,
   arm64 |-> 2, arm64_win |-> 2, arm64_apple |-> 2,
   mips_o32_le |-> 2, mips_o32_be |-> 2, mips_o32_soft |-> 0,
   mips_eabi |-> 2, mips_n64 |-> 3, mips_n64_le |-> 3, mips_n64_soft |-> 0, mips_n32 |-> 3,
   ppc32_darwin |-> 4, ppc32_sysv |-> 2, ppc64_v1 |-> 3, ppc64_v2 |-> 3,
   sparc32 |-> 0, sparc64 |-> 3, x86 |-> 0, x86_msvc |-> 0]

Variadic == {"armhf", "arm64_win", "arm64_apple", "mips_o32_be", "mips_n64", "mips_n64_soft",
             "mips_n32", "ppc32_darwin", "ppc64_v1", "ppc64_v2", "sparc64"}

MCModes ==
  [abi \in ABIs |->
     {"DEFAULT"}
       \cup (IF abi \in Variadic THEN {"ELLIPSIS"} ELSE {})
       \cup (IF abi \in {"x86", "ppc32_sysv"} THEN {"SYS"} ELSE {})
       \cup (IF abi = "x86" THEN {"X86_STD", "X86_FAST_MS", "X86_FAST_GNU"} ELSE {})
       \cup (IF abi \in {"x86_msvc", "mips_n32"} THEN {"THIS"} ELSE {})]

(* ARM hard float alone. *)
MCArmhf == [armhf |-> 4]
MCArmhfModes == [armhf |-> {"DEFAULT", "ELLIPSIS"}]
=============================================================================
