--------------------------- MODULE Strlcpy_proof ---------------------------
(***************************************************************************)
(* strlcpy does what its comment promises, for every string and every      *)
(* buffer size.                                                            *)
(***************************************************************************)
EXTENDS Strlcpy, TLAPS

(* The first k bytes of the buffer are the string's, the rest is untouched. *)
HoldsPrefix(k) ==
  /\ \A i \in 0 .. siz : i < k => dst[i] = CharAt(i)
  /\ \A i \in 0 .. siz : i >= k => dst[i] = Old

(* The buffer holds what fits and its NUL. *)
HoldsResult ==
  siz # 0 => /\ \A i \in 0 .. siz : i < Copied => dst[i] = CharAt(i)
             /\ dst[Copied] = NUL
             /\ \A i \in 0 .. siz : i > Copied => dst[i] = Old

(* In the first loop the pointers are in step, n bytes remain. *)
LoopInv ==
  pc = "loop" => /\ siz # 0 /\ n >= 1 /\ s = siz - n /\ d = s
                 /\ s <= Len(src)
                 /\ HoldsPrefix(s)

(* It ended for want of room. *)
TailInv ==
  pc = "tail" => /\ siz = 0 => d = 0 /\ s = 0
                 /\ siz # 0 => d = siz - 1 /\ s = d
                 /\ s <= Len(src)
                 /\ HoldsPrefix(s)

(* The NUL is written; the rest of the source is skipped. *)
SkipInv ==
  pc = "skip" => /\ s <= Len(src)
                 /\ siz # 0 => d = siz - 1
                 /\ siz = 0 => dst[0] = Old
                 /\ HoldsResult

(* Either loop read the terminator. *)
EndInv ==
  /\ pc \in {"return", "done"} => /\ s = Len(src) + 1
                                  /\ siz = 0 => dst[0] = Old
                                  /\ HoldsResult
  /\ pc = "done" => result = Len(src)

SInv == TypeOK /\ LoopInv /\ TailInv /\ SkipInv /\ EndInv

-----------------------------------------------------------------------------
(* A position within the string holds no NUL; its end does. *)
LEMMA CharAtNul ==
  ASSUME src \in Seq(Chars), NEW i \in Nat, i <= Len(src)
  PROVE  /\ CharAt(i) \in Chars \cup {NUL}
         /\ CharAt(i) = NUL <=> i = Len(src)
BY StrlcpyAssumption DEF CharAt

LEMMA InitSInv == Init => SInv
<1> SUFFICES ASSUME Init PROVE SInv
  OBVIOUS
<1>1. src \in Seq(Chars) /\ siz \in Nat /\ Len(src) \in Nat
  BY StrlcpyAssumption DEF Init
<1>2. TypeOK
  BY <1>1 DEF Init, TypeOK
<1>3. HoldsPrefix(0)
  BY <1>1 DEF Init, HoldsPrefix
<1>. QED
  BY <1>1, <1>2, <1>3 DEF Init, SInv, LoopInv, TailInv, SkipInv, EndInv

(* An iteration of the first loop. *)
LEMMA CopyInv == SInv /\ Copy => SInv'
<1> SUFFICES ASSUME SInv, Copy PROVE SInv'
  OBVIOUS
<1>1. /\ src \in Seq(Chars) /\ siz \in Nat /\ Len(src) \in Nat
      /\ siz # 0 /\ n \in Nat /\ n >= 1 /\ s = siz - n /\ d = s
      /\ s \in Nat /\ s <= Len(src) /\ HoldsPrefix(s)
      /\ dst \in [0 .. siz -> Chars \cup {NUL, Old}]
      /\ src' = src /\ siz' = siz /\ result' = result /\ result \in Int
  BY DEF SInv, TypeOK, LoopInv, Copy
<1>2. CharAt(s) \in Chars \cup {NUL} /\ (CharAt(s) = NUL <=> s = Len(src))
  BY <1>1, CharAtNul
<1>3. CASE n - 1 = 0
  <2>1. pc' = "tail" /\ n' = 0 /\ UNCHANGED <<src, siz, dst, d, s, result>>
    BY <1>1, <1>3 DEF Copy
  <2>2. TypeOK'
    BY <1>1, <2>1 DEF TypeOK
  <2>3. TailInv'
    BY <1>1, <1>3, <2>1 DEF TailInv, HoldsPrefix, CharAt
  <2>. QED  BY <2>1, <2>2, <2>3 DEF SInv, LoopInv, SkipInv, EndInv
<1>4. CASE n - 1 # 0
  <2>1. /\ n' = n - 1 /\ d' = d + 1 /\ s' = s + 1
        /\ dst' = [dst EXCEPT ![s] = CharAt(s)]
        /\ pc' = IF CharAt(s) = NUL THEN "return" ELSE "loop"
    BY <1>1, <1>4 DEF Copy
  <2>2. TypeOK'
    BY <1>1, <1>2, <1>4, <2>1 DEF TypeOK
  <2>3. HoldsPrefix(s)' /\ \A i \in 0 .. siz : CharAt(i)' = CharAt(i)
    BY <1>1, <1>4, <2>1 DEF HoldsPrefix, CharAt
  <2>4. CASE CharAt(s) = NUL
    <3>1. s = Len(src) /\ Copied' = s /\ Copied = s
      BY <1>1, <1>2, <1>4, <2>4 DEF Copied
    <3>2. HoldsResult'
      BY <1>1, <1>4, <2>1, <2>3, <2>4, <3>1 DEF HoldsResult, HoldsPrefix
    <3>. QED  BY <1>1, <2>1, <2>2, <2>4, <3>1, <3>2
              DEF SInv, LoopInv, TailInv, SkipInv, EndInv
  <2>5. CASE CharAt(s) # NUL
    BY <1>1, <1>2, <1>4, <2>1, <2>2, <2>3, <2>5
      DEF SInv, LoopInv, TailInv, SkipInv, EndInv
  <2>. QED  BY <2>4, <2>5
<1>. QED  BY <1>3, <1>4

(* The NUL for want of room. *)
LEMMA TerminateInv == SInv /\ Terminate => SInv'
<1> SUFFICES ASSUME SInv, Terminate PROVE SInv'
  OBVIOUS
<1>1. /\ src \in Seq(Chars) /\ siz \in Nat /\ Len(src) \in Nat
      /\ siz = 0 => d = 0 /\ s = 0
      /\ siz # 0 => d = siz - 1 /\ s = d
      /\ s \in Nat /\ s <= Len(src) /\ HoldsPrefix(s)
      /\ dst \in [0 .. siz -> Chars \cup {NUL, Old}]
      /\ dst' = IF siz # 0 THEN [dst EXCEPT ![d] = NUL] ELSE dst
      /\ pc' = "skip" /\ UNCHANGED <<src, siz, d, s, n, result>>
  BY DEF SInv, TypeOK, TailInv, Terminate
<1>2. TypeOK'
  BY <1>1 DEF SInv, TypeOK
<1>3. ASSUME siz # 0 PROVE Copied = s /\ Copied' = s
  BY <1>1, <1>3 DEF Copied
<1>4. HoldsResult'
  BY <1>1, <1>3 DEF HoldsResult, HoldsPrefix, CharAt
<1>5. SkipInv'
  BY <1>1, <1>4 DEF SkipInv, HoldsPrefix
<1>. QED  BY <1>1, <1>2, <1>5 DEF SInv, LoopInv, TailInv, EndInv

(* The second loop, and the return. *)
LEMMA SkipInvKept == SInv /\ Skip => SInv'
<1> SUFFICES ASSUME SInv, Skip PROVE SInv'
  OBVIOUS
<1>1. /\ src \in Seq(Chars) /\ s \in Nat /\ s <= Len(src) /\ Len(src) \in Nat
      /\ s' = s + 1 /\ UNCHANGED <<src, siz, dst, d, n, result>>
      /\ pc' = IF CharAt(s) = NUL THEN "return" ELSE "skip"
  BY DEF SInv, TypeOK, SkipInv, Skip
<1>2. CharAt(s) = NUL <=> s = Len(src)
  BY <1>1, CharAtNul
<1>3. TypeOK'
  BY <1>1 DEF SInv, TypeOK
<1>4. HoldsResult => HoldsResult'
  BY <1>1 DEF HoldsResult, Copied, CharAt
<1>. QED
  BY <1>1, <1>2, <1>3, <1>4
    DEF SInv, LoopInv, TailInv, SkipInv, EndInv, Skip

LEMMA ReturnInv == SInv /\ Return => SInv'
<1> SUFFICES ASSUME SInv, Return PROVE SInv'
  OBVIOUS
<1>1. HoldsResult => HoldsResult'
  BY DEF Return, HoldsResult, Copied, CharAt
<1>. QED
  BY <1>1 DEF SInv, TypeOK, LoopInv, TailInv, SkipInv, EndInv, Return

(* The loop invariants hold at every step. *)
THEOREM StrlcpyInvariant == Spec => []SInv
<1>1. SInv /\ [Next]_vars => SInv'
  <2> SUFFICES ASSUME SInv, [Next]_vars PROVE SInv'
    OBVIOUS
  <2>1. CASE UNCHANGED vars
    BY <2>1 DEF vars, SInv, TypeOK, LoopInv, TailInv, SkipInv, EndInv,
                HoldsPrefix, HoldsResult, Copied, CharAt
  <2>. QED  BY <2>1, CopyInv, TerminateInv, SkipInvKept, ReturnInv DEF Next
<1>. QED  BY <1>1, InitSInv, PTL DEF Spec

(* strlcpy copies what fits, terminates it and returns the string's length, *)
(* for every string and size (the comment at strlcpy.cpp 23-27).            *)
THEOREM StrlcpyIsCorrect == Spec => []Correct
<1>1. SInv => Correct
  <2> SUFFICES ASSUME SInv, pc = "done" PROVE Correct
    BY DEF Correct
  <2>1. /\ src \in Seq(Chars) /\ siz \in Nat /\ Len(src) \in Nat
        /\ result = Len(src) /\ (siz = 0 => dst[0] = Old) /\ HoldsResult
    BY DEF SInv, TypeOK, EndInv
  <2>2. ASSUME siz # 0
        PROVE  /\ Copied \in 0 .. siz - 1 /\ Copied <= Len(src)
    BY <2>1, <2>2 DEF Copied
  <2>. QED  BY <2>1, <2>2 DEF Correct, HoldsResult, CharAt
<1>. QED  BY <1>1, StrlcpyInvariant, PTL

(* Neither loop leaves the string or the buffer. *)
THEOREM StrlcpyStaysInBounds == Spec => []InBounds
<1>1. SInv => InBounds
  <2> SUFFICES ASSUME SInv PROVE InBounds
    OBVIOUS
  <2>1. /\ src \in Seq(Chars) /\ siz \in Nat /\ Len(src) \in Nat
        /\ s \in Nat /\ d \in Nat /\ n \in Nat
        /\ pc \in {"loop", "tail", "skip", "return", "done"}
    BY DEF SInv, TypeOK
  <2>2. siz # 0 => Copied \in 0 .. siz - 1
    BY <2>1 DEF Copied
  <2>3. dst[siz] = Old
    BY <2>1, <2>2 DEF SInv, LoopInv, TailInv, SkipInv, EndInv,
                      HoldsPrefix, HoldsResult
  <2>. QED
    BY <2>1, <2>3 DEF InBounds, SInv, LoopInv, TailInv, SkipInv
<1>. QED  BY <1>1, StrlcpyInvariant, PTL

(* The type of every variable: the buffer's cells are characters or         *)
(* untouched, and no pointer falls below its start.                         *)
THEOREM StrlcpyTypeCorrect == Spec => []TypeOK
<1>1. SInv => TypeOK
  BY DEF SInv
<1>. QED  BY <1>1, StrlcpyInvariant, PTL
=============================================================================
