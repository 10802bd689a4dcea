------------------------------ MODULE Strlcpy ------------------------------
(***************************************************************************)
(* strlcpy (bionic/strlcpy.cpp 28-49), one loop iteration per step: it     *)
(* copies a string into a buffer of siz bytes and returns the string's     *)
(* length.  The byte at index siz lies behind the buffer.                  *)
(***************************************************************************)
EXTENDS Integers, Sequences

CONSTANTS Chars,    \* the characters other than NUL
          NUL,
          Old,      \* what the buffer held before
          Strings,  \* the strings to copy
          Sizes     \* the buffer sizes

ASSUME StrlcpyAssumption ==
  /\ NUL \notin Chars
  /\ Old \notin Chars \cup {NUL}
  /\ Strings \subseteq Seq(Chars)
  /\ Sizes \subseteq Nat

VARIABLES src, siz,   \* the arguments
          dst,        \* the buffer
          d, s,       \* the pointers of those names, as indices
          n,          \* the local of that name
          pc, result

vars == <<src, siz, dst, d, s, n, pc, result>>

(* The character s points to, for an index within the string and its terminator. *)
CharAt(i) == IF i < Len(src) THEN src[i + 1] ELSE NUL

Init ==
  /\ src \in Strings /\ siz \in Sizes
  /\ dst = [i \in 0 .. siz |-> Old]
  /\ d = 0 /\ s = 0 /\ n = siz
  /\ pc = IF siz # 0 THEN "loop" ELSE "tail"
  /\ result = -1

\* Mutant: while (n-- != 0)
Copy_PostDecrement ==
  /\ pc = "loop"
  /\ n' = n - 1
  /\ \/ /\ n # 0
        /\ dst' = [dst EXCEPT ![d] = CharAt(s)]
        /\ d' = d + 1 /\ s' = s + 1
        /\ pc' = IF CharAt(s) = NUL THEN "return" ELSE "loop"
     \/ /\ n = 0
        /\ pc' = "tail"
        /\ UNCHANGED <<dst, d, s>>
  /\ UNCHANGED <<src, siz, result>>

\* the first loop: while (--n != 0), copy, break after the NUL
Copy ==
  /\ pc = "loop"
  /\ n' = n - 1
  /\ \/ /\ n' # 0
        /\ dst' = [dst EXCEPT ![d] = CharAt(s)]
        /\ d' = d + 1 /\ s' = s + 1
        /\ pc' = IF CharAt(s) = NUL THEN "return" ELSE "loop"
     \/ /\ n' = 0
        /\ pc' = "tail"
        /\ UNCHANGED <<dst, d, s>>
  /\ UNCHANGED <<src, siz, result>>

\* n == 0, not enough room: write the NUL unless siz is 0 ...
Terminate ==
  /\ pc = "tail"
  /\ dst' = IF siz # 0 THEN [dst EXCEPT ![d] = NUL] ELSE dst
  /\ pc' = "skip"
  /\ UNCHANGED <<src, siz, d, s, n, result>>

\* ... and go on to the end of the source
Skip ==
  /\ pc = "skip"
  /\ s' = s + 1
  /\ pc' = IF CharAt(s) = NUL THEN "return" ELSE "skip"
  /\ UNCHANGED <<src, siz, dst, d, n, result>>

\* Mutant: return(s - src)
Return_CountsNUL ==
  /\ pc = "return"
  /\ result' = s
  /\ pc' = "done"
  /\ UNCHANGED <<src, siz, dst, d, s, n>>

\* return(s - src - 1)
Return ==
  /\ pc = "return"
  /\ result' = s - 1
  /\ pc' = "done"
  /\ UNCHANGED <<src, siz, dst, d, s, n>>

Next == Copy \/ Terminate \/ Skip \/ Return

Spec == Init /\ [][Next]_vars

-----------------------------------------------------------------------------
(* The type of every variable. *)
TypeOK ==
  /\ src \in Seq(Chars) /\ siz \in Nat
  /\ dst \in [0 .. siz -> Chars \cup {NUL, Old}]
  /\ d \in Nat /\ s \in Nat /\ n \in Nat
  /\ pc \in {"loop", "tail", "skip", "return", "done"}
  /\ result \in Int

(* The bytes strlcpy copies: "at most siz-1 characters". *)
Copied == IF Len(src) < siz THEN Len(src) ELSE siz - 1

(* What the comment above strlcpy (strlcpy.cpp 23-27) promises: the result   *)
(* is strlen(src); the buffer holds as much of the string as fits and a NUL, *)
(* unless siz is 0; nothing else in the buffer or behind it is written.      *)
Correct ==
  pc = "done" =>
    /\ result = Len(src)
    /\ siz # 0 => /\ \A i \in 0 .. Copied - 1 : dst[i] = src[i + 1]
                  /\ dst[Copied] = NUL
                  /\ \A i \in Copied + 1 .. siz : dst[i] = Old
    /\ siz = 0 => dst[0] = Old

(* strlcpy never reads behind the terminator of its source, nor writes or    *)
(* points its destination behind the buffer, at any step of either loop.     *)
InBounds ==
  /\ pc \in {"loop", "skip"} => s <= Len(src)
  /\ dst[siz] = Old
  /\ siz # 0 => d <= siz - 1 \/ pc \in {"return", "done"}
=============================================================================
