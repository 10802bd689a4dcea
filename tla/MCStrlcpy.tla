----------------------------- MODULE MCStrlcpy -----------------------------
(* Strlcpy for TLC: all strings of up to four characters. *)
EXTENDS Strlcpy, SequencesExt

ShortStrings == SeqOf(Chars, 4)
=============================================================================
