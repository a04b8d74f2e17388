---------------------------- MODULE MCSpecDecode ----------------------------
(***************************************************************************)
(* A vocabulary of three tokens, one of them the end of text, and all      *)
(* prompts of one to three tokens.  The first token of a prompt selects    *)
(* among target models that repeat, that alternate and that stop.          *)
(***************************************************************************)
EXTENDS SpecDecode

Vocabulary == 0 .. 2

ShortPrompts == UNION {[1 .. n -> Vocabulary] : n \in 1 .. 3}

Target(h) == (h[1] * Len(h) + 2 * h[Len(h)] + (Len(h) \div 3)) % 3

=============================================================================
