--------------------------- MODULE MCV4Prefix ---------------------------
(* Instances of V4Prefix for TLC: pages of two tokens.                      *)
EXTENDS V4Prefix, TLC

\* A chain of prompts: hits with one, with two and with no token to go.
ChainPrompts == {<<"a">>, <<"a", "b">>, <<"a", "b", "c">>}

PageSymmetry == Permutations(Pages) \cup Permutations(Seqs)
=============================================================================
