--------------------------- MODULE MCRadixCache ---------------------------
(* Instances of RadixCache for TLC: pages of two tokens.                    *)
EXTENDS RadixCache, TLC

\* One short prompt and two longer ones that part at a page boundary.
AlignedPrompts == {<<1>>, <<1, 2, 3>>, <<1, 2, 4>>}
\* Two continuations of a prompt that ends inside a page.
DivergentPrompts == {<<1>>, <<1, 2>>, <<1, 3>>}

\* The condition under which ContentsIntact is proved tells the two sets apart.
ASSUME PromptSets == PartAtPages(AlignedPrompts) /\ ~PartAtPages(DivergentPrompts)

BlockSymmetry == Permutations(Blocks) \cup Permutations(Seqs)
=============================================================================
