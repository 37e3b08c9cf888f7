---- MODULE MCDecodeGraph ----
(* Two sequences over a small pool; static buffers that start at one page. *)
EXTENDS DecodeGraph

Symmetry == Permutations(Pages) \cup Permutations(Seqs)
====
