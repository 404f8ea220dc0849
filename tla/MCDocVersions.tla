---------------------------- MODULE MCDocVersions ----------------------------
(* DocVersions for model checking: pages, bodies and blobs are interchangeable. *)
EXTENDS DocVersions, TLC

Symmetry == Permutations(PageIds) \cup Permutations(Texts) \cup Permutations(Blobs)
==============================================================================
