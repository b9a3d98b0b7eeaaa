-------------------------- MODULE MCFinalization --------------------------
(***************************************************************************)
(* A small instance of Finalization: a message and its reply, two batches, *)
(* two recipients and two transactions at a time.                          *)
(***************************************************************************)
EXTENDS Finalization, TLC

Symmetry ==
    Permutations(Txs) \cup Permutations(Msgs) \cup Permutations(Batches)
        \cup Permutations(Addrs)
============================================================================
