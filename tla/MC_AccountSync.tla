--------------------------- MODULE MC_AccountSync ---------------------------
(* Small instance of AccountSync for TLC: two sync tasks, four outputs     *)
(* (two at the start, one produced by each transaction), two transaction   *)
(* ids, the clock up to 1.                                                 *)
EXTENDS AccountSync, TLC

CONSTANTS t1, t2, o1, o2, o3, o4, x1, x2, noTask

MC_Tasks == {t1, t2}
MC_Outputs == {o1, o2, o3, o4}
MC_Txs == {x1, x2}
MC_Genesis == {o1, o2}
MC_Produced == (x1 :> o3) @@ (x2 :> o4)

\* The two sync tasks are interchangeable, and so are the two outputs of
\* the start (each transaction produces its own output).
MC_Symmetry ==
  {p @@ q : p \in Permutations(MC_Tasks), q \in Permutations(MC_Genesis)}

=============================================================================
