------------------------------ MODULE MCAdminStore ------------------------------
(* Two requests at a time over two transports and two tables, one fault.       *)
EXTENDS AdminStore, TLC

Symmetry == Permutations(Transports) \cup Permutations(Tables) \cup Permutations(Requests)

================================================================================
