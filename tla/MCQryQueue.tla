----------------------------- MODULE MCQryQueue -----------------------------
(* Runs of QryQueue with several clients, which are interchangeable.       *)
EXTENDS QryQueue

Interchangeable == Permutations(Clients)
=============================================================================
