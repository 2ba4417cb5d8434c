----------------------------- MODULE MCExpediente -----------------------------
(* Instances of Expediente for TLC.                                        *)
EXTENDS Expediente, TLC

CONSTANTS x1

\* Uses and documents are interchangeable.
Simetria == Permutations(Usos) \cup Permutations(Pecas)

MCProcessoDe == [p \in Pecas |-> x1]
=============================================================================
