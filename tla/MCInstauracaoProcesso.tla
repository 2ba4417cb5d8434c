------------------------ MODULE MCInstauracaoProcesso ------------------------
(* Instances of InstauracaoProcesso for TLC.                               *)
EXTENDS InstauracaoProcesso, TLC

MCMaiuscula == [u \in Unidades |-> IF u = "lu" THEN "LU" ELSE u]

\* Acts and executions are each interchangeable.
Simetria == Permutations(Actos) \cup Permutations(Entregas)
=============================================================================
