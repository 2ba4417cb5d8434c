---------------------------- MODULE MCRegistoActo ----------------------------
(* Instances of RegistoActo for TLC.                                       *)
EXTENDS RegistoActo, TLC

CONSTANTS c1, ana, rui

\* Requests differ only in what they carry and when they run.
Simetria == Permutations(Pedidos)

MCGera == [t \in Codigos |-> TRUE]

MCMaiuscula == [u \in Unidades |-> IF u = "lu" THEN "LU" ELSE u]

\* Two users share a key, one of them writing the unit in lower case; one request
\* has too few facts; one has no key and a unit the number format refuses.
MCEntradas ==
  {[chave |-> c1, user |-> ana, tipo |-> "QUEIXA", unidade |-> "LU", factosBastam |-> TRUE],
   [chave |-> c1, user |-> rui, tipo |-> "QUEIXA", unidade |-> "lu", factosBastam |-> TRUE],
   [chave |-> c1, user |-> ana, tipo |-> "QUEIXA", unidade |-> "LU", factosBastam |-> FALSE],
   [chave |-> SemChave, user |-> ana, tipo |-> "QUEIXA", unidade |-> "PIQUETE", factosBastam |-> TRUE]}

\* The same request, sent again and again.
MCRepetido ==
  {[chave |-> c1, user |-> ana, tipo |-> "QUEIXA", unidade |-> "LU", factosBastam |-> TRUE]}
=============================================================================
