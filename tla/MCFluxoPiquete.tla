---------------------------- MODULE MCFluxoPiquete ----------------------------
(* Instances of FluxoPiquete for TLC.                                      *)
EXTENDS FluxoPiquete, TLC

CONSTANTS c1, ana, rui

Simetria == Permutations(Entregas) \cup Permutations(Pedidos)

MCGera == [t \in Codigos |-> t = "AUTO_NOTICIA"]

MCMaiuscula == [u \in Unidades |-> IF u = "bg" THEN "BG" ELSE u]

\* A user with a key registers in one unit, another without key in another, which
\* he writes in lower case, an act of a kind that creates a case or of one that
\* creates none.
MCEntradas ==
  {[chave |-> c1, user |-> ana, tipo |-> "AUTO_NOTICIA", unidade |-> "LU", factosBastam |-> TRUE],
   [chave |-> SemChave, user |-> rui, tipo |-> "AUTO_NOTICIA", unidade |-> "bg", factosBastam |-> TRUE],
   [chave |-> SemChave, user |-> rui, tipo |-> "TERMO", unidade |-> "bg", factosBastam |-> TRUE]}

\* One user, with a key, whose act creates a case.
MCUmaEntrada ==
  {[chave |-> c1, user |-> ana, tipo |-> "AUTO_NOTICIA", unidade |-> "LU", factosBastam |-> TRUE]}
=============================================================================
