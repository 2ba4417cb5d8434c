------------------------- MODULE MCPoliticaAutorizacao -------------------------
(* Instances of PoliticaAutorizacao for TLC.                               *)
EXTENDS PoliticaAutorizacao

\* Two roles with a permission of their own, one without any, one that shares.
MCConcede == [r \in Perfis |->
  CASE r = "diretor" -> {"relatorio"}
    [] r = "chefe" -> {"despacho", "processo"}
    [] r = "instrutor" -> {"processo"}
    [] OTHER -> {}]
=============================================================================
