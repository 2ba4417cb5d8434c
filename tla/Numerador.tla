------------------------------ MODULE Numerador ------------------------------
(***************************************************************************)
(* What GeradorNumeroService promises its callers: a call is answered with *)
(* the next number of its key in one indivisible step, or is refused and   *)
(* leaves the counter as it was.                                           *)
(***************************************************************************)
EXTENDS Naturals

CONSTANTS Pedidos, Chaves, UnidadesValidas, Limite, Nenhum

VARIABLES
  contador,    \* contador[k]: the last number given out under key k
  numero,      \* numero[p]: the key and number given to call p, or Nenhum
  recusados    \* the calls refused

vars == <<contador, numero, recusados>>

Init ==
  /\ contador = [k \in Chaves |-> 0]
  /\ numero = [p \in Pedidos |-> Nenhum]
  /\ recusados = {}

Aberto(p) == numero[p] = Nenhum /\ p \notin recusados

Atribuir(p, k) ==
  /\ Aberto(p)
  /\ k[1] \in UnidadesValidas
  /\ contador[k] < Limite
  /\ contador' = [contador EXCEPT ![k] = @ + 1]
  /\ numero' = [numero EXCEPT ![p] = <<k, contador[k] + 1>>]
  /\ UNCHANGED recusados

Recusar(p) ==
  /\ Aberto(p)
  /\ recusados' = recusados \cup {p}
  /\ UNCHANGED <<contador, numero>>

Next == \E p \in Pedidos : Recusar(p) \/ \E k \in Chaves : Atribuir(p, k)

Spec == Init /\ [][Next]_vars
=============================================================================
