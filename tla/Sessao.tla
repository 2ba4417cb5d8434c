-------------------------------- MODULE Sessao --------------------------------
(***************************************************************************)
(* What the refresh-token sessions promise: a session is a register that   *)
(* holds its one good token.  Opening it stores a first token, a rotation  *)
(* swaps the good token for a new one in one step, and a session that was  *)
(* ended stays ended.                                                      *)
(***************************************************************************)
CONSTANTS Sessoes, Tokens, Nenhum

VARIABLES
  vivo,       \* vivo[s]: the good token of s, or Nenhum before and after its life
  abertas,    \* sessions ever opened
  emitidos,   \* tokens ever stored
  sucessor    \* sucessor[t]: the token t was exchanged for, or Nenhum

vars == <<vivo, abertas, emitidos, sucessor>>

Init ==
  /\ vivo = [s \in Sessoes |-> Nenhum]
  /\ abertas = {}
  /\ emitidos = {}
  /\ sucessor = [t \in Tokens |-> Nenhum]

Abrir(s, t) ==
  /\ s \notin abertas
  /\ vivo' = [vivo EXCEPT ![s] = t]
  /\ abertas' = abertas \cup {s}
  /\ emitidos' = emitidos \cup {t}
  /\ UNCHANGED sucessor

\* The good token is exchanged for one never stored before: once, as it is
\* good no more.
Trocar(s, novo) ==
  /\ vivo[s] # Nenhum
  /\ vivo' = [vivo EXCEPT ![s] = novo]
  /\ emitidos' = emitidos \cup {novo}
  /\ sucessor' = [sucessor EXCEPT ![vivo[s]] = novo]
  /\ UNCHANGED abertas

Terminar(s) ==
  /\ vivo[s] # Nenhum
  /\ vivo' = [vivo EXCEPT ![s] = Nenhum]
  /\ UNCHANGED <<abertas, emitidos, sucessor>>

\* A token is stored once.
Next ==
  \E s \in Sessoes :
    \/ \E t \in Tokens \ emitidos : Abrir(s, t) \/ Trocar(s, t)
    \/ Terminar(s)

Spec == Init /\ [][Next]_vars
=============================================================================
