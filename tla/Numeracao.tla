------------------------------ MODULE Numeracao ------------------------------
(***************************************************************************)
(* GeradorNumeroService.gerar: every number of an act or of a case is      *)
(* taken from a row of sequencias_numeracao by a READ COMMITTED            *)
(* transaction of its own: INSERT ... ON CONFLICT DO NOTHING, then         *)
(* UPDATE ... RETURNING, then the value object NumeroProcesso checks the   *)
(* format while the transaction is still open, so a rejected number rolls  *)
(* the increment back.  Calls run concurrently; PostgreSQL's row locks are *)
(* modelled by who holds the uncommitted version of each row.              *)
(***************************************************************************)
EXTENDS Integers

CONSTANTS
  Pedidos,          \* calls of gerar, each made once
  Unidades,         \* unit codes as callers write them (any letter case)
  Maiuscula,        \* [Unidades -> Unidades]: String.toUpperCase
  UnidadesValidas,  \* upper-case codes that REGEX accepts (2 to 5 letters)
  Tipos,            \* "ACTO" and "PROC" in the code
  PrimeiroAno, UltimoAno,   \* years the clock goes through
  Limite,           \* greatest 6-digit sequence number: 999999 in the code
  Nenhum            \* no transaction holds the row

ASSUME MaiusculaAssumption == Maiuscula \in [Unidades -> Unidades]
ASSUME AnosAssumption ==
  PrimeiroAno \in Nat /\ UltimoAno \in Nat /\ PrimeiroAno <= UltimoAno
ASSUME LimiteAssumption == Limite \in Nat
ASSUME NenhumAssumption == Nenhum \notin Pedidos

Anos == PrimeiroAno .. UltimoAno

\* Primary data of a row: the unique index is on (unidade, tipo, ano).
Chaves == Unidades \X Tipos \X Anos

Passos == {"novo", "inserir", "incrementar", "formatar", "confirmar",
           "confirmado", "devolvido", "perdido", "falhou"}

VARIABLES
  ano,         \* the year new Date() answers
  existe,      \* existe[k]: the row of key k is committed
  ultimo,      \* ultimo[k]: its committed ultimo_numero (0 without a row)
  dono,        \* dono[k]: the transaction with an uncommitted version of row k
  passo,       \* passo[p]: the statement call p executes next, or how it ended
  chave,       \* chave[p]: the key p numbers under
  valor        \* valor[p]: what UPDATE ... RETURNING gave p

vars == <<ano, existe, ultimo, dono, passo, chave, valor>>

Init ==
  /\ ano = PrimeiroAno
  /\ existe = [k \in Chaves |-> FALSE]
  /\ ultimo = [k \in Chaves |-> 0]
  /\ dono = [k \in Chaves |-> Nenhum]
  /\ passo = [p \in Pedidos |-> "novo"]
  /\ chave = [p \in Pedidos |-> Nenhum]
  /\ valor = [p \in Pedidos |-> 0]

Ir(p, destino) == passo' = [passo EXCEPT ![p] = destino]

\* New year: the only thing the calendar does to the system.
VirarAno ==
  /\ ano < UltimoAno
  /\ ano' = ano + 1
  /\ UNCHANGED <<existe, ultimo, dono, passo, chave, valor>>

(* The call: the year is read and the codes are upper-cased before the    *)
(* transaction starts.                                                    *)
Chamar(p, u, t) ==
  /\ passo[p] = "novo"
  /\ chave' = [chave EXCEPT ![p] = <<Maiuscula[u], t, ano>>]
  /\ Ir(p, "inserir")
  /\ UNCHANGED <<ano, existe, ultimo, dono, valor>>

\* Variant: an uncommitted row of another transaction counts as a conflict.
InserirSemEspera(p) ==
  LET k == chave[p] IN
  /\ passo[p] = "inserir"
  /\ dono' = IF existe[k] \/ dono[k] # Nenhum THEN dono ELSE [dono EXCEPT ![k] = p]
  /\ Ir(p, "incrementar")
  /\ UNCHANGED <<ano, existe, ultimo, chave, valor>>

(* INSERT ... ON CONFLICT DO NOTHING.  A committed row makes it a no-op;  *)
(* an uncommitted row of another transaction makes it wait.               *)
InserirSeAusente(p) ==
  LET k == chave[p] IN
  /\ passo[p] = "inserir"
  /\ \/ existe[k] /\ UNCHANGED dono
     \/ ~existe[k] /\ dono[k] = Nenhum /\ dono' = [dono EXCEPT ![k] = p]
  /\ Ir(p, "incrementar")
  /\ UNCHANGED <<ano, existe, ultimo, chave, valor>>

\* The row p's UPDATE can see: committed, or inserted by p itself.
LinhaVisivel(p) == existe[chave[p]] \/ dono[chave[p]] = p

\* Variant: a transaction that ends keeps its rows.
LibertarNada(p) == dono' = [dono EXCEPT ![chave[p]] = @]

\* What p's transaction locked, given back.
Libertar(p) == dono' = [k \in Chaves |-> IF dono[k] = p THEN Nenhum ELSE dono[k]]

\* Variant: the increment is not undone.
ReverterSemDesfazer(p) ==
  /\ ultimo' = IF passo[p] \in {"formatar", "confirmar"}
               THEN [ultimo EXCEPT ![chave[p]] = valor[p]] ELSE ultimo
  /\ Libertar(p)
  /\ Ir(p, "falhou")
  /\ UNCHANGED <<ano, existe, chave, valor>>

\* ROLLBACK: nothing the transaction wrote remains.
Reverter(p) ==
  /\ Libertar(p)
  /\ Ir(p, "falhou")
  /\ UNCHANGED <<ano, existe, ultimo, chave, valor>>

\* What every form of the UPDATE does once it may write the row.
Escrever(p, n) ==
  /\ dono' = [dono EXCEPT ![chave[p]] = p]
  /\ valor' = [valor EXCEPT ![p] = n]
  /\ Ir(p, "formatar")
  /\ UNCHANGED <<ano, existe, ultimo, chave>>

\* Variant: a SELECT and an UPDATE that do not wait for the row.
IncrementarSemEspera(p) ==
  passo[p] = "incrementar" /\ Escrever(p, ultimo[chave[p]] + 1)

\* Variant: the wrong sign.
IncrementarTrocado(p) ==
  passo[p] = "incrementar" /\ dono[chave[p]] \in {Nenhum, p}
    /\ Escrever(p, ultimo[chave[p]] - 1)

(* UPDATE ... SET ultimo_numero = ultimo_numero + 1 ... RETURNING waits   *)
(* for the transaction that holds the row, then reads the newest          *)
(* committed version.  Without a row to see it returns none and the       *)
(* callback throws "Falha ao incrementar".                                *)
Incrementar(p) ==
  LET k == chave[p] IN
  /\ passo[p] = "incrementar"
  /\ IF LinhaVisivel(p)
     THEN dono[k] \in {Nenhum, p} /\ Escrever(p, ultimo[k] + 1)
     ELSE Reverter(p)

\* Whether NumeroProcesso.gerar accepts the number (padStart(6) and REGEX).
FormatoAceite(k, n) == k[1] \in UnidadesValidas /\ n <= Limite

Formatar(p) ==
  /\ passo[p] = "formatar"
  /\ FormatoAceite(chave[p], valor[p])
  /\ Ir(p, "confirmar")
  /\ UNCHANGED <<ano, existe, ultimo, dono, chave, valor>>

\* COMMIT: the row's new version, and the row itself if p inserted it.
Confirmar(p) ==
  LET k == chave[p] IN
  /\ passo[p] = "confirmar"
  /\ existe' = [existe EXCEPT ![k] = TRUE]
  /\ ultimo' = [ultimo EXCEPT ![k] = valor[p]]
  /\ Libertar(p)
  /\ Ir(p, "confirmado")
  /\ UNCHANGED <<ano, chave, valor>>

EmTransaccao(p) == passo[p] \in {"inserir", "incrementar", "formatar", "confirmar"}

\* FormatoInvalidoError thrown inside the callback: ROLLBACK.
RejeitarFormato(p) ==
  /\ passo[p] = "formatar"
  /\ ~FormatoAceite(chave[p], valor[p])
  /\ Reverter(p)

\* The 5 s timeout, a lost connection, or the death of the API process.
Abortar(p) == EmTransaccao(p) /\ Reverter(p)

\* The number reaches the caller.
Devolver(p) ==
  /\ passo[p] = "confirmado"
  /\ Ir(p, "devolvido")
  /\ UNCHANGED <<ano, existe, ultimo, dono, chave, valor>>

\* The process or its connection dies between the COMMIT and the answer.
PerderResposta(p) ==
  /\ passo[p] = "confirmado"
  /\ Ir(p, "perdido")
  /\ UNCHANGED <<ano, existe, ultimo, dono, chave, valor>>

Avancar(p) ==
  \/ InserirSeAusente(p) \/ Incrementar(p) \/ Formatar(p) \/ Confirmar(p)
  \/ RejeitarFormato(p) \/ Devolver(p)

\* Every call has ended and the calendar has stopped: nothing is left to do.
Repouso ==
  /\ ano = UltimoAno
  /\ \A p \in Pedidos : passo[p] \in {"devolvido", "perdido", "falhou"}
  /\ UNCHANGED vars

Next ==
  \/ VirarAno
  \/ Repouso
  \/ \E p \in Pedidos :
       \/ \E u \in Unidades, t \in Tipos : Chamar(p, u, t)
       \/ InserirSeAusente(p) \/ Incrementar(p) \/ Formatar(p) \/ Confirmar(p)
       \/ RejeitarFormato(p) \/ Devolver(p)
       \/ Abortar(p) \/ PerderResposta(p)

Spec == Init /\ [][Next]_vars

(* The event loop runs every call that is not waiting for a row, and      *)
(* PostgreSQL wakes the waiters of a row: no call is neglected for ever.  *)
FairSpec == Spec /\ \A p \in Pedidos : WF_vars(Avancar(p))
-----------------------------------------------------------------------------
\* The calls whose number is committed, whether or not the caller learnt it.
Consumou(p) == passo[p] \in {"confirmado", "devolvido", "perdido"}

(* Type correctness of the rows and of the calls of gerar.                *)
TypeOK ==
  /\ ano \in Anos
  /\ existe \in [Chaves -> BOOLEAN]
  /\ ultimo \in [Chaves -> Nat]
  /\ dono \in [Chaves -> Pedidos \cup {Nenhum}]
  /\ passo \in [Pedidos -> Passos]
  /\ chave \in [Pedidos -> Chaves \cup {Nenhum}]
  /\ valor \in [Pedidos -> Nat]

(* No two calls are ever given the same number of the same unit, type and *)
(* year: what concurrent INSERT and UPDATE statements of gerar must       *)
(* guarantee for numero_acto and numero_interno to be unique.             *)
NumerosUnicos ==
  \A p, q \in Pedidos :
    p # q /\ Consumou(p) /\ Consumou(q) /\ chave[p] = chave[q]
      => valor[p] # valor[q]

(* The counter of a row counts exactly its committed numbers: 1 to        *)
(* ultimo_numero, each given to a call.  Rolled-back and timed-out calls  *)
(* of gerar leave no hole and lose no increment.                          *)
ContadorExacto ==
  \A k \in Chaves :
    {valor[p] : p \in {q \in Pedidos : Consumou(q) /\ chave[q] = k}} = 1 .. ultimo[k]

(* "Falha ao incrementar sequencia" is never thrown: the row the INSERT   *)
(* saw or made is there when the UPDATE looks for it, whatever other      *)
(* transactions abort in between.                                         *)
SemFalhaDeIncremento ==
  \A p \in Pedidos : passo[p] = "incrementar" => LinhaVisivel(p)

(* Numbers of a key grow in the order of the COMMITs of gerar: a call     *)
(* that commits gets a number above those of every call that committed    *)
(* before it.                                                             *)
OrdemDeCommit ==
  [][\A p, q \in Pedidos :
       ~Consumou(p) /\ Consumou(p)' /\ Consumou(q) /\ chave[q] = chave'[p]
         => valor[q] < valor'[p]]_vars

(* Every call of gerar ends: row locks are always given back, also by     *)
(* transactions that fail, so no call waits for ever.                     *)
TodosTerminam ==
  \A p \in Pedidos :
    passo[p] = "inserir" ~> passo[p] \in {"devolvido", "perdido", "falhou"}
-----------------------------------------------------------------------------
\* The promise of the service: numbers are given out atomically.
Numerador ==
  INSTANCE Numerador WITH
    contador <- ultimo,
    numero <- [p \in Pedidos |-> IF Consumou(p) THEN <<chave[p], valor[p]>> ELSE Nenhum],
    recusados <- {p \in Pedidos : passo[p] = "falhou"}

(* gerar implements the atomic allocator: every step of its transactions  *)
(* is an allocation, a refusal, or invisible.                             *)
ImplementaNumerador == Numerador!Spec
=============================================================================
