----------------------------- MODULE RegistoActo -----------------------------
(***************************************************************************)
(* POST /actos-piquete: ActoPiqueteController.criar with the               *)
(* Idempotency-Key, RegistarActoPiqueteHandler.execute and the audit row.  *)
(* Every await is a step of its own, no two statements share a             *)
(* transaction, and requests interleave freely.  The number comes from     *)
(* the allocator Numerador, which Numeracao implements.                    *)
(***************************************************************************)
EXTENDS Naturals

CONSTANTS
  Pedidos,        \* HTTP requests; request p creates at most the act of id p
  Chaves,         \* Idempotency-Key header values
  SemChave,       \* no header
  Entradas,       \* [chave, user, tipo, unidade, factosBastam]: what clients send
  Codigos,        \* codes of tipos_atos
  GeraProcesso,   \* [Codigos -> BOOLEAN]
  UnidadesValidas, Unidades, Limite,
  Maiuscula,      \* [Unidades -> Unidades]: toUpperCase on a unit
  Nenhum

ASSUME EntradasAssumption ==
  \A e \in Entradas : /\ e.chave \in Chaves \cup {SemChave}
                      /\ e.unidade \in Unidades
                      /\ e.factosBastam \in BOOLEAN
ASSUME SemChaveAssumption == SemChave \notin Chaves
ASSUME MaiusculaAssumption == Maiuscula \in [Unidades -> Unidades]
ASSUME GeraAssumption == GeraProcesso \in [Codigos -> BOOLEAN]

VARIABLES
  passo,      \* passo[p]: the await request p is at
  entrada,    \* entrada[p]: the request's headers, user and body
  actos,      \* rows of actos_piquete by id
  activos,    \* codes whose tipos_atos row has activo = true
  idem,       \* rows of idempotency_keys by chave
  auditoria,  \* acts with a row in audit_log
  resposta,   \* resposta[p]: the HTTP status and the act in the body
  contador, numero, recusados   \* the allocator

varsNumero == <<contador, numero, recusados>>
vars == <<passo, entrada, actos, activos, idem, auditoria, resposta, varsNumero>>

Sequencias == Unidades \X {"ACTO"}

Numerador == INSTANCE Numerador WITH Chaves <- Sequencias

Utentes == {e.user : e \in Entradas}

Linha == [user : Utentes, numero : Sequencias \X Nat, piquete : Unidades,
          gera : BOOLEAN, estado : {"SUBMETIDO"}, processo : {Nenhum}]

LinhasIdem == [user : Utentes, acto : Pedidos, expirada : BOOLEAN]

ASSUME NenhumAssumption == Nenhum \notin Linha \cup LinhasIdem

EmCurso == {"verificar", "tipo", "numerar", "salvar", "auditar", "guardar", "responder"}

Init ==
  /\ passo = [p \in Pedidos |-> "novo"]
  /\ entrada = [p \in Pedidos |-> Nenhum]
  /\ actos = [p \in Pedidos |-> Nenhum]
  /\ activos \in SUBSET Codigos
  /\ idem = [c \in Chaves |-> Nenhum]
  /\ auditoria = {}
  /\ resposta = [p \in Pedidos |-> Nenhum]
  /\ Numerador!Init

Ir(p, destino) == passo' = [passo EXCEPT ![p] = destino]

Responder(p, estado, acto) ==
  /\ Ir(p, "fim")
  /\ resposta' = [resposta EXCEPT ![p] = [estado |-> estado, acto |-> acto]]

Prosseguir(p, destino) == Ir(p, destino) /\ UNCHANGED resposta

(* The ValidationPipe refuses facts shorter than 20 characters, trimmed,   *)
(* before the controller is called.                                       *)
Receber(p, e) ==
  /\ passo[p] = "novo"
  /\ entrada' = [entrada EXCEPT ![p] = e]
  /\ IF ~e.factosBastam THEN Responder(p, 400, Nenhum)
     ELSE Prosseguir(p, IF e.chave = SemChave THEN "tipo" ELSE "verificar")
  /\ UNCHANGED <<actos, activos, idem, auditoria, varsNumero>>

\* Variant: the row's user is not compared.
VerificarSemUser(p) ==
  LET linha == idem[entrada[p].chave] IN
  /\ passo[p] = "verificar"
  /\ IF linha = Nenhum THEN Prosseguir(p, "tipo") ELSE Responder(p, 201, linha.acto)
  /\ UNCHANGED <<entrada, actos, activos, idem, auditoria, varsNumero>>

(* IdempotencyService.verificar: the row decides, expired or not, and     *)
(* whatever the body of the request.                                      *)
Verificar(p) ==
  LET linha == idem[entrada[p].chave] IN
  /\ passo[p] = "verificar"
  /\ \/ linha = Nenhum /\ Prosseguir(p, "tipo")
     \/ /\ linha # Nenhum
        /\ IF linha.user = entrada[p].user
           THEN Responder(p, 201, linha.acto)
           ELSE Responder(p, 409, Nenhum)
  /\ UNCHANGED <<entrada, actos, activos, idem, auditoria, varsNumero>>

LerTipo(p) ==
  /\ passo[p] = "tipo"
  /\ \/ entrada[p].tipo \in activos /\ Prosseguir(p, "numerar")
     \/ entrada[p].tipo \notin activos /\ Responder(p, 404, Nenhum)
  /\ UNCHANGED <<entrada, actos, activos, idem, auditoria, varsNumero>>

\* The series gerar numbers request p in: the unit in upper case.
Serie(p) == <<Maiuscula[entrada[p].unidade], "ACTO">>

\* Variant: the request goes on when gerar throws.
GerarNumeroOuNada(p) ==
  /\ passo[p] = "numerar"
  /\ Numerador!Atribuir(p, Serie(p)) \/ Numerador!Recusar(p)
  /\ Prosseguir(p, "salvar")
  /\ UNCHANGED <<entrada, actos, activos, idem, auditoria>>

\* GeradorNumeroService.gerar, in a committed transaction of its own.
GerarNumero(p) ==
  /\ passo[p] = "numerar"
  /\ \/ Numerador!Atribuir(p, Serie(p)) /\ Prosseguir(p, "salvar")
     \/ Numerador!Recusar(p) /\ Responder(p, 500, Nenhum)
  /\ UNCHANGED <<entrada, actos, activos, idem, auditoria>>

LinhaActo(p) ==
  [user |-> entrada[p].user, numero |-> numero[p], piquete |-> entrada[p].unidade,
   gera |-> GeraProcesso[entrada[p].tipo], estado |-> "SUBMETIDO", processo |-> Nenhum]

\* Variant: a save that fails goes back for a fresh number.
SalvarOuRenumerar(p) ==
  /\ passo[p] = "salvar"
  /\ \/ /\ actos' = [actos EXCEPT ![p] = LinhaActo(p)]
        /\ Prosseguir(p, "auditar")
        /\ UNCHANGED numero
     \/ /\ numero' = [numero EXCEPT ![p] = Nenhum]
        /\ Prosseguir(p, "numerar")
        /\ UNCHANGED actos
  /\ UNCHANGED <<entrada, activos, idem, auditoria, contador, recusados>>

(* ActoPiquete.criar checks the facts again, with the number spent: no     *)
(* request the ValidationPipe lets through gets this 422.                  *)
(* actoRepo.save writes the row and clears the entity's events, which      *)
(* nobody has read.                                                        *)
SalvarActo(p) ==
  /\ passo[p] = "salvar"
  /\ IF entrada[p].factosBastam
     THEN actos' = [actos EXCEPT ![p] = LinhaActo(p)] /\ Prosseguir(p, "auditar")
     ELSE Responder(p, 422, Nenhum) /\ UNCHANGED actos
  /\ UNCHANGED <<entrada, activos, idem, auditoria, varsNumero>>

\* Variant: the answer is not held back until the audit row is written.
AuditarSemEspera(p) ==
  /\ passo[p] = "auditar"
  /\ Prosseguir(p, IF entrada[p].chave = SemChave THEN "responder" ELSE "guardar")
  /\ UNCHANGED <<entrada, actos, activos, idem, auditoria, varsNumero>>

Auditar(p) ==
  /\ passo[p] = "auditar"
  /\ auditoria' = auditoria \cup {p}
  /\ Prosseguir(p, IF entrada[p].chave = SemChave THEN "responder" ELSE "guardar")
  /\ UNCHANGED <<entrada, actos, activos, idem, varsNumero>>

LinhaIdem(p) == [user |-> entrada[p].user, acto |-> p, expirada |-> FALSE]

\* Variant: the unique violation is caught and forgotten.
GuardarSemConflito(p) ==
  LET c == entrada[p].chave IN
  /\ passo[p] = "guardar"
  /\ idem' = IF idem[c] = Nenhum THEN [idem EXCEPT ![c] = LinhaIdem(p)] ELSE idem
  /\ Prosseguir(p, "responder")
  /\ UNCHANGED <<entrada, actos, activos, auditoria, varsNumero>>

\* IdempotencyService.guardar: a plain create, refused by the unique index.
Guardar(p) ==
  LET c == entrada[p].chave IN
  /\ passo[p] = "guardar"
  /\ IF idem[c] = Nenhum
     THEN idem' = [idem EXCEPT ![c] = LinhaIdem(p)] /\ Prosseguir(p, "responder")
     ELSE Responder(p, 500, Nenhum) /\ UNCHANGED idem
  /\ UNCHANGED <<entrada, actos, activos, auditoria, varsNumero>>

DevolverActo(p) ==
  /\ passo[p] = "responder"
  /\ Responder(p, 201, p)
  /\ UNCHANGED <<entrada, actos, activos, idem, auditoria, varsNumero>>

(* A statement fails, or the process dies: what is committed stays, and   *)
(* nothing undoes it.                                                     *)
Falhar(p) ==
  /\ passo[p] \in EmCurso
  /\ Responder(p, 500, Nenhum)
  /\ UNCHANGED <<entrada, actos, activos, idem, auditoria, varsNumero>>

(* 24 hours pass for a key: longer than a request waits between storing   *)
(* its key and answering.                                                 *)
Expirar(c) ==
  /\ idem[c] # Nenhum
  /\ ~idem[c].expirada
  /\ passo[idem[c].acto] # "responder"
  /\ idem' = [idem EXCEPT ![c].expirada = TRUE]
  /\ UNCHANGED <<passo, entrada, actos, activos, auditoria, resposta, varsNumero>>

\* IdempotencyService.limparExpirados, called by no code of the repository.
LimparExpirados ==
  /\ \E c \in Chaves : idem[c] # Nenhum /\ idem[c].expirada
  /\ idem' = [c \in Chaves |->
       IF idem[c] # Nenhum /\ idem[c].expirada THEN Nenhum ELSE idem[c]]
  /\ UNCHANGED <<passo, entrada, actos, activos, auditoria, resposta, varsNumero>>

\* TipoActo.desactivar and activar, each followed by save.
AlternarTipo(t) ==
  /\ activos' = IF t \in activos THEN activos \ {t} ELSE activos \cup {t}
  /\ UNCHANGED <<passo, entrada, actos, idem, auditoria, resposta, varsNumero>>

Next ==
  \/ \E p \in Pedidos :
       \/ \E e \in Entradas : Receber(p, e)
       \/ Verificar(p) \/ LerTipo(p) \/ GerarNumero(p) \/ SalvarActo(p)
       \/ Auditar(p) \/ Guardar(p) \/ DevolverActo(p) \/ Falhar(p)
  \/ \E c \in Chaves : Expirar(c)
  \/ LimparExpirados
  \/ \E t \in Codigos : AlternarTipo(t)

Spec == Init /\ [][Next]_vars
-----------------------------------------------------------------------------
(* Type correctness of the tables and of the requests.                    *)
TypeOK ==
  /\ passo \in [Pedidos -> EmCurso \cup {"novo", "fim"}]
  /\ entrada \in [Pedidos -> Entradas \cup {Nenhum}]
  /\ actos \in [Pedidos -> Linha \cup {Nenhum}]
  /\ activos \subseteq Codigos
  /\ idem \in [Chaves -> LinhasIdem \cup {Nenhum}]
  /\ auditoria \subseteq Pedidos
  /\ resposta \in [Pedidos -> {Nenhum} \cup
       [estado : {201, 400, 404, 409, 422, 500}, acto : Pedidos \cup {Nenhum}]]

Aceite(p) == resposta[p] # Nenhum /\ resposta[p].estado = 201

(* Whatever requests race with one key, every one of them answered 201 is *)
(* told of the act its key is stored with: guardar's unique index and     *)
(* verificar leave no request with an act of its own.                     *)
RespostaDaChave ==
  [][\A p \in Pedidos :
       ~Aceite(p) /\ Aceite(p)' /\ entrada[p].chave # SemChave
         => /\ idem'[entrada[p].chave] # Nenhum
            /\ idem'[entrada[p].chave].acto = resposta'[p].acto]_vars

(* A user is only ever answered with an act of his own, also when         *)
(* somebody else's request uses the same key at the same time.            *)
RespostaDoProprio ==
  \A p \in Pedidos : Aceite(p) => actos[resposta[p].acto].user = entrada[p].user

(* An act a client is told of is in the database and in the audit log,    *)
(* whichever statements failed for other requests.                        *)
RespostaDuravel ==
  \A p \in Pedidos :
    Aceite(p) => actos[resposta[p].acto] # Nenhum /\ resposta[p].acto \in auditoria

\* A request that holds a number: it is about to save its act, or has saved it.
ComNumero(p) == passo[p] = "salvar" \/ actos[p] # Nenhum

\* A request that ended because a statement of its own failed.
Falhado(p) == passo[p] = "fim" /\ resposta[p].estado = 500

(* The number is committed before the act is saved, so a series may have  *)
(* holes: every number below the counter is that of an act, or of a       *)
(* request still to save its act or answered 500 after taking it, and of  *)
(* no other.  Requests that fail earlier, that are refused or that are    *)
(* answered from their key's row make no hole.                            *)
FurosExplicados ==
  \A k \in Sequencias : \A n \in 1 .. contador[k] :
    \E p \in Pedidos : numero[p] = <<k, n>> /\ (ComNumero(p) \/ Falhado(p))

(* docs/dia-4.md:25, "Repetir o mesmo pedido nao cria associacoes         *)
(* duplicadas": the same body sent again with its Idempotency-Key makes   *)
(* no second act.                                                         *)
UmActoPorChave ==
  \A p, q \in Pedidos :
    p # q /\ actos[p] # Nenhum /\ actos[q] # Nenhum /\ entrada[p] = entrada[q]
      => entrada[p].chave = SemChave
=============================================================================
