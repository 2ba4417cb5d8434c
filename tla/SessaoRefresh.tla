---------------------------- MODULE SessaoRefresh ----------------------------
(***************************************************************************)
(* Refresh tokens: AuthService.login, refresh and logout over the          *)
(* refresh_tokens table of PrismaAuthRepository.  A rotation is an         *)
(* interactive READ COMMITTED transaction; a logout is a read and then an  *)
(* updateMany.  Rows another transaction has changed and not committed     *)
(* are waited for and then looked at again; rows it has inserted and not   *)
(* committed are not seen.  Clients may send any token they hold, again    *)
(* and at the same time (two tabs, a retry after a lost answer).           *)
(***************************************************************************)
EXTENDS Naturals

CONSTANTS
  Sessoes,    \* logins; the first token of session s has id s
  Pedidos,    \* refresh and logout requests; the token request r signs has id r
  Expiraveis, \* tokens whose seven days may pass while we look
  Nenhum

Tokens == Sessoes \cup Pedidos

\* A row of refresh_tokens.
Linha == [sessao : Sessoes, revogado : BOOLEAN, substituto : Pedidos \cup {Nenhum}]

Estados == {200, 204, 401, 500}

ASSUME NenhumAssumption == Nenhum \notin Tokens \cup Linha \cup Estados
ASSUME DisjuntosAssumption == Sessoes \cap Pedidos = {}

VARIABLES
  linha,       \* linha[t]: committed row of t: [sessao, revogado, substituto], or Nenhum
  trava,       \* trava[t]: the request with an uncommitted change of row t
  expirados,   \* tokens past their 7 days, in the JWT and in the row
  entregues,   \* tokens clients hold
  passo,       \* passo[r]: the statement request r is at
  token,       \* token[r]: the token it carries
  operacao,    \* operacao[r]: "refresh" or "logout"
  porRevogar,  \* porRevogar[r]: rows its updateMany found and has not reached
  resposta,    \* resposta[r]: the HTTP status
  serial       \* one request at a time

vars == <<linha, trava, expirados, entregues, passo, token, operacao, porRevogar, resposta,
          serial>>

EmCurso == {"ler", "marcar", "confirmar", "responder", "revogar", "esperar"}

Init ==
  /\ linha = [t \in Tokens |-> Nenhum]
  /\ trava = [t \in Tokens |-> Nenhum]
  /\ expirados = {}
  /\ entregues = {}
  /\ passo = [r \in Pedidos |-> "novo"]
  /\ token = [r \in Pedidos |-> Nenhum]
  /\ operacao = [r \in Pedidos |-> Nenhum]
  /\ porRevogar = [r \in Pedidos |-> {}]
  /\ resposta = [r \in Pedidos |-> Nenhum]
  /\ serial \in BOOLEAN

Ir(r, destino) == passo' = [passo EXCEPT ![r] = destino] /\ UNCHANGED resposta

Responder(r, estado) ==
  /\ passo' = [passo EXCEPT ![r] = "fim"]
  /\ resposta' = [resposta EXCEPT ![r] = estado]

Activo(t) == linha[t] # Nenhum /\ ~linha[t].revogado

\* Variant: the new row points to itself.
LinhaNovaCircular(s) == [sessao |-> s, revogado |-> FALSE, substituto |-> s]

LinhaNova(s) == [sessao |-> s, revogado |-> FALSE, substituto |-> Nenhum]

\* AuthService.login: a new session and its first token.
Login(s) ==
  /\ linha[s] = Nenhum
  /\ linha' = [linha EXCEPT ![s] = LinhaNova(s)]
  /\ entregues' = entregues \cup {s}
  /\ UNCHANGED <<trava, expirados, passo, token, operacao, porRevogar, resposta, serial>>

Comecar(r, t, op) ==
  /\ passo[r] = "novo"
  /\ serial => \A q \in Pedidos : passo[q] \notin EmCurso
  /\ t \in entregues
  /\ token' = [token EXCEPT ![r] = t]
  /\ operacao' = [operacao EXCEPT ![r] = op]

(* AuthService.refresh: the JWT is verified before the database is asked; *)
(* sub and sessionId of a signed token are those of its row.              *)
Refresh(r, t) ==
  /\ Comecar(r, t, "refresh")
  /\ IF t \in expirados THEN Responder(r, 401) ELSE Ir(r, "ler")
  /\ UNCHANGED <<linha, trava, expirados, entregues, porRevogar, serial>>

Logout(r, t) ==
  /\ Comecar(r, t, "logout")
  /\ Ir(r, "ler")
  /\ UNCHANGED <<linha, trava, expirados, entregues, porRevogar, serial>>

\* findUnique: a logout, or a token no longer good, goes for the whole session.
Ler(r) ==
  /\ passo[r] = "ler"
  /\ Ir(r, IF operacao[r] = "logout" \/ ~Activo(token[r]) \/ token[r] \in expirados
           THEN "revogar" ELSE "marcar")
  /\ UNCHANGED <<linha, trava, expirados, entregues, token, operacao, porRevogar, serial>>

\* What updateMany(sessionId, revokedAt: null) finds in its snapshot.
ActivasDaSessao(s) == {t \in Tokens : Activo(t) /\ linha[t].sessao = s}

\* Variant: only the token presented is revoked, not its session.
RevogarUmToken(r) ==
  /\ passo[r] = "revogar"
  /\ porRevogar' = [porRevogar EXCEPT ![r] = {t \in {token[r]} : Activo(t)}]
  /\ Ir(r, "esperar")
  /\ UNCHANGED <<linha, trava, expirados, entregues, token, operacao, serial>>

Revogar(r) ==
  /\ passo[r] = "revogar"
  /\ porRevogar' = [porRevogar EXCEPT ![r] = ActivasDaSessao(linha[token[r]].sessao)]
  /\ Ir(r, "esperar")
  /\ UNCHANGED <<linha, trava, expirados, entregues, token, operacao, serial>>

(* One row of the updateMany: waited for while another request holds it,  *)
(* then skipped if it has been revoked meanwhile.                         *)
TravarLinha(r, t) ==
  /\ passo[r] = "esperar"
  /\ t \in porRevogar[r]
  /\ trava[t] = Nenhum
  /\ trava' = IF Activo(t) THEN [trava EXCEPT ![t] = r] ELSE trava
  /\ porRevogar' = [porRevogar EXCEPT ![r] = @ \ {t}]
  /\ UNCHANGED <<linha, expirados, entregues, passo, token, operacao, resposta, serial>>

\* Variant: a transaction that ends keeps its rows.
LibertarNada(r) == trava' = [trava EXCEPT ![token[r]] = @]

Libertar(r) == trava' = [t \in Tokens |-> IF trava[t] = r THEN Nenhum ELSE trava[t]]

\* COMMIT of the session's revocation; a refresh is then refused.
ConfirmarRevogacao(r) ==
  /\ passo[r] = "esperar"
  /\ porRevogar[r] = {}
  /\ linha' = [t \in Tokens |->
       IF trava[t] = r THEN [linha[t] EXCEPT !.revogado = TRUE] ELSE linha[t]]
  /\ Libertar(r)
  /\ Responder(r, IF operacao[r] = "logout" THEN 204 ELSE 401)
  /\ UNCHANGED <<expirados, entregues, token, operacao, porRevogar, serial>>

\* Variant: updateMany without revokedAt: null in its where clause.
MarcarSempre(r) ==
  /\ passo[r] = "marcar"
  /\ trava[token[r]] = Nenhum
  /\ trava' = [trava EXCEPT ![token[r]] = r]
  /\ Ir(r, "confirmar")
  /\ UNCHANGED <<linha, expirados, entregues, token, operacao, porRevogar, serial>>

\* Variant: a row somebody holds is refused instead of waited for.
MarcarSemEspera(r) ==
  /\ passo[r] = "marcar"
  /\ IF Activo(token[r]) /\ trava[token[r]] = Nenhum
     THEN trava' = [trava EXCEPT ![token[r]] = r] /\ Ir(r, "confirmar")
     ELSE UNCHANGED trava /\ Responder(r, 401)
  /\ UNCHANGED <<linha, expirados, entregues, token, operacao, porRevogar, serial>>

(* updateMany(id, revokedAt: null): waits for the row, then revokes it or *)
(* finds that another request has (count 0, and no family is revoked).    *)
Marcar(r) ==
  /\ passo[r] = "marcar"
  /\ trava[token[r]] = Nenhum
  /\ IF Activo(token[r])
     THEN trava' = [trava EXCEPT ![token[r]] = r] /\ Ir(r, "confirmar")
     ELSE UNCHANGED trava /\ Responder(r, 401)
  /\ UNCHANGED <<linha, expirados, entregues, token, operacao, porRevogar, serial>>

\* Variant: replacedByTokenId of the old row is not written.
ConfirmarSemSubstituto(r) ==
  /\ passo[r] = "confirmar"
  /\ linha' = [linha EXCEPT ![token[r]].revogado = TRUE,
                            ![r] = LinhaNova(linha[token[r]].sessao)]
  /\ Libertar(r)
  /\ Ir(r, "responder")
  /\ UNCHANGED <<expirados, entregues, token, operacao, porRevogar, serial>>

\* The replacement is created, the old row points to it, COMMIT.
ConfirmarRotacao(r) ==
  LET t == token[r] IN
  /\ passo[r] = "confirmar"
  /\ linha' = [linha EXCEPT ![t].revogado = TRUE, ![t].substituto = r,
                            ![r] = LinhaNova(linha[t].sessao)]
  /\ Libertar(r)
  /\ Ir(r, "responder")
  /\ UNCHANGED <<expirados, entregues, token, operacao, porRevogar, serial>>

\* findUserById and the access token, then the answer.
Entregar(r) ==
  /\ passo[r] = "responder"
  /\ entregues' = entregues \cup {r}
  /\ Responder(r, 200)
  /\ UNCHANGED <<linha, trava, expirados, token, operacao, porRevogar, serial>>

(* A statement fails, the transaction times out or the process dies:      *)
(* uncommitted changes are gone, and the client has no answer.            *)
Falhar(r) ==
  /\ passo[r] \in EmCurso
  /\ Libertar(r)
  /\ Responder(r, 500)
  /\ UNCHANGED <<linha, expirados, entregues, token, operacao, porRevogar, serial>>

\* Seven days pass.
Expirar(t) ==
  /\ t \in Expiraveis \ expirados
  /\ linha[t] # Nenhum
  /\ expirados' = expirados \cup {t}
  /\ UNCHANGED <<linha, trava, entregues, passo, token, operacao, porRevogar, resposta, serial>>

Avancar(r) ==
  \/ Ler(r) \/ Revogar(r) \/ (\E t \in Tokens : TravarLinha(r, t)) \/ ConfirmarRevogacao(r)
  \/ Marcar(r) \/ ConfirmarRotacao(r) \/ Entregar(r)

Next ==
  \/ \E s \in Sessoes : Login(s)
  \/ \E r \in Pedidos, t \in Tokens : Refresh(r, t) \/ Logout(r, t) \/ TravarLinha(r, t)
  \/ \E r \in Pedidos :
       \/ Ler(r) \/ Revogar(r) \/ ConfirmarRevogacao(r)
       \/ Marcar(r) \/ ConfirmarRotacao(r) \/ Entregar(r) \/ Falhar(r)
  \/ \E t \in Tokens : Expirar(t)

Spec == Init /\ [][Next]_vars

(* Every statement returns or throws, and PostgreSQL gives a free row to  *)
(* a request that waits for it.                                           *)
FairSpec == Spec /\ \A r \in Pedidos : WF_vars(Avancar(r))
-----------------------------------------------------------------------------
(* Type correctness of the table and of the requests.                     *)
TypeOK ==
  /\ linha \in [Tokens -> Linha \cup {Nenhum}]
  /\ trava \in [Tokens -> Pedidos \cup {Nenhum}]
  /\ expirados \subseteq Tokens
  /\ entregues \subseteq Tokens
  /\ passo \in [Pedidos -> EmCurso \cup {"novo", "fim"}]
  /\ token \in [Pedidos -> Tokens \cup {Nenhum}]
  /\ operacao \in [Pedidos -> {"refresh", "logout", Nenhum}]
  /\ porRevogar \in [Pedidos -> SUBSET Tokens]
  /\ resposta \in [Pedidos -> Estados \cup {Nenhum}]
  /\ serial \in BOOLEAN

(* However refreshes and logouts overlap, fail or repeat, a session never *)
(* has two active refresh tokens (rotateRefreshToken).                    *)
UmActivoPorSessao ==
  \A t, u \in Tokens :
    Activo(t) /\ Activo(u) /\ linha[t].sessao = linha[u].sessao => t = u

(* A token is exchanged at most once: of all the requests that carry it,  *)
(* at most one gets a new token (docs/dia-3.md:30).                       *)
TrocaUnica ==
  \A r, q \in Pedidos :
    resposta[r] = 200 /\ resposta[q] = 200 /\ token[r] = token[q] => r = q

(* The rows of a session are one chain: replacedByTokenId leads from a    *)
(* revoked token to a token of its session, and every token but the first *)
(* replaced exactly the token its request carried.                        *)
CadeiaDaSessao ==
  /\ \A t \in Tokens :
       linha[t] # Nenhum /\ linha[t].substituto # Nenhum
         => /\ linha[t].revogado
            /\ linha[linha[t].substituto] # Nenhum
            /\ linha[linha[t].substituto].sessao = linha[t].sessao
  /\ \A r \in Pedidos :
       linha[r] # Nenhum
         => \A t \in Tokens :
              linha[t] # Nenhum /\ linha[t].substituto = r <=> t = token[r]

(* refresh refuses with 401 only a token that is revoked or expired, also *)
(* when it lost a race.                                                   *)
RecusaJustificada ==
  \A r \in Pedidos :
    resposta[r] = 401 => ~Activo(token[r]) \/ token[r] \in expirados

(* A revoked token stays revoked: no rotation, commit or roll-back brings *)
(* it back, nor changes what replaced it.                                 *)
RevogacaoDefinitiva ==
  [][\A t \in Tokens :
       linha[t] # Nenhum /\ linha[t].revogado => linha'[t] = linha[t]]_vars

VivoDe(s) ==
  IF ActivasDaSessao(s) = {} THEN Nenhum ELSE CHOOSE t \in ActivasDaSessao(s) : TRUE

Registo == INSTANCE Sessao WITH
  vivo <- [s \in Sessoes |-> VivoDe(s)],
  abertas <- {s \in Sessoes : linha[s] # Nenhum},
  emitidos <- {t \in Tokens : linha[t] # Nenhum},
  sucessor <- [t \in Tokens |-> IF linha[t] = Nenhum THEN Nenhum ELSE linha[t].substituto]

(* The transactions implement a compare-and-swap register per session:    *)
(* every commit, waiting or failing anywhere before it, is one opening,   *)
(* one exchange of the session's only good token, one end or nothing.     *)
ImplementaSessao == Registo!Spec

(* docs/auditoria-dias-1-2-3.md:202, a reused token ends its session: with *)
(* one request at a time, when a logout or a refresh that saw a dead token *)
(* is answered, its session has no active token.                          *)
TerminaSeSerial ==
  [][serial => \A r \in Pedidos :
       passo[r] = "esperar" /\ resposta'[r] \in {204, 401}
         => ActivasDaSessao(linha[token[r]].sessao)' = {}]_vars

(* Every request ends: waiting for rows never closes a circle.            *)
TodosTerminam == \A r \in Pedidos : passo[r] \in EmCurso ~> passo[r] = "fim"
-----------------------------------------------------------------------------
(* auth.spec.ts:181, "revoga a sessao no logout": once a logout is        *)
(* answered, the session has no active token.                             *)
LogoutTerminaSessao ==
  \A r \in Pedidos :
    resposta[r] = 204 => ActivasDaSessao(linha[token[r]].sessao) = {}
=============================================================================
