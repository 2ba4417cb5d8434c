------------------------- MODULE SessaoRefresh_proofs -------------------------
(***************************************************************************)
(* Proofs about refresh-token rotation, for any number of sessions and of  *)
(* overlapping requests.  The argument: the request that holds the         *)
(* uncommitted change of a row found it active after getting it, nobody    *)
(* else can change it until the COMMIT, and the COMMIT revokes the old     *)
(* token and adds the new one in one step.                                 *)
(***************************************************************************)
EXTENDS SessaoRefresh, TLAPS

\* Requests and clients only know tokens that have a row.
Conhecidos ==
  /\ \A r \in Pedidos : passo[r] # "novo" => token[r] \in Tokens /\ linha[token[r]] # Nenhum
  /\ \A t \in entregues : linha[t] # Nenhum

SessaoIniciada ==
  \A t \in Tokens : linha[t] # Nenhum => linha[linha[t].sessao] # Nenhum

\* The row of the token a request signs exists from its COMMIT on.
TokenNovo ==
  \A r \in Pedidos :
    /\ linha[r] # Nenhum => passo[r] \in {"responder", "fim"}
    /\ passo[r] = "responder" \/ resposta[r] = 200 => linha[r] # Nenhum

\* A row is only held while it is active, for a rotation or a revocation.
Travada ==
  \A t \in Tokens, r \in Pedidos :
    trava[t] = r =>
      /\ Activo(t)
      /\ passo[r] \in {"esperar", "confirmar"}
      /\ passo[r] = "confirmar" => t = token[r]

\* Only a request that has ended has a status.
SemResposta == \A r \in Pedidos : passo[r] # "fim" => resposta[r] = Nenhum

Reservado == \A r \in Pedidos : passo[r] = "confirmar" => trava[token[r]] = r

RecusaPrevista ==
  \A r \in Pedidos :
    passo[r] \in {"revogar", "esperar"} /\ operacao[r] # "logout"
      => ~Activo(token[r]) \/ token[r] \in expirados

IInv ==
  /\ TypeOK
  /\ Conhecidos
  /\ SessaoIniciada
  /\ TokenNovo
  /\ Travada
  /\ Reservado
  /\ SemResposta
  /\ RecusaPrevista
  /\ CadeiaDaSessao
  /\ UmActivoPorSessao
  /\ RecusaJustificada
-----------------------------------------------------------------------------
\* What an update of a row makes of it, and what a new row looks like.
LEMMA LinhaCampos ==
  ASSUME NEW x \in Linha
  PROVE  /\ x # Nenhum /\ x.sessao \in Sessoes /\ x.sessao # Nenhum
         /\ x.revogado \in BOOLEAN /\ x.substituto \in Pedidos \cup {Nenhum}
  BY NenhumAssumption DEF Linha, Tokens

\* revokedAt set on a row changes nothing else of it.
LEMMA LinhaRevogada ==
  ASSUME NEW x \in Linha
  PROVE  /\ [x EXCEPT !.revogado = TRUE] \in Linha
         /\ [x EXCEPT !.revogado = TRUE] # Nenhum
         /\ [x EXCEPT !.revogado = TRUE].sessao = x.sessao
         /\ [x EXCEPT !.revogado = TRUE].substituto = x.substituto
         /\ [x EXCEPT !.revogado = TRUE].revogado
  BY NenhumAssumption DEF Linha

\* revokedAt and replacedByTokenId set on a row leave its session.
LEMMA LinhaSubstituida ==
  ASSUME NEW x \in Linha, NEW r \in Pedidos
  PROVE  /\ [x EXCEPT !.revogado = TRUE, !.substituto = r] \in Linha
         /\ [x EXCEPT !.revogado = TRUE, !.substituto = r] # Nenhum
         /\ [x EXCEPT !.revogado = TRUE, !.substituto = r].sessao = x.sessao
         /\ [x EXCEPT !.revogado = TRUE, !.substituto = r].substituto = r
         /\ [x EXCEPT !.revogado = TRUE, !.substituto = r].revogado
  BY NenhumAssumption DEF Linha

\* What the row of a new token looks like.
LEMMA LinhaDaRotacao ==
  ASSUME NEW s \in Sessoes
  PROVE  /\ LinhaNova(s) \in Linha /\ LinhaNova(s) # Nenhum
         /\ LinhaNova(s).sessao = s /\ ~LinhaNova(s).revogado
         /\ LinhaNova(s).substituto = Nenhum
<1>1. LinhaNova(s) \in Linha
      BY DEF Linha, LinhaNova
<1>2. LinhaNova(s) # Nenhum
      BY <1>1, NenhumAssumption
<1>3. LinhaNova(s).sessao = s
      BY DEF LinhaNova
<1>4. ~LinhaNova(s).revogado
      BY DEF LinhaNova
<1>5. LinhaNova(s).substituto = Nenhum
      BY DEF LinhaNova
<1>6. QED
      BY <1>1, <1>2, <1>3, <1>4, <1>5

\* A login adds the first row of a session nobody has a row of.
LEMMA LoginIInv ==
  ASSUME IInv, NEW s \in Sessoes, Login(s)
  PROVE  IInv'
<1>a. /\ linha[s] = Nenhum /\ linha'[s] = LinhaNova(s)
      /\ \A u \in Tokens : u # s => linha'[u] = linha[u]
      /\ entregues' = entregues \cup {s}
      /\ UNCHANGED <<trava, expirados, passo, token, operacao, porRevogar, resposta, serial>>
      BY DEF Login, IInv, TypeOK, Tokens
<1>b. /\ linha'[s] \in Linha /\ linha'[s] # Nenhum /\ linha'[s].sessao = s
      /\ ~linha'[s].revogado /\ linha'[s].substituto = Nenhum
      BY <1>a, LinhaDaRotacao
<1>e. linha' \in [Tokens -> Linha \cup {Nenhum}]
      BY LinhaDaRotacao DEF Login, IInv, TypeOK, Tokens
<1> USE NenhumAssumption, DisjuntosAssumption DEF IInv, TypeOK, Tokens, Estados
<1>1. TypeOK'
      BY <1>a, <1>b, LinhaCampos, <1>e DEF EmCurso, Activo
<1>2. Conhecidos'
      BY <1>a, <1>b, LinhaCampos DEF Conhecidos, TokenNovo, Activo
<1>3. SessaoIniciada'
      BY <1>a, <1>b, LinhaCampos DEF SessaoIniciada, Conhecidos, Activo
<1>4. TokenNovo'
      BY <1>a, <1>b, LinhaCampos DEF TokenNovo, Conhecidos, Reservado,
             SemResposta, Activo
<1>5. Travada'
      BY <1>a, <1>b, LinhaCampos DEF Travada, Reservado, Conhecidos, TokenNovo,
             Activo
<1>6. Reservado'
      BY <1>a, <1>b, LinhaCampos DEF Reservado, Travada, Conhecidos, Activo
<1>7. SemResposta'
      BY <1>a, <1>b, LinhaCampos DEF SemResposta, EmCurso, Activo
<1>8. RecusaPrevista'
      BY <1>a, <1>b, LinhaCampos DEF RecusaPrevista, Conhecidos, TokenNovo,
             Activo
<1>9. CadeiaDaSessao'
      BY <1>a, <1>b, LinhaCampos DEF CadeiaDaSessao, TokenNovo, Travada,
             Reservado, Conhecidos, Activo
<1>10. UmActivoPorSessao'
      BY <1>a, <1>b, LinhaCampos DEF UmActivoPorSessao, Travada, Reservado,
             SessaoIniciada, Conhecidos, Activo
<1>11. RecusaJustificada'
      BY <1>a, <1>b, LinhaCampos DEF RecusaJustificada, RecusaPrevista,
             Conhecidos, TokenNovo, SemResposta, Activo
<1>12. QED
      BY <1>1, <1>2, <1>3, <1>4, <1>5, <1>6, <1>7, <1>8, <1>9, <1>10, <1>11 DEF IInv

\* A request begins with a token some client holds.
LEMMA ComecarIInv ==
  ASSUME IInv, NEW r \in Pedidos, NEW t \in Tokens, Refresh(r, t) \/ Logout(r, t)
  PROVE  IInv'
<1> USE NenhumAssumption, DisjuntosAssumption DEF IInv, TypeOK, Tokens, Estados
<1>1. TypeOK'
      BY DEF EmCurso, Activo, Refresh, Logout, Comecar, Ir, Responder, Linha
<1>2. Conhecidos'
      BY DEF Conhecidos, TokenNovo, Activo, Refresh, Logout, Comecar, Ir,
             Responder, EmCurso
<1>3. SessaoIniciada'
      BY DEF SessaoIniciada, Conhecidos, Activo, Refresh, Logout, Comecar, Ir,
             Responder, EmCurso, Linha
<1>4. TokenNovo'
      BY DEF TokenNovo, Conhecidos, Reservado, SemResposta, Activo, Refresh,
             Logout, Comecar, Ir, Responder, EmCurso
<1>5. Travada'
      BY DEF Travada, Reservado, Conhecidos, TokenNovo, Activo, Refresh,
             Logout, Comecar, Ir, Responder, EmCurso
<1>6. Reservado'
      BY DEF Reservado, Travada, Conhecidos, Activo, Refresh, Logout, Comecar,
             Ir, Responder, EmCurso
<1>7. SemResposta'
      BY DEF SemResposta, EmCurso, Activo, Refresh, Logout, Comecar, Ir,
             Responder
<1>8. RecusaPrevista'
      BY DEF RecusaPrevista, Conhecidos, TokenNovo, Activo, Refresh, Logout,
             Comecar, Ir, Responder, EmCurso
<1>9. CadeiaDaSessao'
      BY DEF CadeiaDaSessao, TokenNovo, Travada, Reservado, Conhecidos, Activo,
             Refresh, Logout, Comecar, Ir, Responder, EmCurso, Linha
<1>10. UmActivoPorSessao'
      BY DEF UmActivoPorSessao, Travada, Reservado, SessaoIniciada, Conhecidos,
             Activo, Refresh, Logout, Comecar, Ir, Responder, EmCurso, Linha
<1>11. RecusaJustificada'
      BY DEF RecusaJustificada, RecusaPrevista, Conhecidos, TokenNovo,
             SemResposta, Activo, Refresh, Logout, Comecar, Ir, Responder,
             EmCurso
<1>12. QED
      BY <1>1, <1>2, <1>3, <1>4, <1>5, <1>6, <1>7, <1>8, <1>9, <1>10, <1>11 DEF IInv

\* A read changes no row.
LEMMA LerIInv ==
  ASSUME IInv, NEW r \in Pedidos, Ler(r)
  PROVE  IInv'
<1> USE NenhumAssumption, DisjuntosAssumption DEF IInv, TypeOK, Tokens, Estados
<1>1. TypeOK'
      BY DEF EmCurso, Activo, Ler, Ir, Linha
<1>2. Conhecidos'
      BY DEF Conhecidos, TokenNovo, Activo, Ler, Ir
<1>3. SessaoIniciada'
      BY DEF SessaoIniciada, Conhecidos, Activo, Ler, Ir, Linha
<1>4. TokenNovo'
      BY DEF TokenNovo, Conhecidos, Reservado, SemResposta, Activo, Ler, Ir
<1>5. Travada'
      BY DEF Travada, Reservado, Conhecidos, TokenNovo, Activo, Ler, Ir
<1>6. Reservado'
      BY DEF Reservado, Travada, Conhecidos, Activo, Ler, Ir
<1>7. SemResposta'
      BY DEF SemResposta, EmCurso, Activo, Ler, Ir
<1>8. RecusaPrevista'
      BY DEF RecusaPrevista, Conhecidos, TokenNovo, Activo, Ler, Ir
<1>9. CadeiaDaSessao'
      BY DEF CadeiaDaSessao, TokenNovo, Travada, Reservado, Conhecidos, Activo,
             Ler, Ir, Linha
<1>10. UmActivoPorSessao'
      BY DEF UmActivoPorSessao, Travada, Reservado, SessaoIniciada, Conhecidos,
             Activo, Ler, Ir, Linha
<1>11. RecusaJustificada'
      BY DEF RecusaJustificada, RecusaPrevista, Conhecidos, TokenNovo,
             SemResposta, Activo, Ler, Ir
<1>12. QED
      BY <1>1, <1>2, <1>3, <1>4, <1>5, <1>6, <1>7, <1>8, <1>9, <1>10, <1>11 DEF IInv

\* The snapshot of an updateMany changes no row.
LEMMA RevogarIInv ==
  ASSUME IInv, NEW r \in Pedidos, Revogar(r)
  PROVE  IInv'
<1> USE NenhumAssumption, DisjuntosAssumption DEF IInv, TypeOK, Tokens, Estados
<1>1. TypeOK'
      BY DEF EmCurso, Activo, Revogar, Ir, ActivasDaSessao, Linha
<1>2. Conhecidos'
      BY DEF Conhecidos, TokenNovo, Activo, Revogar, Ir, ActivasDaSessao
<1>3. SessaoIniciada'
      BY DEF SessaoIniciada, Conhecidos, Activo, Revogar, Ir, ActivasDaSessao,
             Linha
<1>4. TokenNovo'
      BY DEF TokenNovo, Conhecidos, Reservado, SemResposta, Activo, Revogar,
             Ir, ActivasDaSessao
<1>5. Travada'
      BY DEF Travada, Reservado, Conhecidos, TokenNovo, Activo, Revogar, Ir,
             ActivasDaSessao
<1>6. Reservado'
      BY DEF Reservado, Travada, Conhecidos, Activo, Revogar, Ir,
             ActivasDaSessao
<1>7. SemResposta'
      BY DEF SemResposta, EmCurso, Activo, Revogar, Ir, ActivasDaSessao
<1>8. RecusaPrevista'
      BY DEF RecusaPrevista, Conhecidos, TokenNovo, Activo, Revogar, Ir,
             ActivasDaSessao
<1>9. CadeiaDaSessao'
      BY DEF CadeiaDaSessao, TokenNovo, Travada, Reservado, Conhecidos, Activo,
             Revogar, Ir, ActivasDaSessao, Linha
<1>10. UmActivoPorSessao'
      BY DEF UmActivoPorSessao, Travada, Reservado, SessaoIniciada, Conhecidos,
             Activo, Revogar, Ir, ActivasDaSessao, Linha
<1>11. RecusaJustificada'
      BY DEF RecusaJustificada, RecusaPrevista, Conhecidos, TokenNovo,
             SemResposta, Activo, Revogar, Ir, ActivasDaSessao
<1>12. QED
      BY <1>1, <1>2, <1>3, <1>4, <1>5, <1>6, <1>7, <1>8, <1>9, <1>10, <1>11 DEF IInv

\* An updateMany takes the rows that are still active.
LEMMA TravarIInv ==
  ASSUME IInv, NEW r \in Pedidos, NEW t \in Tokens, TravarLinha(r, t)
  PROVE  IInv'
<1> USE NenhumAssumption, DisjuntosAssumption DEF IInv, TypeOK, Tokens, Estados
<1>1. TypeOK'
      BY DEF EmCurso, Activo, TravarLinha, Linha
<1>2. Conhecidos'
      BY DEF Conhecidos, TokenNovo, Activo, TravarLinha
<1>3. SessaoIniciada'
      BY DEF SessaoIniciada, Conhecidos, Activo, TravarLinha, Linha
<1>4. TokenNovo'
      BY DEF TokenNovo, Conhecidos, Reservado, SemResposta, Activo, TravarLinha
<1>5. Travada'
      BY DEF Travada, Reservado, Conhecidos, TokenNovo, Activo, TravarLinha
<1>6. Reservado'
      BY DEF Reservado, Travada, Conhecidos, Activo, TravarLinha
<1>7. SemResposta'
      BY DEF SemResposta, EmCurso, Activo, TravarLinha
<1>8. RecusaPrevista'
      BY DEF RecusaPrevista, Conhecidos, TokenNovo, Activo, TravarLinha
<1>9. CadeiaDaSessao'
      BY DEF CadeiaDaSessao, TokenNovo, Travada, Reservado, Conhecidos, Activo,
             TravarLinha, Linha
<1>10. UmActivoPorSessao'
      BY DEF UmActivoPorSessao, Travada, Reservado, SessaoIniciada, Conhecidos,
             Activo, TravarLinha, Linha
<1>11. RecusaJustificada'
      BY DEF RecusaJustificada, RecusaPrevista, Conhecidos, TokenNovo,
             SemResposta, Activo, TravarLinha
<1>12. QED
      BY <1>1, <1>2, <1>3, <1>4, <1>5, <1>6, <1>7, <1>8, <1>9, <1>10, <1>11 DEF IInv

\* A revocation only deactivates rows its request holds.
LEMMA ConfirmarRevogacaoIInv ==
  ASSUME IInv, NEW r \in Pedidos, ConfirmarRevogacao(r)
  PROVE  IInv'
<1>a. \A u \in Tokens : trava[u] = r => linha[u] \in Linha /\ ~linha[u].revogado
      BY DEF IInv, TypeOK, Travada, Activo
<1>b. \A u \in Tokens :
        linha'[u] = IF trava[u] = r THEN [linha[u] EXCEPT !.revogado = TRUE] ELSE linha[u]
      BY DEF ConfirmarRevogacao
<1>c. ASSUME NEW u \in Tokens
      PROVE  /\ linha'[u] \in Linha \cup {Nenhum}
             /\ linha'[u] = Nenhum <=> linha[u] = Nenhum
             /\ linha[u] # Nenhum => linha'[u].sessao = linha[u].sessao
             /\ linha[u] # Nenhum => linha'[u].substituto = linha[u].substituto
             /\ linha[u] # Nenhum => (linha[u].revogado => linha'[u].revogado)
             /\ trava[u] # r => linha'[u] = linha[u]
  <2>0. linha[u] \in Linha \cup {Nenhum}
        BY DEF IInv, TypeOK
  <2>1. CASE trava[u] = r
    <3>1. linha[u] \in Linha
          BY <1>a, <2>1
    <3>2. linha'[u] = [linha[u] EXCEPT !.revogado = TRUE]
          BY <1>b, <2>1
    <3>3. QED
          BY <2>1, <3>1, <3>2, LinhaRevogada, LinhaCampos
  <2>2. CASE trava[u] # r
    <3>1. linha'[u] = linha[u]
          BY <1>b, <2>2
    <3>2. QED
          BY <2>0, <3>1
  <2>3. QED
        BY <2>1, <2>2
<1>d. /\ passo[r] = "esperar" /\ passo' = [passo EXCEPT ![r] = "fim"]
      /\ resposta' = [resposta EXCEPT ![r] = IF operacao[r] = "logout" THEN 204 ELSE 401]
      /\ trava' = [u \in Tokens |-> IF trava[u] = r THEN Nenhum ELSE trava[u]]
      /\ UNCHANGED <<expirados, entregues, token, operacao, porRevogar, serial>>
      BY DEF ConfirmarRevogacao, Libertar, Responder
<1>e. linha' \in [Tokens -> Linha \cup {Nenhum}]
  <2>1. linha' = [u \in Tokens |-> linha'[u]]
        BY DEF ConfirmarRevogacao
  <2>2. QED
        BY <1>c, <2>1
<1> USE NenhumAssumption, DisjuntosAssumption DEF IInv, TypeOK, Tokens, Estados
<1>1. TypeOK'
  <2>1. trava' \in [Tokens -> Pedidos \cup {Nenhum}]
        BY <1>d
  <2>2. passo' \in [Pedidos -> EmCurso \cup {"novo", "fim"}]
        BY <1>d DEF EmCurso
  <2>3. resposta' \in [Pedidos -> Estados \cup {Nenhum}]
        BY <1>d
  <2>4. expirados' \subseteq Tokens /\ entregues' \subseteq Tokens
        BY <1>d
  <2>5. token' \in [Pedidos -> Tokens \cup {Nenhum}]
        BY <1>d
  <2>6. operacao' \in [Pedidos -> {"refresh", "logout", Nenhum}]
        BY <1>d
  <2>7. porRevogar' \in [Pedidos -> SUBSET Tokens] /\ serial' \in BOOLEAN
        BY <1>d
  <2>8. QED
        BY <1>e, <2>1, <2>2, <2>3, <2>4, <2>5, <2>6, <2>7
<1>2. Conhecidos'
      BY <1>a, <1>c, <1>d, LinhaCampos DEF Conhecidos, TokenNovo, Activo
<1>3. SessaoIniciada'
      BY <1>a, <1>c, <1>d, LinhaCampos DEF SessaoIniciada, Conhecidos, Activo
<1>4. TokenNovo'
      BY <1>a, <1>c, <1>d, LinhaCampos DEF TokenNovo, Conhecidos, Reservado,
             SemResposta, Activo
<1>5. Travada'
      BY <1>a, <1>c, <1>d, LinhaCampos DEF Travada, Reservado, Conhecidos,
             TokenNovo, Activo
<1>6. Reservado'
      BY <1>a, <1>c, <1>d, LinhaCampos DEF Reservado, Travada, Conhecidos,
             Activo
<1>7. SemResposta'
      BY <1>a, <1>c, <1>d, LinhaCampos DEF SemResposta, EmCurso, Activo
<1>8. RecusaPrevista'
      BY <1>a, <1>c, <1>d, LinhaCampos DEF RecusaPrevista, Conhecidos,
             TokenNovo, Activo
<1>9. CadeiaDaSessao'
      BY <1>a, <1>c, <1>d, LinhaCampos DEF CadeiaDaSessao, TokenNovo, Travada,
             Reservado, Conhecidos, Activo
<1>10. UmActivoPorSessao'
      BY <1>a, <1>c, <1>d, LinhaCampos DEF UmActivoPorSessao, Travada,
             Reservado, SessaoIniciada, Conhecidos, Activo
<1>11. RecusaJustificada'
      BY <1>a, <1>c, <1>d, LinhaCampos DEF RecusaJustificada, RecusaPrevista,
             Conhecidos, TokenNovo, SemResposta, Activo
<1>12. QED
      BY <1>1, <1>2, <1>3, <1>4, <1>5, <1>6, <1>7, <1>8, <1>9, <1>10, <1>11 DEF IInv

\* A rotation takes the row if it is still active.
LEMMA MarcarIInv ==
  ASSUME IInv, NEW r \in Pedidos, Marcar(r)
  PROVE  IInv'
<1> USE NenhumAssumption, DisjuntosAssumption DEF IInv, TypeOK, Tokens, Estados
<1>1. TypeOK'
      BY DEF EmCurso, Activo, Marcar, Ir, Responder, Linha
<1>2. Conhecidos'
      BY DEF Conhecidos, TokenNovo, Activo, Marcar, Ir, Responder
<1>3. SessaoIniciada'
      BY DEF SessaoIniciada, Conhecidos, Activo, Marcar, Ir, Responder, Linha
<1>4. TokenNovo'
      BY DEF TokenNovo, Conhecidos, Reservado, SemResposta, Activo, Marcar, Ir,
             Responder
<1>5. Travada'
      BY DEF Travada, Reservado, Conhecidos, TokenNovo, Activo, Marcar, Ir,
             Responder
<1>6. Reservado'
      BY DEF Reservado, Travada, Conhecidos, Activo, Marcar, Ir, Responder
<1>7. SemResposta'
      BY DEF SemResposta, EmCurso, Activo, Marcar, Ir, Responder
<1>8. RecusaPrevista'
      BY DEF RecusaPrevista, Conhecidos, TokenNovo, Activo, Marcar, Ir,
             Responder
<1>9. CadeiaDaSessao'
      BY DEF CadeiaDaSessao, TokenNovo, Travada, Reservado, Conhecidos, Activo,
             Marcar, Ir, Responder, Linha
<1>10. UmActivoPorSessao'
      BY DEF UmActivoPorSessao, Travada, Reservado, SessaoIniciada, Conhecidos,
             Activo, Marcar, Ir, Responder, Linha
<1>11. RecusaJustificada'
      BY DEF RecusaJustificada, RecusaPrevista, Conhecidos, TokenNovo,
             SemResposta, Activo, Marcar, Ir, Responder
<1>12. QED
      BY <1>1, <1>2, <1>3, <1>4, <1>5, <1>6, <1>7, <1>8, <1>9, <1>10, <1>11 DEF IInv

\* A rotation moves the activity of a session from one row to another.
LEMMA ConfirmarRotacaoIInv ==
  ASSUME IInv, NEW r \in Pedidos, ConfirmarRotacao(r)
  PROVE  IInv'
<1>a. /\ token[r] \in Tokens /\ trava[token[r]] = r /\ passo[r] = "confirmar"
      /\ linha[token[r]] \in Linha /\ ~linha[token[r]].revogado
      /\ linha[r] = Nenhum /\ token[r] # r
      BY DEF IInv, TypeOK, ConfirmarRotacao, Reservado, Travada, TokenNovo, Activo, Conhecidos
<1>t. linha \in [Tokens -> Linha \cup {Nenhum}] /\ r \in Tokens
      BY DEF IInv, TypeOK, Tokens
<1>x. linha' = [linha EXCEPT ![token[r]] = [linha[token[r]] EXCEPT !.revogado = TRUE, !.substituto = r],
                             ![r] = LinhaNova(linha[token[r]].sessao)]
      BY <1>t, <1>a DEF ConfirmarRotacao
<1>f. linha'[token[r]] = [linha[token[r]] EXCEPT !.revogado = TRUE, !.substituto = r]
      BY <1>t, <1>a, <1>x
<1>g. linha'[r] = LinhaNova(linha[token[r]].sessao)
      BY <1>t, <1>a, <1>x
<1>h. \A u \in Tokens : u # r /\ u # token[r] => linha'[u] = linha[u]
      BY <1>t, <1>a, <1>x
<1>i. linha[token[r]].sessao \in Sessoes
      BY <1>a, LinhaCampos
<1>c. /\ linha'[token[r]] \in Linha /\ linha'[token[r]] # Nenhum
      /\ linha'[token[r]].sessao = linha[token[r]].sessao
      /\ linha'[token[r]].substituto = r /\ linha'[token[r]].revogado
  <2>1. \A x \in Linha : LET y == [x EXCEPT !.revogado = TRUE, !.substituto = r]
           IN  y \in Linha /\ y # Nenhum /\ y.sessao = x.sessao /\ y.substituto = r /\ y.revogado
        BY LinhaSubstituida
  <2>2. QED
      BY <1>a, <1>f, <2>1
<1>j. /\ linha'[r] \in Linha /\ linha'[r] # Nenhum
      /\ linha'[r].sessao = linha[token[r]].sessao
      /\ linha'[r].substituto = Nenhum /\ ~linha'[r].revogado
      BY <1>i, <1>g, LinhaDaRotacao
<1>d. /\ passo' = [passo EXCEPT ![r] = "responder"]
      /\ trava' = [u \in Tokens |-> IF trava[u] = r THEN Nenhum ELSE trava[u]]
      /\ UNCHANGED <<resposta, expirados, entregues, token, operacao, porRevogar, serial>>
      BY DEF ConfirmarRotacao, Libertar, Ir
<1>e. linha' \in [Tokens -> Linha \cup {Nenhum}]
      BY <1>t, <1>a, <1>x, <1>c, <1>j, <1>h
<1> USE NenhumAssumption, DisjuntosAssumption DEF IInv, TypeOK, Tokens, Estados
<1>1. TypeOK'
  <2>1. trava' \in [Tokens -> Pedidos \cup {Nenhum}]
        BY <1>d
  <2>2. passo' \in [Pedidos -> EmCurso \cup {"novo", "fim"}]
        BY <1>d DEF EmCurso
  <2>3. resposta' \in [Pedidos -> Estados \cup {Nenhum}]
        BY <1>d
  <2>4. expirados' \subseteq Tokens /\ entregues' \subseteq Tokens
        BY <1>d
  <2>5. token' \in [Pedidos -> Tokens \cup {Nenhum}]
        BY <1>d
  <2>6. operacao' \in [Pedidos -> {"refresh", "logout", Nenhum}]
        BY <1>d
  <2>7. porRevogar' \in [Pedidos -> SUBSET Tokens] /\ serial' \in BOOLEAN
        BY <1>d
  <2>8. QED
        BY <1>e, <2>1, <2>2, <2>3, <2>4, <2>5, <2>6, <2>7
<1>2. Conhecidos'
      BY <1>a, <1>t, <1>c, <1>d, <1>h, <1>i, <1>j DEF Conhecidos, TokenNovo,
             Activo
<1>3. SessaoIniciada'
      BY <1>a, <1>t, <1>c, <1>d, <1>h, <1>i, <1>j, LinhaCampos DEF
             SessaoIniciada, Conhecidos, Activo
<1>4. TokenNovo'
      BY <1>a, <1>t, <1>c, <1>d, <1>h, <1>i, <1>j DEF TokenNovo, Conhecidos,
             Reservado, SemResposta, Activo
<1>5. Travada'
      BY <1>a, <1>t, <1>c, <1>d, <1>h, <1>i, <1>j DEF Travada, Reservado,
             Conhecidos, TokenNovo, Activo
<1>6. Reservado'
      BY <1>a, <1>t, <1>c, <1>d, <1>h, <1>i, <1>j DEF Reservado, Travada,
             Conhecidos, Activo
<1>7. SemResposta'
      BY <1>a, <1>t, <1>c, <1>d, <1>h, <1>i, <1>j DEF SemResposta, EmCurso,
             Activo
<1>8. RecusaPrevista'
      BY <1>a, <1>t, <1>c, <1>d, <1>h, <1>i, <1>j DEF RecusaPrevista,
             Conhecidos, TokenNovo, Activo
<1>9. CadeiaDaSessao'
  <2>1. \A u \in Tokens : linha[u] # Nenhum => linha[u].substituto # r
        BY <1>a DEF CadeiaDaSessao
  <2>2. \A u \in Tokens :
          linha'[u] # Nenhum /\ linha'[u].substituto # Nenhum
            => /\ linha'[u].revogado
               /\ linha'[linha'[u].substituto] # Nenhum
               /\ linha'[linha'[u].substituto].sessao = linha'[u].sessao
    <3> SUFFICES ASSUME NEW u \in Tokens, linha'[u] # Nenhum, linha'[u].substituto # Nenhum
                 PROVE  /\ linha'[u].revogado
                        /\ linha'[linha'[u].substituto] # Nenhum
                        /\ linha'[linha'[u].substituto].sessao = linha'[u].sessao
        OBVIOUS
    <3>1. CASE u = token[r]
          BY <3>1, <1>c, <1>j
    <3>2. CASE u # token[r]
      <4>1. u # r /\ linha'[u] = linha[u] /\ linha[u] \in Linha
            BY <3>2, <1>h, <1>j
      <4>2. linha[u].substituto \in Pedidos /\ linha[u].substituto # r
            BY <2>1, <4>1, LinhaCampos
      <4>3. /\ linha[u].revogado /\ linha[linha[u].substituto] # Nenhum
            /\ linha[linha[u].substituto].sessao = linha[u].sessao
            BY <4>1, <4>2 DEF CadeiaDaSessao
      <4>4. QED
            BY <4>1, <4>2, <4>3, <1>c, <1>h
    <3>3. QED
          BY <3>1, <3>2
  <2>3. ASSUME NEW q \in Pedidos, linha'[q] # Nenhum, NEW u \in Tokens
        PROVE  (linha'[u] # Nenhum /\ linha'[u].substituto = q) <=> u = token[q]
    <3>1. CASE q = r
          BY <3>1, <2>1, <1>a, <1>c, <1>h, <1>j, <1>t
    <3>2. CASE q # r
      <4>1. linha[q] # Nenhum
            BY <3>2, <2>3, <1>a, <1>c, <1>h
      <4>2. (linha[u] # Nenhum /\ linha[u].substituto = q) <=> u = token[q]
            BY <4>1 DEF CadeiaDaSessao
      <4>3. linha[token[r]].substituto # q
            BY <1>a, LinhaCampos DEF CadeiaDaSessao
      <4>4. QED
        <5>1. CASE u = r
              BY <5>1, <3>2, <4>2, <1>a, <1>j, <1>t DEF Conhecidos
        <5>2. CASE u = token[r]
              BY <5>2, <3>2, <4>2, <4>3, <1>a, <1>c
        <5>3. CASE u # r /\ u # token[r]
              BY <5>3, <4>2, <1>h
        <5>4. QED
              BY <5>1, <5>2, <5>3
    <3>3. QED
          BY <3>1, <3>2
  <2>4. QED
        BY <2>2, <2>3, <1>d DEF CadeiaDaSessao
<1>10. UmActivoPorSessao'
      BY <1>a, <1>t, <1>c, <1>d, <1>h, <1>i, <1>j DEF UmActivoPorSessao,
             Travada, Reservado, SessaoIniciada, Conhecidos, Activo
<1>11. RecusaJustificada'
      BY <1>a, <1>t, <1>c, <1>d, <1>h, <1>i, <1>j DEF RecusaJustificada,
             RecusaPrevista, Conhecidos, TokenNovo, SemResposta, Activo
<1>12. QED
      BY <1>1, <1>2, <1>3, <1>4, <1>5, <1>6, <1>7, <1>8, <1>9, <1>10, <1>11 DEF IInv

\* The answer changes no row.
LEMMA EntregarIInv ==
  ASSUME IInv, NEW r \in Pedidos, Entregar(r)
  PROVE  IInv'
<1> USE NenhumAssumption, DisjuntosAssumption DEF IInv, TypeOK, Tokens, Estados
<1>1. TypeOK'
      BY DEF EmCurso, Activo, Entregar, Responder, Linha
<1>2. Conhecidos'
      BY DEF Conhecidos, TokenNovo, Activo, Entregar, Responder
<1>3. SessaoIniciada'
      BY DEF SessaoIniciada, Conhecidos, Activo, Entregar, Responder, Linha
<1>4. TokenNovo'
      BY DEF TokenNovo, Conhecidos, Reservado, SemResposta, Activo, Entregar,
             Responder
<1>5. Travada'
      BY DEF Travada, Reservado, Conhecidos, TokenNovo, Activo, Entregar,
             Responder
<1>6. Reservado'
      BY DEF Reservado, Travada, Conhecidos, Activo, Entregar, Responder
<1>7. SemResposta'
      BY DEF SemResposta, EmCurso, Activo, Entregar, Responder
<1>8. RecusaPrevista'
      BY DEF RecusaPrevista, Conhecidos, TokenNovo, Activo, Entregar, Responder
<1>9. CadeiaDaSessao'
      BY DEF CadeiaDaSessao, TokenNovo, Travada, Reservado, Conhecidos, Activo,
             Entregar, Responder, Linha
<1>10. UmActivoPorSessao'
      BY DEF UmActivoPorSessao, Travada, Reservado, SessaoIniciada, Conhecidos,
             Activo, Entregar, Responder, Linha
<1>11. RecusaJustificada'
      BY DEF RecusaJustificada, RecusaPrevista, Conhecidos, TokenNovo,
             SemResposta, Activo, Entregar, Responder
<1>12. QED
      BY <1>1, <1>2, <1>3, <1>4, <1>5, <1>6, <1>7, <1>8, <1>9, <1>10, <1>11 DEF IInv

\* A roll-back changes no committed row.
LEMMA FalharIInv ==
  ASSUME IInv, NEW r \in Pedidos, Falhar(r)
  PROVE  IInv'
<1> USE NenhumAssumption, DisjuntosAssumption DEF IInv, TypeOK, Tokens, Estados
<1>1. TypeOK'
      BY DEF EmCurso, Activo, Falhar, Libertar, Responder, Linha
<1>2. Conhecidos'
      BY DEF Conhecidos, TokenNovo, Activo, Falhar, Libertar, Responder, EmCurso
<1>3. SessaoIniciada'
      BY DEF SessaoIniciada, Conhecidos, Activo, Falhar, Libertar, Responder,
             EmCurso, Linha
<1>4. TokenNovo'
      BY DEF TokenNovo, Conhecidos, Reservado, SemResposta, Activo, Falhar,
             Libertar, Responder, EmCurso
<1>5. Travada'
      BY DEF Travada, Reservado, Conhecidos, TokenNovo, Activo, Falhar,
             Libertar, Responder, EmCurso
<1>6. Reservado'
      BY DEF Reservado, Travada, Conhecidos, Activo, Falhar, Libertar,
             Responder, EmCurso
<1>7. SemResposta'
      BY DEF SemResposta, EmCurso, Activo, Falhar, Libertar, Responder
<1>8. RecusaPrevista'
      BY DEF RecusaPrevista, Conhecidos, TokenNovo, Activo, Falhar, Libertar,
             Responder, EmCurso
<1>9. CadeiaDaSessao'
      BY DEF CadeiaDaSessao, TokenNovo, Travada, Reservado, Conhecidos, Activo,
             Falhar, Libertar, Responder, EmCurso, Linha
<1>10. UmActivoPorSessao'
      BY DEF UmActivoPorSessao, Travada, Reservado, SessaoIniciada, Conhecidos,
             Activo, Falhar, Libertar, Responder, EmCurso, Linha
<1>11. RecusaJustificada'
      BY DEF RecusaJustificada, RecusaPrevista, Conhecidos, TokenNovo,
             SemResposta, Activo, Falhar, Libertar, Responder, EmCurso
<1>12. QED
      BY <1>1, <1>2, <1>3, <1>4, <1>5, <1>6, <1>7, <1>8, <1>9, <1>10, <1>11 DEF IInv

\* Time revokes nothing by itself.
LEMMA ExpirarIInv ==
  ASSUME IInv, NEW t \in Tokens, Expirar(t)
  PROVE  IInv'
<1> USE NenhumAssumption, DisjuntosAssumption DEF IInv, TypeOK, Tokens, Estados
<1>1. TypeOK'
      BY DEF EmCurso, Activo, Expirar, Linha
<1>2. Conhecidos'
      BY DEF Conhecidos, TokenNovo, Activo, Expirar
<1>3. SessaoIniciada'
      BY DEF SessaoIniciada, Conhecidos, Activo, Expirar, Linha
<1>4. TokenNovo'
      BY DEF TokenNovo, Conhecidos, Reservado, SemResposta, Activo, Expirar
<1>5. Travada'
      BY DEF Travada, Reservado, Conhecidos, TokenNovo, Activo, Expirar
<1>6. Reservado'
      BY DEF Reservado, Travada, Conhecidos, Activo, Expirar
<1>7. SemResposta'
      BY DEF SemResposta, EmCurso, Activo, Expirar
<1>8. RecusaPrevista'
      BY DEF RecusaPrevista, Conhecidos, TokenNovo, Activo, Expirar
<1>9. CadeiaDaSessao'
      BY DEF CadeiaDaSessao, TokenNovo, Travada, Reservado, Conhecidos, Activo,
             Expirar, Linha
<1>10. UmActivoPorSessao'
      BY DEF UmActivoPorSessao, Travada, Reservado, SessaoIniciada, Conhecidos,
             Activo, Expirar, Linha
<1>11. RecusaJustificada'
      BY DEF RecusaJustificada, RecusaPrevista, Conhecidos, TokenNovo,
             SemResposta, Activo, Expirar
<1>12. QED
      BY <1>1, <1>2, <1>3, <1>4, <1>5, <1>6, <1>7, <1>8, <1>9, <1>10, <1>11 DEF IInv

\* The initial states satisfy the invariant.
LEMMA InitIInv == Init => IInv
<1> SUFFICES ASSUME Init PROVE IInv
    OBVIOUS
<1> USE NenhumAssumption DEF Init, Activo
<1>1. TypeOK
      BY DEF TypeOK, Tokens
<1>2. Conhecidos /\ SessaoIniciada /\ TokenNovo /\ Travada /\ Reservado
      BY DEF Conhecidos, SessaoIniciada, TokenNovo, Travada, Reservado, Estados, Tokens
<1>3. SemResposta /\ RecusaPrevista /\ RecusaJustificada
      BY DEF SemResposta, RecusaPrevista, RecusaJustificada, Estados
<1>4. CadeiaDaSessao /\ UmActivoPorSessao
      BY DEF CadeiaDaSessao, UmActivoPorSessao, Tokens
<1>5. QED
      BY <1>1, <1>2, <1>3, <1>4 DEF IInv

\* Every step of logins, requests and the clock preserves it.
LEMMA PassoIInv == IInv /\ [Next]_vars => IInv'
<1> SUFFICES ASSUME IInv, [Next]_vars PROVE IInv'
    OBVIOUS
<1>1. ASSUME NEW s \in Sessoes, Login(s) PROVE IInv'
      BY <1>1, LoginIInv
<1>2. ASSUME NEW r \in Pedidos, NEW t \in Tokens, Refresh(r, t) \/ Logout(r, t) PROVE IInv'
      BY <1>2, ComecarIInv
<1>3. ASSUME NEW r \in Pedidos, NEW t \in Tokens, TravarLinha(r, t) PROVE IInv'
      BY <1>3, TravarIInv
<1>4. ASSUME NEW r \in Pedidos, Ler(r) PROVE IInv'
      BY <1>4, LerIInv
<1>5. ASSUME NEW r \in Pedidos, Revogar(r) PROVE IInv'
      BY <1>5, RevogarIInv
<1>6. ASSUME NEW r \in Pedidos, ConfirmarRevogacao(r) PROVE IInv'
      BY <1>6, ConfirmarRevogacaoIInv
<1>7. ASSUME NEW r \in Pedidos, Marcar(r) PROVE IInv'
      BY <1>7, MarcarIInv
<1>8. ASSUME NEW r \in Pedidos, ConfirmarRotacao(r) PROVE IInv'
      BY <1>8, ConfirmarRotacaoIInv
<1>9. ASSUME NEW r \in Pedidos, Entregar(r) PROVE IInv'
      BY <1>9, EntregarIInv
<1>10. ASSUME NEW r \in Pedidos, Falhar(r) PROVE IInv'
      BY <1>10, FalharIInv
<1>11. ASSUME NEW t \in Tokens, Expirar(t) PROVE IInv'
      BY <1>11, ExpirarIInv
<1>12. CASE UNCHANGED vars
      BY <1>12 DEF vars, IInv, TypeOK, Conhecidos, SessaoIniciada, TokenNovo, Travada,
         Reservado, SemResposta, RecusaPrevista, CadeiaDaSessao, UmActivoPorSessao,
         RecusaJustificada, Activo
<1>13. QED
      BY <1>1, <1>2, <1>3, <1>4, <1>5, <1>6, <1>7, <1>8, <1>9, <1>10, <1>11, <1>12 DEF Next

\* The inductive invariant holds in every reachable state, for any number of
\* sessions and overlapping requests.
LEMMA Indutivo == Spec => []IInv
<1>1. QED
      BY InitIInv, PassoIInv, PTL DEF Spec

(* The refresh_tokens table and the requests on it keep their types.       *)
THEOREM TipagemCorrecta == Spec => []TypeOK
<1>1. IInv => TypeOK
      BY DEF IInv
<1>2. QED
      BY <1>1, Indutivo, PTL

(* Whatever refreshes, logouts, failures and retries overlap, a session    *)
(* never has two active refresh tokens.                                    *)
THEOREM SessaoComUmActivo == Spec => []UmActivoPorSessao
<1>1. IInv => UmActivoPorSessao
      BY DEF IInv
<1>2. QED
      BY <1>1, Indutivo, PTL

(* Of all the requests that carry a refresh token, at most one is given a  *)
(* new one: rotateRefreshToken never exchanges a token twice.              *)
THEOREM TokenTrocadoUmaVez == Spec => []TrocaUnica
<1>1. IInv => TrocaUnica
  <2> SUFFICES ASSUME IInv, NEW r \in Pedidos, NEW q \in Pedidos,
                      resposta[r] = 200, resposta[q] = 200, token[r] = token[q]
               PROVE  r = q
      BY DEF TrocaUnica
  <2>1. linha[r] # Nenhum /\ linha[q] # Nenhum
        BY DEF IInv, TokenNovo
  <2>2. passo[r] # "novo" /\ passo[q] # "novo"
        BY <2>1 DEF IInv, TokenNovo
  <2>3. token[r] \in Tokens
        BY <2>2 DEF IInv, Conhecidos
  <2>4. linha[token[r]].substituto = r /\ linha[token[q]].substituto = q
        BY <2>1, <2>3 DEF IInv, CadeiaDaSessao
  <2>5. QED
        BY <2>4
<1>2. QED
      BY <1>1, Indutivo, PTL

(* replacedByTokenId links the rows of a session into one chain of         *)
(* rotations.                                                              *)
THEOREM SessaoEmCadeia == Spec => []CadeiaDaSessao
<1>1. IInv => CadeiaDaSessao
      BY DEF IInv
<1>2. QED
      BY <1>1, Indutivo, PTL

(* refresh answers 401 only for a token that is revoked or expired.        *)
THEOREM RecusasJustificadas == Spec => []RecusaJustificada
<1>1. IInv => RecusaJustificada
      BY DEF IInv
<1>2. QED
      BY <1>1, Indutivo, PTL

\* No step changes the row of a revoked token.
LEMMA RevogadaPasso ==
  ASSUME IInv, [Next]_vars, NEW t \in Tokens, linha[t] # Nenhum, linha[t].revogado
  PROVE  linha'[t] = linha[t]
<1>1. ASSUME NEW s \in Sessoes, Login(s) PROVE linha'[t] = linha[t]
      BY <1>1 DEF Login
<1>2. ASSUME NEW r \in Pedidos, ConfirmarRevogacao(r) PROVE linha'[t] = linha[t]
      BY <1>2 DEF ConfirmarRevogacao, IInv, Travada, Activo
<1>3. ASSUME NEW r \in Pedidos, ConfirmarRotacao(r) PROVE linha'[t] = linha[t]
  <2>1. /\ passo[r] = "confirmar"
        /\ linha' = [linha EXCEPT ![token[r]].revogado = TRUE, ![token[r]].substituto = r,
                                  ![r] = LinhaNova(linha[token[r]].sessao)]
        BY <1>3 DEF ConfirmarRotacao
  <2>2. t # token[r]
        BY <2>1 DEF IInv, Reservado, Travada, Conhecidos, Activo
  <2>3. t # r
        BY <2>1 DEF IInv, TokenNovo
  <2>4. QED
        BY <2>1, <2>2, <2>3 DEF IInv, TypeOK
<1>4. CASE linha' = linha
      BY <1>4
<1>5. QED
      BY <1>1, <1>2, <1>3, <1>4 DEF Next, vars, Refresh, Logout, TravarLinha, Ler, Revogar,
         Marcar, Entregar, Falhar, Expirar

(* The row of a revoked token never changes again.                         *)
THEOREM RevogacoesDefinitivas == Spec => RevogacaoDefinitiva
<1>1. IInv /\ [Next]_vars
        => [\A t \in Tokens : linha[t] # Nenhum /\ linha[t].revogado => linha'[t] = linha[t]]_vars
      BY RevogadaPasso
<1>2. QED
      BY <1>1, Indutivo, PTL DEF Spec, RevogacaoDefinitiva
-----------------------------------------------------------------------------
\* The rows an updateMany found or holds are of the session of its token.
MesmaSessao ==
  \A r \in Pedidos :
    /\ passo[r] = "novo" => porRevogar[r] = {}
    /\ \A t \in porRevogar[r] :
         linha[t] # Nenhum /\ linha[t].sessao = linha[token[r]].sessao
    /\ \A t \in Tokens : trava[t] = r => linha[t].sessao = linha[token[r]].sessao

\* Rows are never deleted nor moved to another session.
LinhasFicam ==
  \A t \in Tokens : linha[t] # Nenhum =>
    linha'[t] # Nenhum /\ linha'[t].sessao = linha[t].sessao

\* What each of the three writing steps does to a row that is there.
LEMMA LinhasFicamPasso ==
  ASSUME IInv, [Next]_vars
  PROVE  LinhasFicam
<1>1. ASSUME NEW s \in Sessoes, Login(s)
      PROVE  LinhasFicam
      BY <1>1 DEF LinhasFicam, Login, IInv, TypeOK
<1>2. ASSUME NEW r \in Pedidos, ConfirmarRevogacao(r)
      PROVE  LinhasFicam
  <2>1. ASSUME NEW t \in Tokens, linha[t] # Nenhum
        PROVE  linha'[t] # Nenhum /\ linha'[t].sessao = linha[t].sessao
    <3>1. linha[t] \in Linha
          BY <2>1 DEF IInv, TypeOK
    <3>2. linha'[t] = IF trava[t] = r THEN [linha[t] EXCEPT !.revogado = TRUE] ELSE linha[t]
          BY <1>2 DEF ConfirmarRevogacao
    <3>3. QED
          BY <2>1, <3>1, <3>2, LinhaRevogada
  <2>2. QED
        BY <2>1 DEF LinhasFicam
<1>3. ASSUME NEW r \in Pedidos, ConfirmarRotacao(r)
      PROVE  LinhasFicam
  <2>1. /\ token[r] \in Tokens /\ linha[token[r]] \in Linha /\ linha[r] = Nenhum
        /\ r \in Tokens /\ r # token[r]
        BY <1>3 DEF ConfirmarRotacao, IInv, TypeOK, Conhecidos, TokenNovo, Tokens
  <2>2. \A t \in Tokens : t # token[r] /\ t # r => linha'[t] = linha[t]
        BY <1>3, <2>1 DEF ConfirmarRotacao, IInv, TypeOK
  <2>3. linha'[token[r]] = [linha[token[r]] EXCEPT !.revogado = TRUE, !.substituto = r]
        BY <1>3, <2>1 DEF ConfirmarRotacao, IInv, TypeOK
  <2>4. linha'[token[r]] # Nenhum /\ linha'[token[r]].sessao = linha[token[r]].sessao
    <3> DEFINE x == linha[token[r]]
    <3>1. /\ [x EXCEPT !.revogado = TRUE, !.substituto = r] # Nenhum
          /\ [x EXCEPT !.revogado = TRUE, !.substituto = r].sessao = x.sessao
          BY <2>1, LinhaSubstituida
    <3>2. QED
          BY <2>3, <3>1
  <2>5. QED
        BY <2>1, <2>2, <2>4 DEF LinhasFicam
<1>4. ASSUME linha' = linha
      PROVE  LinhasFicam
      BY <1>4 DEF LinhasFicam
<1>5. QED
      BY <1>1, <1>2, <1>3, <1>4 DEF Next, vars, Refresh, Logout, TravarLinha, Ler, Revogar,
         Marcar, Entregar, Falhar, Expirar

\* Requests, locks and snapshots stay within one session.
LEMMA MesmaSessaoPasso ==
  ASSUME IInv, MesmaSessao, [Next]_vars
  PROVE  MesmaSessao'
<1>0. LinhasFicam
      BY LinhasFicamPasso
<1> USE DEF MesmaSessao, LinhasFicam, IInv, TypeOK
<1>1. ASSUME NEW s \in Sessoes, Login(s)
      PROVE  MesmaSessao'
      BY <1>0, <1>1 DEF Login, Conhecidos, Travada, Activo
<1>2. ASSUME NEW r \in Pedidos, NEW u \in Tokens, Refresh(r, u) \/ Logout(r, u)
      PROVE  MesmaSessao'
      BY <1>2 DEF Refresh, Logout, Comecar, Responder, Ir, Travada
<1>3. ASSUME NEW r \in Pedidos, Ler(r) \/ Entregar(r)
      PROVE  MesmaSessao'
      BY <1>3 DEF Ler, Entregar, Ir, Responder
<1>4. ASSUME NEW r \in Pedidos, Revogar(r)
      PROVE  MesmaSessao'
      BY <1>4 DEF Revogar, Ir, ActivasDaSessao, Activo
<1>5. ASSUME NEW r \in Pedidos, NEW u \in Tokens, TravarLinha(r, u)
      PROVE  MesmaSessao'
      BY <1>5 DEF TravarLinha
<1>6. ASSUME NEW r \in Pedidos, ConfirmarRevogacao(r)
      PROVE  MesmaSessao'
  <2>1. /\ token' = token /\ porRevogar' = porRevogar
        /\ \A q \in Pedidos : passo'[q] = "novo" => passo[q] = "novo"
        /\ \A q \in Pedidos, t \in Tokens : trava'[t] = q => trava[t] = q
        BY <1>6, NenhumAssumption DEF ConfirmarRevogacao, Libertar, Responder, Tokens
  <2>2. \A q \in Pedidos : passo[q] # "novo" => linha[token[q]] # Nenhum /\ token[q] \in Tokens
        BY DEF Conhecidos
  <2>3. \A q \in Pedidos, t \in Tokens : trava[t] = q => linha[t] # Nenhum /\ passo[q] # "novo"
        BY DEF Travada, Activo
  <2>4. QED
        BY <1>0, <2>1, <2>2, <2>3
<1>7. ASSUME NEW r \in Pedidos, Marcar(r)
      PROVE  MesmaSessao'
      BY <1>7 DEF Marcar, Ir, Responder
<1>8. ASSUME NEW r \in Pedidos, ConfirmarRotacao(r)
      PROVE  MesmaSessao'
  <2>1. /\ token' = token /\ porRevogar' = porRevogar
        /\ \A q \in Pedidos : passo'[q] = "novo" => passo[q] = "novo"
        /\ \A q \in Pedidos, t \in Tokens : trava'[t] = q => trava[t] = q
        BY <1>8, NenhumAssumption DEF ConfirmarRotacao, Libertar, Ir, Tokens
  <2>2. \A q \in Pedidos : passo[q] # "novo" => linha[token[q]] # Nenhum /\ token[q] \in Tokens
        BY DEF Conhecidos
  <2>3. \A q \in Pedidos, t \in Tokens : trava[t] = q => linha[t] # Nenhum /\ passo[q] # "novo"
        BY DEF Travada, Activo
  <2>4. QED
        BY <1>0, <2>1, <2>2, <2>3
<1>9. ASSUME NEW r \in Pedidos, Falhar(r)
      PROVE  MesmaSessao'
      BY <1>9, NenhumAssumption DEF Falhar, Libertar, Responder, EmCurso, Tokens
<1>10. ASSUME NEW t \in Tokens, Expirar(t)
      PROVE  MesmaSessao'
      BY <1>10 DEF Expirar
<1>11. CASE UNCHANGED vars
      BY <1>11 DEF vars
<1>12. QED
      BY <1>1, <1>2, <1>3, <1>4, <1>5, <1>6, <1>7, <1>8, <1>9, <1>10, <1>11 DEF Next

\* The register Sessao says a session is: its one active token, if any.
LEMMA VivoUnico ==
  ASSUME UmActivoPorSessao, NEW s \in Sessoes, NEW t \in ActivasDaSessao(s)
  PROVE  VivoDe(s) = t
  BY DEF VivoDe, ActivasDaSessao, UmActivoPorSessao

\* A step that writes no row leaves the register as it was.
LEMMA SemEscrita ==
  ASSUME linha' = linha
  PROVE  UNCHANGED Registo!vars
<1>1. \A s \in Sessoes : VivoDe(s)' = VivoDe(s)
      BY DEF VivoDe, ActivasDaSessao, Activo
<1>2. QED
      BY <1>1 DEF Registo!vars

\* Opening a session stores its first token.
LEMMA LoginAbre ==
  ASSUME IInv, IInv', NEW s \in Sessoes, Login(s)
  PROVE  Registo!Abrir(s, s) /\ s \in Tokens \ {t \in Tokens : linha[t] # Nenhum}
<1>1. /\ linha[s] = Nenhum /\ s \in Tokens
      /\ linha' = [linha EXCEPT ![s] = LinhaNova(s)]
      BY DEF Login, Tokens
<1>2. linha'[s] = LinhaNova(s) /\ \A t \in Tokens \ {s} : linha'[t] = linha[t]
      BY <1>1 DEF IInv, TypeOK
<1>3. \A t \in Tokens : linha[t] # Nenhum => linha[t].sessao # s
      BY <1>1 DEF IInv, SessaoIniciada
<1>4. /\ linha'[s] # Nenhum /\ ~linha'[s].revogado /\ linha'[s].sessao = s
      /\ linha'[s].substituto = Nenhum
      BY <1>2, LinhaDaRotacao
<1>5. s \in ActivasDaSessao(s)'
      BY <1>1, <1>4 DEF ActivasDaSessao, Activo
<1>6. VivoDe(s)' = s
  <2>1. ActivasDaSessao(s)' = {s}
        BY <1>1, <1>2, <1>3, <1>5 DEF ActivasDaSessao, Activo
  <2>2. QED
        BY <2>1 DEF VivoDe
<1>7. ASSUME NEW z \in Sessoes \ {s}
      PROVE  VivoDe(z)' = VivoDe(z)
  <2>1. ActivasDaSessao(z)' = ActivasDaSessao(z)
        BY <1>1, <1>2, <1>4 DEF ActivasDaSessao, Activo
  <2>2. QED
        BY <2>1 DEF VivoDe
<1>8. [z \in Sessoes |-> VivoDe(z)]' = [[z \in Sessoes |-> VivoDe(z)] EXCEPT ![s] = s]
      BY <1>6, <1>7
<1>9. /\ {z \in Sessoes : linha[z] # Nenhum}' = {z \in Sessoes : linha[z] # Nenhum} \cup {s}
      /\ {t \in Tokens : linha[t] # Nenhum}' = {t \in Tokens : linha[t] # Nenhum} \cup {s}
      /\ s \notin {z \in Sessoes : linha[z] # Nenhum}
      BY <1>1, <1>2, <1>4 DEF Tokens
<1>10. [t \in Tokens |-> IF linha[t] = Nenhum THEN Nenhum ELSE linha[t].substituto]'
       = [t \in Tokens |-> IF linha[t] = Nenhum THEN Nenhum ELSE linha[t].substituto]
      BY <1>1, <1>2, <1>4
<1>11. QED
      BY <1>1, <1>8, <1>9, <1>10 DEF Registo!Abrir

\* A rotation exchanges the one good token of its session for the one it signed.
LEMMA RotacaoTroca ==
  ASSUME IInv, NEW r \in Pedidos, ConfirmarRotacao(r)
  PROVE  /\ r \in Tokens \ {t \in Tokens : linha[t] # Nenhum}
         /\ \E s \in Sessoes : Registo!Trocar(s, r)
<1>0. token[r] \in Tokens /\ linha[token[r]] \in Linha
      BY DEF ConfirmarRotacao, IInv, TypeOK, Conhecidos
<1>a. PICK a \in Tokens : a = token[r]
      BY <1>0
<1>b. PICK s \in Sessoes : s = linha[a].sessao
      BY <1>0, <1>a, LinhaCampos
<1>1. /\ a \in Tokens /\ linha[a] \in Linha /\ linha[a] # Nenhum /\ ~linha[a].revogado
      /\ r \in Tokens /\ r # a /\ linha[r] = Nenhum /\ r \notin Sessoes
      BY <1>0, <1>a, DisjuntosAssumption DEF ConfirmarRotacao, IInv, TypeOK, Conhecidos,
         TokenNovo, Reservado, Travada, Activo, Tokens
<1>2. s \in Sessoes /\ linha[a].sessao = s
      BY <1>b
<1>3. \A t \in Tokens : t # a /\ t # r => linha'[t] = linha[t]
      BY <1>a, <1>1 DEF ConfirmarRotacao, IInv, TypeOK
<1>4. linha'[a] # Nenhum /\ linha'[a].revogado /\ linha'[a].substituto = r
  <2>1. linha'[a] = [linha[a] EXCEPT !.revogado = TRUE, !.substituto = r]
        BY <1>a, <1>1 DEF ConfirmarRotacao, IInv, TypeOK
  <2>2. /\ [linha[a] EXCEPT !.revogado = TRUE, !.substituto = r] # Nenhum
        /\ [linha[a] EXCEPT !.revogado = TRUE, !.substituto = r].revogado
        /\ [linha[a] EXCEPT !.revogado = TRUE, !.substituto = r].substituto = r
        BY <1>1, LinhaSubstituida
  <2>3. QED
        BY <2>1, <2>2
<1>5. /\ linha'[r] # Nenhum /\ ~linha'[r].revogado /\ linha'[r].sessao = s
      /\ linha'[r].substituto = Nenhum
  <2>1. linha'[r] = LinhaNova(s)
        BY <1>a, <1>b, <1>1 DEF ConfirmarRotacao, IInv, TypeOK
  <2>2. QED
        BY <1>2, <2>1, LinhaDaRotacao
<1>6. ActivasDaSessao(s) = {a}
      BY <1>1, <1>2 DEF ActivasDaSessao, IInv, UmActivoPorSessao, Activo
<1>7. ActivasDaSessao(s)' = {r}
  <2>1. \A t \in Tokens : linha'[t] # Nenhum /\ ~linha'[t].revogado /\ linha'[t].sessao = s => t = r
        BY <1>1, <1>3, <1>4, <1>6 DEF ActivasDaSessao, Activo
  <2>2. QED
        BY <1>1, <1>5, <2>1 DEF ActivasDaSessao, Activo
<1>8. ASSUME NEW z \in Sessoes \ {s}
      PROVE  VivoDe(z)' = VivoDe(z)
  <2>1. ActivasDaSessao(z)' = ActivasDaSessao(z)
        BY <1>1, <1>2, <1>3, <1>4, <1>5 DEF ActivasDaSessao, Activo
  <2>2. QED
        BY <2>1 DEF VivoDe
<1>9. VivoDe(s) = a /\ VivoDe(s)' = r
      BY <1>6, <1>7 DEF VivoDe
<1>10. [z \in Sessoes |-> VivoDe(z)]' = [[z \in Sessoes |-> VivoDe(z)] EXCEPT ![s] = r]
      BY <1>2, <1>8, <1>9
<1>11. /\ {z \in Sessoes : linha[z] # Nenhum}' = {z \in Sessoes : linha[z] # Nenhum}
       /\ {t \in Tokens : linha[t] # Nenhum}' = {t \in Tokens : linha[t] # Nenhum} \cup {r}
       /\ r \in Tokens \ {t \in Tokens : linha[t] # Nenhum}
      BY <1>1, <1>3, <1>4, <1>5 DEF Tokens
<1>12. [t \in Tokens |-> IF linha[t] = Nenhum THEN Nenhum ELSE linha[t].substituto]'
       = [[t \in Tokens |-> IF linha[t] = Nenhum THEN Nenhum ELSE linha[t].substituto]
            EXCEPT ![a] = r]
      BY <1>1, <1>3, <1>4, <1>5
<1>13. a # Nenhum
      BY <1>1, NenhumAssumption
<1>14. Registo!Trocar(s, r)
      BY <1>2, <1>9, <1>10, <1>11, <1>12, <1>13 DEF Registo!Trocar
<1>15. QED
      BY <1>2, <1>11, <1>14

\* A revocation ends the session of its token, if it held the good one.
LEMMA RevogacaoTermina ==
  ASSUME IInv, MesmaSessao, NEW r \in Pedidos, ConfirmarRevogacao(r)
  PROVE  (\E s \in Sessoes : Registo!Terminar(s)) \/ UNCHANGED Registo!vars
<1>1. linha' = [t \in Tokens |->
        IF trava[t] = r THEN [linha[t] EXCEPT !.revogado = TRUE] ELSE linha[t]]
      BY DEF ConfirmarRevogacao
<1>2. CASE \A t \in Tokens : trava[t] # r
  <2>1. linha' = linha
        BY <1>1, <1>2 DEF IInv, TypeOK
  <2>2. QED
        BY <2>1, SemEscrita
<1>3. ASSUME NEW a \in Tokens, trava[a] = r
      PROVE  \E s \in Sessoes : Registo!Terminar(s)
  <2>1. linha[a] \in Linha /\ linha[a] # Nenhum /\ ~linha[a].revogado
        BY <1>3 DEF IInv, TypeOK, Travada, Activo
  <2>2. PICK s \in Sessoes : s = linha[a].sessao
        BY <2>1, LinhaCampos
  <2>3. ActivasDaSessao(s) = {a}
        BY <2>1, <2>2 DEF ActivasDaSessao, IInv, UmActivoPorSessao, Activo
  <2>4. \A t \in Tokens \ {a} : linha'[t] = linha[t]
    <3>1. \A t \in Tokens : trava[t] = r => t = a
          BY <1>3, <2>1 DEF MesmaSessao, IInv, Travada, UmActivoPorSessao
    <3>2. QED
          BY <1>1, <3>1
  <2>5. /\ linha'[a] # Nenhum /\ linha'[a].revogado
        /\ linha'[a].substituto = linha[a].substituto
    <3>1. linha'[a] = [linha[a] EXCEPT !.revogado = TRUE]
          BY <1>1, <1>3
    <3>2. QED
          BY <2>1, <3>1, LinhaRevogada
  <2>6. ActivasDaSessao(s)' = {}
        BY <2>3, <2>4, <2>5 DEF ActivasDaSessao, Activo
  <2>7. ASSUME NEW z \in Sessoes \ {s}
        PROVE  VivoDe(z)' = VivoDe(z)
    <3>1. ActivasDaSessao(z)' = ActivasDaSessao(z)
          BY <2>2, <2>4, <2>5 DEF ActivasDaSessao, Activo
    <3>2. QED
          BY <3>1 DEF VivoDe
  <2>8. VivoDe(s) = a /\ VivoDe(s)' = Nenhum
        BY <2>3, <2>6 DEF VivoDe
  <2>9. [z \in Sessoes |-> VivoDe(z)]' = [[z \in Sessoes |-> VivoDe(z)] EXCEPT ![s] = Nenhum]
        BY <2>2, <2>7, <2>8
  <2>10. /\ {z \in Sessoes : linha[z] # Nenhum}' = {z \in Sessoes : linha[z] # Nenhum}
         /\ {t \in Tokens : linha[t] # Nenhum}' = {t \in Tokens : linha[t] # Nenhum}
        BY <2>1, <2>4, <2>5 DEF Tokens
  <2>11. [t \in Tokens |-> IF linha[t] = Nenhum THEN Nenhum ELSE linha[t].substituto]'
         = [t \in Tokens |-> IF linha[t] = Nenhum THEN Nenhum ELSE linha[t].substituto]
        BY <2>1, <2>4, <2>5
  <2>12. a # Nenhum
        BY NenhumAssumption
  <2>13. Registo!Terminar(s)
        BY <2>2, <2>8, <2>9, <2>10, <2>11, <2>12 DEF Registo!Terminar
  <2>14. QED
        BY <2>2, <2>13
<1>4. QED
      BY <1>2, <1>3

(* login, rotateRefreshToken and revokeRefreshSession implement a register *)
(* per session that holds its one good token: each of their commits is one *)
(* opening, one exchange, one end, or nothing.                             *)
THEOREM Implementacao == Spec => ImplementaSessao
<1>1. Init => Registo!Init
  <2> SUFFICES ASSUME Init PROVE Registo!Init
      OBVIOUS
  <2>1. \A s \in Sessoes : VivoDe(s) = Nenhum
        BY DEF Init, VivoDe, ActivasDaSessao, Activo
  <2>2. \A s \in Sessoes : linha[s] = Nenhum
        BY DEF Init, Tokens
  <2>3. \A t \in Tokens : linha[t] = Nenhum
        BY DEF Init
  <2>4. QED
        BY <2>1, <2>2, <2>3 DEF Registo!Init
<1>2. Init => MesmaSessao
      BY NenhumAssumption DEF Init, MesmaSessao, Tokens
<1>3. ASSUME IInv, IInv', MesmaSessao, [Next]_vars
      PROVE  [Registo!Next]_(Registo!vars)
  <2>1. ASSUME NEW s \in Sessoes, Login(s)
        PROVE  Registo!Next
        BY <1>3, <2>1, LoginAbre DEF Registo!Next
  <2>2. ASSUME NEW r \in Pedidos, ConfirmarRotacao(r)
        PROVE  Registo!Next
        BY <1>3, <2>2, RotacaoTroca DEF Registo!Next
  <2>3. ASSUME NEW r \in Pedidos, ConfirmarRevogacao(r)
        PROVE  Registo!Next \/ UNCHANGED Registo!vars
        BY <1>3, <2>3, RevogacaoTermina DEF Registo!Next
  <2>4. ASSUME linha' = linha
        PROVE  UNCHANGED Registo!vars
        BY <2>4, SemEscrita
  <2>5. \/ \E s \in Sessoes : Login(s)
        \/ \E r \in Pedidos : ConfirmarRotacao(r) \/ ConfirmarRevogacao(r)
        \/ linha' = linha
        BY <1>3 DEF Next, vars, Refresh, Logout, TravarLinha, Ler, Revogar, Marcar, Entregar,
           Falhar, Expirar
  <2>6. QED
        BY <2>1, <2>2, <2>3, <2>4, <2>5
<1>4. IInv /\ MesmaSessao /\ [Next]_vars => MesmaSessao'
      BY MesmaSessaoPasso
<1>5. QED
      BY <1>1, <1>2, <1>3, <1>4, InitIInv, PassoIInv, PTL DEF Spec, ImplementaSessao, Registo!Spec

-----------------------------------------------------------------------------
\* When requests come one at a time, a revocation has seen or holds every good
\* token of its session.
SozinhoNaSessao ==
  serial =>
    /\ \A r, q \in Pedidos : passo[r] \in EmCurso /\ passo[q] \in EmCurso => r = q
    /\ \A r \in Pedidos : passo[r] = "esperar" =>
         \A t \in ActivasDaSessao(linha[token[r]].sessao) : t \in porRevogar[r] \/ trava[t] = r

\* Alone, nobody adds a good token to the session of a revocation.
LEMMA SozinhoPasso ==
  ASSUME IInv, SozinhoNaSessao, [Next]_vars
  PROVE  SozinhoNaSessao'
<1>0. LinhasFicam
      BY LinhasFicamPasso
<1> USE DEF SozinhoNaSessao, IInv, TypeOK
<1>1. ASSUME NEW s \in Sessoes, Login(s)
      PROVE  SozinhoNaSessao'
  <2>1. /\ linha[s] = Nenhum /\ linha'[s].sessao = s
        /\ \A t \in Tokens \ {s} : linha'[t] = linha[t]
    <3>1. linha'[s] = LinhaNova(s) /\ \A t \in Tokens \ {s} : linha'[t] = linha[t]
          BY <1>1 DEF Login, Tokens
    <3>2. QED
          BY <1>1, <3>1, LinhaDaRotacao DEF Login
  <2>2. \A t \in Tokens : linha[t] # Nenhum => linha[t].sessao # s /\ t # s
        BY <2>1 DEF SessaoIniciada
  <2>3. \A r \in Pedidos : passo[r] = "esperar" => token[r] \in Tokens /\ linha[token[r]] # Nenhum
        BY DEF Conhecidos
  <2>4. ASSUME NEW r \in Pedidos, passo[r] = "esperar"
        PROVE  ActivasDaSessao(linha[token[r]].sessao)' = ActivasDaSessao(linha[token[r]].sessao)
    <3>1. token' = token /\ linha'[token[r]] = linha[token[r]] /\ linha[token[r]].sessao # s
          BY <1>1, <2>1, <2>2, <2>3, <2>4 DEF Login
    <3>2. QED
          BY <2>1, <3>1 DEF ActivasDaSessao, Activo
  <2>5. QED
        BY <1>1, <2>4 DEF Login
<1>2. ASSUME NEW r \in Pedidos, NEW u \in Tokens, Refresh(r, u) \/ Logout(r, u)
      PROVE  SozinhoNaSessao'
  <2>1. /\ serial' = serial
        /\ serial => \A q \in Pedidos : passo[q] \notin EmCurso
        /\ passo' = [passo EXCEPT ![r] = "ler"] \/ passo' = [passo EXCEPT ![r] = "fim"]
        BY <1>2 DEF Refresh, Logout, Comecar, Responder, Ir
  <2>2. /\ \A q \in Pedidos \ {r} : passo'[q] = passo[q]
        /\ passo'[r] # "esperar"
        BY <2>1
  <2>3. QED
        BY <2>1, <2>2 DEF EmCurso
<1>3. ASSUME NEW r \in Pedidos,
             Ler(r) \/ Marcar(r) \/ ConfirmarRotacao(r) \/ Entregar(r) \/ Falhar(r)
               \/ ConfirmarRevogacao(r)
      PROVE  SozinhoNaSessao'
  <2>1. /\ passo[r] \in EmCurso /\ serial' = serial
        /\ \A q \in Pedidos \ {r} : passo'[q] = passo[q]
        /\ passo'[r] # "esperar"
        BY <1>3 DEF Ler, Marcar, ConfirmarRotacao, Entregar, Falhar, ConfirmarRevogacao,
           Responder, Ir, EmCurso
  <2>2. QED
        BY <2>1 DEF EmCurso
<1>4. ASSUME NEW r \in Pedidos, Revogar(r)
      PROVE  SozinhoNaSessao'
  <2>1. linha' = linha /\ token' = token /\ serial' = serial /\ passo[r] \in EmCurso
        BY <1>4 DEF Revogar, EmCurso
  <2>2. ActivasDaSessao(linha[token[r]].sessao)' = porRevogar'[r]
        BY <1>4, <2>1 DEF Revogar, ActivasDaSessao, Activo
  <2>3. \A q \in Pedidos \ {r} : passo'[q] = passo[q]
        BY <1>4 DEF Revogar, Ir
  <2>4. QED
        BY <2>1, <2>2, <2>3 DEF EmCurso
<1>5. ASSUME NEW r \in Pedidos, NEW u \in Tokens, TravarLinha(r, u)
      PROVE  SozinhoNaSessao'
      BY <1>5 DEF TravarLinha, ActivasDaSessao, Activo, EmCurso
<1>6. ASSUME NEW t \in Tokens, Expirar(t)
      PROVE  SozinhoNaSessao'
      BY <1>6 DEF Expirar, ActivasDaSessao, Activo
<1>7. CASE UNCHANGED vars
      BY <1>7 DEF vars, ActivasDaSessao, Activo
<1>8. QED
      BY <1>1, <1>2, <1>3, <1>4, <1>5, <1>6, <1>7 DEF Next

\* With one request at a time, the answer of a revocation finds its session
\* without a good token.
LEMMA TerminaPasso ==
  ASSUME IInv, SozinhoNaSessao, Next, serial, NEW r \in Pedidos, passo[r] = "esperar",
         resposta'[r] \in {204, 401}
  PROVE  ActivasDaSessao(linha[token[r]].sessao)' = {}
<1>1. resposta'[r] # resposta[r]
      BY NenhumAssumption DEF IInv, SemResposta, Estados
<1>2. ConfirmarRevogacao(r)
  <2>1. \A q \in Pedidos, t \in Tokens : ~Refresh(q, t) /\ ~Logout(q, t)
        BY DEF Refresh, Logout, Comecar, EmCurso
  <2>2. ASSUME NEW q \in Pedidos, NEW e, passo[q] # "esperar", Responder(q, e)
        PROVE  FALSE
        BY <1>1, <2>2 DEF IInv, TypeOK, Responder
  <2>3. ASSUME NEW q \in Pedidos, Falhar(q)
        PROVE  FALSE
    <3>1. resposta' = [resposta EXCEPT ![q] = 500]
          BY <2>3 DEF Falhar, Responder
    <3>2. QED
          BY <1>1, <3>1 DEF IInv, TypeOK
  <2>4. ASSUME NEW q \in Pedidos, ConfirmarRevogacao(q)
        PROVE  q = r
        BY <1>1, <2>4 DEF IInv, TypeOK, ConfirmarRevogacao, Responder
  <2>5. ASSUME NEW q \in Pedidos, Marcar(q)
        PROVE  FALSE
    <3>1. passo[q] = "marcar" /\ (Ir(q, "confirmar") \/ Responder(q, 401))
          BY <2>5 DEF Marcar
    <3>2. QED
          BY <1>1, <2>2, <3>1 DEF Ir
  <2>6. ASSUME NEW q \in Pedidos, Entregar(q)
        PROVE  FALSE
        BY <2>2, <2>6 DEF Entregar
  <2>7. \/ resposta' = resposta
        \/ \E q \in Pedidos, t \in Tokens : Refresh(q, t) \/ Logout(q, t)
        \/ \E q \in Pedidos :
             ConfirmarRevogacao(q) \/ Falhar(q) \/ Marcar(q) \/ Entregar(q)
        BY DEF Next, Login, TravarLinha, Ler, Revogar, ConfirmarRotacao, Expirar, Ir
  <2>8. QED
        BY <1>1, <2>1, <2>3, <2>4, <2>5, <2>6, <2>7
<1>3. /\ \A t \in Tokens :
           linha'[t] = IF trava[t] = r THEN [linha[t] EXCEPT !.revogado = TRUE] ELSE linha[t]
      /\ porRevogar[r] = {} /\ token' = token
      BY <1>2 DEF ConfirmarRevogacao
<1>4. token[r] \in Tokens /\ linha[token[r]] # Nenhum
      BY DEF IInv, Conhecidos
<1>5. linha'[token[r]].sessao = linha[token[r]].sessao
      BY <1>4, LinhasFicamPasso DEF LinhasFicam
<1>6. ASSUME NEW t \in Tokens, trava[t] = r
      PROVE  ~Activo(t)'
  <2>1. linha[t] \in Linha /\ linha'[t] = [linha[t] EXCEPT !.revogado = TRUE]
        BY <1>3, <1>6 DEF IInv, TypeOK, Travada, Activo
  <2>2. QED
        BY <2>1, LinhaRevogada DEF Activo
<1>7. ASSUME NEW t \in Tokens, trava[t] # r, Activo(t)', linha'[t].sessao = linha[token[r]].sessao
      PROVE  FALSE
  <2>1. linha'[t] = linha[t]
        BY <1>3, <1>7
  <2>2. t \in ActivasDaSessao(linha[token[r]].sessao)
        BY <1>7, <2>1 DEF ActivasDaSessao, Activo
  <2>3. QED
        BY <1>3, <1>7, <2>2 DEF SozinhoNaSessao
<1>8. QED
      BY <1>3, <1>5, <1>6, <1>7 DEF ActivasDaSessao

(* docs/auditoria-dias-1-2-3.md:202: with one request at a time, a logout  *)
(* or the reuse of a dead token leaves its session without a good token    *)
(* when it is answered.                                                    *)
THEOREM TerminaQuandoSerial == Spec => TerminaSeSerial
<1>1. IInv /\ SozinhoNaSessao /\ [Next]_vars
        => [serial => \A r \in Pedidos :
              passo[r] = "esperar" /\ resposta'[r] \in {204, 401}
                => ActivasDaSessao(linha[token[r]].sessao)' = {}]_vars
      BY TerminaPasso
<1>2. Init => SozinhoNaSessao
      BY DEF Init, SozinhoNaSessao, EmCurso
<1>3. IInv /\ SozinhoNaSessao /\ [Next]_vars => SozinhoNaSessao'
      BY SozinhoPasso
<1>4. QED
      BY <1>1, <1>2, <1>3, InitIInv, PassoIInv, PTL DEF Spec, TerminaSeSerial
-----------------------------------------------------------------------------
\* An updateMany has at most one row to wait for, and holds none while it
\* waits; from its snapshot on, the token it carries is revoked, waited for or
\* held.
Espera ==
  \A r \in Pedidos :
    passo[r] = "esperar" =>
      /\ \A t, u \in porRevogar[r] : t = u
      /\ porRevogar[r] # {} => \A u \in Tokens : trava[u] # r
      /\ ~Activo(token[r]) \/ token[r] \in porRevogar[r] \/ trava[token[r]] = r

\* Request r is left alone by a step of another request.
Alheio(r) ==
  /\ passo'[r] = passo[r] /\ token'[r] = token[r] /\ porRevogar'[r] = porRevogar[r]
  /\ \A u \in Tokens : trava'[u] = r <=> trava[u] = r

\* A row that is there and is no longer active never is again.
LEMMA InactivaFica ==
  ASSUME IInv, [Next]_vars, NEW t \in Tokens, linha[t] # Nenhum, ~Activo(t)
  PROVE  ~Activo(t)'
  BY RevogadaPasso DEF Activo

\* A step either leaves r alone, or is one of the two that r takes in an
\* updateMany, or takes r out of it.
LEMMA PassosDoPedido ==
  ASSUME IInv, [Next]_vars, NEW r \in Pedidos, passo'[r] = "esperar"
  PROVE  Alheio(r) \/ Revogar(r) \/ \E t \in Tokens : TravarLinha(r, t)
<1> USE DEF IInv, TypeOK, Alheio
<1>1. r # Nenhum
      BY NenhumAssumption DEF Tokens
<1>2. ASSUME NEW q \in Pedidos, NEW t \in Tokens, Refresh(q, t) \/ Logout(q, t)
      PROVE  Alheio(r)
      BY <1>2 DEF Refresh, Logout, Comecar, Responder, Ir
<1>3. ASSUME NEW q \in Pedidos, Ler(q) \/ Entregar(q)
      PROVE  Alheio(r)
      BY <1>3 DEF Ler, Entregar, Responder, Ir
<1>4. ASSUME NEW q \in Pedidos, Revogar(q), q # r
      PROVE  Alheio(r)
      BY <1>4 DEF Revogar, Ir
<1>5. ASSUME NEW q \in Pedidos, NEW t \in Tokens, TravarLinha(q, t), q # r
      PROVE  Alheio(r)
  <2>1. trava[t] = Nenhum /\ (trava' = trava \/ trava' = [trava EXCEPT ![t] = q])
        BY <1>5 DEF TravarLinha
  <2>2. \A u \in Tokens : trava'[u] = r <=> trava[u] = r
        BY <1>1, <1>5, <2>1
  <2>3. QED
        BY <1>5, <2>2 DEF TravarLinha
<1>6. ASSUME NEW q \in Pedidos, Marcar(q)
      PROVE  Alheio(r)
  <2>1. q # r
        BY <1>6 DEF Marcar, Responder, Ir
  <2>2. \A u \in Tokens : trava'[u] = r <=> trava[u] = r
        BY <1>1, <1>6, <2>1 DEF Marcar
  <2>3. QED
        BY <1>6, <2>1, <2>2 DEF Marcar, Responder, Ir
<1>7. ASSUME NEW q \in Pedidos, ConfirmarRevogacao(q) \/ ConfirmarRotacao(q) \/ Falhar(q)
      PROVE  Alheio(r)
  <2>1. Libertar(q) /\ UNCHANGED <<token, porRevogar>>
        BY <1>7 DEF ConfirmarRevogacao, ConfirmarRotacao, Falhar
  <2>2. passo' = [passo EXCEPT ![q] = "fim"] \/ passo' = [passo EXCEPT ![q] = "responder"]
        BY <1>7 DEF ConfirmarRevogacao, ConfirmarRotacao, Falhar, Responder, Ir
  <2>3. q # r
        BY <2>2
  <2>4. \A u \in Tokens : trava'[u] = r <=> trava[u] = r
        BY <1>1, <2>1, <2>3 DEF Libertar
  <2>5. QED
        BY <2>1, <2>2, <2>3, <2>4
<1>8. ASSUME NEW s \in Sessoes, Login(s)
      PROVE  Alheio(r)
      BY <1>8 DEF Login
<1>9. ASSUME NEW t \in Tokens, Expirar(t)
      PROVE  Alheio(r)
      BY <1>9 DEF Expirar
<1>10. CASE UNCHANGED vars
      BY <1>10 DEF vars
<1>11. QED
      BY <1>2, <1>3, <1>4, <1>5, <1>6, <1>7, <1>8, <1>9, <1>10 DEF Next

\* What an updateMany waits for and holds, step by step.
LEMMA EsperaPasso ==
  ASSUME IInv, IInv', Espera, [Next]_vars
  PROVE  Espera'
<1> SUFFICES ASSUME NEW r \in Pedidos, passo'[r] = "esperar"
             PROVE  /\ \A t, u \in porRevogar'[r] : t = u
                    /\ porRevogar'[r] # {} => \A u \in Tokens : trava'[u] # r
                    /\ \/ ~Activo(token[r])' \/ token'[r] \in porRevogar'[r]
                       \/ trava'[token'[r]] = r
    BY DEF Espera
<1>1. CASE Alheio(r)
  <2>1. passo[r] = "esperar" /\ token[r] \in Tokens /\ linha[token[r]] # Nenhum
        BY <1>1 DEF Alheio, IInv, Conhecidos
  <2>2. ~Activo(token[r]) => ~Activo(token[r])'
    <3>1. PICK t \in Tokens : t = token[r]
          BY <2>1
    <3>2. ~Activo(t) => ~Activo(t)'
          BY <2>1, <3>1, InactivaFica
    <3>3. QED
          BY <1>1, <3>1, <3>2 DEF Alheio, Activo
  <2>3. QED
        BY <1>1, <2>1, <2>2 DEF Alheio, Espera
<1>2. CASE Revogar(r)
  <2>1. /\ passo[r] = "revogar" /\ porRevogar'[r] = ActivasDaSessao(linha[token[r]].sessao)
        /\ UNCHANGED <<linha, trava, token>>
        BY <1>2 DEF Revogar, IInv, TypeOK
  <2>2. \A t, u \in porRevogar'[r] : t = u
        BY <2>1 DEF ActivasDaSessao, IInv, UmActivoPorSessao
  <2>3. \A u \in Tokens : trava'[u] # r
        BY <2>1 DEF IInv, Travada
  <2>4. token[r] \in Tokens
        BY <2>1 DEF IInv, Conhecidos
  <2>5. Activo(token[r])' => token'[r] \in porRevogar'[r]
        BY <2>1, <2>4 DEF ActivasDaSessao, Activo
  <2>6. QED
        BY <2>2, <2>3, <2>5
<1>3. ASSUME NEW t \in Tokens, TravarLinha(r, t)
      PROVE  /\ porRevogar'[r] = {}
             /\ ~Activo(token[r])' \/ trava'[token'[r]] = r
  <2>1. /\ passo[r] = "esperar" /\ t \in porRevogar[r] /\ porRevogar'[r] = porRevogar[r] \ {t}
        /\ trava' = IF Activo(t) THEN [trava EXCEPT ![t] = r] ELSE trava
        /\ UNCHANGED <<linha, token>>
        BY <1>3 DEF TravarLinha, IInv, TypeOK
  <2>2. porRevogar[r] = {t}
        BY <2>1 DEF Espera
  <2>3. token[r] \in Tokens
        BY <2>1 DEF IInv, Conhecidos
  <2>4. Activo(token[r])' = Activo(token[r])
        BY <2>1 DEF Activo
  <2>5. CASE token[r] = t
    <3>1. Activo(t) => trava'[t] = r
          BY <2>1 DEF IInv, TypeOK
    <3>2. QED
          BY <2>1, <2>2, <2>4, <2>5, <3>1
  <2>6. CASE token[r] # t
    <3>1. ~Activo(token[r]) \/ trava[token[r]] = r
          BY <2>1, <2>2, <2>6 DEF Espera
    <3>2. trava[token[r]] = r => trava'[token[r]] = r
          BY <2>1, <2>3 DEF IInv, TypeOK
    <3>3. QED
          BY <2>1, <2>2, <2>4, <3>1, <3>2
  <2>7. QED
        BY <2>5, <2>6
<1>4. Alheio(r) \/ Revogar(r) \/ \E t \in Tokens : TravarLinha(r, t)
      BY PassosDoPedido
<1>5. QED
      BY <1>1, <1>2, <1>3, <1>4

\* Nobody waits before the first request.
LEMMA EsperaInit == Init => Espera
  BY DEF Init, Espera

\* Request r cannot go on until the transaction that holds row t ends.
EmEspera(r, t) ==
  /\ trava[t] \notin {Nenhum, r}
  /\ \/ passo[r] = "marcar" /\ t = token[r]
     \/ passo[r] = "esperar" /\ t \in porRevogar[r]

(* Refreshes and logouts that wait for rows never form a circle: a request *)
(* that waits holds no row, and the one it waits for has every row it      *)
(* needs and only has to commit.                                           *)
SemEsperaCircular ==
  \A r \in Pedidos, t \in Tokens :
    EmEspera(r, t) =>
      /\ \A u \in Tokens : trava[u] # r /\ ~EmEspera(trava[t], u)
      /\ \/ passo[trava[t]] = "confirmar"
         \/ passo[trava[t]] = "esperar" /\ porRevogar[trava[t]] = {}

(* rotateRefreshToken and revokeRefreshSession cannot deadlock on the rows *)
(* of refresh_tokens, whatever sessions and requests there are.            *)
THEOREM EsperasSemCirculo == Spec => []SemEsperaCircular
<1>1. ASSUME IInv, Espera
      PROVE  SemEsperaCircular
  <2> SUFFICES ASSUME NEW r \in Pedidos, NEW t \in Tokens, EmEspera(r, t)
               PROVE  /\ \A u \in Tokens : trava[u] # r /\ ~EmEspera(trava[t], u)
                      /\ \/ passo[trava[t]] = "confirmar"
                         \/ passo[trava[t]] = "esperar" /\ porRevogar[trava[t]] = {}
      BY DEF SemEsperaCircular
  <2>1. PICK q \in Pedidos : trava[t] = q
        BY <1>1 DEF EmEspera, IInv, TypeOK
  <2>2. passo[q] = "confirmar" \/ (passo[q] = "esperar" /\ porRevogar[q] = {})
    <3>1. passo[q] \in {"esperar", "confirmar"}
          BY <1>1, <2>1 DEF IInv, Travada
    <3>2. passo[q] = "esperar" => porRevogar[q] = {}
          BY <1>1, <2>1 DEF Espera
    <3>3. QED
          BY <3>1, <3>2
  <2>3. \A u \in Tokens : ~EmEspera(q, u)
        BY <2>2 DEF EmEspera
  <2>4. \A u \in Tokens : trava[u] # r
        BY <1>1 DEF EmEspera, IInv, Travada, Espera
  <2>5. QED
        BY <2>1, <2>2, <2>3, <2>4
<1>2. IInv /\ IInv' /\ Espera /\ [Next]_vars => Espera'
      BY EsperaPasso
<1>3. QED
      BY <1>1, <1>2, EsperaInit, Indutivo, PTL DEF Spec

-----------------------------------------------------------------------------
(* A logout that is answered has revoked the token it carried, whatever    *)
(* refreshes and logouts overlapped it; only a newer token of the session  *)
(* can have survived (revokeRefreshSession).                               *)
LogoutRevogaToken == \A r \in Pedidos : resposta[r] = 204 => ~Activo(token[r])

\* The only step that answers 204 is the COMMIT of a revocation.
LEMMA LogoutRespondido ==
  ASSUME IInv, [Next]_vars, NEW r \in Pedidos, resposta'[r] = 204, resposta[r] # 204
  PROVE  ConfirmarRevogacao(r)
<1>0. \/ resposta' = resposta
      \/ \E q \in Pedidos, t \in Tokens : Refresh(q, t) \/ Logout(q, t)
      \/ \E q \in Pedidos : ConfirmarRevogacao(q) \/ Marcar(q) \/ Entregar(q) \/ Falhar(q)
  <2>1. CASE UNCHANGED vars
        BY <2>1 DEF vars
  <2>2. ASSUME NEW q \in Pedidos, NEW t \in Tokens, TravarLinha(q, t)
        PROVE  resposta' = resposta
        BY <2>2 DEF TravarLinha
  <2>3. ASSUME NEW q \in Pedidos, Ler(q) \/ Revogar(q) \/ ConfirmarRotacao(q)
        PROVE  resposta' = resposta
        BY <2>3 DEF Ler, Revogar, ConfirmarRotacao, Ir
  <2>4. ASSUME \/ \E s \in Sessoes : Login(s)
               \/ \E t \in Tokens : Expirar(t)
        PROVE  resposta' = resposta
        BY <2>4 DEF Login, Expirar
  <2>5. QED
        BY <2>1, <2>2, <2>3, <2>4 DEF Next
<1> USE DEF IInv, TypeOK
<1>1. ASSUME NEW q \in Pedidos, NEW e \in {200, 401, 500}, Responder(q, e)
      PROVE  FALSE
      BY <1>1 DEF Responder
<1>2. ASSUME NEW q \in Pedidos, NEW t \in Tokens, Refresh(q, t) \/ Logout(q, t)
      PROVE  FALSE
      BY <1>1, <1>2 DEF Refresh, Logout, Ir
<1>3. ASSUME NEW q \in Pedidos, Marcar(q) \/ Entregar(q) \/ Falhar(q)
      PROVE  FALSE
      BY <1>1, <1>3 DEF Marcar, Entregar, Falhar, Ir
<1>4. ASSUME NEW q \in Pedidos, ConfirmarRevogacao(q)
      PROVE  q = r
      BY <1>4 DEF ConfirmarRevogacao, Responder
<1>5. QED
      BY <1>0, <1>2, <1>3, <1>4

\* A request keeps its token, and an answered one keeps its answer.
LEMMA RespostaFica ==
  ASSUME IInv, [Next]_vars, NEW r \in Pedidos, resposta[r] # Nenhum
  PROVE  /\ resposta'[r] = resposta[r] /\ token'[r] = token[r]
         /\ token[r] \in Tokens /\ linha[token[r]] # Nenhum
<1> USE DEF IInv, TypeOK
<1>1. passo[r] = "fim"
      BY DEF SemResposta
<1>2. token[r] \in Tokens /\ linha[token[r]] # Nenhum
      BY <1>1 DEF Conhecidos
<1>3. ASSUME NEW q \in Pedidos, NEW t \in Tokens, Refresh(q, t) \/ Logout(q, t)
      PROVE  resposta'[r] = resposta[r] /\ token'[r] = token[r]
      BY <1>1, <1>3 DEF Refresh, Logout, Comecar, Responder, Ir
<1>4. ASSUME NEW q \in Pedidos,
             ConfirmarRevogacao(q) \/ Marcar(q) \/ Entregar(q) \/ Falhar(q)
      PROVE  resposta'[r] = resposta[r] /\ token'[r] = token[r]
      BY <1>1, <1>4 DEF ConfirmarRevogacao, Marcar, Entregar, Falhar, Responder, Ir, EmCurso
<1>5. CASE UNCHANGED <<resposta, token>>
      BY <1>2, <1>5
<1>6. QED
      BY <1>2, <1>3, <1>4, <1>5 DEF Next, vars, Login, TravarLinha, Ler, Revogar,
         ConfirmarRotacao, Expirar, Ir

(* However requests overlap, a client that has the answer to its logout    *)
(* can never use that token again.                                         *)
THEOREM LogoutRevogaOSeuToken == Spec => []LogoutRevogaToken
<1>1. ASSUME IInv, Espera, LogoutRevogaToken, [Next]_vars
      PROVE  LogoutRevogaToken'
  <2> SUFFICES ASSUME NEW r \in Pedidos, resposta'[r] = 204
               PROVE  ~Activo(token[r])'
      BY DEF LogoutRevogaToken
  <2>1. CASE resposta[r] = 204
    <3>1. /\ token'[r] = token[r] /\ token[r] \in Tokens /\ linha[token[r]] # Nenhum
          /\ ~Activo(token[r])
          BY <1>1, <2>1, NenhumAssumption, RespostaFica DEF Estados, LogoutRevogaToken
    <3>2. PICK t \in Tokens : t = token[r]
          BY <3>1
    <3>3. ~Activo(t)'
          BY <1>1, <3>1, <3>2, InactivaFica
    <3>4. QED
          BY <3>1, <3>2, <3>3 DEF Activo
  <2>2. CASE resposta[r] # 204
    <3>1. ConfirmarRevogacao(r)
          BY <1>1, <2>2, LogoutRespondido
    <3>2. /\ passo[r] = "esperar" /\ porRevogar[r] = {} /\ token' = token
          /\ \A u \in Tokens :
               linha'[u] = IF trava[u] = r THEN [linha[u] EXCEPT !.revogado = TRUE] ELSE linha[u]
          BY <3>1 DEF ConfirmarRevogacao
    <3>3. PICK t \in Tokens : t = token[r] /\ linha[t] \in Linha
          BY <1>1, <3>2 DEF IInv, TypeOK, Conhecidos
    <3>4. CASE trava[t] = r
      <4>1. linha'[t] = [linha[t] EXCEPT !.revogado = TRUE]
            BY <3>2, <3>4
      <4>2. linha'[t].revogado
            BY <3>3, <4>1, LinhaRevogada
      <4>3. QED
            BY <3>2, <3>3, <4>2 DEF Activo
    <3>5. CASE trava[t] # r
      <4>1. ~Activo(t)
            BY <1>1, <3>2, <3>3, <3>5 DEF Espera
      <4>2. QED
            BY <3>2, <3>3, <3>5, <4>1 DEF Activo
    <3>6. QED
          BY <3>4, <3>5
  <2>3. QED
        BY <2>1, <2>2
<1>2. Init => LogoutRevogaToken
      BY NenhumAssumption DEF Init, LogoutRevogaToken, Estados
<1>3. IInv /\ IInv' /\ Espera /\ [Next]_vars => Espera'
      BY EsperaPasso
<1>4. QED
      BY <1>1, <1>2, <1>3, EsperaInit, Indutivo, PTL DEF Spec

(* A session without an active token has ended for good: no rotation that  *)
(* was under way, no retry and no roll-back gives it one again.            *)
SessaoMortaFica ==
  [][\A s \in Sessoes :
       linha[s] # Nenhum /\ ActivasDaSessao(s) = {} => ActivasDaSessao(s)' = {}]_vars

\* Only a rotation adds an active token to a session that is open, and it needs
\* one.
LEMMA MortaFicaPasso ==
  ASSUME IInv, [Next]_vars, NEW s \in Sessoes, linha[s] # Nenhum, ActivasDaSessao(s) = {}
  PROVE  ActivasDaSessao(s)' = {}
<1> SUFFICES ASSUME NEW t \in Tokens, Activo(t)', linha'[t].sessao = s
             PROVE  FALSE
    BY DEF ActivasDaSessao
<1> USE DEF IInv, TypeOK
<1>1. linha[t] = Nenhum
  <2>1. linha[t] # Nenhum => linha'[t].sessao = linha[t].sessao
        BY LinhasFicamPasso DEF LinhasFicam
  <2>2. linha[t] # Nenhum => ~Activo(t)
        BY <2>1 DEF ActivasDaSessao
  <2>3. QED
        BY <2>2, InactivaFica
<1>2. ASSUME NEW z \in Sessoes, Login(z)
      PROVE  FALSE
  <2>1. t = z /\ linha'[t] = LinhaNova(z)
        BY <1>1, <1>2 DEF Login, Activo, Tokens
  <2>2. linha'[t].sessao = z
        BY <2>1, LinhaDaRotacao
  <2>3. QED
        BY <1>1, <2>1, <2>2
<1>3. ASSUME NEW r \in Pedidos, ConfirmarRotacao(r)
      PROVE  FALSE
  <2>1. PICK a \in Tokens : a = token[r]
        BY <1>3 DEF ConfirmarRotacao, Conhecidos
  <2>2. linha[a] \in Linha /\ Activo(a)
        BY <1>3, <2>1 DEF ConfirmarRotacao, Reservado, Travada, Activo
  <2>3. t = r /\ linha'[t] = LinhaNova(linha[a].sessao)
        BY <1>1, <1>3, <2>1, <2>2 DEF ConfirmarRotacao, Activo, Tokens
  <2>4. linha[a].sessao = s
        BY <2>2, <2>3, LinhaCampos, LinhaDaRotacao
  <2>5. QED
        BY <2>2, <2>4 DEF ActivasDaSessao
<1>4. ASSUME NEW r \in Pedidos, ConfirmarRevogacao(r)
      PROVE  FALSE
  <2>1. linha'[t] = IF trava[t] = r THEN [linha[t] EXCEPT !.revogado = TRUE] ELSE linha[t]
        BY <1>4 DEF ConfirmarRevogacao
  <2>2. trava[t] # r
        BY <1>1 DEF Travada, Activo
  <2>3. QED
        BY <1>1, <2>1, <2>2 DEF Activo
<1>5. CASE linha' = linha
      BY <1>1, <1>5 DEF Activo
<1>6. QED
      BY <1>2, <1>3, <1>4, <1>5 DEF Next, vars, Refresh, Logout, TravarLinha, Ler, Revogar,
         Marcar, Entregar, Falhar, Expirar

(* A session that has no active refresh token never has one again.         *)
THEOREM SessoesMortasFicam == Spec => SessaoMortaFica
<1>1. IInv /\ [Next]_vars
        => [\A s \in Sessoes :
              linha[s] # Nenhum /\ ActivasDaSessao(s) = {} => ActivasDaSessao(s)' = {}]_vars
      BY MortaFicaPasso
<1>2. QED
      BY <1>1, Indutivo, PTL DEF Spec, SessaoMortaFica

(* auth.spec.ts:181, "revoga a sessao no logout", holds in every state     *)
(* that follows when requests come one at a time; with overlapping ones it *)
(* does not.                                                               *)
LogoutTerminaSeSerial == serial => LogoutTerminaSessao

\* An answered logout leaves nothing behind, now and afterwards.
LEMMA LogoutPasso ==
  ASSUME IInv, SozinhoNaSessao, LogoutTerminaSeSerial, [Next]_vars
  PROVE  LogoutTerminaSeSerial'
<1> SUFFICES ASSUME serial', NEW r \in Pedidos, resposta'[r] = 204
             PROVE  ActivasDaSessao(linha[token[r]].sessao)' = {}
    BY DEF LogoutTerminaSeSerial, LogoutTerminaSessao
<1>1. serial
      BY DEF Next, vars, Login, Refresh, Logout, TravarLinha, Ler, Revogar,
         ConfirmarRevogacao, Marcar, ConfirmarRotacao, Entregar, Falhar, Expirar
<1>2. CASE resposta[r] = 204
  <2>1. /\ token'[r] = token[r] /\ token[r] \in Tokens /\ linha[token[r]] # Nenhum
        BY <1>2, NenhumAssumption, RespostaFica DEF Estados
  <2>2. linha[token[r]] \in Linha /\ linha'[token[r]].sessao = linha[token[r]].sessao
        BY <2>1, LinhasFicamPasso DEF LinhasFicam, IInv, TypeOK
  <2>3. PICK s \in Sessoes : s = linha[token[r]].sessao
        BY <2>2, LinhaCampos
  <2>4. linha[s] # Nenhum
        BY <2>1, <2>3 DEF IInv, SessaoIniciada
  <2>5. ActivasDaSessao(s) = {}
        BY <1>1, <1>2, <2>3 DEF LogoutTerminaSeSerial, LogoutTerminaSessao
  <2>6. ActivasDaSessao(s)' = {}
        BY <2>4, <2>5, MortaFicaPasso
  <2>7. QED
        BY <2>1, <2>2, <2>3, <2>6 DEF ActivasDaSessao
<1>3. CASE resposta[r] # 204
  <2>1. ConfirmarRevogacao(r)
        BY <1>3, LogoutRespondido
  <2>2. passo[r] = "esperar" /\ Next
        BY <2>1 DEF ConfirmarRevogacao, Next
  <2>3. QED
        BY <1>1, <2>2, TerminaPasso
<1>4. QED
      BY <1>2, <1>3

(* One at a time, a logout that was answered means a session with no       *)
(* active token, from the answer on and for ever.                          *)
THEOREM LogoutTerminaQuandoSerial == Spec => []LogoutTerminaSeSerial
<1>1. Init => LogoutTerminaSeSerial
      BY NenhumAssumption DEF Init, LogoutTerminaSeSerial, LogoutTerminaSessao, Estados
<1>2. Init => SozinhoNaSessao
      BY DEF Init, SozinhoNaSessao, EmCurso
<1>3. IInv /\ SozinhoNaSessao /\ [Next]_vars => SozinhoNaSessao'
      BY SozinhoPasso
<1>4. IInv /\ SozinhoNaSessao /\ LogoutTerminaSeSerial /\ [Next]_vars => LogoutTerminaSeSerial'
      BY LogoutPasso
<1>5. QED
      BY <1>1, <1>2, <1>3, <1>4, Indutivo, PTL DEF Spec
=============================================================================
