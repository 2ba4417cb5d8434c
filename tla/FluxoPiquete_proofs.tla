-------------------------- MODULE FluxoPiquete_proofs --------------------------
(***************************************************************************)
(* Proofs about the whole flow, for any requests, keys, deliveries and     *)
(* other users of an act.  The argument: to the requests, a row of         *)
(* actos_piquete is what they saved, whatever estado and processo others   *)
(* write, as every copy saved over a row agrees with it on the rest; to    *)
(* the executions, a row is four columns that appear when a request saves  *)
(* it.  So the flow implements RegistoActo and InstauracaoProcesso, and    *)
(* what is proved of each of them holds of the flow.                       *)
(***************************************************************************)
EXTENDS FluxoPiquete, TLAPS

\* A row as the request that created it saved it.
ParaRegisto(linha) ==
  IF linha = Nenhum THEN Nenhum
  ELSE [linha EXCEPT !.estado = "SUBMETIDO", !.processo = Nenhum]

\* The columns of a row that the creation of cases looks at.
ParaInstauracao(linha) ==
  IF linha = Nenhum THEN Nenhum
  ELSE [piquete |-> linha.piquete, gera |-> linha.gera,
        estado |-> linha.estado, processo |-> linha.processo]

R == INSTANCE RegistoActo_proofs WITH
  actos <- [p \in Pedidos |-> ParaRegisto(actos[p])]

I == INSTANCE InstauracaoProcesso_proofs WITH
  Actos <- Pedidos, passo <- execucao, auditoria <- auditados,
  contador <- contadorProc, numero <- numeroProc, recusados <- recusadosProc,
  actos <- [p \in Pedidos |-> ParaInstauracao(actos[p])],
  lido <- [d \in Entregas |-> ParaInstauracao(lido[d])],
  edicao <- [o \in Edicoes |-> [edicao[o] EXCEPT !.lido = ParaInstauracao(@)]]

\* The tables and the copies hold rows.
Tabelas ==
  /\ actos \in [Pedidos -> Linha \cup {Nenhum}]
  /\ lido \in [Entregas -> Linha \cup {Nenhum}]
  /\ edicao \in [Edicoes -> [passo : {"novo", "mudar", "feito"},
                             acto : Pedidos \cup {Nenhum}, lido : Linha \cup {Nenhum}]]
  /\ execucao \in [Entregas -> Instauracao!EmCurso \cup {"novo", "feito", "falhou"}]
  /\ alvo \in [Entregas -> Pedidos \cup {Nenhum}]

\* Two copies of a row differ in estado and processo at most.
Mesma(x, y) ==
  x.user = y.user /\ x.numero = y.numero /\ x.piquete = y.piquete /\ x.gera = y.gera

\* What an execution or another user holds is a copy of a row of the table.
Copias ==
  /\ \A d \in Entregas : execucao[d] \in Instauracao!EmCurso \ {"ler"} =>
       /\ alvo[d] \in Pedidos /\ actos[alvo[d]] # Nenhum
       /\ lido[d] # Nenhum /\ Mesma(lido[d], actos[alvo[d]])
  /\ \A o \in Edicoes : edicao[o].passo = "mudar" =>
       /\ edicao[o].acto \in Pedidos /\ actos[edicao[o].acto] # Nenhum
       /\ edicao[o].lido # Nenhum /\ Mesma(edicao[o].lido, actos[edicao[o].acto])

\* A row shows what its request was sent and the number it was given.
LinhaDoPedido ==
  \A p \in Pedidos : actos[p] # Nenhum =>
    /\ passo[p] \in {"auditar", "guardar", "responder", "fim"}
    /\ actos[p].user = entrada[p].user /\ actos[p].numero = numero[p]
    /\ actos[p].piquete = entrada[p].unidade /\ actos[p].gera = GeraProcesso[entrada[p].tipo]

FInv == Tabelas /\ Copias /\ LinhaDoPedido

\* Each component's inductive invariant, of its view of the tables, and the flow's.
J == FInv /\ R!IInv /\ I!IInv
-----------------------------------------------------------------------------
\* What the proofs about each component assume of the constants.
LEMMA AssuncoesRegisto ==
  /\ R!EntradasAssumption /\ R!SemChaveAssumption /\ R!MaiusculaAssumption
  /\ R!GeraAssumption /\ R!NenhumAssumption
<1>1. Registo!Linha \subseteq Linha
      BY DEF Registo!Linha, Linha, Registo!Utentes, Registo!Sequencias
<1>2. /\ R!EntradasAssumption /\ R!SemChaveAssumption /\ R!MaiusculaAssumption
      /\ R!GeraAssumption
      BY EntradasAssumption, MaiusculaAssumption, GeraAssumption DEF R!EntradasAssumption,
         R!SemChaveAssumption, R!MaiusculaAssumption, R!GeraAssumption,
         Registo!EntradasAssumption, Registo!SemChaveAssumption,
         Registo!MaiusculaAssumption, Registo!GeraAssumption
<1>3. R!NenhumAssumption
      BY <1>1, NenhumAssumption DEF R!NenhumAssumption, R!Linha, Registo!Linha,
         R!LinhasIdem, Registo!LinhasIdem, R!Utentes, Registo!Utentes, R!Sequencias,
         Registo!Sequencias
<1>4. QED
      BY <1>2, <1>3

\* So do the executions'.
LEMMA AssuncoesInstauracao ==
  I!FalhasAssumption /\ I!MaiusculaAssumption /\ I!NenhumAssumption
  BY FalhasAssumption, MaiusculaAssumption, NenhumAssumption
  DEF I!FalhasAssumption, I!MaiusculaAssumption, I!NenhumAssumption,
     Registo!MaiusculaAssumption, Instauracao!FalhasAssumption, I!Linha, Instauracao!Linha

\* What the requests see of a row does not depend on estado and processo.
LEMMA VistaRegisto ==
  ASSUME NEW x \in Linha
  PROVE  /\ x # Nenhum /\ ParaRegisto(x) \in R!Linha /\ ParaRegisto(x) # Nenhum
         /\ ParaRegisto(x).user = x.user /\ ParaRegisto(x).numero = x.numero
         /\ \A y \in Linha : ParaRegisto(x) = ParaRegisto(y) <=> Mesma(x, y)
         /\ x \in R!Linha => ParaRegisto(x) = x
<1>1. x # Nenhum /\ \A y \in Linha : y # Nenhum
      BY NenhumAssumption
<1>2. \A y \in Linha : ParaRegisto(y) =
        [user |-> y.user, numero |-> y.numero, piquete |-> y.piquete, gera |-> y.gera,
         estado |-> "SUBMETIDO", processo |-> Nenhum]
      BY <1>1 DEF ParaRegisto, Linha
<1>3. ParaRegisto(x) \in R!Linha
      BY <1>2 DEF Linha, R!Linha, R!Utentes, R!Sequencias, Registo!Utentes, Registo!Sequencias
<1>4. ParaRegisto(x) # Nenhum
      BY <1>3, AssuncoesRegisto DEF R!NenhumAssumption
<1>5. \A y \in Linha : ParaRegisto(x) = ParaRegisto(y) <=> Mesma(x, y)
      BY <1>2 DEF Mesma
<1>6. x \in R!Linha => ParaRegisto(x) = x
      BY <1>2 DEF R!Linha
<1>7. QED
      BY <1>1, <1>2, <1>3, <1>4, <1>5, <1>6

\* What the executions see of a row.
LEMMA VistaInstauracao ==
  ASSUME NEW x \in Linha
  PROVE  /\ ParaInstauracao(x) \in I!Linha /\ ParaInstauracao(x) # Nenhum
         /\ ParaInstauracao(x).piquete = x.piquete /\ ParaInstauracao(x).gera = x.gera
         /\ ParaInstauracao(x).estado = x.estado /\ ParaInstauracao(x).processo = x.processo
<1>1. x # Nenhum
      BY NenhumAssumption
<1>2. ParaInstauracao(x) \in I!Linha
      BY <1>1 DEF ParaInstauracao, Linha, I!Linha
<1>3. ParaInstauracao(x) # Nenhum
      BY <1>2, AssuncoesInstauracao DEF I!NenhumAssumption
<1>4. QED
      BY <1>1, <1>2, <1>3 DEF ParaInstauracao

\* A saved link, and a decision, seen by both.
LEMMA VistaVinculada ==
  ASSUME NEW x \in Linha, NEW d \in Entregas
  PROVE  LET y == [x EXCEPT !.processo = d, !.estado = "CONVERTIDO"] IN
         /\ y \in Linha /\ Mesma(x, y)
         /\ ParaInstauracao(y) =
              [ParaInstauracao(x) EXCEPT !.processo = d, !.estado = "CONVERTIDO"]
<1> DEFINE y == [x EXCEPT !.processo = d, !.estado = "CONVERTIDO"]
<1>1. y \in Linha /\ Mesma(x, y) /\ y.processo = d /\ y.estado = "CONVERTIDO"
      BY DEF Linha, Mesma
<1>2. x # Nenhum /\ y # Nenhum
      BY <1>1, NenhumAssumption
<1>3. ParaInstauracao(y) = [ParaInstauracao(x) EXCEPT !.processo = d, !.estado = "CONVERTIDO"]
  <2> DEFINE z == ParaInstauracao(x)
             w == [z EXCEPT !.processo = d, !.estado = "CONVERTIDO"]
  <2>1. /\ z \in I!Linha /\ z.piquete = x.piquete /\ z.gera = x.gera
        /\ ParaInstauracao(y) \in I!Linha
        /\ ParaInstauracao(y).piquete = y.piquete /\ ParaInstauracao(y).gera = y.gera
        /\ ParaInstauracao(y).estado = y.estado /\ ParaInstauracao(y).processo = y.processo
        BY <1>1, VistaInstauracao
  <2> HIDE DEF y, z
  <2>2. /\ w \in I!Linha /\ w.processo = d /\ w.estado = "CONVERTIDO"
        /\ w.piquete = z.piquete /\ w.gera = z.gera
        BY <2>1 DEF I!Linha
  <2> HIDE DEF w
  <2>3. w = ParaInstauracao(y)
        BY <1>1, <2>1, <2>2 DEF I!Linha, Mesma
  <2>4. QED
        BY <2>3 DEF w, z
<1>4. QED
      BY <1>1, <1>3

\* A decision changes the state, which requests never look at.
LEMMA VistaDecidida ==
  ASSUME NEW x \in Linha, NEW e \in {"VALIDADO", "REJEITADO"}
  PROVE  LET y == [x EXCEPT !.estado = e] IN
         /\ y \in Linha /\ Mesma(x, y)
         /\ ParaInstauracao(y) = [ParaInstauracao(x) EXCEPT !.estado = e]
<1> DEFINE y == [x EXCEPT !.estado = e]
<1>1. y \in Linha /\ Mesma(x, y) /\ y.processo = x.processo /\ y.estado = e
      BY DEF Linha, Mesma
<1>2. x # Nenhum /\ y # Nenhum
      BY <1>1, NenhumAssumption
<1>3. ParaInstauracao(y) = [ParaInstauracao(x) EXCEPT !.estado = e]
  <2> HIDE DEF y
  <2> QED
      BY <1>1, <1>2 DEF ParaInstauracao, Mesma
<1>4. QED
      BY <1>1, <1>3
-----------------------------------------------------------------------------
\* A request's save: the row it sees is the row it writes, and to the executions
\* a new act appears.
LEMMA SalvarActoImplementa ==
  ASSUME J, NEW p \in Pedidos, Registo!SalvarActo(p), UNCHANGED varsProcessos
  PROVE  /\ R!SalvarActo(p) /\ (I!Registar(p) \/ UNCHANGED I!vars)
         /\ FInv'
<1> DEFINE x == [user |-> entrada[p].user, numero |-> numero[p],
                 piquete |-> entrada[p].unidade, gera |-> GeraProcesso[entrada[p].tipo],
                 estado |-> "SUBMETIDO", processo |-> Nenhum]
<1>1. /\ entrada[p] \in Entradas /\ entrada[p].tipo \in Codigos
      /\ numero[p] \in Registo!Sequencias \X Nat /\ actos[p] = Nenhum
  <2>1. passo[p] = "salvar"
        BY DEF Registo!SalvarActo
  <2>2. /\ entrada[p] \in Entradas /\ entrada[p].tipo \in Codigos
        /\ numero[p] \in R!Sequencias \X Nat
        BY <2>1 DEF J, R!IInv, R!Percurso
  <2>3. QED
        BY <2>1, <2>2 DEF J, FInv, LinhaDoPedido, R!Sequencias, Registo!Sequencias
<1>2. x \in R!Linha /\ x \in Linha
      BY <1>1, EntradasAssumption, GeraAssumption DEF R!Linha, Linha, R!Sequencias,
         Registo!Sequencias, R!Utentes, Registo!Utentes, Registo!EntradasAssumption,
         Registo!GeraAssumption
<1>3. /\ ParaRegisto(x) = x /\ x # Nenhum
      /\ ParaInstauracao(x) = [piquete |-> entrada[p].unidade,
           gera |-> GeraProcesso[entrada[p].tipo], estado |-> "SUBMETIDO", processo |-> Nenhum]
  <2>1. ParaRegisto(x) = x /\ x # Nenhum
        BY <1>2, VistaRegisto
  <2>2. QED
        BY <2>1 DEF ParaInstauracao
<1>4. CASE entrada[p].factosBastam
  <2>1. /\ actos' = [actos EXCEPT ![p] = x] /\ passo' = [passo EXCEPT ![p] = "auditar"]
        /\ UNCHANGED <<resposta, entrada, activos, idem, auditoria, contador, numero, recusados>>
        BY <1>4 DEF Registo!SalvarActo, Registo!LinhaActo, Registo!Prosseguir, Registo!Ir,
           Registo!varsNumero
  <2> HIDE DEF x
  <2>2. /\ [q \in Pedidos |-> ParaRegisto(actos[q])]' =
             [[q \in Pedidos |-> ParaRegisto(actos[q])] EXCEPT ![p] = x]
        /\ [q \in Pedidos |-> ParaInstauracao(actos[q])]' =
             [[q \in Pedidos |-> ParaInstauracao(actos[q])] EXCEPT ![p] = ParaInstauracao(x)]
        BY <2>1, <1>3 DEF J, FInv, Tabelas
  <2>3. R!SalvarActo(p)
        BY <1>4, <2>1, <2>2 DEF x, R!SalvarActo, R!LinhaActo, Registo!SalvarActo,
           R!Prosseguir, R!Ir, R!varsNumero
  <2>4. I!Registar(p)
    <3>1. ParaInstauracao(x) \in I!Registados
          BY <1>1, <1>3, EntradasAssumption, GeraAssumption DEF I!Registados,
             Registo!EntradasAssumption, Registo!GeraAssumption
    <3>2. [q \in Pedidos |-> ParaInstauracao(actos[q])][p] = Nenhum
          BY <1>1 DEF ParaInstauracao
    <3>3. QED
          BY <2>2, <3>1, <3>2 DEF I!Registar, I!varsInstauracao, I!varsNumero, varsProcessos
  <2>5. FInv'
    <3>1. Tabelas'
          BY <1>2, <2>1 DEF J, FInv, Tabelas, varsProcessos
    <3>2. Copias'
          BY <1>1, <2>1 DEF J, FInv, Tabelas, Copias, Mesma, varsProcessos
    <3>3. LinhaDoPedido'
          BY <2>1 DEF x, J, FInv, Tabelas, LinhaDoPedido, R!IInv, R!TypeOK
    <3>4. QED
          BY <3>1, <3>2, <3>3 DEF FInv
  <2>6. QED
        BY <2>3, <2>4, <2>5
<1>5. entrada[p].factosBastam
      BY DEF J, R!IInv, R!Percurso, R!EmCurso, Registo!SalvarActo
<1>6. QED
      BY <1>4, <1>5

\* The other steps of a request, of a key or of an administrator leave the acts alone.
LEMMA PedidoImplementa ==
  ASSUME J, UNCHANGED varsProcessos, NEW p \in Pedidos,
         \/ \E e \in Entradas : Registo!Receber(p, e)
         \/ Registo!Verificar(p) \/ Registo!LerTipo(p) \/ Registo!GerarNumero(p)
         \/ Registo!Auditar(p) \/ Registo!Guardar(p) \/ Registo!DevolverActo(p)
         \/ Registo!Falhar(p)
  PROVE  R!Next /\ UNCHANGED I!vars /\ FInv'
<1>1. UNCHANGED actos
      BY DEF Registo!Receber, Registo!Verificar, Registo!LerTipo, Registo!GerarNumero,
         Registo!Auditar, Registo!Guardar, Registo!DevolverActo, Registo!Falhar
<1>2. UNCHANGED I!vars
      BY <1>1 DEF I!vars, I!varsInstauracao, I!varsNumero, varsProcessos
<1>3. UNCHANGED [q \in Pedidos |-> ParaRegisto(actos[q])]
      BY <1>1
<1>4. ASSUME NEW e \in Entradas, Registo!Receber(p, e)
      PROVE  R!Receber(p, e)
      BY <1>3, <1>4 DEF R!Receber, Registo!Receber, R!Prosseguir, Registo!Prosseguir, R!Ir,
         Registo!Ir, R!Responder, Registo!Responder, R!varsNumero, Registo!varsNumero
<1>5. Registo!Verificar(p) => R!Verificar(p)
      BY <1>3 DEF R!Verificar, Registo!Verificar, R!Prosseguir, Registo!Prosseguir, R!Ir,
         Registo!Ir, R!Responder, Registo!Responder, R!varsNumero, Registo!varsNumero
<1>6. Registo!LerTipo(p) => R!LerTipo(p)
      BY <1>3 DEF R!LerTipo, Registo!LerTipo, R!Prosseguir, Registo!Prosseguir, R!Ir,
         Registo!Ir, R!Responder, Registo!Responder, R!varsNumero, Registo!varsNumero
<1>7. Registo!GerarNumero(p) => R!GerarNumero(p)
      BY <1>3 DEF R!GerarNumero, Registo!GerarNumero, R!Prosseguir, Registo!Prosseguir, R!Ir,
         Registo!Ir, R!Responder, Registo!Responder, R!Numerador!Atribuir,
         Registo!Numerador!Atribuir, R!Numerador!Recusar, Registo!Numerador!Recusar,
         R!Numerador!Aberto, Registo!Numerador!Aberto, R!Serie, Registo!Serie
<1>8. Registo!Auditar(p) => R!Auditar(p)
      BY <1>3 DEF R!Auditar, Registo!Auditar, R!Prosseguir, Registo!Prosseguir, R!Ir,
         Registo!Ir, R!varsNumero, Registo!varsNumero
<1>9. Registo!Guardar(p) => R!Guardar(p)
      BY <1>3 DEF R!Guardar, Registo!Guardar, R!Prosseguir, Registo!Prosseguir, R!Ir,
         Registo!Ir, R!Responder, Registo!Responder, R!varsNumero, Registo!varsNumero,
         R!LinhaIdem, Registo!LinhaIdem
<1>10. Registo!DevolverActo(p) => R!DevolverActo(p)
      BY <1>3 DEF R!DevolverActo, Registo!DevolverActo, R!Ir,
         Registo!Ir, R!Responder, Registo!Responder, R!varsNumero, Registo!varsNumero
<1>11. Registo!Falhar(p) => R!Falhar(p)
      BY <1>3 DEF R!Falhar, Registo!Falhar, R!Ir, R!EmCurso, Registo!EmCurso,
         Registo!Ir, R!Responder, Registo!Responder, R!varsNumero, Registo!varsNumero
<1>12. R!Next
      BY <1>4, <1>5, <1>6, <1>7, <1>8, <1>9, <1>10, <1>11 DEF R!Next
<1>13. LinhaDoPedido'
  <2> SUFFICES ASSUME NEW q \in Pedidos, actos[q] # Nenhum
               PROVE  /\ passo'[q] \in {"auditar", "guardar", "responder", "fim"}
                      /\ entrada'[q] = entrada[q] /\ numero'[q] = numero[q]
      BY <1>1 DEF J, FInv, LinhaDoPedido
  <2>1. passo[q] \in {"auditar", "guardar", "responder", "fim"}
        BY DEF J, FInv, LinhaDoPedido
  <2>2. passo'[q] \in {"auditar", "guardar", "responder", "fim"}
        BY <2>1 DEF J, R!IInv, R!TypeOK, Registo!Receber, Registo!Verificar, Registo!LerTipo,
           Registo!GerarNumero, Registo!Auditar, Registo!Guardar, Registo!DevolverActo,
           Registo!Falhar, Registo!Prosseguir, Registo!Responder, Registo!Ir
  <2>3. entrada'[q] = entrada[q]
        BY <2>1 DEF J, R!IInv, R!TypeOK, Registo!Receber, Registo!Verificar, Registo!LerTipo,
           Registo!GerarNumero, Registo!Auditar, Registo!Guardar, Registo!DevolverActo,
           Registo!Falhar
  <2>4. numero'[q] = numero[q]
        BY <2>1 DEF J, R!IInv, R!Numeros, Registo!Receber, Registo!Verificar, Registo!LerTipo,
           Registo!GerarNumero, Registo!Auditar, Registo!Guardar, Registo!DevolverActo,
           Registo!Falhar, Registo!varsNumero, Registo!Numerador!Atribuir,
           Registo!Numerador!Recusar
  <2>5. QED
        BY <2>2, <2>3, <2>4
<1>14. FInv'
      BY <1>1, <1>13 DEF J, FInv, Tabelas, Copias, Mesma, varsProcessos
<1>15. QED
      BY <1>2, <1>12, <1>14

\* Every step of a request, together.
LEMMA RegistarImplementa ==
  ASSUME J, Registar
  PROVE  R!Next /\ [I!Next]_(I!vars) /\ FInv'
<1>1. ASSUME NEW p \in Pedidos, Registo!SalvarActo(p)
      PROVE  R!Next /\ [I!Next]_(I!vars) /\ FInv'
  <2>1. /\ R!SalvarActo(p) /\ (I!Registar(p) \/ UNCHANGED I!vars)
        /\ FInv'
        BY <1>1, SalvarActoImplementa DEF Registar
  <2>2. QED
        BY <2>1 DEF R!Next, I!Next
<1>2. ASSUME NEW p \in Pedidos,
             \/ \E e \in Entradas : Registo!Receber(p, e)
             \/ Registo!Verificar(p) \/ Registo!LerTipo(p) \/ Registo!GerarNumero(p)
             \/ Registo!Auditar(p) \/ Registo!Guardar(p) \/ Registo!DevolverActo(p)
             \/ Registo!Falhar(p)
      PROVE  R!Next /\ [I!Next]_(I!vars) /\ FInv'
      BY <1>2, PedidoImplementa DEF Registar
<1>3. ASSUME \/ \E c \in Chaves : Registo!Expirar(c)
             \/ Registo!LimparExpirados
             \/ \E t \in Codigos : Registo!AlternarTipo(t)
      PROVE  R!Next /\ [I!Next]_(I!vars) /\ FInv'
  <2>1. UNCHANGED <<passo, entrada, actos, auditoria, resposta, contador, numero, recusados>>
        BY <1>3 DEF Registo!Expirar, Registo!LimparExpirados, Registo!AlternarTipo,
           Registo!varsNumero
  <2>2. UNCHANGED [q \in Pedidos |-> ParaRegisto(actos[q])]
        BY <2>1
  <2>3. R!Next
    <3>1. \A c \in Chaves : Registo!Expirar(c) => R!Expirar(c)
          BY <2>1, <2>2 DEF Registo!Expirar, R!Expirar, R!varsNumero
    <3>2. Registo!LimparExpirados => R!LimparExpirados
          BY <2>1, <2>2 DEF Registo!LimparExpirados, R!LimparExpirados, R!varsNumero
    <3>3. \A t \in Codigos : Registo!AlternarTipo(t) => R!AlternarTipo(t)
          BY <2>1, <2>2 DEF Registo!AlternarTipo, R!AlternarTipo, R!varsNumero
    <3>4. QED
          BY <1>3, <3>1, <3>2, <3>3 DEF R!Next
  <2>4. UNCHANGED I!vars
        BY <2>1 DEF I!vars, I!varsInstauracao, I!varsNumero, varsProcessos, Registar
  <2>5. FInv'
        BY <2>1 DEF J, FInv, Tabelas, Copias, Mesma, LinhaDoPedido, Registar, varsProcessos
  <2>6. QED
        BY <2>3, <2>4, <2>5
<1>4. QED
      BY <1>1, <1>2, <1>3 DEF Registar, Registo!Next
-----------------------------------------------------------------------------
\* A save over a row by whoever holds a copy of it changes nothing a request sees.
LEMMA EscritaFiel ==
  ASSUME J, UNCHANGED varsPedidos, NEW a \in Pedidos, actos[a] # Nenhum,
         NEW y \in Linha, Mesma(y, actos[a]), actos' = [actos EXCEPT ![a] = y]
  PROVE  /\ UNCHANGED R!vars /\ LinhaDoPedido'
         /\ actos' \in [Pedidos -> Linha \cup {Nenhum}]
         /\ \A q \in Pedidos : actos[q] # Nenhum =>
              actos'[q] # Nenhum /\ Mesma(actos'[q], actos[q])
         /\ [q \in Pedidos |-> ParaInstauracao(actos[q])]' =
              [[q \in Pedidos |-> ParaInstauracao(actos[q])] EXCEPT ![a] = ParaInstauracao(y)]
<1>1. actos \in [Pedidos -> Linha \cup {Nenhum}] /\ actos[a] \in Linha /\ y # Nenhum
      BY NenhumAssumption DEF J, FInv, Tabelas
<1>2. ParaRegisto(y) = ParaRegisto(actos[a])
      BY <1>1, VistaRegisto
<1>3. UNCHANGED [q \in Pedidos |-> ParaRegisto(actos[q])]
      BY <1>1, <1>2
<1>4. UNCHANGED R!vars
      BY <1>3 DEF R!vars, R!varsNumero, varsPedidos
<1>5. LinhaDoPedido'
      BY <1>1 DEF J, FInv, LinhaDoPedido, Mesma, varsPedidos
<1>6. /\ actos' \in [Pedidos -> Linha \cup {Nenhum}]
      /\ \A q \in Pedidos : actos[q] # Nenhum =>
           actos'[q] # Nenhum /\ Mesma(actos'[q], actos[q])
      BY <1>1 DEF Mesma
<1>7. [q \in Pedidos |-> ParaInstauracao(actos[q])]' =
        [[q \in Pedidos |-> ParaInstauracao(actos[q])] EXCEPT ![a] = ParaInstauracao(y)]
      BY <1>1
<1>8. QED
      BY <1>4, <1>5, <1>6, <1>7

\* Another user of an act, as the executions see him.
LEMMA VistaEdicao ==
  ASSUME Tabelas, NEW o \in Edicoes
  PROVE  LET e == [edicao[o] EXCEPT !.lido = ParaInstauracao(@)] IN
         /\ e.passo = edicao[o].passo /\ e.acto = edicao[o].acto
         /\ e.lido = ParaInstauracao(edicao[o].lido)
         /\ e = [passo |-> edicao[o].passo, acto |-> edicao[o].acto,
                 lido |-> ParaInstauracao(edicao[o].lido)]
  BY DEF Tabelas

\* Alone for the flow is alone for the executions.
LEMMA PodeComecarImplementa ==
  ASSUME Tabelas, Instauracao!PodeComecar
  PROVE  I!PodeComecar
  BY VistaEdicao DEF Instauracao!PodeComecar, I!PodeComecar, Instauracao!Livre, I!Livre,
     Instauracao!EmCurso, I!EmCurso

\* The steps of an execution that leave the acts and its copy alone.
LEMMA ExecucaoImplementa ==
  ASSUME J, UNCHANGED varsPedidos, NEW d \in Entregas,
         \/ \E a \in Pedidos : Instauracao!Entregar(d, a) \/ Instauracao!Executar(d, a)
         \/ Instauracao!DevolverExistente(d) \/ Instauracao!GerarNumero(d)
         \/ Instauracao!SalvarProcesso(d) \/ Instauracao!Auditar(d) \/ Instauracao!Falhar(d)
  PROVE  I!Tratar /\ UNCHANGED R!vars /\ FInv'
<1>0. Tabelas /\ Copias
      BY DEF J, FInv
<1>1. UNCHANGED <<actos, lido, edicao, serial>>
      BY DEF Instauracao!Entregar, Instauracao!Executar, Instauracao!DevolverExistente,
         Instauracao!GerarNumero, Instauracao!SalvarProcesso, Instauracao!Auditar,
         Instauracao!Falhar
<1>2. /\ UNCHANGED [q \in Pedidos |-> ParaInstauracao(actos[q])]
      /\ UNCHANGED [q \in Entregas |-> ParaInstauracao(lido[q])]
      /\ UNCHANGED [o \in Edicoes |-> [edicao[o] EXCEPT !.lido = ParaInstauracao(@)]]
      BY <1>1
<1>3. \A a \in Pedidos : actos[a] # Nenhum =>
        /\ ParaInstauracao(actos[a]) # Nenhum
        /\ ParaInstauracao(actos[a]).gera = actos[a].gera
      BY <1>0, VistaInstauracao DEF Tabelas
<1>4. execucao[d] \in Instauracao!EmCurso \ {"ler"} =>
        /\ ParaInstauracao(lido[d]).processo = lido[d].processo
        /\ ParaInstauracao(lido[d]).piquete = lido[d].piquete
      BY <1>0, VistaInstauracao DEF Tabelas, Copias
<1>5. ASSUME NEW a \in Pedidos, Instauracao!Entregar(d, a)
      PROVE  I!Entregar(d, a)
      BY <1>0, <1>1, <1>2, <1>3, <1>5, PodeComecarImplementa DEF I!Entregar,
         Instauracao!Entregar, I!Ir, Instauracao!Ir, I!varsNumero, Instauracao!varsNumero
<1>6. ASSUME NEW a \in Pedidos, Instauracao!Executar(d, a)
      PROVE  I!Executar(d, a)
      BY <1>0, <1>1, <1>2, <1>6, PodeComecarImplementa DEF I!Executar,
         Instauracao!Executar, I!Ir, Instauracao!Ir, I!varsNumero, Instauracao!varsNumero
<1>7. ASSUME Instauracao!DevolverExistente(d)
      PROVE  I!DevolverExistente(d)
      BY <1>1, <1>2, <1>4, <1>7 DEF I!DevolverExistente, Instauracao!DevolverExistente, I!Ir,
         Instauracao!Ir, I!varsNumero, Instauracao!varsNumero, Instauracao!EmCurso
<1>8. ASSUME Instauracao!GerarNumero(d)
      PROVE  I!GerarNumero(d)
      BY <1>1, <1>2, <1>4, <1>8 DEF I!GerarNumero, Instauracao!GerarNumero, I!Ir,
         Instauracao!Ir, I!Numerador!Atribuir, Instauracao!Numerador!Atribuir,
         I!Numerador!Recusar, Instauracao!Numerador!Recusar, I!Numerador!Aberto,
         Instauracao!Numerador!Aberto, Instauracao!EmCurso, I!Serie, Instauracao!Serie
<1>9. ASSUME Instauracao!SalvarProcesso(d)
      PROVE  I!SalvarProcesso(d)
      BY <1>1, <1>2, <1>9 DEF I!SalvarProcesso, Instauracao!SalvarProcesso, I!Ir,
         Instauracao!Ir, I!varsNumero, Instauracao!varsNumero
<1>10. ASSUME Instauracao!Auditar(d)
       PROVE  I!Auditar(d)
      BY <1>1, <1>2, <1>10 DEF I!Auditar, Instauracao!Auditar, I!Ir, Instauracao!Ir,
         I!varsNumero, Instauracao!varsNumero
<1>11. ASSUME Instauracao!Falhar(d)
       PROVE  I!Falhar(d)
      BY <1>1, <1>2, <1>11 DEF I!Falhar, Instauracao!Falhar, I!Ir, Instauracao!Ir,
         I!varsNumero, Instauracao!varsNumero, I!EmCurso, Instauracao!EmCurso
<1>12. I!Tratar
      BY <1>5, <1>6, <1>7, <1>8, <1>9, <1>10, <1>11 DEF I!Tratar
<1>13. UNCHANGED R!vars
      BY <1>1 DEF R!vars, R!varsNumero, varsPedidos
<1>14. /\ execucao' \in [Entregas -> Instauracao!EmCurso \cup {"novo", "feito", "falhou"}]
       /\ alvo' \in [Entregas -> Pedidos \cup {Nenhum}]
       /\ \A q \in Entregas : execucao'[q] \in Instauracao!EmCurso \ {"ler"} =>
            execucao[q] \in Instauracao!EmCurso \ {"ler"} /\ alvo'[q] = alvo[q]
      BY <1>0 DEF Tabelas, Instauracao!Entregar, Instauracao!Executar,
         Instauracao!DevolverExistente, Instauracao!GerarNumero, Instauracao!SalvarProcesso,
         Instauracao!Auditar, Instauracao!Falhar, Instauracao!Ir, Instauracao!EmCurso
<1>15. FInv'
      BY <1>0, <1>1, <1>14 DEF J, FInv, Tabelas, Copias, Mesma, LinhaDoPedido, varsPedidos
<1>16. QED
      BY <1>12, <1>13, <1>15

\* An execution reads its act, as it is or not yet there.
LEMMA LerActoImplementa ==
  ASSUME J, UNCHANGED varsPedidos, NEW d \in Entregas, Instauracao!LerActo(d)
  PROVE  I!LerActo(d) /\ UNCHANGED R!vars /\ FInv'
<1>1. Tabelas /\ Copias /\ alvo[d] \in Pedidos
      BY DEF J, FInv, I!IInv, I!Conhecido, Instauracao!LerActo
<1>2. /\ actos[alvo[d]] = Nenhum => ParaInstauracao(actos[alvo[d]]) = Nenhum
      /\ actos[alvo[d]] # Nenhum =>
           /\ ParaInstauracao(actos[alvo[d]]) # Nenhum
           /\ ParaInstauracao(actos[alvo[d]]).gera = actos[alvo[d]].gera
           /\ ParaInstauracao(actos[alvo[d]]).processo = actos[alvo[d]].processo
      BY <1>1, VistaInstauracao DEF Tabelas, ParaInstauracao
<1>3. /\ UNCHANGED <<actos, edicao, serial, alvo>>
      /\ lido' = [lido EXCEPT ![d] = actos[alvo[d]]]
      BY DEF Instauracao!LerActo
<1>4. /\ UNCHANGED [q \in Pedidos |-> ParaInstauracao(actos[q])]
      /\ [q \in Entregas |-> ParaInstauracao(lido[q])]' =
           [[q \in Entregas |-> ParaInstauracao(lido[q])] EXCEPT
              ![d] = ParaInstauracao(actos[alvo[d]])]
      /\ UNCHANGED [o \in Edicoes |-> [edicao[o] EXCEPT !.lido = ParaInstauracao(@)]]
      BY <1>1, <1>3 DEF Tabelas
<1>5. I!LerActo(d)
      BY <1>1, <1>2, <1>3, <1>4 DEF I!LerActo, Instauracao!LerActo, I!Ir, Instauracao!Ir,
         I!varsNumero, Instauracao!varsNumero
<1>6. UNCHANGED R!vars
      BY <1>3 DEF R!vars, R!varsNumero, varsPedidos
<1>7. Tabelas'
      BY <1>1, <1>3 DEF Tabelas, Instauracao!LerActo, Instauracao!Ir, Instauracao!EmCurso
<1>8. Copias'
      BY <1>1, <1>3 DEF Tabelas, Copias, Mesma, Instauracao!LerActo, Instauracao!Ir,
         Instauracao!EmCurso
<1>9. FInv'
      BY <1>3, <1>7, <1>8 DEF J, FInv, LinhaDoPedido, varsPedidos
<1>10. QED
      BY <1>5, <1>6, <1>9

\* The row saved with the link is the copy, which agrees with the row it replaces.
LEMMA VincularActoImplementa ==
  ASSUME J, UNCHANGED varsPedidos, NEW d \in Entregas, Instauracao!VincularActo(d)
  PROVE  I!VincularActo(d) /\ UNCHANGED R!vars /\ FInv'
<1> DEFINE y == [lido[d] EXCEPT !.processo = d, !.estado = "CONVERTIDO"]
<1>1. /\ Tabelas /\ Copias /\ alvo[d] \in Pedidos /\ actos[alvo[d]] # Nenhum
      /\ lido[d] \in Linha /\ Mesma(lido[d], actos[alvo[d]])
      BY DEF J, FInv, Tabelas, Copias, Instauracao!VincularActo, Instauracao!EmCurso
<1>2. /\ y \in Linha /\ Mesma(y, actos[alvo[d]])
      /\ ParaInstauracao(y) =
           [ParaInstauracao(lido[d]) EXCEPT !.processo = d, !.estado = "CONVERTIDO"]
      BY <1>1, VistaVinculada DEF Mesma
<1>3. /\ actos' = [actos EXCEPT ![alvo[d]] = y]
      /\ UNCHANGED <<processos, auditados, alvo, lido, resultado, edicao, serial,
                     contadorProc, numeroProc, recusadosProc>>
      BY DEF Instauracao!VincularActo, Instauracao!varsNumero
<1> HIDE DEF y
<1>4. /\ UNCHANGED R!vars /\ LinhaDoPedido'
      /\ actos' \in [Pedidos -> Linha \cup {Nenhum}]
      /\ \A q \in Pedidos : actos[q] # Nenhum =>
           actos'[q] # Nenhum /\ Mesma(actos'[q], actos[q])
      /\ [q \in Pedidos |-> ParaInstauracao(actos[q])]' =
           [[q \in Pedidos |-> ParaInstauracao(actos[q])] EXCEPT ![alvo[d]] = ParaInstauracao(y)]
      BY <1>1, <1>2, <1>3, EscritaFiel
<1>5. /\ UNCHANGED [q \in Entregas |-> ParaInstauracao(lido[q])]
      /\ UNCHANGED [o \in Edicoes |-> [edicao[o] EXCEPT !.lido = ParaInstauracao(@)]]
      BY <1>3
<1>6. I!VincularActo(d)
      BY <1>2, <1>3, <1>4, <1>5 DEF I!VincularActo, Instauracao!VincularActo, I!Ir,
         Instauracao!Ir, I!varsNumero
<1>7. FInv'
  <2>1. Tabelas'
        BY <1>1, <1>3, <1>4 DEF Tabelas, Instauracao!VincularActo, Instauracao!Ir,
           Instauracao!EmCurso
  <2>2. Copias'
        BY <1>1, <1>3, <1>4 DEF Tabelas, Copias, Mesma, Instauracao!VincularActo,
           Instauracao!Ir, Instauracao!EmCurso
  <2>3. QED
        BY <1>4, <2>1, <2>2 DEF FInv
<1>8. QED
      BY <1>4, <1>6, <1>7

\* Another user of an act takes a copy of a row.
LEMMA CarregarImplementa ==
  ASSUME J, UNCHANGED varsPedidos, NEW o \in Edicoes, NEW a \in Pedidos,
         Instauracao!Carregar(o, a)
  PROVE  I!Carregar(o, a) /\ UNCHANGED R!vars /\ FInv'
<1>1. Tabelas /\ Copias /\ actos[a] \in Linha /\ ParaInstauracao(actos[a]) # Nenhum
  <2>1. Tabelas /\ Copias /\ actos[a] \in Linha
        BY DEF J, FInv, Tabelas, Instauracao!Carregar
  <2>2. QED
        BY <2>1, VistaInstauracao
<1>2. /\ edicao' = [edicao EXCEPT ![o] = [passo |-> "mudar", acto |-> a, lido |-> actos[a]]]
      /\ UNCHANGED <<actos, processos, auditados, execucao, alvo, lido, resultado, serial,
                     contadorProc, numeroProc, recusadosProc>>
      BY DEF Instauracao!Carregar, Instauracao!varsNumero
<1>3. /\ UNCHANGED [q \in Pedidos |-> ParaInstauracao(actos[q])]
      /\ UNCHANGED [q \in Entregas |-> ParaInstauracao(lido[q])]
      /\ [q \in Edicoes |-> [edicao[q] EXCEPT !.lido = ParaInstauracao(@)]]' =
           [[q \in Edicoes |-> [edicao[q] EXCEPT !.lido = ParaInstauracao(@)]] EXCEPT
              ![o] = [passo |-> "mudar", acto |-> a, lido |-> ParaInstauracao(actos[a])]]
  <2>1. \A q \in Edicoes : [edicao'[q] EXCEPT !.lido = ParaInstauracao(@)] =
          IF q = o THEN [passo |-> "mudar", acto |-> a, lido |-> ParaInstauracao(actos[a])]
          ELSE [edicao[q] EXCEPT !.lido = ParaInstauracao(@)]
        BY <1>1, <1>2 DEF Tabelas
  <2>2. QED
        BY <1>2, <2>1
<1>4. I!Carregar(o, a)
  <2>1. [q \in Edicoes |-> [edicao[q] EXCEPT !.lido = ParaInstauracao(@)]][o].passo = "novo"
        BY <1>1, VistaEdicao DEF Instauracao!Carregar
  <2>2. I!PodeComecar
        BY <1>1, PodeComecarImplementa DEF Instauracao!Carregar
  <2>3. QED
        BY <1>1, <1>2, <1>3, <2>1, <2>2 DEF I!Carregar, I!varsNumero
<1>5. UNCHANGED R!vars
      BY <1>2 DEF R!vars, R!varsNumero, varsPedidos
<1>6. FInv'
  <2>1. Tabelas'
        BY <1>1, <1>2 DEF Tabelas
  <2>2. Copias'
        BY <1>1, <1>2, NenhumAssumption DEF Tabelas, Copias, Mesma
  <2>3. QED
        BY <1>2, <2>1, <2>2 DEF J, FInv, LinhaDoPedido, varsPedidos
<1>7. QED
      BY <1>4, <1>5, <1>6

\* A decision is saved over the row from the copy.
LEMMA EditarImplementa ==
  ASSUME J, UNCHANGED varsPedidos, NEW o \in Edicoes, NEW e \in {"VALIDADO", "REJEITADO"},
         Instauracao!Editar(o, e)
  PROVE  I!Editar(o, e) /\ UNCHANGED R!vars /\ FInv'
<1> DEFINE x == edicao[o].lido
           a == edicao[o].acto
           y == [x EXCEPT !.estado = e]
           vista == [q \in Edicoes |-> [edicao[q] EXCEPT !.lido = ParaInstauracao(@)]]
<1>1. /\ Tabelas /\ Copias /\ a \in Pedidos /\ actos[a] # Nenhum
      /\ x \in Linha /\ Mesma(x, actos[a])
      BY DEF J, FInv, Tabelas, Copias, Instauracao!Editar
<1>2. /\ y \in Linha /\ Mesma(y, actos[a])
      /\ ParaInstauracao(y) = [ParaInstauracao(x) EXCEPT !.estado = e]
      BY <1>1, VistaDecidida DEF Mesma
<1>3. /\ IF x.estado = "SUBMETIDO" THEN actos' = [actos EXCEPT ![a] = y] ELSE UNCHANGED actos
      /\ edicao' = [edicao EXCEPT ![o].passo = "feito"]
      /\ UNCHANGED <<processos, auditados, execucao, alvo, lido, resultado, serial,
                     contadorProc, numeroProc, recusadosProc>>
      BY DEF Instauracao!Editar, Instauracao!varsNumero
<1>4. /\ vista[o].passo = "mudar" /\ vista[o].acto = a /\ vista[o].lido = ParaInstauracao(x)
      /\ ParaInstauracao(x).estado = x.estado
  <2>1. edicao[o].passo = "mudar"
        BY DEF Instauracao!Editar
  <2>2. ParaInstauracao(x).estado = x.estado
        BY <1>1, VistaInstauracao
  <2>3. QED
        BY <1>1, <2>1, <2>2, VistaEdicao
<1>5. vista' = [vista EXCEPT ![o].passo = "feito"]
  <2>1. ASSUME NEW q \in Edicoes
        PROVE  vista'[q] = [vista EXCEPT ![o].passo = "feito"][q]
    <3>1. edicao'[q] = IF q = o THEN [edicao[q] EXCEPT !.passo = "feito"] ELSE edicao[q]
          BY <1>1, <1>3 DEF Tabelas
    <3>2. vista[q] = [passo |-> edicao[q].passo, acto |-> edicao[q].acto,
                      lido |-> ParaInstauracao(edicao[q].lido)]
          BY <1>1, VistaEdicao
    <3>3. Tabelas'
          BY <1>1, <1>2, <1>3 DEF Tabelas
    <3>4. vista'[q] = [passo |-> edicao'[q].passo, acto |-> edicao'[q].acto,
                       lido |-> ParaInstauracao(edicao'[q].lido)]
          BY <3>3 DEF Tabelas
    <3>5. /\ edicao'[q].acto = edicao[q].acto /\ edicao'[q].lido = edicao[q].lido
          /\ edicao'[q].passo = IF q = o THEN "feito" ELSE edicao[q].passo
          BY <1>1, <3>1 DEF Tabelas
    <3>6. QED
          BY <3>2, <3>4, <3>5
  <2>2. QED
        BY <2>1
<1>6. /\ UNCHANGED [q \in Entregas |-> ParaInstauracao(lido[q])]
      /\ UNCHANGED varsPedidos
      BY <1>3
<1>7. CASE x.estado = "SUBMETIDO"
  <2>1. actos' = [actos EXCEPT ![a] = y]
        BY <1>3, <1>7
  <2> HIDE DEF y
  <2>2. /\ UNCHANGED R!vars /\ LinhaDoPedido'
        /\ actos' \in [Pedidos -> Linha \cup {Nenhum}]
        /\ \A q \in Pedidos : actos[q] # Nenhum =>
             actos'[q] # Nenhum /\ Mesma(actos'[q], actos[q])
        /\ [q \in Pedidos |-> ParaInstauracao(actos[q])]' =
             [[q \in Pedidos |-> ParaInstauracao(actos[q])] EXCEPT ![a] = ParaInstauracao(y)]
        BY <1>1, <1>2, <2>1, EscritaFiel
  <2>3. I!Editar(o, e)
    <3> HIDE DEF vista, x, a
    <3>1. vista' = [q \in Edicoes |-> [edicao[q] EXCEPT !.lido = ParaInstauracao(@)]]'
          BY DEF vista
    <3>2. QED
          BY <1>2, <1>3, <1>4, <1>5, <1>6, <1>7, <2>2, <3>1 DEF I!Editar, I!varsNumero, vista
  <2>4. FInv'
    <3>1. Tabelas'
          BY <1>1, <1>3, <2>2 DEF Tabelas
    <3>2. Copias'
          BY <1>1, <1>3, <2>2 DEF Tabelas, Copias, Mesma
    <3>3. QED
          BY <2>2, <3>1, <3>2 DEF FInv
  <2>5. QED
        BY <2>2, <2>3, <2>4
<1>8. CASE x.estado # "SUBMETIDO"
  <2>1. /\ UNCHANGED actos
        /\ UNCHANGED [q \in Pedidos |-> ParaInstauracao(actos[q])]
        BY <1>3, <1>8
  <2>2. I!Editar(o, e)
    <3> HIDE DEF x, a, y
    <3>1. QED
          BY <1>3, <1>4, <1>5, <1>6, <1>8, <2>1 DEF I!Editar, I!varsNumero, vista
  <2>3. UNCHANGED R!vars
        BY <2>1 DEF R!vars, R!varsNumero, varsPedidos
  <2>4. FInv'
        BY <1>1, <1>3, <2>1 DEF J, FInv, Tabelas, Copias, Mesma, LinhaDoPedido, varsPedidos
  <2>5. QED
        BY <2>2, <2>3, <2>4
<1>9. QED
      BY <1>7, <1>8

\* Every step of an execution or of another user of an act, together.
LEMMA InstaurarImplementa ==
  ASSUME J, Instaurar
  PROVE  I!Tratar /\ UNCHANGED R!vars /\ FInv'
<1>0. UNCHANGED varsPedidos
      BY DEF Instaurar
<1>1. ASSUME NEW d \in Entregas,
             \/ \E a \in Pedidos : Instauracao!Entregar(d, a) \/ Instauracao!Executar(d, a)
             \/ Instauracao!DevolverExistente(d) \/ Instauracao!GerarNumero(d)
             \/ Instauracao!SalvarProcesso(d) \/ Instauracao!Auditar(d)
             \/ Instauracao!Falhar(d)
      PROVE  I!Tratar /\ UNCHANGED R!vars /\ FInv'
      BY <1>0, <1>1, ExecucaoImplementa
<1>2. ASSUME NEW d \in Entregas, Instauracao!LerActo(d)
      PROVE  I!Tratar /\ UNCHANGED R!vars /\ FInv'
      BY <1>0, <1>2, LerActoImplementa DEF I!Tratar
<1>3. ASSUME NEW d \in Entregas, Instauracao!VincularActo(d)
      PROVE  I!Tratar /\ UNCHANGED R!vars /\ FInv'
      BY <1>0, <1>3, VincularActoImplementa DEF I!Tratar
<1>4. ASSUME NEW o \in Edicoes, NEW a \in Pedidos, Instauracao!Carregar(o, a)
      PROVE  I!Tratar /\ UNCHANGED R!vars /\ FInv'
      BY <1>0, <1>4, CarregarImplementa DEF I!Tratar
<1>5. ASSUME NEW o \in Edicoes, NEW e \in {"VALIDADO", "REJEITADO"}, Instauracao!Editar(o, e)
      PROVE  I!Tratar /\ UNCHANGED R!vars /\ FInv'
      BY <1>0, <1>5, EditarImplementa DEF I!Tratar
<1>6. QED
      BY <1>1, <1>2, <1>3, <1>4, <1>5 DEF Instaurar, Instauracao!Tratar
-----------------------------------------------------------------------------
\* The empty tables are the empty tables of both.
LEMMA InitImplementa == Init => R!Init /\ I!Init /\ FInv
<1> SUFFICES ASSUME Init
             PROVE  R!Init /\ I!Init /\ FInv
    OBVIOUS
<1>1. [p \in Pedidos |-> ParaRegisto(actos[p])] = [p \in Pedidos |-> Nenhum]
      BY DEF Init, Registo!Init, ParaRegisto
<1>2. R!Init
      BY <1>1 DEF Init, Registo!Init, R!Init, R!Numerador!Init, Registo!Numerador!Init,
         R!Sequencias, Registo!Sequencias
<1>3. /\ [p \in Pedidos |-> ParaInstauracao(actos[p])] = [p \in Pedidos |-> Nenhum]
      /\ [d \in Entregas |-> ParaInstauracao(lido[d])] = [d \in Entregas |-> Nenhum]
      /\ [o \in Edicoes |-> [edicao[o] EXCEPT !.lido = ParaInstauracao(@)]] =
           [o \in Edicoes |-> [passo |-> "novo", acto |-> Nenhum, lido |-> Nenhum]]
      BY DEF Init, Registo!Init, Instauracao!InitInstauracao, ParaInstauracao
<1>4. I!Init
      BY <1>3 DEF Init, I!Init, I!InitInstauracao, Instauracao!InitInstauracao,
         I!Numerador!Init, Instauracao!Numerador!Init
<1>5. FInv
      BY DEF Init, Registo!Init, Instauracao!InitInstauracao, FInv, Tabelas, Copias,
         LinhaDoPedido, Instauracao!EmCurso
<1>6. QED
      BY <1>2, <1>4, <1>5

\* Every step of the flow is a step of each component, or none.
LEMMA PassoImplementa ==
  ASSUME J, [Next]_vars
  PROVE  [R!Next]_(R!vars) /\ [I!Next]_(I!vars) /\ FInv'
<1>1. CASE Registar
      BY <1>1, RegistarImplementa
<1>2. CASE Instaurar
      BY <1>2, InstaurarImplementa DEF I!Next
<1>3. CASE UNCHANGED vars
  <2>1. UNCHANGED R!vars /\ UNCHANGED I!vars
        BY <1>3 DEF R!vars, R!varsNumero, I!vars, I!varsInstauracao, I!varsNumero, vars,
           varsPedidos, varsProcessos
  <2>2. FInv'
        BY <1>3 DEF J, FInv, Tabelas, Copias, Mesma, LinhaDoPedido, vars, varsPedidos,
           varsProcessos
  <2>3. QED
        BY <2>1, <2>2
<1>4. QED
      BY <1>1, <1>2, <1>3 DEF Next

\* The invariants of both components, and of the flow, hold in every state.
THEOREM Indutivo == Spec => []J
<1>1. Init => J
      BY InitImplementa, R!InitIInv, I!InitIInv, AssuncoesRegisto, AssuncoesInstauracao DEF J
<1>2. J /\ [Next]_vars => J'
  <2> SUFFICES ASSUME J, [Next]_vars
               PROVE  J'
      OBVIOUS
  <2>1. [R!Next]_(R!vars) /\ [I!Next]_(I!vars) /\ FInv'
        BY PassoImplementa
  <2>2. R!IInv'
        BY <2>1, R!PassoIInv, AssuncoesRegisto DEF J
  <2>3. I!IInv'
        BY <2>1, I!PassoIInv, AssuncoesInstauracao DEF J
  <2>4. QED
        BY <2>1, <2>2, <2>3 DEF J
<1>3. QED
      BY <1>1, <1>2, PTL DEF Spec

\* Deliveries and other users of an act change nothing of what registration is: the
\* flow implements POST /actos-piquete, whatever they write over the rows.
THEOREM ImplementaRegisto == Spec => R!Spec
<1>1. Init => R!Init
      BY InitImplementa
<1>2. J /\ [Next]_vars => [R!Next]_(R!vars)
      BY PassoImplementa
<1>3. QED
      BY <1>1, <1>2, Indutivo, PTL DEF Spec, R!Spec

\* Requests appear to the executions as acts that are saved: the flow implements
\* the event handler and execute over acts that come at any time.
THEOREM ImplementaInstauracao == Spec => I!Spec
<1>1. Init => I!Init
      BY InitImplementa
<1>2. J /\ [Next]_vars => [I!Next]_(I!vars)
      BY PassoImplementa
<1>3. QED
      BY <1>1, <1>2, Indutivo, PTL DEF Spec, I!Spec
-----------------------------------------------------------------------------
\* An execution that has taken a number for its case.
ComNumero(d) == execucao[d] \in {"salvar", "vincular", "auditar"} \/ d \in processos

\* A case's number is of its act's unit, is given out, and is no other case's.
Numerados ==
  /\ contadorProc \in [Unidades \X {"PROC"} -> Nat]
  /\ \A d \in Entregas : ComNumero(d) =>
       /\ alvo[d] \in Pedidos /\ actos[alvo[d]] # Nenhum /\ actos[alvo[d]].gera
       /\ numeroProc[d] \in (Unidades \X {"PROC"}) \X Nat
       /\ numeroProc[d][1] = <<Maiuscula[actos[alvo[d]].piquete], "PROC">>
       /\ numeroProc[d][2] <= contadorProc[numeroProc[d][1]]
  /\ \A d, e \in Entregas :
       ComNumero(d) /\ ComNumero(e) /\ numeroProc[d] = numeroProc[e] => d = e
  /\ DOMAIN numeroProc = Entregas

\* No step takes a row away or changes what its request wrote.
LEMMA ActosFieis ==
  ASSUME J, [Next]_vars
  PROVE  /\ \A q \in Pedidos : actos[q] # Nenhum => actos'[q] # Nenhum /\ Mesma(actos'[q], actos[q])
         /\ ~Registar => \A q \in Pedidos : actos'[q] # Nenhum => actos[q] # Nenhum
<1> DEFINE V == [q \in Pedidos |-> ParaRegisto(actos[q])]
<1>0. Tabelas /\ Tabelas' /\ LinhaDoPedido
      BY PassoImplementa DEF J, FInv
<1>1. \A q \in Pedidos : actos[q] # Nenhum => V'[q] = V[q]
  <2>1. ASSUME NEW p \in Pedidos, R!SalvarActo(p)
        PROVE  \A q \in Pedidos : actos[q] # Nenhum => V'[q] = V[q]
    <3>1. passo[p] = "salvar" /\ \A q \in Pedidos \ {p} : V'[q] = V[q]
          BY <2>1 DEF R!SalvarActo
    <3>2. actos[p] = Nenhum
          BY <1>0, <3>1 DEF LinhaDoPedido
    <3>3. QED
          BY <3>1, <3>2
  <2>2. V' = V \/ \E p \in Pedidos : R!SalvarActo(p)
        BY PassoImplementa DEF R!Next, R!vars, R!Receber, R!Verificar, R!LerTipo, R!GerarNumero,
           R!Auditar, R!Guardar, R!DevolverActo, R!Falhar, R!Expirar, R!LimparExpirados,
           R!AlternarTipo
  <2>3. QED
        BY <2>1, <2>2
<1>2. \A q \in Pedidos : actos[q] # Nenhum => actos'[q] # Nenhum /\ Mesma(actos'[q], actos[q])
  <2> SUFFICES ASSUME NEW q \in Pedidos, actos[q] # Nenhum
               PROVE  actos'[q] # Nenhum /\ Mesma(actos'[q], actos[q])
      OBVIOUS
  <2>1. actos[q] \in Linha /\ actos'[q] \in Linha \cup {Nenhum}
        BY <1>0 DEF Tabelas
  <2>2. ParaRegisto(actos'[q]) = ParaRegisto(actos[q]) /\ ParaRegisto(actos[q]) # Nenhum
        BY <1>1, <2>1, VistaRegisto
  <2>3. actos'[q] # Nenhum
        BY <2>2 DEF ParaRegisto
  <2>4. QED
        BY <2>1, <2>2, <2>3, VistaRegisto
<1>3. ASSUME ~Registar, NEW q \in Pedidos, actos'[q] # Nenhum
      PROVE  actos[q] # Nenhum
  <2>1. V' = V
        BY <1>3, InstaurarImplementa DEF Next, R!vars, vars
  <2>2. actos'[q] \in Linha /\ ParaRegisto(actos'[q]) = ParaRegisto(actos[q])
        BY <1>0, <1>3, <2>1 DEF Tabelas
  <2>3. ParaRegisto(actos'[q]) # Nenhum
        BY <2>2, VistaRegisto
  <2>4. QED
        BY <2>2, <2>3 DEF ParaRegisto
<1>4. QED
      BY <1>2, <1>3

\* Saved cases keep the numbers they were given.
LEMMA NumeradosPreservado ==
  ASSUME J, Numerados, [Next]_vars
  PROVE  Numerados'
<1>0. Tabelas /\ Copias /\ I!Fases
      BY DEF J, FInv, I!IInv
<1>1. \A q \in Pedidos : actos[q] # Nenhum => actos'[q] # Nenhum /\ Mesma(actos'[q], actos[q])
      BY ActosFieis
<1>2. ASSUME NEW d \in Entregas, Instauracao!GerarNumero(d), execucao'[d] = "salvar"
      PROVE  Numerados'
  <2> DEFINE k == <<Maiuscula[lido[d].piquete], "PROC">>
  <2>1. /\ execucao[d] = "numerar" /\ d \notin processos
        /\ execucao' = [execucao EXCEPT ![d] = "salvar"]
        /\ UNCHANGED <<actos, processos, alvo>>
        BY <1>0, <1>2 DEF Instauracao!GerarNumero, Instauracao!Ir, I!Fases, I!Fins
  <2>2. /\ contadorProc' = [contadorProc EXCEPT ![k] = @ + 1]
        /\ numeroProc' = [numeroProc EXCEPT ![d] = <<k, contadorProc[k] + 1>>]
        BY <1>0, <1>2 DEF Tabelas, Instauracao!GerarNumero, Instauracao!Ir,
           Instauracao!Numerador!Atribuir, Instauracao!Serie
  <2>3. /\ alvo[d] \in Pedidos /\ actos[alvo[d]] \in Linha /\ actos[alvo[d]] # Nenhum
        /\ lido[d] \in Linha /\ lido[d].piquete = actos[alvo[d]].piquete
        /\ lido[d].gera = actos[alvo[d]].gera
        BY <1>0, <2>1 DEF Tabelas, Copias, Mesma, Instauracao!EmCurso
  <2>4. actos[alvo[d]].gera
    <3>1. ParaInstauracao(lido[d]).gera
          BY <2>1 DEF J, I!IInv, I!Conhecido
    <3>2. QED
          BY <2>3, <3>1, VistaInstauracao
  <2>5. k \in Unidades \X {"PROC"} /\ contadorProc[k] \in Nat
        BY <2>3, MaiusculaAssumption DEF Linha, Numerados, Registo!MaiusculaAssumption
  <2>6. \A e \in Entregas : ComNumero(e)' => e = d \/ ComNumero(e)
        BY <1>0, <2>1 DEF ComNumero, Tabelas
  <2> HIDE DEF k
  <2>7. contadorProc' \in [Unidades \X {"PROC"} -> Nat]
        BY <2>2, <2>5 DEF Numerados
  <2>8. \A j \in Unidades \X {"PROC"} : contadorProc[j] <= contadorProc'[j]
        BY <2>2, <2>5 DEF Numerados
  <2>9. /\ numeroProc'[d] = <<k, contadorProc[k] + 1>> /\ contadorProc'[k] = contadorProc[k] + 1
        /\ \A e \in Entregas \ {d} : numeroProc'[e] = numeroProc[e]
        BY <2>2, <2>5 DEF Numerados
  <2>10. ASSUME NEW e \in Entregas \ {d}, ComNumero(e)'
         PROVE  /\ alvo[e] \in Pedidos /\ actos[alvo[e]] # Nenhum /\ actos[alvo[e]].gera
                /\ numeroProc[e] \in (Unidades \X {"PROC"}) \X Nat
                /\ numeroProc[e][1] = <<Maiuscula[actos[alvo[e]].piquete], "PROC">>
                /\ numeroProc[e][2] <= contadorProc'[numeroProc[e][1]]
                /\ numeroProc'[e] # numeroProc'[d]
    <3>1. /\ alvo[e] \in Pedidos /\ actos[alvo[e]] # Nenhum /\ actos[alvo[e]].gera
          /\ numeroProc[e] \in (Unidades \X {"PROC"}) \X Nat
          /\ numeroProc[e][1] = <<Maiuscula[actos[alvo[e]].piquete], "PROC">>
          /\ numeroProc[e][2] <= contadorProc[numeroProc[e][1]]
          BY <2>6, <2>10 DEF Numerados
    <3>2. /\ numeroProc[e][1] \in Unidades \X {"PROC"} /\ numeroProc[e][2] \in Nat
          /\ contadorProc[numeroProc[e][1]] \in Nat /\ contadorProc'[numeroProc[e][1]] \in Nat
          BY <3>1, <2>7 DEF Numerados
    <3>3. numeroProc[e][2] <= contadorProc'[numeroProc[e][1]]
          BY <3>1, <3>2, <2>8
    <3>4. numeroProc[e] # <<k, contadorProc[k] + 1>>
          BY <3>1, <3>2, <2>5
    <3>5. QED
          BY <3>1, <3>3, <3>4, <2>9
  <2>11. ASSUME NEW e \in Entregas, ComNumero(e)'
         PROVE  /\ alvo'[e] \in Pedidos /\ actos'[alvo'[e]] # Nenhum /\ actos'[alvo'[e]].gera
                /\ numeroProc'[e] \in (Unidades \X {"PROC"}) \X Nat
                /\ numeroProc'[e][1] = <<Maiuscula[actos'[alvo'[e]].piquete], "PROC">>
                /\ numeroProc'[e][2] <= contadorProc'[numeroProc'[e][1]]
    <3>1. CASE e = d
          BY <3>1, <2>1, <2>3, <2>4, <2>5, <2>9 DEF k
    <3>2. CASE e # d
          BY <3>2, <2>1, <2>9, <2>10, <2>11
    <3>3. QED
          BY <3>1, <3>2
  <2>12. \A e, f \in Entregas :
           ComNumero(e)' /\ ComNumero(f)' /\ numeroProc'[e] = numeroProc'[f] => e = f
        BY <2>6, <2>9, <2>10 DEF Numerados
  <2>13. DOMAIN numeroProc' = Entregas
        BY <2>2 DEF Numerados
  <2>14. QED
        BY <2>7, <2>11, <2>12, <2>13 DEF Numerados
<1>3. ASSUME \A e \in Entregas : ComNumero(e)' => ComNumero(e) /\ alvo'[e] = alvo[e],
             UNCHANGED <<contadorProc, numeroProc>>
      PROVE  Numerados'
      BY <1>1, <1>3 DEF Numerados, Mesma
<1>4. CASE Registar
      BY <1>3, <1>4 DEF Registar, varsProcessos, ComNumero
<1>5. CASE UNCHANGED vars
      BY <1>3, <1>5 DEF vars, varsProcessos, ComNumero
<1>6. CASE Instaurar
  <2>1. ASSUME NEW d \in Entregas, Instauracao!GerarNumero(d)
        PROVE  Numerados'
    <3>1. CASE execucao'[d] = "salvar"
          BY <2>1, <3>1, <1>2
    <3>2. CASE execucao'[d] # "salvar"
      <4>1. /\ execucao' = [execucao EXCEPT ![d] = "falhou"]
            /\ UNCHANGED <<contadorProc, numeroProc, processos, alvo>>
            BY <1>0, <2>1, <3>2 DEF Tabelas, Instauracao!GerarNumero, Instauracao!Ir,
               Instauracao!Numerador!Recusar
      <4>2. QED
            BY <1>0, <1>3, <4>1 DEF ComNumero, Tabelas
    <3>3. QED
          BY <3>1, <3>2
  <2>2. ASSUME NEW d \in Entregas,
               \/ \E a \in Pedidos : Instauracao!Entregar(d, a) \/ Instauracao!Executar(d, a)
               \/ Instauracao!LerActo(d) \/ Instauracao!DevolverExistente(d)
               \/ Instauracao!SalvarProcesso(d) \/ Instauracao!VincularActo(d)
               \/ Instauracao!Auditar(d) \/ Instauracao!Falhar(d)
        PROVE  Numerados'
    <3>1. /\ UNCHANGED <<contadorProc, numeroProc>>
          /\ \A e \in Entregas : ComNumero(e)' => ComNumero(e)
          /\ \A e \in Entregas : ComNumero(e) => execucao[e] # "novo"
          /\ \A e \in Entregas : execucao[e] # "novo" => alvo'[e] = alvo[e]
          BY <1>0, <2>2 DEF ComNumero, Tabelas, I!Fases, I!Fins, Instauracao!Entregar,
             Instauracao!Executar, Instauracao!LerActo, Instauracao!DevolverExistente,
             Instauracao!SalvarProcesso, Instauracao!VincularActo, Instauracao!Auditar,
             Instauracao!Falhar, Instauracao!Ir, Instauracao!varsNumero
    <3>2. QED
          BY <1>3, <3>1
  <2>3. ASSUME NEW o \in Edicoes,
               \/ \E a \in Pedidos : Instauracao!Carregar(o, a)
               \/ \E e \in {"VALIDADO", "REJEITADO"} : Instauracao!Editar(o, e)
        PROVE  Numerados'
        BY <1>3, <2>3 DEF ComNumero, Instauracao!Carregar, Instauracao!Editar,
           Instauracao!varsNumero
  <2>4. QED
        BY <1>6, <2>1, <2>2, <2>3 DEF Instaurar, Instauracao!Tratar
<1>7. QED
      BY <1>4, <1>5, <1>6 DEF Next

\* An audit row is missing only at its statement or where that statement failed.
LEMMA AuditoriaPreservada ==
  ASSUME J, SemAuditoriaSoPorFalha, [Next]_vars
  PROVE  SemAuditoriaSoPorFalha'
<1>0. /\ Tabelas /\ LinhaDoPedido /\ I!Fases /\ R!TypeOK /\ R!Percurso
      BY DEF J, FInv, I!IInv, R!IInv
<1> DEFINE Dos == \A p \in Pedidos :
             actos[p] # Nenhum /\ p \notin auditoria
               => \/ passo[p] = "auditar"
                  \/ passo[p] = "fim" /\ resposta[p].estado = 500
           Das == \A d \in processos \ auditados : execucao[d] \in {"vincular", "auditar", "falhou"}
<1>1. CASE Registar
  <2>1. Das'
        BY <1>1 DEF SemAuditoriaSoPorFalha, Registar, varsProcessos
  <2>2. ASSUME NEW p \in Pedidos,
               \/ \E e \in Entradas : Registo!Receber(p, e)
               \/ Registo!Verificar(p) \/ Registo!LerTipo(p) \/ Registo!GerarNumero(p)
               \/ Registo!SalvarActo(p) \/ Registo!Auditar(p) \/ Registo!Guardar(p)
               \/ Registo!DevolverActo(p) \/ Registo!Falhar(p)
        PROVE  Dos'
    <3> SUFFICES ASSUME NEW q \in Pedidos, actos'[q] # Nenhum, q \notin auditoria'
                 PROVE  \/ passo'[q] = "auditar"
                        \/ passo'[q] = "fim" /\ resposta'[q].estado = 500
        OBVIOUS
    <3>1. CASE q # p
      <4>1. actos'[q] = actos[q] /\ passo'[q] = passo[q] /\ resposta'[q] = resposta[q]
            BY <1>0, <2>2, <3>1 DEF Tabelas, R!TypeOK, Registo!Receber, Registo!Verificar,
               Registo!LerTipo, Registo!GerarNumero, Registo!SalvarActo, Registo!Auditar,
               Registo!Guardar, Registo!DevolverActo, Registo!Falhar, Registo!Prosseguir,
               Registo!Responder, Registo!Ir
      <4>2. auditoria \subseteq auditoria'
            BY <2>2 DEF Registo!Receber, Registo!Verificar, Registo!LerTipo,
               Registo!GerarNumero, Registo!SalvarActo, Registo!Auditar, Registo!Guardar,
               Registo!DevolverActo, Registo!Falhar
      <4>3. QED
            BY <4>1, <4>2 DEF SemAuditoriaSoPorFalha
    <3>2. CASE q = p
      <4>1. CASE Registo!SalvarActo(p)
        <5>1. passo[p] = "salvar" /\ actos[p] = Nenhum
              BY <4>1, <1>0 DEF Registo!SalvarActo, LinhaDoPedido
        <5>2. QED
              BY <3>2, <4>1, <5>1, <1>0 DEF R!TypeOK, Tabelas, Registo!SalvarActo,
                 Registo!Prosseguir, Registo!Responder, Registo!Ir
      <4>2. CASE Registo!Auditar(p)
            BY <3>2, <4>2 DEF Registo!Auditar
      <4>3. CASE Registo!Falhar(p)
            BY <3>2, <4>3, <1>0 DEF R!TypeOK, Registo!Falhar, Registo!Responder, Registo!Ir
      <4>4. CASE \/ \E e \in Entradas : Registo!Receber(p, e)
                 \/ Registo!Verificar(p) \/ Registo!LerTipo(p) \/ Registo!GerarNumero(p)
        <5>1. passo[p] \notin {"auditar", "guardar", "responder", "fim"} /\ actos' = actos
              BY <4>4 DEF Registo!Receber, Registo!Verificar, Registo!LerTipo,
                 Registo!GerarNumero
        <5>2. QED
              BY <3>2, <5>1, <1>0 DEF LinhaDoPedido
      <4>5. CASE Registo!Guardar(p) \/ Registo!DevolverActo(p)
        <5>1. passo[p] \in {"guardar", "responder"} /\ auditoria' = auditoria
              BY <4>5 DEF Registo!Guardar, Registo!DevolverActo
        <5>2. QED
              BY <3>2, <5>1, <1>0 DEF R!Percurso
      <4>6. QED
            BY <2>2, <4>1, <4>2, <4>3, <4>4, <4>5
    <3>3. QED
          BY <3>1, <3>2
  <2>3. ASSUME \/ \E c \in Chaves : Registo!Expirar(c)
               \/ Registo!LimparExpirados
               \/ \E t \in Codigos : Registo!AlternarTipo(t)
        PROVE  Dos'
        BY <2>3 DEF SemAuditoriaSoPorFalha, Registo!Expirar, Registo!LimparExpirados,
           Registo!AlternarTipo
  <2>4. QED
        BY <1>1, <2>1, <2>2, <2>3 DEF SemAuditoriaSoPorFalha, Registar, Registo!Next
<1>2. CASE Instaurar
  <2>1. Dos'
    <3>1. ~Registar => \A q \in Pedidos : actos'[q] # Nenhum => actos[q] # Nenhum
          BY ActosFieis
    <3>2. CASE Registar
          BY <3>2, <1>1 DEF SemAuditoriaSoPorFalha
    <3>3. CASE ~Registar
          BY <3>1, <3>3, <1>2 DEF SemAuditoriaSoPorFalha, Instaurar, varsPedidos
    <3>4. QED
          BY <3>2, <3>3
  <2>2. ASSUME NEW d \in Entregas,
               \/ \E a \in Pedidos : Instauracao!Entregar(d, a) \/ Instauracao!Executar(d, a)
               \/ Instauracao!LerActo(d) \/ Instauracao!DevolverExistente(d)
               \/ Instauracao!GerarNumero(d) \/ Instauracao!SalvarProcesso(d)
               \/ Instauracao!VincularActo(d) \/ Instauracao!Auditar(d)
               \/ Instauracao!Falhar(d)
        PROVE  Das'
    <3>1. /\ \A e \in Entregas \ {d} : execucao'[e] = execucao[e]
          /\ processos' \subseteq processos \cup {d} /\ auditados \subseteq auditados'
          BY <1>0, <2>2 DEF Tabelas, Instauracao!Entregar, Instauracao!Executar,
             Instauracao!LerActo, Instauracao!DevolverExistente, Instauracao!GerarNumero,
             Instauracao!SalvarProcesso, Instauracao!VincularActo, Instauracao!Auditar,
             Instauracao!Falhar, Instauracao!Ir
    <3>2. d \in processos' \ auditados' => execucao'[d] \in {"vincular", "auditar", "falhou"}
          BY <1>0, <2>2 DEF Tabelas, I!Fases, I!Fins, Instauracao!Entregar,
             Instauracao!Executar, Instauracao!LerActo, Instauracao!DevolverExistente,
             Instauracao!GerarNumero, Instauracao!SalvarProcesso, Instauracao!VincularActo,
             Instauracao!Auditar, Instauracao!Falhar, Instauracao!Ir
    <3>3. processos \subseteq Entregas
          BY DEF J, I!IInv, I!TypeOK
    <3>4. QED
          BY <3>1, <3>2, <3>3 DEF SemAuditoriaSoPorFalha
  <2>3. ASSUME NEW o \in Edicoes,
               \/ \E a \in Pedidos : Instauracao!Carregar(o, a)
               \/ \E e \in {"VALIDADO", "REJEITADO"} : Instauracao!Editar(o, e)
        PROVE  Das'
        BY <2>3 DEF SemAuditoriaSoPorFalha, Instauracao!Carregar, Instauracao!Editar
  <2>4. Das'
        BY <1>2, <2>2, <2>3 DEF Instaurar, Instauracao!Tratar
  <2>5. QED
        BY <2>1, <2>4 DEF SemAuditoriaSoPorFalha
<1>3. CASE UNCHANGED vars
      BY <1>3 DEF SemAuditoriaSoPorFalha, vars, varsPedidos, varsProcessos
<1>4. QED
      BY <1>1, <1>2, <1>3 DEF Next

\* What the flow adds to its components holds in every state.
LEMMA IndutivoDoFluxo == Spec => [](J /\ Numerados /\ SemAuditoriaSoPorFalha)
<1>1. Init => Numerados /\ SemAuditoriaSoPorFalha
      BY DEF Init, Registo!Init, Instauracao!InitInstauracao, Numerados, ComNumero,
         SemAuditoriaSoPorFalha, Instauracao!Numerador!Init
<1>2. J /\ J' /\ Numerados /\ SemAuditoriaSoPorFalha /\ [Next]_vars
        => Numerados' /\ SemAuditoriaSoPorFalha'
      BY NumeradosPreservado, AuditoriaPreservada
<1>3. QED
      BY <1>1, <1>2, Indutivo, PTL DEF Spec
-----------------------------------------------------------------------------
\* The rows both components write, and the executions, are well typed.
THEOREM TipagemCorrecta == Spec => []TypeOK
<1>1. J => TypeOK
  <2> SUFFICES ASSUME J
               PROVE  TypeOK
      OBVIOUS
  <2>1. ASSUME NEW p \in Pedidos, actos[p] # Nenhum
        PROVE  /\ [actos[p] EXCEPT !.estado = "SUBMETIDO", !.processo = Nenhum] \in Registo!Linha
               /\ actos[p].estado \in {"SUBMETIDO", "VALIDADO", "REJEITADO", "CONVERTIDO"}
               /\ actos[p].processo \in Entregas \cup {Nenhum}
    <3>1. actos[p] \in Linha
          BY <2>1 DEF J, FInv, Tabelas
    <3>2. ParaRegisto(actos[p]) \in R!Linha
          BY <3>1, VistaRegisto
    <3>3. QED
          BY <2>1, <3>1, <3>2 DEF ParaRegisto, Linha, R!Linha, Registo!Linha, R!Utentes,
             Registo!Utentes, R!Sequencias, Registo!Sequencias
  <2>2. processos \cup auditados \subseteq Entregas
        BY DEF J, I!IInv, I!TypeOK
  <2>3. QED
        BY <2>1, <2>2 DEF TypeOK, J, FInv, Tabelas
<1>2. QED
      BY <1>1, Indutivo, PTL

\* A case stands for one registration, with a number of its own in the act's unit,
\* whoever delivered the event (handle, execute) and whatever was saved over the act.
THEOREM ProcessosSaoDeRegistos == Spec => []ProcessoDoRegisto
<1>1. J /\ Numerados => ProcessoDoRegisto
  <2> SUFFICES ASSUME J, Numerados, NEW d \in processos
               PROVE  /\ actos[alvo[d]] # Nenhum
                      /\ actos[alvo[d]].numero = numero[alvo[d]]
                      /\ actos[alvo[d]].user = entrada[alvo[d]].user
                      /\ GeraProcesso[entrada[alvo[d]].tipo]
                      /\ numeroProc[d][1] = <<Maiuscula[entrada[alvo[d]].unidade], "PROC">>
                      /\ \A e \in processos : numeroProc[e] = numeroProc[d] => e = d
      BY DEF ProcessoDoRegisto
  <2>1. processos \subseteq Entregas
        BY DEF J, I!IInv, I!TypeOK
  <2>2. \A e \in processos : ComNumero(e)
        BY DEF ComNumero
  <2>3. QED
        BY <2>1, <2>2 DEF Numerados, J, FInv, LinhaDoPedido
<1>2. QED
      BY <1>1, IndutivoDoFluxo, PTL

\* What a 201 told a client stays true while cases are made and acts are saved over.
THEOREM RespostasDuramNoFluxo == Spec => []RespostaDuravelNoFluxo
<1>1. J => RespostaDuravelNoFluxo
  <2> SUFFICES ASSUME J
               PROVE  RespostaDuravelNoFluxo
      OBVIOUS
  <2>0. Tabelas
        BY DEF J, FInv
  <2>1. ASSUME NEW p \in Pedidos, Registo!Aceite(p)
        PROVE  /\ actos[resposta[p].acto] # Nenhum /\ resposta[p].acto \in auditoria
               /\ actos[resposta[p].acto].user = entrada[p].user
    <3>1. R!Aceite(p)
          BY <2>1 DEF R!Aceite, Registo!Aceite
    <3>2. /\ [q \in Pedidos |-> ParaRegisto(actos[q])][resposta[p].acto] # Nenhum
          /\ resposta[p].acto \in auditoria
          /\ [q \in Pedidos |-> ParaRegisto(actos[q])][resposta[p].acto].user = entrada[p].user
          BY <3>1 DEF J, R!IInv, R!RespostaDuravel, R!RespostaDoProprio
    <3>3. resposta[p].acto \in Pedidos
          BY <3>2 DEF J, R!IInv, R!TypeOK
    <3>4. actos[resposta[p].acto] # Nenhum
          BY <3>2, <3>3 DEF ParaRegisto
    <3>5. actos[resposta[p].acto] \in Linha
          BY <2>0, <3>3, <3>4 DEF Tabelas
    <3>6. QED
          BY <3>2, <3>3, <3>4, <3>5, VistaRegisto
  <2>2. ASSUME NEW a \in Pedidos, actos[a] # Nenhum, actos[a].processo # Nenhum
        PROVE  /\ actos[a].processo \in processos /\ alvo[actos[a].processo] = a
               /\ actos[a].gera
    <3>1. /\ ParaInstauracao(actos[a]) # Nenhum
          /\ ParaInstauracao(actos[a]).processo = actos[a].processo
          /\ ParaInstauracao(actos[a]).gera = actos[a].gera
          BY <2>0, <2>2, VistaInstauracao DEF Tabelas
    <3>2. QED
          BY <2>2, <3>1 DEF J, I!IInv, I!LinhasCoerentes, I!Coerente
  <2>3. QED
        BY <2>1, <2>2 DEF RespostaDuravelNoFluxo, Registo!RespostaDuravel,
           Registo!RespostaDoProprio, Instauracao!LigacaoReferencial
<1>2. QED
      BY <1>1, Indutivo, PTL

\* An act or a case without its audit row is still at that statement, or its request
\* or delivery failed (registar, then audit.registar, in both handlers).
THEOREM AuditoriaSoFaltaPorFalha == Spec => []SemAuditoriaSoPorFalha
<1>1. QED
      BY IndutivoDoFluxo, PTL

\* Without overlaps every case of the flow is carried by its act, unless its
\* execution failed between the two saves: what is proved of the component.
THEOREM AssociadoNoFluxo == Spec => []I!AssociadoSeSerial
<1>1. QED
      BY ImplementaInstauracao, I!AssociadoQuandoSerial, AssuncoesInstauracao, PTL

\* In the whole flow too, a case that did not fail is the only one of its act when
\* its users do not overlap, and the only one at all when nothing fails.
THEOREM UmProcessoNoFluxo == Spec => [](I!UmProcessoSeSerial /\ I!UmProcessoSemFalhas)
<1>1. QED
      BY ImplementaInstauracao, I!UmProcessoQuandoSerial, I!UmProcessoSeNadaFalha,
         AssuncoesInstauracao, PTL

\* While requests register other acts, an act used by one execution or user at a
\* time is decided once and converted once.
THEOREM AvancoNoFluxo == Spec => I!AvancoSeSerial
<1>1. QED
      BY ImplementaInstauracao, I!AvancoQuandoSerial, AssuncoesInstauracao, PTL

\* What registration wrote is for good: whole-row saves from stale entities by
\* executions, validar and rejeitar never lose a row, nor change its user, its
\* number, its unit or whether it makes a case.
RegistoIntacto ==
  [][\A p \in Pedidos : actos[p] # Nenhum => actos'[p] # Nenhum /\ Mesma(actos'[p], actos[p])]_vars

\* No delivery and no other user of an act undoes its registration (save of
\* PrismaActoPiqueteRepository writes every column from an entity loaded before).
THEOREM RegistoSempreIntacto == Spec => RegistoIntacto
<1> DEFINE A == \A p \in Pedidos :
                  actos[p] # Nenhum => actos'[p] # Nenhum /\ Mesma(actos'[p], actos[p])
<1>1. J /\ [Next]_vars => [A]_vars
      BY ActosFieis
<1>2. QED
      BY <1>1, Indutivo, PTL DEF Spec, RegistoIntacto

\* No two acts have the same number, and each is numbered in the ACTO series of
\* its unit, whatever is delivered, decided and saved over it afterwards.
NumerosDosActos ==
  \A p, q \in Pedidos :
    actos[p] # Nenhum /\ actos[q] # Nenhum =>
      /\ actos[p].numero = actos[q].numero => p = q
      /\ actos[p].numero[1] = <<Maiuscula[actos[p].piquete], "ACTO">>

\* The numbers printed on acts stay unique and of their unit in the whole flow.
THEOREM NumerosDosActosNoFluxo == Spec => []NumerosDosActos
<1>1. J /\ R!NumerosDosActos => NumerosDosActos
  <2> SUFFICES ASSUME J, R!NumerosDosActos
               PROVE  NumerosDosActos
      OBVIOUS
  <2> DEFINE V == [p \in Pedidos |-> ParaRegisto(actos[p])]
  <2>1. ASSUME NEW p \in Pedidos, actos[p] # Nenhum
        PROVE  V[p] # Nenhum /\ V[p].numero = actos[p].numero /\ V[p].piquete = actos[p].piquete
    <3>1. actos[p] \in Linha
          BY <2>1 DEF J, FInv, Tabelas
    <3>2. QED
          BY <2>1, <3>1, VistaRegisto DEF ParaRegisto, Linha
  <2>2. \A p, q \in Pedidos : V[p] # Nenhum /\ V[q] # Nenhum =>
          /\ V[p].numero = V[q].numero => p = q
          /\ V[p].numero[1] = <<Maiuscula[V[p].piquete], "ACTO">>
        BY DEF R!NumerosDosActos
  <2> HIDE DEF V
  <2>3. QED
        BY <2>1, <2>2 DEF NumerosDosActos
<1>2. Spec => []R!NumerosDosActos
      BY ImplementaRegisto, R!NumerosDosActosUnicos, AssuncoesRegisto, PTL
<1>3. QED
      BY <1>1, <1>2, Indutivo, PTL

\* A hole in the ACTO series is the trace of a request that was answered 500,
\* also when deliveries fail and cases are numbered meanwhile.
THEOREM FurosExplicadosNoFluxo == Spec => []R!FurosExplicados
<1>1. QED
      BY ImplementaRegisto, R!FurosSempreExplicados, AssuncoesRegisto, PTL
-----------------------------------------------------------------------------
\* The one table sequencias_numeracao, seen by both callers of gerar: calls made
\* for an act and for a case, keys of both types.
Chamadas == ({"acto"} \X Pedidos) \cup ({"processo"} \X Entregas)

ChavesDasSeries == Unidades \X {"ACTO", "PROC"}

Tabela == [k \in ChavesDasSeries |-> IF k[2] = "ACTO" THEN contador[k] ELSE contadorProc[k]]

Dados == [c \in Chamadas |-> IF c[1] = "acto" THEN numero[c[2]] ELSE numeroProc[c[2]]]

Recusas == ({"acto"} \X recusados) \cup ({"processo"} \X recusadosProc)

N == INSTANCE Numerador WITH
  Pedidos <- Chamadas, Chaves <- ChavesDasSeries,
  contador <- Tabela, numero <- Dados, recusados <- Recusas

\* The counters and the numbers are functions of their keys and callers.
Dominios ==
  /\ DOMAIN contador = Unidades \X {"ACTO"} /\ DOMAIN contadorProc = Unidades \X {"PROC"}
  /\ DOMAIN numero = Pedidos /\ DOMAIN numeroProc = Entregas

\* A request's call is a call to the one table.
LEMMA ChamadaDoActo ==
  ASSUME Dominios, R!Numerador!Next, UNCHANGED <<contadorProc, numeroProc, recusadosProc>>
  PROVE  N!Next
<1>1. ASSUME NEW p \in Pedidos, R!Numerador!Recusar(p)
      PROVE  N!Recusar(<<"acto", p>>)
  <2>1. /\ numero[p] = Nenhum /\ p \notin recusados /\ recusados' = recusados \cup {p}
        /\ UNCHANGED <<contador, numero>>
        BY <1>1 DEF R!Numerador!Recusar, R!Numerador!Aberto
  <2>2. Dados[<<"acto", p>>] = Nenhum /\ <<"acto", p>> \notin Recusas
        BY <2>1 DEF Dados, Chamadas, Recusas
  <2>3. Recusas' = Recusas \cup {<<"acto", p>>}
        BY <2>1 DEF Recusas
  <2>4. UNCHANGED <<Tabela, Dados>>
        BY <2>1 DEF Tabela, Dados
  <2>5. QED
        BY <2>2, <2>3, <2>4 DEF N!Recusar, N!Aberto
<1>2. ASSUME NEW p \in Pedidos, NEW k \in R!Sequencias, R!Numerador!Atribuir(p, k)
      PROVE  N!Atribuir(<<"acto", p>>, k)
  <2>1. /\ numero[p] = Nenhum /\ p \notin recusados /\ recusados' = recusados
        /\ k[1] \in UnidadesValidas /\ contador[k] < Limite
        /\ contador' = [contador EXCEPT ![k] = contador[k] + 1]
        /\ numero' = [numero EXCEPT ![p] = <<k, contador[k] + 1>>]
        BY <1>2 DEF R!Numerador!Atribuir, R!Numerador!Aberto
  <2>2. k \in Unidades \X {"ACTO"}
        BY DEF R!Sequencias
  <2>3. Dados[<<"acto", p>>] = Nenhum /\ <<"acto", p>> \notin Recusas
        BY <2>1 DEF Dados, Chamadas, Recusas
  <2>4. k \in ChavesDasSeries /\ Tabela[k] = contador[k]
        BY <2>2 DEF Tabela, ChavesDasSeries
  <2>5. Tabela' = [Tabela EXCEPT ![k] = Tabela[k] + 1]
        BY <2>1, <2>2, <2>4 DEF Tabela, ChavesDasSeries, Dominios
  <2>6. Dados' = [Dados EXCEPT ![<<"acto", p>>] = <<k, Tabela[k] + 1>>]
    <3> DEFINE D == [Dados EXCEPT ![<<"acto", p>>] = <<k, Tabela[k] + 1>>]
    <3>1. ASSUME NEW q \in Pedidos
          PROVE  numero'[q] = IF q = p THEN <<k, Tabela[k] + 1>> ELSE numero[q]
          BY <2>1, <2>4 DEF Dominios
    <3>2. ASSUME NEW c \in Chamadas
          PROVE  Dados'[c] = D[c]
          BY <2>1, <3>1, <3>2 DEF Dados, Chamadas
    <3>3. QED
          BY <3>2 DEF Dados
  <2>7. Recusas' = Recusas
        BY <2>1 DEF Recusas
  <2>8. QED
        BY <2>1, <2>3, <2>4, <2>5, <2>6, <2>7 DEF N!Atribuir, N!Aberto
<1>3. \A p \in Pedidos : <<"acto", p>> \in Chamadas
      BY DEF Chamadas
<1>4. R!Sequencias \subseteq ChavesDasSeries
      BY DEF R!Sequencias, ChavesDasSeries
<1>5. QED
      BY <1>1, <1>2, <1>3, <1>4 DEF R!Numerador!Next, N!Next

\* So is an execution's.
LEMMA ChamadaDoProcesso ==
  ASSUME Dominios, I!Numerador!Next, UNCHANGED <<contador, numero, recusados>>
  PROVE  N!Next
<1>1. ASSUME NEW d \in Entregas, I!Numerador!Recusar(d)
      PROVE  N!Recusar(<<"processo", d>>)
  <2>1. /\ numeroProc[d] = Nenhum /\ d \notin recusadosProc
        /\ recusadosProc' = recusadosProc \cup {d} /\ UNCHANGED <<contadorProc, numeroProc>>
        BY <1>1 DEF I!Numerador!Recusar, I!Numerador!Aberto
  <2>2. Dados[<<"processo", d>>] = Nenhum /\ <<"processo", d>> \notin Recusas
        BY <2>1 DEF Dados, Chamadas, Recusas
  <2>3. Recusas' = Recusas \cup {<<"processo", d>>}
        BY <2>1 DEF Recusas
  <2>4. UNCHANGED <<Tabela, Dados>>
        BY <2>1 DEF Tabela, Dados
  <2>5. QED
        BY <2>2, <2>3, <2>4 DEF N!Recusar, N!Aberto
<1>2. ASSUME NEW d \in Entregas, NEW k \in Unidades \X {"PROC"}, I!Numerador!Atribuir(d, k)
      PROVE  N!Atribuir(<<"processo", d>>, k)
  <2>1. /\ numeroProc[d] = Nenhum /\ d \notin recusadosProc /\ recusadosProc' = recusadosProc
        /\ k[1] \in UnidadesValidas /\ contadorProc[k] < Limite
        /\ contadorProc' = [contadorProc EXCEPT ![k] = contadorProc[k] + 1]
        /\ numeroProc' = [numeroProc EXCEPT ![d] = <<k, contadorProc[k] + 1>>]
        BY <1>2 DEF I!Numerador!Atribuir, I!Numerador!Aberto
  <2>3. Dados[<<"processo", d>>] = Nenhum /\ <<"processo", d>> \notin Recusas
        BY <2>1 DEF Dados, Chamadas, Recusas
  <2>4. k \in ChavesDasSeries /\ Tabela[k] = contadorProc[k]
        BY DEF Tabela, ChavesDasSeries
  <2>5. Tabela' = [Tabela EXCEPT ![k] = Tabela[k] + 1]
        BY <2>1, <2>4 DEF Tabela, ChavesDasSeries, Dominios
  <2>6. Dados' = [Dados EXCEPT ![<<"processo", d>>] = <<k, Tabela[k] + 1>>]
    <3> DEFINE D == [Dados EXCEPT ![<<"processo", d>>] = <<k, Tabela[k] + 1>>]
    <3>1. ASSUME NEW e \in Entregas
          PROVE  numeroProc'[e] = IF e = d THEN <<k, Tabela[k] + 1>> ELSE numeroProc[e]
          BY <2>1, <2>4 DEF Dominios
    <3>2. ASSUME NEW c \in Chamadas
          PROVE  Dados'[c] = D[c]
          BY <2>1, <3>1, <3>2 DEF Dados, Chamadas
    <3>3. QED
          BY <3>2 DEF Dados
  <2>7. Recusas' = Recusas
        BY <2>1 DEF Recusas
  <2>8. QED
        BY <2>1, <2>3, <2>4, <2>5, <2>6, <2>7 DEF N!Atribuir, N!Aberto
<1>3. \A d \in Entregas : <<"processo", d>> \in Chamadas
      BY DEF Chamadas
<1>4. Unidades \X {"PROC"} \subseteq ChavesDasSeries
      BY DEF ChavesDasSeries
<1>5. QED
      BY <1>1, <1>2, <1>3, <1>4 DEF I!Numerador!Next, N!Next

\* The two callers, whose numbers the flow keeps apart, share one allocator and
\* do not notice: requests and executions together implement a single Numerador
\* over the keys of both types, call by call.
THEOREM ImplementaNumerador == Spec => N!Spec
<1>1. Init => N!Init
  <2> SUFFICES ASSUME Init
               PROVE  N!Init
      OBVIOUS
  <2>1. /\ contador = [k \in Unidades \X {"ACTO"} |-> 0]
        /\ numero = [p \in Pedidos |-> Nenhum] /\ recusados = {}
        BY DEF Init, Registo!Init, Registo!Numerador!Init, Registo!Sequencias
  <2>2. /\ contadorProc = [k \in Unidades \X {"PROC"} |-> 0]
        /\ numeroProc = [d \in Entregas |-> Nenhum] /\ recusadosProc = {}
        BY DEF Init, Instauracao!InitInstauracao, Instauracao!Numerador!Init
  <2>3. Tabela = [k \in ChavesDasSeries |-> 0]
        BY <2>1, <2>2 DEF Tabela, ChavesDasSeries
  <2>4. Dados = [c \in Chamadas |-> Nenhum]
        BY <2>1, <2>2 DEF Dados, Chamadas
  <2>5. Recusas = {}
        BY <2>1, <2>2 DEF Recusas
  <2>6. QED
        BY <2>3, <2>4, <2>5 DEF N!Init
<1>2. ASSUME J, Numerados, [Next]_vars
      PROVE  [N!Next]_(N!vars)
  <2>1. Dominios
        BY <1>2 DEF Dominios, Numerados, J, R!IInv, R!Numeros, R!Sequencias
  <2>2. [R!Numerador!Next]_(R!Numerador!vars) /\ [I!Numerador!Next]_(I!Numerador!vars)
        BY <1>2, PassoImplementa, R!PassoDoNumerador, I!PassoDoNumerador, AssuncoesRegisto,
           AssuncoesInstauracao DEF J
  <2>3. \/ UNCHANGED <<contadorProc, numeroProc, recusadosProc>>
        \/ UNCHANGED <<contador, numero, recusados>>
        BY <1>2 DEF Next, Registar, Instaurar, varsProcessos, varsPedidos, vars
  <2>4. /\ UNCHANGED R!Numerador!vars => UNCHANGED <<contador, numero, recusados>>
        /\ UNCHANGED I!Numerador!vars => UNCHANGED <<contadorProc, numeroProc, recusadosProc>>
        BY DEF R!Numerador!vars, I!Numerador!vars
  <2>5. /\ UNCHANGED <<contador, numero, recusados>>
        /\ UNCHANGED <<contadorProc, numeroProc, recusadosProc>>
        => UNCHANGED N!vars
        BY DEF N!vars, Tabela, Dados, Recusas
  <2>6. QED
        BY <2>1, <2>2, <2>3, <2>4, <2>5, ChamadaDoActo, ChamadaDoProcesso
<1>3. QED
      BY <1>1, <1>2, IndutivoDoFluxo, PTL DEF Spec, N!Spec
=============================================================================
