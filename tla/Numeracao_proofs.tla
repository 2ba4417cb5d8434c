--------------------------- MODULE Numeracao_proofs ---------------------------
(***************************************************************************)
(* Proofs about GeradorNumeroService.gerar, for any number of concurrent   *)
(* calls, units, types and years and any limit.  The argument: a call that *)
(* holds the uncommitted version of its row is alone with it, so the value *)
(* it read is still one above the committed counter when it commits.       *)
(***************************************************************************)
EXTENDS Numeracao, TLAPS

\* A call that has started knows its key.
ChaveAtribuida == \A p \in Pedidos : passo[p] # "novo" => chave[p] \in Chaves

\* Only the call that is past its first statement holds a row, its own.
DonoActivo ==
  \A k \in Chaves, p \in Pedidos :
    dono[k] = p => chave[p] = k /\ passo[p] \in {"incrementar", "formatar", "confirmar"}

\* From the UPDATE to the COMMIT the row is held and the counter is stable.
ValorReservado ==
  \A p \in Pedidos :
    passo[p] \in {"formatar", "confirmar"}
      => dono[chave[p]] = p /\ valor[p] = ultimo[chave[p]] + 1

FormatoConfirmado ==
  \A p \in Pedidos : passo[p] = "confirmar" => FormatoAceite(chave[p], valor[p])

ValoresConsumidos ==
  \A p \in Pedidos : Consumou(p) => valor[p] \in 1 .. ultimo[chave[p]]

SemSaltos ==
  \A k \in Chaves : \A n \in 1 .. ultimo[k] :
    \E p \in Pedidos : Consumou(p) /\ chave[p] = k /\ valor[p] = n

IInv ==
  /\ TypeOK
  /\ ChaveAtribuida
  /\ DonoActivo
  /\ ValorReservado
  /\ FormatoConfirmado
  /\ SemFalhaDeIncremento
  /\ ValoresConsumidos
  /\ NumerosUnicos
  /\ SemSaltos
\* A new call only learns its key.
LEMMA ChamarIInv ==
  ASSUME IInv, NEW p \in Pedidos, NEW u \in Unidades, NEW t \in Tipos, Chamar(p, u, t)
  PROVE  IInv'
<1> USE DEF IInv, TypeOK
<1>1. TypeOK'
      BY NenhumAssumption, MaiusculaAssumption DEF Chamar, Ir, Chaves, Passos, ChaveAtribuida
<1>2. ChaveAtribuida'
      BY NenhumAssumption, MaiusculaAssumption DEF ChaveAtribuida, Chamar, Ir, Chaves
<1>3. DonoActivo'
      BY NenhumAssumption DEF DonoActivo, ChaveAtribuida, Chamar, Ir, Chaves
<1>4. ValorReservado'
      BY NenhumAssumption DEF ValorReservado, ChaveAtribuida, DonoActivo, SemFalhaDeIncremento,
         Chamar, Ir, Chaves
<1>5. FormatoConfirmado'
      BY NenhumAssumption DEF FormatoConfirmado, Chamar, Ir, Chaves
<1>6. SemFalhaDeIncremento'
      BY NenhumAssumption DEF SemFalhaDeIncremento, LinhaVisivel, DonoActivo, ChaveAtribuida,
         Chamar, Ir, Chaves
<1>7. ValoresConsumidos'
      BY NenhumAssumption DEF ValoresConsumidos, ChaveAtribuida, ValorReservado, Consumou,
         Chamar, Ir, Chaves
<1>8. NumerosUnicos'
      BY NenhumAssumption DEF NumerosUnicos, ValorReservado, ValoresConsumidos, ChaveAtribuida,
         Consumou, Chamar, Ir, Chaves
<1>9. SemSaltos'
      BY NenhumAssumption DEF SemSaltos, ValorReservado, ChaveAtribuida, Consumou, Chamar, Ir,
         Chaves
<1>10. QED
      BY <1>1, <1>2, <1>3, <1>4, <1>5, <1>6, <1>7, <1>8, <1>9 DEF IInv

\* The INSERT takes the row only where nobody has it.
LEMMA InserirIInv ==
  ASSUME IInv, NEW p \in Pedidos, InserirSeAusente(p)
  PROVE  IInv'
<1> USE DEF IInv, TypeOK
<1>1. TypeOK'
      BY NenhumAssumption DEF InserirSeAusente, Ir, Passos, ChaveAtribuida
<1>2. ChaveAtribuida'
      BY NenhumAssumption DEF ChaveAtribuida, InserirSeAusente, Ir
<1>3. DonoActivo'
      BY NenhumAssumption DEF DonoActivo, ChaveAtribuida, InserirSeAusente, Ir
<1>4. ValorReservado'
      BY NenhumAssumption DEF ValorReservado, ChaveAtribuida, DonoActivo, SemFalhaDeIncremento,
         InserirSeAusente, Ir
<1>5. FormatoConfirmado'
      BY NenhumAssumption DEF FormatoConfirmado, InserirSeAusente, Ir
<1>6. SemFalhaDeIncremento'
      BY NenhumAssumption DEF SemFalhaDeIncremento, LinhaVisivel, DonoActivo, ChaveAtribuida,
         InserirSeAusente, Ir
<1>7. ValoresConsumidos'
      BY NenhumAssumption DEF ValoresConsumidos, ChaveAtribuida, ValorReservado, Consumou,
         InserirSeAusente, Ir
<1>8. NumerosUnicos'
      BY NenhumAssumption DEF NumerosUnicos, ValorReservado, ValoresConsumidos, ChaveAtribuida,
         Consumou, InserirSeAusente, Ir
<1>9. SemSaltos'
      BY NenhumAssumption DEF SemSaltos, ValorReservado, ChaveAtribuida, Consumou,
         InserirSeAusente, Ir
<1>10. QED
      BY <1>1, <1>2, <1>3, <1>4, <1>5, <1>6, <1>7, <1>8, <1>9 DEF IInv

\* The UPDATE reserves the next value of a row p is then alone with.
LEMMA IncrementarIInv ==
  ASSUME IInv, NEW p \in Pedidos, Incrementar(p)
  PROVE  IInv'
<1> USE DEF IInv, TypeOK
<1>1. TypeOK'
      BY NenhumAssumption DEF Incrementar, Escrever, Reverter, Libertar, LinhaVisivel, Ir,
         Passos, ChaveAtribuida
<1>2. ChaveAtribuida'
      BY NenhumAssumption DEF ChaveAtribuida, Incrementar, Escrever, Reverter, Libertar,
         LinhaVisivel, Ir
<1>3. DonoActivo'
      BY NenhumAssumption DEF DonoActivo, ChaveAtribuida, Incrementar, Escrever, Reverter,
         Libertar, LinhaVisivel, Ir
<1>4. ValorReservado'
      BY NenhumAssumption DEF ValorReservado, ChaveAtribuida, DonoActivo, SemFalhaDeIncremento,
         Incrementar, Escrever, Reverter, Libertar, LinhaVisivel, Ir
<1>5. FormatoConfirmado'
      BY NenhumAssumption DEF FormatoConfirmado, Incrementar, Escrever, Reverter, Libertar,
         LinhaVisivel, Ir
<1>6. SemFalhaDeIncremento'
      BY NenhumAssumption DEF SemFalhaDeIncremento, LinhaVisivel, DonoActivo, ChaveAtribuida,
         Incrementar, Escrever, Reverter, Libertar, Ir
<1>7. ValoresConsumidos'
      BY NenhumAssumption DEF ValoresConsumidos, ChaveAtribuida, ValorReservado, Consumou,
         Incrementar, Escrever, Reverter, Libertar, LinhaVisivel, Ir
<1>8. NumerosUnicos'
      BY NenhumAssumption DEF NumerosUnicos, ValorReservado, ValoresConsumidos, ChaveAtribuida,
         Consumou, Incrementar, Escrever, Reverter, Libertar, LinhaVisivel, Ir
<1>9. SemSaltos'
      BY NenhumAssumption DEF SemSaltos, ValorReservado, ChaveAtribuida, Consumou, Incrementar,
         Escrever, Reverter, Libertar, LinhaVisivel, Ir
<1>10. QED
      BY <1>1, <1>2, <1>3, <1>4, <1>5, <1>6, <1>7, <1>8, <1>9 DEF IInv

\* An accepted number changes no row.
LEMMA FormatarIInv ==
  ASSUME IInv, NEW p \in Pedidos, Formatar(p)
  PROVE  IInv'
<1> USE DEF IInv, TypeOK
<1>1. TypeOK'
      BY NenhumAssumption DEF Formatar, Ir, Passos, ChaveAtribuida
<1>2. ChaveAtribuida'
      BY NenhumAssumption DEF ChaveAtribuida, Formatar, Ir
<1>3. DonoActivo'
      BY NenhumAssumption DEF DonoActivo, ChaveAtribuida, Formatar, Ir
<1>4. ValorReservado'
      BY NenhumAssumption DEF ValorReservado, ChaveAtribuida, DonoActivo, SemFalhaDeIncremento,
         Formatar, Ir
<1>5. FormatoConfirmado'
      BY NenhumAssumption DEF FormatoConfirmado, Formatar, Ir
<1>6. SemFalhaDeIncremento'
      BY NenhumAssumption DEF SemFalhaDeIncremento, LinhaVisivel, DonoActivo, ChaveAtribuida,
         Formatar, Ir
<1>7. ValoresConsumidos'
      BY NenhumAssumption DEF ValoresConsumidos, ChaveAtribuida, ValorReservado, Consumou,
         Formatar, Ir
<1>8. NumerosUnicos'
      BY NenhumAssumption DEF NumerosUnicos, ValorReservado, ValoresConsumidos, ChaveAtribuida,
         Consumou, Formatar, Ir
<1>9. SemSaltos'
      BY NenhumAssumption DEF SemSaltos, ValorReservado, ChaveAtribuida, Consumou, Formatar, Ir
<1>10. QED
      BY <1>1, <1>2, <1>3, <1>4, <1>5, <1>6, <1>7, <1>8, <1>9 DEF IInv

\* The COMMIT publishes a value no other call has.
LEMMA ConfirmarIInv ==
  ASSUME IInv, NEW p \in Pedidos, Confirmar(p)
  PROVE  IInv'
<1> USE DEF IInv, TypeOK
<1>1. TypeOK'
      BY NenhumAssumption DEF Confirmar, Libertar, Ir, Passos, ChaveAtribuida
<1>2. ChaveAtribuida'
      BY NenhumAssumption DEF ChaveAtribuida, Confirmar, Libertar, Ir
<1>3. DonoActivo'
      BY NenhumAssumption DEF DonoActivo, ChaveAtribuida, Confirmar, Libertar, Ir
<1>4. ValorReservado'
      BY NenhumAssumption DEF ValorReservado, ChaveAtribuida, DonoActivo, SemFalhaDeIncremento,
         Confirmar, Libertar, Ir
<1>5. FormatoConfirmado'
      BY NenhumAssumption DEF FormatoConfirmado, Confirmar, Libertar, Ir
<1>6. SemFalhaDeIncremento'
      BY NenhumAssumption DEF SemFalhaDeIncremento, LinhaVisivel, DonoActivo, ChaveAtribuida,
         Confirmar, Libertar, Ir
<1>7. ValoresConsumidos'
      BY NenhumAssumption DEF ValoresConsumidos, ChaveAtribuida, ValorReservado, Consumou,
         Confirmar, Libertar, Ir
<1>8. NumerosUnicos'
      BY NenhumAssumption DEF NumerosUnicos, ValorReservado, ValoresConsumidos, ChaveAtribuida,
         Consumou, Confirmar, Libertar, Ir
<1>9. SemSaltos'
      BY NenhumAssumption DEF SemSaltos, ValorReservado, ChaveAtribuida, Consumou, Confirmar,
         Libertar, Ir
<1>10. QED
      BY <1>1, <1>2, <1>3, <1>4, <1>5, <1>6, <1>7, <1>8, <1>9 DEF IInv

\* A ROLLBACK leaves the committed rows as they were.
LEMMA ReverterIInv ==
  ASSUME IInv, NEW p \in Pedidos, Reverter(p), EmTransaccao(p)
  PROVE  IInv'
<1> USE DEF IInv, TypeOK
<1>1. TypeOK'
      BY NenhumAssumption DEF EmTransaccao, Reverter, Libertar, Ir, Passos, ChaveAtribuida
<1>2. ChaveAtribuida'
      BY NenhumAssumption DEF ChaveAtribuida, EmTransaccao, Reverter, Libertar, Ir
<1>3. DonoActivo'
      BY NenhumAssumption DEF DonoActivo, ChaveAtribuida, EmTransaccao, Reverter, Libertar, Ir
<1>4. ValorReservado'
      BY NenhumAssumption DEF ValorReservado, ChaveAtribuida, DonoActivo, SemFalhaDeIncremento,
         EmTransaccao, Reverter, Libertar, Ir
<1>5. FormatoConfirmado'
      BY NenhumAssumption DEF FormatoConfirmado, EmTransaccao, Reverter, Libertar, Ir
<1>6. SemFalhaDeIncremento'
      BY NenhumAssumption DEF SemFalhaDeIncremento, LinhaVisivel, DonoActivo, ChaveAtribuida,
         EmTransaccao, Reverter, Libertar, Ir
<1>7. ValoresConsumidos'
      BY NenhumAssumption DEF ValoresConsumidos, ChaveAtribuida, ValorReservado, Consumou,
         EmTransaccao, Reverter, Libertar, Ir
<1>8. NumerosUnicos'
      BY NenhumAssumption DEF NumerosUnicos, ValorReservado, ValoresConsumidos, ChaveAtribuida,
         Consumou, EmTransaccao, Reverter, Libertar, Ir
<1>9. SemSaltos'
      BY NenhumAssumption DEF SemSaltos, ValorReservado, ChaveAtribuida, Consumou, EmTransaccao,
         Reverter, Libertar, Ir
<1>10. QED
      BY <1>1, <1>2, <1>3, <1>4, <1>5, <1>6, <1>7, <1>8, <1>9 DEF IInv

\* The answer, delivered or lost, changes no row.
LEMMA RespostaIInv ==
  ASSUME IInv, NEW p \in Pedidos, Devolver(p) \/ PerderResposta(p)
  PROVE  IInv'
<1> USE DEF IInv, TypeOK
<1>1. TypeOK'
      BY NenhumAssumption DEF Devolver, PerderResposta, Ir, Passos, ChaveAtribuida
<1>2. ChaveAtribuida'
      BY NenhumAssumption DEF ChaveAtribuida, Devolver, PerderResposta, Ir
<1>3. DonoActivo'
      BY NenhumAssumption DEF DonoActivo, ChaveAtribuida, Devolver, PerderResposta, Ir
<1>4. ValorReservado'
      BY NenhumAssumption DEF ValorReservado, ChaveAtribuida, DonoActivo, SemFalhaDeIncremento,
         Devolver, PerderResposta, Ir
<1>5. FormatoConfirmado'
      BY NenhumAssumption DEF FormatoConfirmado, Devolver, PerderResposta, Ir
<1>6. SemFalhaDeIncremento'
      BY NenhumAssumption DEF SemFalhaDeIncremento, LinhaVisivel, DonoActivo, ChaveAtribuida,
         Devolver, PerderResposta, Ir
<1>7. ValoresConsumidos'
      BY NenhumAssumption DEF ValoresConsumidos, ChaveAtribuida, ValorReservado, Consumou,
         Devolver, PerderResposta, Ir
<1>8. NumerosUnicos'
      BY NenhumAssumption DEF NumerosUnicos, ValorReservado, ValoresConsumidos, ChaveAtribuida,
         Consumou, Devolver, PerderResposta, Ir
<1>9. SemSaltos'
      BY NenhumAssumption DEF SemSaltos, ValorReservado, ChaveAtribuida, Consumou, Devolver,
         PerderResposta, Ir
<1>10. QED
      BY <1>1, <1>2, <1>3, <1>4, <1>5, <1>6, <1>7, <1>8, <1>9 DEF IInv

\* The initial states satisfy the invariant.
LEMMA InitIInv == Init => IInv
<1> SUFFICES ASSUME Init PROVE IInv
    OBVIOUS
<1> USE DEF Init
<1>1. TypeOK
      BY AnosAssumption DEF TypeOK, Anos, Passos
<1>2. DonoActivo
      BY NenhumAssumption DEF DonoActivo
<1>3. /\ ChaveAtribuida /\ ValorReservado /\ FormatoConfirmado
      /\ SemFalhaDeIncremento /\ ValoresConsumidos /\ NumerosUnicos
      BY DEF ChaveAtribuida, ValorReservado, FormatoConfirmado,
             SemFalhaDeIncremento, ValoresConsumidos, NumerosUnicos, Consumou
<1>4. SemSaltos
      BY DEF SemSaltos
<1>5. QED
      BY <1>1, <1>2, <1>3, <1>4 DEF IInv

\* A step that leaves the rows and the calls alone.
LEMMA ParadoIInv ==
  ASSUME IInv, ano' \in Anos, UNCHANGED <<existe, ultimo, dono, passo, chave, valor>>
  PROVE  IInv'
  BY DEF IInv, TypeOK, ChaveAtribuida, DonoActivo, ValorReservado, FormatoConfirmado,
         SemFalhaDeIncremento, ValoresConsumidos, NumerosUnicos, SemSaltos,
         LinhaVisivel, Consumou

\* Every step of the calendar and of the calls of gerar preserves it.
LEMMA PassoIInv == IInv /\ [Next]_vars => IInv'
<1> SUFFICES ASSUME IInv, [Next]_vars PROVE IInv'
    OBVIOUS
<1>1. CASE VirarAno
  <2>1. ano' \in Anos
        BY <1>1, AnosAssumption DEF VirarAno, IInv, TypeOK, Anos
  <2>2. QED
        BY <1>1, <2>1, ParadoIInv DEF VirarAno
<1>2. CASE Repouso \/ UNCHANGED vars
      BY <1>2, ParadoIInv DEF Repouso, vars, IInv, TypeOK
<1>3. ASSUME NEW p \in Pedidos, NEW u \in Unidades, NEW t \in Tipos, Chamar(p, u, t)
      PROVE  IInv'
      BY <1>3, ChamarIInv
<1>4. ASSUME NEW p \in Pedidos, InserirSeAusente(p) PROVE IInv'
      BY <1>4, InserirIInv
<1>5. ASSUME NEW p \in Pedidos, Incrementar(p) PROVE IInv'
      BY <1>5, IncrementarIInv
<1>6. ASSUME NEW p \in Pedidos, Formatar(p) PROVE IInv'
      BY <1>6, FormatarIInv
<1>7. ASSUME NEW p \in Pedidos, Confirmar(p) PROVE IInv'
      BY <1>7, ConfirmarIInv
<1>8. ASSUME NEW p \in Pedidos, RejeitarFormato(p) \/ Abortar(p) PROVE IInv'
      BY <1>8, ReverterIInv DEF RejeitarFormato, Abortar, EmTransaccao
<1>9. ASSUME NEW p \in Pedidos, Devolver(p) \/ PerderResposta(p) PROVE IInv'
      BY <1>9, RespostaIInv
<1>10. QED
      BY <1>1, <1>2, <1>3, <1>4, <1>5, <1>6, <1>7, <1>8, <1>9 DEF Next

(* The inductive invariant holds in every reachable state, for any number *)
(* of concurrent calls of gerar.                                          *)
THEOREM Indutivo == Spec => []IInv
<1>1. Init => IInv
      BY InitIInv
<1>2. IInv /\ [Next]_vars => IInv'
      BY PassoIInv
<1>3. QED
      BY <1>1, <1>2, PTL DEF Spec

(* The rows of sequencias_numeracao and the calls of gerar keep their types. *)
THEOREM TipagemCorrecta == Spec => []TypeOK
<1>1. IInv => TypeOK
      BY DEF IInv
<1>2. QED
      BY <1>1, Indutivo, PTL

(* However many calls of gerar run at once, for whichever unit, type and   *)
(* year, no two of them are given the same number.                         *)
THEOREM NumerosSempreUnicos == Spec => []NumerosUnicos
<1>1. IInv => NumerosUnicos
      BY DEF IInv
<1>2. QED
      BY <1>1, Indutivo, PTL

(* ultimo_numero counts exactly the committed calls of gerar: rolled-back  *)
(* calls leave no hole in the numbering.                                   *)
THEOREM ContagemExacta == Spec => []ContadorExacto
<1>1. IInv => ContadorExacto
  <2> SUFFICES ASSUME IInv, NEW k \in Chaves
               PROVE  {valor[p] : p \in {q \in Pedidos : Consumou(q) /\ chave[q] = k}}
                        = 1 .. ultimo[k]
      BY DEF ContadorExacto
  <2>1. \A p \in Pedidos : Consumou(p) /\ chave[p] = k => valor[p] \in 1 .. ultimo[k]
        BY DEF IInv, ValoresConsumidos
  <2>2. \A n \in 1 .. ultimo[k] : \E p \in Pedidos : Consumou(p) /\ chave[p] = k /\ valor[p] = n
        BY DEF IInv, SemSaltos
  <2>3. QED
        BY <2>1, <2>2
<1>2. QED
      BY <1>1, Indutivo, PTL

(* The error "Falha ao incrementar" of gerar is unreachable, whatever the  *)
(* other transactions do.                                                  *)
THEOREM IncrementoNuncaFalha == Spec => []SemFalhaDeIncremento
<1>1. IInv => SemFalhaDeIncremento
      BY DEF IInv
<1>2. QED
      BY <1>1, Indutivo, PTL

(* A call of gerar that commits gets a number above those of all the calls *)
(* of its key that committed before it.                                    *)
THEOREM NumerosPorOrdemDeCommit == Spec => OrdemDeCommit
<1> DEFINE Ordem ==
      \A p, q \in Pedidos :
        ~Consumou(p) /\ Consumou(p)' /\ Consumou(q) /\ chave[q] = chave'[p]
          => valor[q] < valor'[p]
<1>1. IInv /\ [Next]_vars => [Ordem]_vars
  <2> SUFFICES ASSUME IInv, Next, NEW p \in Pedidos, NEW q \in Pedidos,
                      ~Consumou(p), Consumou(p)', Consumou(q), chave[q] = chave'[p]
               PROVE  valor[q] < valor'[p]
      BY DEF Ordem
  <2> USE DEF IInv, TypeOK
  <2>1. Confirmar(p)
        BY DEF Next, VirarAno, Repouso, vars, Chamar, InserirSeAusente, Incrementar, Escrever,
               Formatar, Confirmar, RejeitarFormato, Devolver, Abortar, EmTransaccao,
               PerderResposta, Reverter, Ir, Consumou, Passos
  <2>2. valor[p] = ultimo[chave[p]] + 1 /\ chave[p] \in Chaves
        BY <2>1 DEF Confirmar, ValorReservado, ChaveAtribuida
  <2>3. valor[q] \in 1 .. ultimo[chave[q]]
        BY DEF ValoresConsumidos
  <2>4. QED
        BY <2>1, <2>2, <2>3 DEF Confirmar
<1>2. QED
      BY <1>1, Indutivo, PTL DEF Spec, OrdemDeCommit

(* gerar implements the atomic allocator Numerador.                        *)
THEOREM Implementacao == Spec => ImplementaNumerador
<1>1. Init => Numerador!Init
      BY DEF Init, Numerador!Init, Consumou
<1>2. IInv /\ [Next]_vars => [Numerador!Next]_(Numerador!vars)
  <2> SUFFICES ASSUME IInv, Next PROVE Numerador!Next \/ UNCHANGED Numerador!vars
      BY DEF vars, Numerador!vars, Consumou
  <2> USE DEF IInv, TypeOK
  <2>1. ASSUME NEW p \in Pedidos, Confirmar(p) PROVE Numerador!Next
    <3>0. PICK k \in Chaves : k = chave[p]
          BY <2>1 DEF Confirmar, ChaveAtribuida
    <3>1. /\ valor[p] = ultimo[k] + 1
          /\ FormatoAceite(k, valor[p])
          /\ passo[p] = "confirmar" /\ passo' = [passo EXCEPT ![p] = "confirmado"]
          /\ ultimo' = [ultimo EXCEPT ![k] = valor[p]]
          /\ UNCHANGED <<chave, valor>>
          BY <2>1, <3>0 DEF Confirmar, Ir, ValorReservado, FormatoConfirmado
    <3>2. Numerador!Aberto(p)
          BY <3>1 DEF Numerador!Aberto, Consumou
    <3>3. k[1] \in UnidadesValidas /\ ultimo[k] < Limite
          BY <3>1, LimiteAssumption DEF FormatoAceite
    <3>4. [q \in Pedidos |-> IF Consumou(q) THEN <<chave[q], valor[q]>> ELSE Nenhum]'
            = [[q \in Pedidos |-> IF Consumou(q) THEN <<chave[q], valor[q]>> ELSE Nenhum]
                 EXCEPT ![p] = <<k, ultimo[k] + 1>>]
          BY <3>0, <3>1 DEF Consumou
    <3>5. {q \in Pedidos : passo[q] = "falhou"}' = {q \in Pedidos : passo[q] = "falhou"}
          BY <3>1
    <3>6. Numerador!Atribuir(p, k)
          BY <3>1, <3>2, <3>3, <3>4, <3>5 DEF Numerador!Atribuir
    <3>7. QED
          BY <3>6 DEF Numerador!Next
  <2>2. ASSUME NEW p \in Pedidos, Reverter(p), EmTransaccao(p) PROVE Numerador!Next
    <3>1. Numerador!Recusar(p)
          BY <2>2 DEF Reverter, EmTransaccao, Ir, Consumou, Numerador!Recusar, Numerador!Aberto
    <3>2. QED
          BY <3>1 DEF Numerador!Next
  <2>3. ASSUME NEW p \in Pedidos, NEW u \in Unidades, NEW t \in Tipos, Chamar(p, u, t)
        PROVE  UNCHANGED Numerador!vars
        BY <2>3 DEF Chamar, Ir, Consumou, Numerador!vars
  <2>4. ASSUME NEW p \in Pedidos,
               \/ InserirSeAusente(p) \/ Formatar(p) \/ Devolver(p) \/ PerderResposta(p)
        PROVE  UNCHANGED Numerador!vars
        BY <2>4 DEF InserirSeAusente, Formatar, Devolver, PerderResposta, Ir, Consumou,
           Numerador!vars
  <2>5. ASSUME NEW p \in Pedidos, Incrementar(p)
        PROVE  UNCHANGED Numerador!vars
        BY <2>5 DEF Incrementar, Escrever, SemFalhaDeIncremento, Ir, Consumou, Numerador!vars
  <2>6. ASSUME VirarAno \/ Repouso PROVE UNCHANGED Numerador!vars
        BY <2>6 DEF VirarAno, Repouso, vars, Consumou, Numerador!vars
  <2>7. QED
        BY <2>1, <2>2, <2>3, <2>4, <2>5, <2>6
           DEF Next, RejeitarFormato, Abortar, EmTransaccao
<1>3. QED
      BY <1>1, <1>2, Indutivo, PTL DEF Spec, ImplementaNumerador, Numerador!Spec
-----------------------------------------------------------------------------
\* Call p waits for another transaction: its INSERT for a row not committed,
\* its UPDATE for a row another call holds.
EmEspera(p) ==
  \/ passo[p] = "inserir" /\ ~existe[chave[p]] /\ dono[chave[p]] # Nenhum
  \/ passo[p] = "incrementar" /\ dono[chave[p]] \notin {Nenhum, p}

(* Waiting calls of gerar never form a circle: a call that waits holds no  *)
(* row, and the call it waits for is in its transaction and not waiting,   *)
(* so it can always take its next step.                                    *)
SemEsperaCircular ==
  \A p \in Pedidos :
    EmEspera(p) =>
      /\ \A k \in Chaves : dono[k] # p
      /\ dono[chave[p]] \in Pedidos
      /\ EmTransaccao(dono[chave[p]]) /\ ~EmEspera(dono[chave[p]])

(* The row locks of gerar cannot deadlock, however many calls, units and   *)
(* types there are: the INSERT takes the only row a call ever waits for.   *)
THEOREM EsperasSemCirculo == Spec => []SemEsperaCircular
<1>1. IInv => SemEsperaCircular
  <2> SUFFICES ASSUME IInv, NEW p \in Pedidos, EmEspera(p)
               PROVE  /\ \A k \in Chaves : dono[k] # p
                      /\ dono[chave[p]] \in Pedidos
                      /\ EmTransaccao(dono[chave[p]]) /\ ~EmEspera(dono[chave[p]])
      BY DEF SemEsperaCircular
  <2> USE DEF IInv, TypeOK
  <2>1. PICK k \in Chaves : k = chave[p]
        BY DEF EmEspera, ChaveAtribuida
  <2>2. dono[k] \in Pedidos /\ dono[k] # p
        BY <2>1, NenhumAssumption DEF EmEspera, DonoActivo
  <2>3. PICK q \in Pedidos : q = dono[k]
        BY <2>2
  <2>4. chave[q] = k /\ passo[q] \in {"incrementar", "formatar", "confirmar"}
        BY <2>3 DEF DonoActivo
  <2>5. EmTransaccao(q)
        BY <2>4 DEF EmTransaccao
  <2>6. ~EmEspera(q)
        BY <2>3, <2>4 DEF EmEspera
  <2>7. \A c \in Chaves : dono[c] # p
    <3> SUFFICES ASSUME NEW c \in Chaves, dono[c] = p PROVE FALSE
        OBVIOUS
    <3>1. chave[p] = c
          BY DEF DonoActivo
    <3>2. QED
          BY <2>1, <2>2, <3>1
  <2>8. QED
        BY <2>1, <2>2, <2>3, <2>5, <2>6, <2>7
<1>2. QED
      BY <1>1, Indutivo, PTL
=============================================================================
