-------------------------- MODULE RegistoActo_proofs --------------------------
(***************************************************************************)
(* Proofs about POST /actos-piquete, for any number of requests, users and *)
(* keys.  The argument: a row of idempotency_keys is written only after    *)
(* the act and its audit row, nothing ever takes those back, and between   *)
(* storing its key and answering a request finds its own row there.        *)
(***************************************************************************)
EXTENDS RegistoActo, TLAPS

\* What the allocator hands out.
Numeros ==
  /\ contador \in [Sequencias -> Nat]
  /\ numero \in [Pedidos -> (Sequencias \X Nat) \cup {Nenhum}]

\* What is known of a request at each of its awaits.
Percurso ==
  \A p \in Pedidos :
    /\ passo[p] # "novo" => entrada[p] \in Entradas
    /\ passo[p] \in EmCurso => entrada[p].factosBastam
    /\ passo[p] \in {"verificar", "guardar"} => entrada[p].chave \in Chaves
    /\ passo[p] \in {"numerar", "salvar"} => entrada[p].tipo \in Codigos
    /\ passo[p] = "salvar" => numero[p] \in Sequencias \X Nat
    /\ passo[p] \in {"auditar", "guardar", "responder"} => actos[p] # Nenhum
    /\ passo[p] \in {"guardar", "responder"} => p \in auditoria
    /\ passo[p] # "fim" => resposta[p] = Nenhum

\* An act is of the user whose request created it.
ActosDoUser ==
  \A p \in Pedidos : actos[p] # Nenhum => passo[p] # "novo" /\ actos[p].user = entrada[p].user

\* A key stands for an act that is saved, audited and of the key's user.
IdemDuravel ==
  \A c \in Chaves : idem[c] # Nenhum =>
    /\ actos[idem[c].acto] # Nenhum
    /\ actos[idem[c].acto].user = idem[c].user
    /\ idem[c].acto \in auditoria

\* Between storing its key and answering, a request has its key to itself.
ChaveGuardada ==
  \A p \in Pedidos : passo[p] = "responder" /\ entrada[p].chave # SemChave =>
    /\ idem[entrada[p].chave] # Nenhum
    /\ idem[entrada[p].chave].acto = p
    /\ ~idem[entrada[p].chave].expirada

IInv ==
  /\ TypeOK
  /\ Numeros
  /\ Percurso
  /\ ActosDoUser
  /\ IdemDuravel
  /\ ChaveGuardada
  /\ RespostaDoProprio
  /\ RespostaDuravel

-----------------------------------------------------------------------------
\* The row of a key names the act and its user, and is a row.
LEMMA LinhaIdemTipo ==
  ASSUME NEW p \in Pedidos, entrada[p] \in Entradas
  PROVE  /\ LinhaIdem(p) \in LinhasIdem
         /\ LinhaIdem(p) # Nenhum
         /\ LinhaIdem(p).acto = p
         /\ LinhaIdem(p).user = entrada[p].user
         /\ ~LinhaIdem(p).expirada
<1>1. LinhaIdem(p) \in LinhasIdem
      BY DEF LinhaIdem, LinhasIdem, Utentes
<1>2. LinhaIdem(p) # Nenhum
      BY <1>1, NenhumAssumption
<1>3. QED
      BY <1>1, <1>2 DEF LinhaIdem

\* An expired row is the row it was.
LEMMA LinhaExpirada ==
  ASSUME NEW x \in LinhasIdem
  PROVE  /\ [x EXCEPT !.expirada = TRUE] \in LinhasIdem
         /\ [x EXCEPT !.expirada = TRUE].acto = x.acto
         /\ [x EXCEPT !.expirada = TRUE].user = x.user
  BY DEF LinhasIdem

\* What Responder stores.
LEMMA RespostaCampos ==
  ASSUME NEW e, NEW a
  PROVE  /\ [estado |-> e, acto |-> a].estado = e
         /\ [estado |-> e, acto |-> a].acto = a
  OBVIOUS

\* The series a request is numbered in is one of the allocator's.
LEMMA SerieTipo ==
  ASSUME NEW p \in Pedidos, entrada[p] \in Entradas
  PROVE  Serie(p) \in Sequencias
  BY EntradasAssumption, MaiusculaAssumption DEF Serie, Sequencias

\* The row of an act is a row, and has the request's user, number and unit.
LEMMA LinhaActoTipo ==
  ASSUME NEW p \in Pedidos, entrada[p] \in Entradas, entrada[p].tipo \in Codigos,
         numero[p] \in Sequencias \X Nat
  PROVE  /\ LinhaActo(p) \in Linha
         /\ LinhaActo(p) # Nenhum
         /\ LinhaActo(p).user = entrada[p].user
         /\ LinhaActo(p).numero = numero[p]
         /\ LinhaActo(p).piquete = entrada[p].unidade
<1>1. LinhaActo(p) \in Linha
      BY EntradasAssumption, GeraAssumption DEF LinhaActo, Linha, Utentes
<1>2. LinhaActo(p) # Nenhum
      BY <1>1, NenhumAssumption
<1>3. QED
      BY <1>1, <1>2 DEF LinhaActo

\* A request begins with nothing of its own in any table.
LEMMA ReceberIInv ==
  ASSUME IInv, NEW p \in Pedidos, NEW e \in Entradas, Receber(p, e)
  PROVE  IInv'
<1>1. TypeOK'
      BY EntradasAssumption DEF IInv, TypeOK, EmCurso, Responder, Prosseguir, Ir,
         Receber, varsNumero
<1>2. Numeros'
      BY EntradasAssumption DEF IInv, TypeOK, Numeros, Responder, Prosseguir, Ir,
         Receber, varsNumero
<1>3. Percurso'
      BY EntradasAssumption DEF IInv, TypeOK, Percurso, EmCurso, Responder,
         Prosseguir, Ir, Receber, varsNumero
<1>4. ActosDoUser'
      BY EntradasAssumption DEF IInv, TypeOK, ActosDoUser, Responder, Prosseguir, Ir,
         Receber, varsNumero
<1>5. IdemDuravel'
      BY EntradasAssumption DEF IInv, TypeOK, IdemDuravel, Responder, Prosseguir, Ir,
         Receber, varsNumero
<1>6. ChaveGuardada'
      BY EntradasAssumption DEF IInv, TypeOK, ChaveGuardada, Responder, Prosseguir,
         Ir, Receber, varsNumero
<1>7. RespostaDoProprio'
      BY EntradasAssumption DEF IInv, TypeOK, RespostaDoProprio, Percurso,
         ActosDoUser, Aceite, Responder, Prosseguir, Ir, Receber, varsNumero
<1>8. RespostaDuravel'
      BY EntradasAssumption DEF IInv, TypeOK, RespostaDuravel, Percurso, Aceite,
         Responder, Prosseguir, Ir, Receber, varsNumero
<1>9. QED
      BY <1>1, <1>2, <1>3, <1>4, <1>5, <1>6, <1>7, <1>8 DEF IInv

\* A replay answers what the key's row says, to the row's user only.
LEMMA VerificarIInv ==
  ASSUME IInv, NEW p \in Pedidos, Verificar(p)
  PROVE  IInv'
<1>1. TypeOK'
      BY DEF IInv, TypeOK, EmCurso, Percurso, IdemDuravel, LinhasIdem, Aceite,
         Responder, Prosseguir, Ir, Verificar, varsNumero
<1>2. Numeros'
      BY DEF IInv, TypeOK, Numeros, Percurso, IdemDuravel, LinhasIdem, Aceite,
         Responder, Prosseguir, Ir, Verificar, varsNumero
<1>3. Percurso'
      BY DEF IInv, TypeOK, Percurso, EmCurso, IdemDuravel, LinhasIdem, Aceite,
         Responder, Prosseguir, Ir, Verificar, varsNumero
<1>4. ActosDoUser'
      BY DEF IInv, TypeOK, ActosDoUser, Percurso, IdemDuravel, LinhasIdem, Aceite,
         Responder, Prosseguir, Ir, Verificar, varsNumero
<1>5. IdemDuravel'
      BY DEF IInv, TypeOK, IdemDuravel, Percurso, LinhasIdem, Aceite, Responder,
         Prosseguir, Ir, Verificar, varsNumero
<1>6. ChaveGuardada'
      BY DEF IInv, TypeOK, ChaveGuardada, Percurso, IdemDuravel, LinhasIdem, Aceite,
         Responder, Prosseguir, Ir, Verificar, varsNumero
<1>7. RespostaDoProprio'
      BY DEF IInv, TypeOK, RespostaDoProprio, Percurso, ActosDoUser, Aceite,
         IdemDuravel, LinhasIdem, Responder, Prosseguir, Ir, Verificar, varsNumero
<1>8. RespostaDuravel'
      BY DEF IInv, TypeOK, RespostaDuravel, Percurso, Aceite, IdemDuravel, LinhasIdem,
         Responder, Prosseguir, Ir, Verificar, varsNumero
<1>9. QED
      BY <1>1, <1>2, <1>3, <1>4, <1>5, <1>6, <1>7, <1>8 DEF IInv

\* The type decides whether a number is taken.
LEMMA LerTipoIInv ==
  ASSUME IInv, NEW p \in Pedidos, LerTipo(p)
  PROVE  IInv'
<1>1. TypeOK'
      BY DEF IInv, TypeOK, EmCurso, Responder, Prosseguir, Ir, LerTipo, varsNumero
<1>2. Numeros'
      BY DEF IInv, TypeOK, Numeros, Responder, Prosseguir, Ir, LerTipo, varsNumero
<1>3. Percurso'
      BY DEF IInv, TypeOK, Percurso, EmCurso, Responder, Prosseguir, Ir, LerTipo,
         varsNumero
<1>4. ActosDoUser'
      BY DEF IInv, TypeOK, ActosDoUser, Responder, Prosseguir, Ir, LerTipo, varsNumero
<1>5. IdemDuravel'
      BY DEF IInv, TypeOK, IdemDuravel, Responder, Prosseguir, Ir, LerTipo, varsNumero
<1>6. ChaveGuardada'
      BY DEF IInv, TypeOK, ChaveGuardada, Responder, Prosseguir, Ir, LerTipo,
         varsNumero
<1>7. RespostaDoProprio'
      BY DEF IInv, TypeOK, RespostaDoProprio, Percurso, ActosDoUser, Aceite,
         Responder, Prosseguir, Ir, LerTipo, varsNumero
<1>8. RespostaDuravel'
      BY DEF IInv, TypeOK, RespostaDuravel, Percurso, Aceite, Responder, Prosseguir,
         Ir, LerTipo, varsNumero
<1>9. QED
      BY <1>1, <1>2, <1>3, <1>4, <1>5, <1>6, <1>7, <1>8 DEF IInv

\* A number, or a refusal that ends the request.
LEMMA GerarNumeroIInv ==
  ASSUME IInv, NEW p \in Pedidos, GerarNumero(p)
  PROVE  IInv'
<1>a. Numeros' /\ (passo'[p] = "salvar" => numero'[p] \in Sequencias \X Nat)
  <2>1. Serie(p) \in Sequencias
        BY SerieTipo DEF IInv, Percurso, GerarNumero
  <2>2. \A k \in Sequencias : contador[k] + 1 \in Nat /\ <<k, contador[k] + 1>> \in Sequencias \X Nat
        BY DEF IInv, Numeros
  <2>3. CASE Numerador!Atribuir(p, Serie(p))
    <3> DEFINE k == Serie(p)
    <3> HIDE DEF k
    <3>1. /\ contador' = [contador EXCEPT ![k] = contador[k] + 1]
          /\ numero' = [numero EXCEPT ![p] = <<k, contador[k] + 1>>]
          BY <2>3 DEF Numerador!Atribuir, k
    <3>2. k \in Sequencias
          BY <2>1 DEF k
    <3>3. QED
          BY <2>2, <3>1, <3>2 DEF IInv, Numeros
  <2>4. CASE Numerador!Recusar(p) /\ Responder(p, 500, Nenhum)
        BY <2>4 DEF IInv, TypeOK, Numeros, Responder, Ir, Numerador!Recusar
  <2>5. QED
        BY <2>3, <2>4 DEF GerarNumero
<1>b. \A q \in Pedidos \ {p} : numero'[q] = numero[q]
      BY DEF IInv, Numeros, GerarNumero, Numerador!Atribuir, Numerador!Recusar
<1>1. TypeOK'
      BY EntradasAssumption DEF IInv, TypeOK, EmCurso, Responder, Prosseguir, Ir,
         GerarNumero, Numerador!Atribuir, Numerador!Recusar, varsNumero
<1>2. Numeros'
      BY <1>a
<1>3. Percurso'
      BY <1>a, <1>b DEF IInv, TypeOK, Percurso, EmCurso, Responder, Prosseguir, Ir, GerarNumero
<1>4. ActosDoUser'
      BY EntradasAssumption DEF IInv, TypeOK, ActosDoUser, Responder, Prosseguir, Ir,
         GerarNumero, Numerador!Atribuir, Numerador!Recusar, varsNumero
<1>5. IdemDuravel'
      BY EntradasAssumption DEF IInv, TypeOK, IdemDuravel, Responder, Prosseguir, Ir,
         GerarNumero, Numerador!Atribuir, Numerador!Recusar, varsNumero
<1>6. ChaveGuardada'
      BY EntradasAssumption DEF IInv, TypeOK, ChaveGuardada, Responder, Prosseguir,
         Ir, GerarNumero, Numerador!Atribuir, Numerador!Recusar, varsNumero
<1>7. RespostaDoProprio'
      BY EntradasAssumption DEF IInv, TypeOK, RespostaDoProprio, Percurso,
         ActosDoUser, Aceite, Responder, Prosseguir, Ir, GerarNumero,
         Numerador!Atribuir, Numerador!Recusar, varsNumero
<1>8. RespostaDuravel'
      BY EntradasAssumption DEF IInv, TypeOK, RespostaDuravel, Percurso, Aceite,
         Responder, Prosseguir, Ir, GerarNumero, Numerador!Atribuir,
         Numerador!Recusar, varsNumero
<1>9. QED
      BY <1>1, <1>2, <1>3, <1>4, <1>5, <1>6, <1>7, <1>8 DEF IInv

\* The act is saved for the request's user.
LEMMA SalvarActoIInv ==
  ASSUME IInv, NEW p \in Pedidos, SalvarActo(p)
  PROVE  IInv'
<1>a. /\ LinhaActo(p) \in Linha /\ LinhaActo(p) # Nenhum
      /\ LinhaActo(p).user = entrada[p].user
      BY LinhaActoTipo DEF IInv, Percurso, SalvarActo
<1>b. /\ actos' = [actos EXCEPT ![p] = LinhaActo(p)]
      /\ passo' = [passo EXCEPT ![p] = "auditar"]
      /\ UNCHANGED resposta
      BY DEF IInv, Percurso, EmCurso, SalvarActo, Prosseguir, Ir
<1>c. /\ actos' \in [Pedidos -> Linha \cup {Nenhum}]
      /\ \A q \in Pedidos \ {p} : actos'[q] = actos[q] /\ passo'[q] = passo[q]
      /\ actos'[p] = LinhaActo(p) /\ passo'[p] = "auditar"
      BY <1>a, <1>b DEF IInv, TypeOK
<1>1. TypeOK'
      BY <1>b, <1>c DEF IInv, TypeOK, EmCurso, SalvarActo
<1>2. Numeros'
      BY DEF IInv, Numeros, SalvarActo, varsNumero
<1>3. Percurso'
      BY <1>a, <1>b, <1>c DEF IInv, Percurso, EmCurso, SalvarActo, varsNumero
<1>4. ActosDoUser'
      BY <1>a, <1>c DEF IInv, ActosDoUser, SalvarActo
<1>5. IdemDuravel'
      BY <1>a, <1>c DEF IInv, TypeOK, IdemDuravel, LinhasIdem, ActosDoUser, SalvarActo
<1>6. ChaveGuardada'
      BY <1>c DEF IInv, ChaveGuardada, SalvarActo
<1>7. RespostaDoProprio'
      BY <1>a, <1>b, <1>c DEF IInv, TypeOK, RespostaDoProprio, RespostaDuravel, ActosDoUser,
         Aceite, SalvarActo
<1>8. RespostaDuravel'
      BY <1>a, <1>b, <1>c DEF IInv, RespostaDuravel, Aceite, SalvarActo
<1>9. QED
      BY <1>1, <1>2, <1>3, <1>4, <1>5, <1>6, <1>7, <1>8 DEF IInv

\* The audit row follows the act.
LEMMA AuditarIInv ==
  ASSUME IInv, NEW p \in Pedidos, Auditar(p)
  PROVE  IInv'
<1>1. TypeOK'
      BY EntradasAssumption DEF IInv, TypeOK, EmCurso, Percurso, Responder,
         Prosseguir, Ir, Auditar, varsNumero
<1>2. Numeros'
      BY EntradasAssumption DEF IInv, TypeOK, Numeros, Percurso, Responder,
         Prosseguir, Ir, Auditar, varsNumero
<1>3. Percurso'
      BY EntradasAssumption DEF IInv, TypeOK, Percurso, EmCurso, Responder,
         Prosseguir, Ir, Auditar, varsNumero
<1>4. ActosDoUser'
      BY EntradasAssumption DEF IInv, TypeOK, ActosDoUser, Percurso, Responder,
         Prosseguir, Ir, Auditar, varsNumero
<1>5. IdemDuravel'
      BY EntradasAssumption DEF IInv, TypeOK, IdemDuravel, Percurso, Responder,
         Prosseguir, Ir, Auditar, varsNumero
<1>6. ChaveGuardada'
      BY EntradasAssumption DEF IInv, TypeOK, ChaveGuardada, Percurso, Responder,
         Prosseguir, Ir, Auditar, varsNumero
<1>7. RespostaDoProprio'
      BY EntradasAssumption DEF IInv, TypeOK, RespostaDoProprio, Percurso,
         ActosDoUser, Aceite, Responder, Prosseguir, Ir, Auditar, varsNumero
<1>8. RespostaDuravel'
      BY EntradasAssumption DEF IInv, TypeOK, RespostaDuravel, Percurso, Aceite,
         Responder, Prosseguir, Ir, Auditar, varsNumero
<1>9. QED
      BY <1>1, <1>2, <1>3, <1>4, <1>5, <1>6, <1>7, <1>8 DEF IInv

\* The key is stored for an act that is saved and audited.
LEMMA GuardarIInv ==
  ASSUME IInv, NEW p \in Pedidos, Guardar(p)
  PROVE  IInv'
<1>a. entrada[p] \in Entradas /\ entrada[p].chave \in Chaves
      BY DEF IInv, Percurso, Guardar
<1>b. /\ idem' \in [Chaves -> LinhasIdem \cup {Nenhum}]
      /\ \A c \in Chaves : idem'[c] # idem[c] =>
           /\ c = entrada[p].chave /\ idem[c] = Nenhum
           /\ idem'[c] # Nenhum /\ idem'[c].acto = p
           /\ idem'[c].user = entrada[p].user /\ ~idem'[c].expirada
      /\ passo'[p] = "responder" => idem'[entrada[p].chave] # idem[entrada[p].chave]
      BY <1>a, LinhaIdemTipo DEF IInv, TypeOK, Guardar, Responder, Prosseguir, Ir
<1>1. TypeOK'
      BY <1>b DEF IInv, TypeOK, EmCurso, Guardar, Responder, Prosseguir, Ir
<1>2. Numeros'
      BY DEF IInv, TypeOK, Numeros, Responder, Prosseguir, Ir, Guardar, varsNumero
<1>3. Percurso'
      BY DEF IInv, TypeOK, Percurso, EmCurso, Responder, Prosseguir, Ir, Guardar,
         varsNumero
<1>4. ActosDoUser'
      BY DEF IInv, TypeOK, ActosDoUser, Responder, Prosseguir, Ir, Guardar, varsNumero
<1>5. IdemDuravel'
      BY <1>b DEF IInv, TypeOK, IdemDuravel, Percurso, ActosDoUser, Guardar
<1>6. ChaveGuardada'
  <2>1. \A q \in Pedidos \ {p} : passo'[q] = "responder" => passo[q] = "responder"
        BY DEF IInv, TypeOK, Guardar, Responder, Prosseguir, Ir
  <2>2. \A q \in Pedidos : passo[q] = "responder" => entrada[q].chave \in Chaves \cup {SemChave}
        BY EntradasAssumption DEF IInv, Percurso
  <2>3. QED
        BY <1>a, <1>b, <2>1, <2>2 DEF IInv, ChaveGuardada, Guardar
<1>7. RespostaDoProprio'
      BY DEF IInv, TypeOK, RespostaDoProprio, Percurso, ActosDoUser, Aceite,
         Responder, Prosseguir, Ir, Guardar, varsNumero
<1>8. RespostaDuravel'
      BY DEF IInv, TypeOK, RespostaDuravel, Percurso, Aceite, Responder, Prosseguir,
         Ir, Guardar, varsNumero
<1>9. QED
      BY <1>1, <1>2, <1>3, <1>4, <1>5, <1>6, <1>7, <1>8 DEF IInv

\* The answer names the request's own act.
LEMMA DevolverActoIInv ==
  ASSUME IInv, NEW p \in Pedidos, DevolverActo(p)
  PROVE  IInv'
<1>1. TypeOK'
      BY DEF IInv, TypeOK, EmCurso, Responder, Prosseguir, Ir, DevolverActo,
         varsNumero
<1>2. Numeros'
      BY DEF IInv, TypeOK, Numeros, Responder, Prosseguir, Ir, DevolverActo,
         varsNumero
<1>3. Percurso'
      BY DEF IInv, TypeOK, Percurso, EmCurso, Responder, Prosseguir, Ir, DevolverActo,
         varsNumero
<1>4. ActosDoUser'
      BY DEF IInv, TypeOK, ActosDoUser, Responder, Prosseguir, Ir, DevolverActo,
         varsNumero
<1>5. IdemDuravel'
      BY DEF IInv, TypeOK, IdemDuravel, Responder, Prosseguir, Ir, DevolverActo,
         varsNumero
<1>6. ChaveGuardada'
      BY DEF IInv, TypeOK, ChaveGuardada, Responder, Prosseguir, Ir, DevolverActo,
         varsNumero
<1>7. RespostaDoProprio'
      BY DEF IInv, TypeOK, RespostaDoProprio, Percurso, ActosDoUser, Aceite,
         Responder, Prosseguir, Ir, DevolverActo, varsNumero
<1>8. RespostaDuravel'
      BY DEF IInv, TypeOK, RespostaDuravel, Percurso, Aceite, Responder, Prosseguir,
         Ir, DevolverActo, varsNumero
<1>9. QED
      BY <1>1, <1>2, <1>3, <1>4, <1>5, <1>6, <1>7, <1>8 DEF IInv

\* A failure writes nothing.
LEMMA FalharIInv ==
  ASSUME IInv, NEW p \in Pedidos, Falhar(p)
  PROVE  IInv'
<1>1. TypeOK'
      BY DEF IInv, TypeOK, EmCurso, Responder, Prosseguir, Ir, Falhar, varsNumero
<1>2. Numeros'
      BY DEF IInv, TypeOK, Numeros, Responder, Prosseguir, Ir, Falhar, varsNumero
<1>3. Percurso'
      BY DEF IInv, TypeOK, Percurso, EmCurso, Responder, Prosseguir, Ir, Falhar,
         varsNumero
<1>4. ActosDoUser'
      BY DEF IInv, TypeOK, ActosDoUser, Responder, Prosseguir, Ir, Falhar, varsNumero
<1>5. IdemDuravel'
      BY DEF IInv, TypeOK, IdemDuravel, Responder, Prosseguir, Ir, Falhar, varsNumero
<1>6. ChaveGuardada'
      BY DEF IInv, TypeOK, ChaveGuardada, Responder, Prosseguir, Ir, Falhar,
         varsNumero
<1>7. RespostaDoProprio'
      BY DEF IInv, TypeOK, RespostaDoProprio, Percurso, ActosDoUser, Aceite,
         Responder, Prosseguir, Ir, Falhar, varsNumero
<1>8. RespostaDuravel'
      BY DEF IInv, TypeOK, RespostaDuravel, Percurso, Aceite, Responder, Prosseguir,
         Ir, Falhar, varsNumero
<1>9. QED
      BY <1>1, <1>2, <1>3, <1>4, <1>5, <1>6, <1>7, <1>8 DEF IInv

\* A key expires after the request that stored it has answered.
LEMMA ExpirarIInv ==
  ASSUME IInv, NEW c \in Chaves, Expirar(c)
  PROVE  IInv'
<1>a. /\ idem[c] \in LinhasIdem
      /\ idem' = [idem EXCEPT ![c] = [idem[c] EXCEPT !.expirada = TRUE]]
      BY DEF IInv, TypeOK, Expirar
<1>b. /\ idem' \in [Chaves -> LinhasIdem \cup {Nenhum}]
      /\ idem'[c] # Nenhum /\ idem'[c].acto = idem[c].acto /\ idem'[c].user = idem[c].user
      /\ \A k \in Chaves \ {c} : idem'[k] = idem[k]
      BY <1>a, LinhaExpirada, NenhumAssumption DEF IInv, TypeOK
<1>1. TypeOK'
      BY <1>b DEF IInv, TypeOK, Expirar
<1>2. Numeros'
      BY DEF IInv, TypeOK, Numeros, Responder, Prosseguir, Ir, Expirar, varsNumero
<1>3. Percurso'
      BY DEF IInv, TypeOK, Percurso, EmCurso, Responder, Prosseguir, Ir, Expirar,
         varsNumero
<1>4. ActosDoUser'
      BY DEF IInv, TypeOK, ActosDoUser, Responder, Prosseguir, Ir, Expirar, varsNumero
<1>5. IdemDuravel'
      BY <1>b DEF IInv, IdemDuravel, Expirar
<1>6. ChaveGuardada'
  <2>1. \A q \in Pedidos : passo[q] = "responder" => entrada[q].chave \in Chaves \cup {SemChave}
        BY EntradasAssumption DEF IInv, Percurso
  <2>2. QED
        BY <1>b, <2>1 DEF IInv, ChaveGuardada, Expirar
<1>7. RespostaDoProprio'
      BY DEF IInv, TypeOK, RespostaDoProprio, Percurso, ActosDoUser, Aceite,
         Responder, Prosseguir, Ir, Expirar, varsNumero
<1>8. RespostaDuravel'
      BY DEF IInv, TypeOK, RespostaDuravel, Percurso, Aceite, Responder, Prosseguir,
         Ir, Expirar, varsNumero
<1>9. QED
      BY <1>1, <1>2, <1>3, <1>4, <1>5, <1>6, <1>7, <1>8 DEF IInv

\* Only expired rows are removed.
LEMMA LimparIInv ==
  ASSUME IInv, LimparExpirados
  PROVE  IInv'
<1>1. TypeOK'
      BY DEF IInv, TypeOK, EmCurso, Responder, Prosseguir, Ir, LimparExpirados,
         varsNumero
<1>2. Numeros'
      BY DEF IInv, TypeOK, Numeros, Responder, Prosseguir, Ir, LimparExpirados,
         varsNumero
<1>3. Percurso'
      BY DEF IInv, TypeOK, Percurso, EmCurso, Responder, Prosseguir, Ir,
         LimparExpirados, varsNumero
<1>4. ActosDoUser'
      BY DEF IInv, TypeOK, ActosDoUser, Responder, Prosseguir, Ir, LimparExpirados,
         varsNumero
<1>5. IdemDuravel'
      BY DEF IInv, TypeOK, IdemDuravel, Responder, Prosseguir, Ir, LimparExpirados,
         varsNumero
<1>6. ChaveGuardada'
  <2>1. \A q \in Pedidos : passo[q] = "responder" => entrada[q].chave \in Chaves \cup {SemChave}
        BY EntradasAssumption DEF IInv, Percurso
  <2>2. QED
        BY <2>1 DEF IInv, ChaveGuardada, LimparExpirados
<1>7. RespostaDoProprio'
      BY DEF IInv, TypeOK, RespostaDoProprio, Percurso, ActosDoUser, Aceite,
         Responder, Prosseguir, Ir, LimparExpirados, varsNumero
<1>8. RespostaDuravel'
      BY DEF IInv, TypeOK, RespostaDuravel, Percurso, Aceite, Responder, Prosseguir,
         Ir, LimparExpirados, varsNumero
<1>9. QED
      BY <1>1, <1>2, <1>3, <1>4, <1>5, <1>6, <1>7, <1>8 DEF IInv

\* Nobody's act depends on the types any more.
LEMMA AlternarIInv ==
  ASSUME IInv, NEW t \in Codigos, AlternarTipo(t)
  PROVE  IInv'
<1>1. TypeOK'
      BY DEF IInv, TypeOK, EmCurso, Responder, Prosseguir, Ir, AlternarTipo,
         varsNumero
<1>2. Numeros'
      BY DEF IInv, TypeOK, Numeros, Responder, Prosseguir, Ir, AlternarTipo,
         varsNumero
<1>3. Percurso'
      BY DEF IInv, TypeOK, Percurso, EmCurso, Responder, Prosseguir, Ir, AlternarTipo,
         varsNumero
<1>4. ActosDoUser'
      BY DEF IInv, TypeOK, ActosDoUser, Responder, Prosseguir, Ir, AlternarTipo,
         varsNumero
<1>5. IdemDuravel'
      BY DEF IInv, TypeOK, IdemDuravel, Responder, Prosseguir, Ir, AlternarTipo,
         varsNumero
<1>6. ChaveGuardada'
      BY DEF IInv, TypeOK, ChaveGuardada, Responder, Prosseguir, Ir, AlternarTipo,
         varsNumero
<1>7. RespostaDoProprio'
      BY DEF IInv, TypeOK, RespostaDoProprio, Percurso, ActosDoUser, Aceite,
         Responder, Prosseguir, Ir, AlternarTipo, varsNumero
<1>8. RespostaDuravel'
      BY DEF IInv, TypeOK, RespostaDuravel, Percurso, Aceite, Responder, Prosseguir,
         Ir, AlternarTipo, varsNumero
<1>9. QED
      BY <1>1, <1>2, <1>3, <1>4, <1>5, <1>6, <1>7, <1>8 DEF IInv

-----------------------------------------------------------------------------
\* Nothing is stored and nothing has been answered.
LEMMA InitIInv == Init => IInv
<1> SUFFICES ASSUME Init
             PROVE  IInv
    OBVIOUS
<1>1. TypeOK
      BY DEF Init, TypeOK, EmCurso
<1>2. Numeros
      BY DEF Init, Numeros, Numerador!Init
<1>3. Percurso /\ ActosDoUser /\ IdemDuravel /\ ChaveGuardada
      BY DEF Init, Percurso, EmCurso, ActosDoUser, IdemDuravel, ChaveGuardada
<1>4. RespostaDoProprio /\ RespostaDuravel
      BY DEF Init, RespostaDoProprio, RespostaDuravel, Aceite
<1>5. QED
      BY <1>1, <1>2, <1>3, <1>4 DEF IInv

\* Every step keeps the inductive invariant.
LEMMA PassoIInv == IInv /\ [Next]_vars => IInv'
<1> SUFFICES ASSUME IInv, [Next]_vars
             PROVE  IInv'
    OBVIOUS
<1>1. ASSUME NEW p \in Pedidos, NEW e \in Entradas, Receber(p, e)
      PROVE  IInv'
      BY <1>1, ReceberIInv
<1>2. ASSUME NEW p \in Pedidos, Verificar(p) \/ LerTipo(p) \/ GerarNumero(p)
      PROVE  IInv'
      BY <1>2, VerificarIInv, LerTipoIInv, GerarNumeroIInv
<1>3. ASSUME NEW p \in Pedidos, SalvarActo(p) \/ Auditar(p) \/ Guardar(p)
      PROVE  IInv'
      BY <1>3, SalvarActoIInv, AuditarIInv, GuardarIInv
<1>4. ASSUME NEW p \in Pedidos, DevolverActo(p) \/ Falhar(p)
      PROVE  IInv'
      BY <1>4, DevolverActoIInv, FalharIInv
<1>5. ASSUME NEW c \in Chaves, Expirar(c)
      PROVE  IInv'
      BY <1>5, ExpirarIInv
<1>6. CASE LimparExpirados
      BY <1>6, LimparIInv
<1>7. ASSUME NEW t \in Codigos, AlternarTipo(t)
      PROVE  IInv'
      BY <1>7, AlternarIInv
<1>8. CASE UNCHANGED vars
      BY <1>8 DEF IInv, TypeOK, Numeros, Percurso, ActosDoUser, IdemDuravel, ChaveGuardada,
         RespostaDoProprio, RespostaDuravel, Aceite, LinhaIdem, vars, varsNumero
<1>9. QED
      BY <1>1, <1>2, <1>3, <1>4, <1>5, <1>6, <1>7, <1>8 DEF Next

\* Every reachable state satisfies the inductive invariant.
THEOREM Indutivo == Spec => []IInv
<1>1. QED
      BY InitIInv, PassoIInv, PTL DEF Spec

\* The tables and the requests are well typed, whatever the allocator refuses.
THEOREM TipagemCorrecta == Spec => []TypeOK
<1>1. IInv => TypeOK
      BY DEF IInv
<1>2. QED
      BY <1>1, Indutivo, PTL

\* A user is only answered with an act of his own (verificar compares users).
THEOREM RespostaSempreDoProprio == Spec => []RespostaDoProprio
<1>1. IInv => RespostaDoProprio
      BY DEF IInv
<1>2. QED
      BY <1>1, Indutivo, PTL

\* An act a client is told of is saved and audited (save, registar, then 201).
THEOREM RespostaSempreDuravel == Spec => []RespostaDuravel
<1>1. IInv => RespostaDuravel
      BY DEF IInv
<1>2. QED
      BY <1>1, Indutivo, PTL

\* A request with a key is answered 201 only with the act of the key's row, its
\* own (guardar) or an earlier one (verificar).
THEOREM RespostaSempreDaChave == Spec => RespostaDaChave
<1> DEFINE A == \A p \in Pedidos :
                  ~Aceite(p) /\ Aceite(p)' /\ entrada[p].chave # SemChave
                    => /\ idem'[entrada[p].chave] # Nenhum
                       /\ idem'[entrada[p].chave].acto = resposta'[p].acto
<1>1. ASSUME IInv, [Next]_vars
      PROVE  [A]_vars
  <2>1. ASSUME NEW p \in Pedidos, ~Aceite(p), Aceite(p)'
        PROVE  Verificar(p) \/ DevolverActo(p)
    <3>1. resposta'[p] # resposta[p] /\ resposta'[p].estado = 201
          BY <2>1 DEF Aceite
    <3>2. \/ \E q \in Pedidos : Verificar(q) \/ DevolverActo(q)
          \/ resposta' = resposta
          \/ \E q \in Pedidos, e \in {400, 404, 422, 500} : Responder(q, e, Nenhum)
      <4>1. ASSUME NEW q \in Pedidos,
                   \/ \E e \in Entradas : Receber(q, e)
                   \/ LerTipo(q) \/ GerarNumero(q) \/ SalvarActo(q) \/ Guardar(q) \/ Falhar(q)
            PROVE  \/ resposta' = resposta
                   \/ \E e \in {400, 404, 422, 500} : Responder(q, e, Nenhum)
            BY <4>1 DEF Receber, LerTipo, GerarNumero, SalvarActo, Guardar, Falhar, Prosseguir
      <4>2. ASSUME NEW q \in Pedidos, Auditar(q)
            PROVE  resposta' = resposta
            BY <4>2 DEF Auditar, Prosseguir
      <4>3. ASSUME \/ \E c \in Chaves : Expirar(c)
                   \/ LimparExpirados \/ \E t \in Codigos : AlternarTipo(t)
                   \/ UNCHANGED vars
            PROVE  resposta' = resposta
            BY <4>3 DEF Expirar, LimparExpirados, AlternarTipo, vars
      <4>4. QED
            BY <1>1, <4>1, <4>2, <4>3 DEF Next
    <3>3. QED
          BY <1>1, <3>1, <3>2 DEF IInv, TypeOK, Verificar, DevolverActo, Responder, Prosseguir
  <2>2. ASSUME NEW p \in Pedidos, Verificar(p), Aceite(p)', entrada[p].chave # SemChave
        PROVE  /\ idem'[entrada[p].chave] # Nenhum
               /\ idem'[entrada[p].chave].acto = resposta'[p].acto
        BY <1>1, <2>2 DEF IInv, TypeOK, Percurso, Verificar, Responder, Prosseguir, Aceite
  <2>3. ASSUME NEW p \in Pedidos, DevolverActo(p), entrada[p].chave # SemChave
        PROVE  /\ idem'[entrada[p].chave] # Nenhum
               /\ idem'[entrada[p].chave].acto = resposta'[p].acto
        BY <1>1, <2>3 DEF IInv, TypeOK, ChaveGuardada, DevolverActo, Responder
  <2>4. QED
        BY <2>1, <2>2, <2>3
<1>2. QED
      BY <1>1, Indutivo, PTL DEF Spec, RespostaDaChave

-----------------------------------------------------------------------------
\* The number of a request is the one the allocator gave it, under the key of its unit.
Numerados ==
  \A p \in Pedidos :
    /\ actos[p] # Nenhum =>
         /\ passo[p] \in {"auditar", "guardar", "responder", "fim"}
         /\ actos[p].numero = numero[p]
         /\ actos[p].piquete = entrada[p].unidade
    /\ ComNumero(p) =>
         /\ numero[p] \in Sequencias \X Nat
         /\ numero[p][1] = Serie(p)
         /\ numero[p][2] <= contador[numero[p][1]]

Distintos ==
  \A p, q \in Pedidos : ComNumero(p) /\ ComNumero(q) /\ numero[p] = numero[q] => p = q

\* However requests interleave and fail, no two acts have the same number, and
\* an act is numbered in the ACTO series of the unit it is registered for.
NumerosDosActos ==
  \A p, q \in Pedidos :
    actos[p] # Nenhum /\ actos[q] # Nenhum =>
      /\ actos[p].numero = actos[q].numero => p = q
      /\ actos[p].numero[1] = <<Maiuscula[actos[p].piquete], "ACTO">>

NInv == IInv /\ Numerados /\ Distintos /\ FurosExplicados

\* The steps of request p itself.
Proprio(p) ==
  \/ \E e \in Entradas : Receber(p, e)
  \/ Verificar(p) \/ LerTipo(p) \/ GerarNumero(p) \/ SalvarActo(p)
  \/ Auditar(p) \/ Guardar(p) \/ DevolverActo(p) \/ Falhar(p)

\* What is kept of request p.
Parado(p) ==
  /\ passo'[p] = passo[p] /\ entrada'[p] = entrada[p] /\ actos'[p] = actos[p]
  /\ resposta'[p] = resposta[p] /\ numero'[p] = numero[p]

\* A step of another request, or of a key or a type, leaves a request as it was.
LEMMA SoOProprio ==
  ASSUME IInv, [Next]_vars, NEW p \in Pedidos
  PROVE  Proprio(p) \/ Parado(p)
<1>1. ASSUME NEW q \in Pedidos, q # p, Verificar(q) \/ LerTipo(q) \/ DevolverActo(q) \/ Falhar(q)
      PROVE  Parado(p)
      BY <1>1 DEF IInv, TypeOK, Parado, Verificar, LerTipo, DevolverActo, Falhar, Responder,
         Prosseguir, Ir, varsNumero
<1>2. ASSUME NEW q \in Pedidos, q # p, Auditar(q) \/ Guardar(q) \/ \E e \in Entradas : Receber(q, e)
      PROVE  Parado(p)
      BY <1>2 DEF IInv, TypeOK, Parado, Auditar, Guardar, Receber, Responder, Prosseguir, Ir,
         varsNumero
<1>3. ASSUME NEW q \in Pedidos, q # p, GerarNumero(q)
      PROVE  Parado(p)
      BY <1>3 DEF IInv, TypeOK, Numeros, Parado, GerarNumero, Responder, Prosseguir, Ir,
         Numerador!Atribuir, Numerador!Recusar
<1>4. ASSUME NEW q \in Pedidos, q # p, SalvarActo(q)
      PROVE  Parado(p)
      BY <1>4 DEF IInv, TypeOK, Parado, SalvarActo, Responder, Prosseguir, Ir, varsNumero
<1>5. ASSUME \/ \E c \in Chaves : Expirar(c)
             \/ LimparExpirados \/ \E t \in Codigos : AlternarTipo(t)
             \/ UNCHANGED vars
      PROVE  Parado(p)
      BY <1>5 DEF Parado, Expirar, LimparExpirados, AlternarTipo, vars, varsNumero
<1>6. QED
      BY <1>1, <1>2, <1>3, <1>4, <1>5 DEF Next, Proprio

\* Where a request's own step takes it, as far as its number is concerned: it
\* takes a number, keeps the one it has, or ends in a failure with it.
LEMMA PassoDoNumero ==
  ASSUME IInv, NEW p \in Pedidos, Proprio(p), ~GerarNumero(p)
  PROVE  /\ numero'[p] = numero[p]
         /\ passo[p] # "novo" => entrada'[p] = entrada[p]
         /\ ComNumero(p)' => ComNumero(p) /\ passo[p] # "novo"
         /\ ComNumero(p) => ComNumero(p)' \/ Falhado(p)'
         /\ ~Falhado(p)
         /\ passo[p] \in {"salvar", "auditar", "guardar", "responder"} =>
              passo'[p] \in {"auditar", "guardar", "responder", "fim"}
         /\ \/ actos'[p] = actos[p] /\ passo'[p] # "salvar"
            \/ /\ actos'[p] # Nenhum /\ passo[p] = "salvar"
               /\ actos'[p].numero = numero[p]
               /\ actos'[p].piquete = entrada[p].unidade
<1>1. passo[p] # "fim" /\ resposta[p] = Nenhum
      BY DEF IInv, Percurso, Proprio, Receber, Verificar, LerTipo, GerarNumero, SalvarActo,
         Auditar, Guardar, DevolverActo, Falhar, EmCurso
<1>2. ~Falhado(p)
      BY <1>1 DEF Falhado
<1>3. CASE \E e \in Entradas : Receber(p, e)
  <2>1. /\ passo[p] = "novo" /\ actos[p] = Nenhum
        /\ passo'[p] \in {"verificar", "tipo", "fim"} /\ actos' = actos /\ numero' = numero
        BY <1>3 DEF IInv, TypeOK, ActosDoUser, Receber, Responder, Prosseguir, Ir, varsNumero
  <2>2. QED
        BY <1>2, <2>1 DEF ComNumero
<1>4. CASE Verificar(p) \/ LerTipo(p)
  <2>1. /\ passo[p] \in {"verificar", "tipo"} /\ passo'[p] \in {"tipo", "numerar", "fim"}
        /\ actos' = actos /\ numero' = numero /\ entrada' = entrada
        BY <1>4 DEF IInv, TypeOK, Verificar, LerTipo, Responder, Prosseguir, Ir, varsNumero
  <2>2. QED
        BY <1>2, <2>1 DEF ComNumero
<1>5. CASE SalvarActo(p)
  <2>1. /\ passo[p] = "salvar" /\ numero' = numero /\ entrada' = entrada
        /\ entrada[p].factosBastam
        BY <1>5 DEF IInv, Percurso, EmCurso, SalvarActo, varsNumero
  <2>2. /\ LinhaActo(p) # Nenhum /\ LinhaActo(p).numero = numero[p]
        /\ LinhaActo(p).piquete = entrada[p].unidade
        BY <2>1, LinhaActoTipo DEF IInv, Percurso
  <2>3. actos'[p] = LinhaActo(p) /\ passo'[p] = "auditar"
        BY <1>5, <2>1 DEF IInv, TypeOK, SalvarActo, Prosseguir, Ir
  <2>4. QED
        BY <1>2, <2>1, <2>2, <2>3 DEF ComNumero
<1>6. CASE Auditar(p) \/ Guardar(p) \/ DevolverActo(p)
  <2>1. /\ passo[p] \in {"auditar", "guardar", "responder"}
        /\ passo'[p] \in {"guardar", "responder", "fim"}
        /\ actos' = actos /\ numero' = numero /\ entrada' = entrada
        BY <1>6 DEF IInv, TypeOK, Auditar, Guardar, DevolverActo, Responder, Prosseguir, Ir, varsNumero
  <2>2. QED
        BY <1>2, <2>1 DEF ComNumero
<1>7. CASE Falhar(p)
  <2>1. /\ passo'[p] = "fim" /\ passo[p] \in EmCurso
        /\ resposta'[p] = [estado |-> 500, acto |-> Nenhum]
        /\ actos' = actos /\ numero' = numero /\ entrada' = entrada
        BY <1>7 DEF IInv, TypeOK, Falhar, Responder, Ir, varsNumero
  <2>2. Falhado(p)'
        BY <2>1 DEF Falhado
  <2>3. QED
        BY <1>2, <2>1, <2>2 DEF ComNumero, EmCurso
<1>8. QED
      BY <1>3, <1>4, <1>5, <1>6, <1>7 DEF Proprio

\* Taking a number: the next one of the unit's series, for this request alone.
LEMMA PassoNumera ==
  ASSUME IInv, NEW p \in Pedidos, GerarNumero(p), passo'[p] = "salvar"
  PROVE  LET k == Serie(p) IN
         /\ k \in Sequencias
         /\ contador' = [contador EXCEPT ![k] = contador[k] + 1]
         /\ numero' = [numero EXCEPT ![p] = <<k, contador[k] + 1>>]
         /\ entrada' = entrada /\ actos' = actos
         /\ passo[p] = "numerar" /\ passo' = [passo EXCEPT ![p] = "salvar"]
         /\ resposta' = resposta
<1>1. Serie(p) \in Sequencias
      BY SerieTipo DEF IInv, Percurso, GerarNumero
<1>2. Numerador!Atribuir(p, Serie(p)) /\ Prosseguir(p, "salvar")
      BY DEF IInv, TypeOK, GerarNumero, Responder, Ir
<1>3. QED
      BY <1>1, <1>2 DEF GerarNumero, Numerador!Atribuir, Prosseguir, Ir

\* Not getting one: the request ends, and no series moves.
LEMMA PassoNaoNumera ==
  ASSUME IInv, NEW p \in Pedidos, GerarNumero(p), passo'[p] # "salvar"
  PROVE  /\ UNCHANGED <<contador, numero, entrada, actos>>
         /\ passo[p] = "numerar" /\ passo' = [passo EXCEPT ![p] = "fim"]
         /\ resposta' = [resposta EXCEPT ![p] = [estado |-> 500, acto |-> Nenhum]]
<1>1. Numerador!Recusar(p) /\ Responder(p, 500, Nenhum)
      BY DEF IInv, TypeOK, GerarNumero, Prosseguir, Ir
<1>2. QED
      BY <1>1 DEF GerarNumero, Numerador!Recusar, Responder, Ir

\* A counter only moves when a request takes a number.
LEMMA ContadorParado ==
  ASSUME IInv, [Next]_vars
  PROVE  \/ contador' = contador
         \/ \E p \in Pedidos : GerarNumero(p) /\ passo'[p] = "salvar"
<1>1. ASSUME NEW p \in Pedidos, GerarNumero(p)
      PROVE  contador' = contador \/ passo'[p] = "salvar"
      BY <1>1, PassoNaoNumera
<1>2. ASSUME NEW p \in Pedidos, Proprio(p), ~GerarNumero(p)
      PROVE  contador' = contador
      BY <1>2 DEF Proprio, Receber, Verificar, LerTipo, SalvarActo, Auditar, Guardar,
         DevolverActo, Falhar, varsNumero
<1>3. ASSUME \/ \E c \in Chaves : Expirar(c)
             \/ LimparExpirados \/ \E t \in Codigos : AlternarTipo(t)
             \/ UNCHANGED vars
      PROVE  contador' = contador
      BY <1>3 DEF Expirar, LimparExpirados, AlternarTipo, vars, varsNumero
<1>4. QED
      BY <1>1, <1>2, <1>3 DEF Next, Proprio

\* A request keeps its number, and ends in a failure if it ends without its act.
LEMMA NumeradosPasso ==
  ASSUME IInv, Numerados, [Next]_vars, NEW p \in Pedidos,
         ~(GerarNumero(p) /\ passo'[p] = "salvar")
  PROVE  /\ numero'[p] = numero[p]
         /\ ComNumero(p)' => ComNumero(p) /\ entrada'[p] = entrada[p]
         /\ ComNumero(p) => ComNumero(p)' \/ Falhado(p)'
         /\ Falhado(p) => Falhado(p)'
         /\ actos'[p] # Nenhum =>
              /\ passo'[p] \in {"auditar", "guardar", "responder", "fim"}
              /\ actos'[p].numero = numero[p]
              /\ actos'[p].piquete = entrada'[p].unidade
<1>1. CASE Parado(p)
      BY <1>1 DEF Parado, Numerados, ComNumero, Falhado
<1>2. CASE GerarNumero(p)
  <2>1. /\ UNCHANGED <<contador, numero, entrada, actos>>
        /\ passo[p] = "numerar" /\ passo'[p] = "fim"
        BY <1>2, PassoNaoNumera DEF IInv, TypeOK
  <2>2. QED
        BY <2>1 DEF Numerados, ComNumero, Falhado
<1>3. CASE Proprio(p) /\ ~GerarNumero(p)
  <2>1. /\ numero'[p] = numero[p]
        /\ passo[p] # "novo" => entrada'[p] = entrada[p]
        /\ ComNumero(p)' => ComNumero(p) /\ passo[p] # "novo"
        /\ ComNumero(p) => ComNumero(p)' \/ Falhado(p)'
        /\ ~Falhado(p)
        BY <1>3, PassoDoNumero
  <2>2. passo[p] \in {"salvar", "auditar", "guardar", "responder"} =>
          passo'[p] \in {"auditar", "guardar", "responder", "fim"}
        BY <1>3, PassoDoNumero
  <2>3. CASE actos'[p] = actos[p]
    <3>1. actos[p] # Nenhum => passo[p] # "fim"
          BY <1>3 DEF IInv, Percurso, Proprio, Receber, Verificar, LerTipo, SalvarActo,
             Auditar, Guardar, DevolverActo, Falhar, EmCurso
    <3>2. QED
          BY <2>1, <2>2, <2>3, <3>1 DEF Numerados
  <2>4. CASE actos'[p] # actos[p]
    <3>1. /\ passo[p] = "salvar" /\ actos'[p].numero = numero[p]
          /\ actos'[p].piquete = entrada[p].unidade
          BY <1>3, <2>4, PassoDoNumero
    <3>2. QED
          BY <2>1, <2>2, <3>1
  <2>5. QED
        BY <2>3, <2>4
<1>4. QED
      BY <1>1, <1>2, <1>3, SoOProprio

\* The three facts about numbers survive the step that gives one.
LEMMA NumeraNInv ==
  ASSUME NInv, [Next]_vars, NEW p \in Pedidos, GerarNumero(p), passo'[p] = "salvar"
  PROVE  Numerados' /\ Distintos' /\ FurosExplicados'
<1> DEFINE k == Serie(p)
<1> DEFINE m == contador[k] + 1
<1>1. /\ k \in Sequencias
      /\ contador' = [contador EXCEPT ![k] = m]
      /\ numero' = [numero EXCEPT ![p] = <<k, m>>]
      /\ entrada' = entrada /\ actos' = actos
      /\ passo[p] = "numerar" /\ passo' = [passo EXCEPT ![p] = "salvar"]
      /\ resposta' = resposta
      BY PassoNumera DEF NInv
<1>2. k = Serie(p)'
      BY <1>1 DEF Serie
<1> HIDE DEF k
<1>3. contador \in [Sequencias -> Nat] /\ contador[k] \in Nat /\ m \in Nat
      BY <1>1 DEF NInv, IInv, Numeros
<1>4. actos[p] = Nenhum
      BY <1>1 DEF NInv, Numerados
<1>5. /\ numero'[p] = <<k, m>> /\ ComNumero(p)'
      /\ \A q \in Pedidos \ {p} : numero'[q] = numero[q] /\ ComNumero(q)' = ComNumero(q)
                                   /\ Falhado(q)' = Falhado(q)
      /\ ~ComNumero(p) /\ ~Falhado(p)
      BY <1>1, <1>4 DEF NInv, IInv, TypeOK, Numeros, ComNumero, Falhado
<1>6. \A j \in Sequencias : contador'[j] = IF j = k THEN m ELSE contador[j]
      BY <1>1, <1>3
<1>7. m > contador[k]
      BY <1>3
<1>8. Numerados'
  <2>1. ASSUME NEW q \in Pedidos, q # p, ComNumero(q)'
        PROVE  /\ numero'[q] \in Sequencias \X Nat
               /\ numero'[q][1] = Serie(q)'
               /\ numero'[q][2] <= contador'[numero'[q][1]]
    <3>1. /\ numero[q] \in Sequencias \X Nat
          /\ numero[q][1] = Serie(q)
          /\ numero[q][2] <= contador[numero[q][1]]
          BY <1>5, <2>1 DEF NInv, Numerados
    <3>2. contador[numero[q][1]] <= contador'[numero[q][1]]
          BY <1>3, <1>6, <1>7, <3>1
    <3>3. contador[numero[q][1]] \in Nat /\ contador'[numero[q][1]] \in Nat
          BY <1>3, <1>6, <3>1
    <3>4. numero'[q] = numero[q] /\ entrada' = entrada
          BY <1>1, <1>5, <2>1
    <3>5. QED
          BY <3>1, <3>2, <3>3, <3>4 DEF Serie
  <2>2. /\ numero'[p] \in Sequencias \X Nat
        /\ numero'[p][1] = Serie(p)'
        /\ numero'[p][2] <= contador'[numero'[p][1]]
        BY <1>1, <1>2, <1>3, <1>5, <1>6
  <2>3. ASSUME NEW q \in Pedidos, actos'[q] # Nenhum
        PROVE  /\ passo'[q] \in {"auditar", "guardar", "responder", "fim"}
               /\ actos'[q].numero = numero'[q]
               /\ actos'[q].piquete = entrada'[q].unidade
        BY <1>1, <1>4, <1>5, <2>3 DEF NInv, IInv, TypeOK, Numerados
  <2>4. QED
        BY <2>1, <2>2, <2>3 DEF Numerados
<1>9. Distintos'
  <2>1. ASSUME NEW q \in Pedidos, q # p, ComNumero(q)
        PROVE  numero[q] # <<k, m>>
        BY <1>3, <1>7, <2>1 DEF NInv, Numerados
  <2>2. QED
        BY <1>5, <2>1 DEF NInv, Distintos
<1>10. FurosExplicados'
  <2> SUFFICES ASSUME NEW j \in Sequencias, NEW n \in 1 .. contador'[j]
               PROVE  \E q \in Pedidos : numero'[q] = <<j, n>> /\ (ComNumero(q)' \/ Falhado(q)')
      BY DEF FurosExplicados
  <2>1. CASE j = k /\ n = m
        BY <1>5, <2>1
  <2>2. CASE ~(j = k /\ n = m)
    <3>1. n \in 1 .. contador[j]
          BY <1>3, <1>6, <2>2
    <3>2. PICK q \in Pedidos : numero[q] = <<j, n>> /\ (ComNumero(q) \/ Falhado(q))
          BY <3>1 DEF NInv, FurosExplicados
    <3>3. QED
          BY <1>5, <3>2
  <2>3. QED
        BY <2>1, <2>2
<1>11. QED
      BY <1>8, <1>9, <1>10

\* Every other step keeps the numbers where they are.
LEMMA GuardaNInv ==
  ASSUME NInv, [Next]_vars, \A p \in Pedidos : ~(GerarNumero(p) /\ passo'[p] = "salvar")
  PROVE  Numerados' /\ Distintos' /\ FurosExplicados'
<1>1. contador' = contador
      BY ContadorParado DEF NInv
<1>2. ASSUME NEW p \in Pedidos
      PROVE  /\ numero'[p] = numero[p]
             /\ ComNumero(p)' => ComNumero(p) /\ entrada'[p] = entrada[p]
             /\ ComNumero(p) \/ Falhado(p) => ComNumero(p)' \/ Falhado(p)'
             /\ actos'[p] # Nenhum =>
                  /\ passo'[p] \in {"auditar", "guardar", "responder", "fim"}
                  /\ actos'[p].numero = numero[p]
                  /\ actos'[p].piquete = entrada'[p].unidade
      BY NumeradosPasso DEF NInv
<1>3. Numerados'
      BY <1>1, <1>2 DEF NInv, Numerados, Serie
<1>4. Distintos'
      BY <1>2 DEF NInv, Distintos
<1>5. FurosExplicados'
      BY <1>1, <1>2 DEF NInv, FurosExplicados
<1>6. QED
      BY <1>3, <1>4, <1>5

\* Every reachable state satisfies the invariant about numbers.
LEMMA NumerosIndutivo == Spec => []NInv
<1>1. Init => NInv
  <2> SUFFICES ASSUME Init
               PROVE  NInv
      OBVIOUS
  <2>1. \A p \in Pedidos : ~ComNumero(p) /\ actos[p] = Nenhum
        BY DEF Init, ComNumero
  <2>2. \A j \in Sequencias : contador[j] = 0
        BY DEF Init, Numerador!Init
  <2>3. FurosExplicados
        BY <2>2 DEF FurosExplicados
  <2>4. QED
        BY <2>1, <2>3, InitIInv DEF NInv, Numerados, Distintos
<1>2. NInv /\ [Next]_vars => NInv'
      BY PassoIInv, NumeraNInv, GuardaNInv DEF NInv
<1>3. QED
      BY <1>1, <1>2, PTL DEF Spec

\* No two acts share a number, and each is numbered in the series of its unit,
\* whatever fails between GeradorNumeroService.gerar and actoRepo.save.
THEOREM NumerosDosActosUnicos == Spec => []NumerosDosActos
<1>1. NInv => NumerosDosActos
      BY DEF NInv, Numerados, Distintos, NumerosDosActos, ComNumero, Serie
<1>2. QED
      BY <1>1, NumerosIndutivo, PTL

\* A hole in a series is always the trace of a request that was answered 500
\* after taking the number: none is lost otherwise.
THEOREM FurosSempreExplicados == Spec => []FurosExplicados
<1>1. NInv => FurosExplicados
      BY DEF NInv
<1>2. QED
      BY <1>1, NumerosIndutivo, PTL

\* As long as its 24 hours last, a key stands for the act and the user it was
\* stored with, and so does an expired row until limparExpirados removes it:
\* guardar only creates, and no request overwrites another one's key.
ChaveImutavel ==
  [][\A c \in Chaves :
       idem[c] # Nenhum =>
         \/ idem'[c] # Nenhum /\ idem'[c].acto = idem[c].acto /\ idem'[c].user = idem[c].user
         \/ idem[c].expirada /\ LimparExpirados]_vars

\* A stored key is never taken over (IdempotencyService.guardar is a plain create).
THEOREM ChaveSempreImutavel == Spec => ChaveImutavel
<1> DEFINE A == \A c \in Chaves :
                  idem[c] # Nenhum =>
                    \/ idem'[c] # Nenhum /\ idem'[c].acto = idem[c].acto /\ idem'[c].user = idem[c].user
                    \/ idem[c].expirada /\ LimparExpirados
<1>1. ASSUME IInv, Next
      PROVE  A
  <2>1. CASE idem' = idem
        BY <2>1
  <2>2. ASSUME NEW p \in Pedidos, Guardar(p)
        PROVE  A
    <3>1. entrada[p].chave \in Chaves
          BY <1>1, <2>2 DEF IInv, Percurso, Guardar
    <3>2. \/ idem' = idem
          \/ idem[entrada[p].chave] = Nenhum /\ \A c \in Chaves \ {entrada[p].chave} : idem'[c] = idem[c]
          BY <1>1, <2>2, <3>1 DEF IInv, TypeOK, Guardar
    <3>3. QED
          BY <3>2
  <2>3. ASSUME NEW c \in Chaves, Expirar(c)
        PROVE  A
    <3>1. /\ idem[c] \in LinhasIdem
          /\ idem' = [idem EXCEPT ![c] = [idem[c] EXCEPT !.expirada = TRUE]]
          BY <1>1, <2>3 DEF IInv, TypeOK, Expirar
    <3>2. /\ idem'[c] # Nenhum /\ idem'[c].acto = idem[c].acto /\ idem'[c].user = idem[c].user
          /\ \A d \in Chaves \ {c} : idem'[d] = idem[d]
          BY <1>1, <3>1, LinhaExpirada, NenhumAssumption DEF IInv, TypeOK
    <3>3. QED
          BY <3>2
  <2>4. CASE LimparExpirados
    <3>1. \A c \in Chaves : idem'[c] = idem[c] \/ idem[c].expirada
          BY <1>1, <2>4 DEF LimparExpirados
    <3>2. QED
          BY <2>4, <3>1
  <2>5. ASSUME NEW p \in Pedidos, Proprio(p), ~Guardar(p)
        PROVE  idem' = idem
        BY <2>5 DEF Proprio, Receber, Verificar, LerTipo, GerarNumero, SalvarActo, Auditar,
           DevolverActo, Falhar
  <2>6. ASSUME NEW t \in Codigos, AlternarTipo(t)
        PROVE  idem' = idem
        BY <2>6 DEF AlternarTipo
  <2> HIDE DEF A
  <2>7. QED
        BY <1>1, <2>1, <2>2, <2>3, <2>4, <2>5, <2>6 DEF Next, Proprio
<1>2. IInv /\ [Next]_vars => [A]_vars
      BY <1>1
<1>3. QED
      BY <1>2, Indutivo, PTL DEF Spec, ChaveImutavel

\* A request answered from its key's row has spent no number and created no act
\* of its own: verificar comes before gerar and save.
RepeticaoNadaCria ==
  \A p \in Pedidos :
    Aceite(p) /\ resposta[p].acto # p => actos[p] = Nenhum /\ numero[p] = Nenhum

\* Before its number, a request has left nothing behind; after it, it is told of
\* no act but its own.
PorNumerar ==
  \A p \in Pedidos :
    /\ passo[p] \in {"novo", "verificar", "tipo", "numerar"} =>
         actos[p] = Nenhum /\ numero[p] = Nenhum
    /\ passo[p] = "salvar" => actos[p] = Nenhum

\* A step of a request that is not the allocator's keeps both.
LEMMA PorNumerarPasso ==
  ASSUME IInv, PorNumerar, RepeticaoNadaCria, [Next]_vars, NEW p \in Pedidos
  PROVE  /\ passo'[p] \in {"novo", "verificar", "tipo", "numerar"} =>
              actos'[p] = Nenhum /\ numero'[p] = Nenhum
         /\ passo'[p] = "salvar" => actos'[p] = Nenhum
         /\ Aceite(p)' /\ resposta'[p].acto # p => actos'[p] = Nenhum /\ numero'[p] = Nenhum
<1>1. CASE Parado(p)
      BY <1>1 DEF Parado, PorNumerar, RepeticaoNadaCria, Aceite
<1>2. CASE GerarNumero(p) /\ passo'[p] = "salvar"
  <2>1. /\ passo[p] = "numerar" /\ actos' = actos /\ resposta' = resposta
        BY <1>2, PassoNumera
  <2>2. QED
        BY <1>2, <2>1 DEF PorNumerar, RepeticaoNadaCria, IInv, Percurso, Aceite
<1>3. CASE GerarNumero(p) /\ passo'[p] # "salvar"
  <2>1. passo'[p] = "fim" /\ resposta'[p].estado = 500
        BY <1>3, PassoNaoNumera DEF IInv, TypeOK
  <2>2. QED
        BY <2>1 DEF Aceite
<1>4. CASE (\E e \in Entradas : Receber(p, e)) \/ LerTipo(p)
  <2>1. /\ passo[p] \in {"novo", "tipo"} /\ passo'[p] # "salvar"
        /\ actos' = actos /\ numero' = numero
        BY <1>4 DEF IInv, TypeOK, Receber, LerTipo, Responder, Prosseguir, Ir, varsNumero
  <2>2. QED
        BY <2>1 DEF PorNumerar
<1>5. CASE Verificar(p)
  <2>1. /\ passo[p] = "verificar" /\ passo'[p] # "salvar"
        /\ actos' = actos /\ numero' = numero
        BY <1>5 DEF IInv, TypeOK, Verificar, Responder, Prosseguir, Ir, varsNumero
  <2>2. QED
        BY <2>1 DEF PorNumerar
<1>6. CASE SalvarActo(p) \/ Auditar(p) \/ Guardar(p) \/ DevolverActo(p)
  <2>1. /\ passo[p] \in {"salvar", "auditar", "guardar", "responder"}
        /\ passo'[p] \in {"auditar", "guardar", "responder", "fim"}
        BY <1>6 DEF IInv, TypeOK, SalvarActo, Auditar, Guardar, DevolverActo, Responder,
           Prosseguir, Ir
  <2>2. ~Aceite(p)
        BY <2>1 DEF IInv, Percurso, Aceite
  <2>3. Aceite(p)' => resposta'[p].acto = p
        BY <1>6, <2>2 DEF IInv, TypeOK, SalvarActo, Auditar, Guardar, DevolverActo, Responder,
           Prosseguir, Aceite
  <2>4. QED
        BY <2>1, <2>3
<1>7. CASE Falhar(p)
  <2>1. passo'[p] = "fim" /\ resposta'[p].estado = 500
        BY <1>7 DEF IInv, TypeOK, Falhar, Responder, Ir
  <2>2. QED
        BY <2>1 DEF Aceite
<1>8. QED
      BY <1>1, <1>2, <1>3, <1>4, <1>5, <1>6, <1>7, SoOProprio DEF Proprio

\* A replayed request creates nothing (verificar before everything else).
THEOREM RepeticaoNuncaCria == Spec => []RepeticaoNadaCria
<1> DEFINE RInv == IInv /\ PorNumerar /\ RepeticaoNadaCria
<1>1. Init => RInv
  <2>1. Init => \A p \in Pedidos : actos[p] = Nenhum /\ numero[p] = Nenhum
        BY DEF Init, Numerador!Init
  <2>2. QED
        BY <2>1, InitIInv DEF PorNumerar, RepeticaoNadaCria
<1>2. RInv /\ [Next]_vars => RInv'
      BY PassoIInv, PorNumerarPasso DEF PorNumerar, RepeticaoNadaCria
<1>3. QED
      BY <1>1, <1>2, PTL DEF Spec

\* A step of a request is at most one indivisible call of the allocator, for the
\* ACTO series of the unit in its body.
LEMMA PassoDoNumerador ==
  ASSUME IInv, [Next]_vars
  PROVE  [Numerador!Next]_(Numerador!vars)
<1>1. ASSUME NEW p \in Pedidos, GerarNumero(p)
      PROVE  Numerador!Next
  <2>1. Serie(p) \in Sequencias
        BY <1>1, SerieTipo DEF IInv, Percurso, GerarNumero
  <2>2. QED
        BY <1>1, <2>1 DEF GerarNumero, Numerador!Next
<1>2. ASSUME NEW p \in Pedidos, Proprio(p), ~GerarNumero(p)
      PROVE  UNCHANGED varsNumero
      BY <1>2 DEF Proprio, Receber, Verificar, LerTipo, SalvarActo, Auditar, Guardar,
         DevolverActo, Falhar
<1>3. ASSUME \/ \E c \in Chaves : Expirar(c)
             \/ LimparExpirados \/ \E t \in Codigos : AlternarTipo(t)
             \/ UNCHANGED vars
      PROVE  UNCHANGED varsNumero
      BY <1>3 DEF Expirar, LimparExpirados, AlternarTipo, vars
<1>4. UNCHANGED varsNumero => UNCHANGED Numerador!vars
      BY DEF varsNumero, Numerador!vars
<1>5. QED
      BY <1>1, <1>2, <1>3, <1>4 DEF Next, Proprio

\* The handler uses the numbering service as the allocator promises it.
THEOREM ImplementaNumerador == Spec => Numerador!Spec
<1>1. Init => Numerador!Init
      BY DEF Init
<1>2. IInv /\ [Next]_vars => [Numerador!Next]_(Numerador!vars)
      BY PassoDoNumerador
<1>3. QED
      BY <1>1, <1>2, Indutivo, PTL DEF Spec, Numerador!Spec
=============================================================================
