----------------------- MODULE PoliticaAutorizacao_proofs -----------------------
(***************************************************************************)
(* Proofs about the walks of the authorization policy, for any table of    *)
(* roles, any user and any order of arrays and queues.  The arguments: a   *)
(* role comes into buildRoleMap's walk only through its single parent, so  *)
(* never twice; and a walk that has nothing left has been to a set closed  *)
(* under children, which holds everything below where it began.            *)
(***************************************************************************)
EXTENDS PoliticaAutorizacao, FiniteSetTheorems, TLAPS

\* buildRoleMap so far: roots first, then only through the parent.
MapaFechado ==
  /\ Raizes(mae) \subseteq mapa \cup porVisitar
  /\ \A r \in Perfis : mae[r] \in mapa => r \in mapa \cup porVisitar

MapaPelaMae ==
  \A r \in mapa \cup porVisitar : mae[r] # Nenhum => mae[r] \in mapa

MapaAbaixo == mapa \cup porVisitar \subseteq Abaixo(mae, Raizes(mae))

\* No role of the user is looked up before the map is whole.
MapaPrimeiro == porVisitar # {} => porTratar = perfis /\ fila = {} /\ permissoes = {}

\* The roles of the user that toAuthUser has come to and found in the map.
Tratados == (perfis \ porTratar) \cap mapa

\* The walk from the role it is at.
PercursoFechado ==
  /\ alvo \notin mapa => vistos = {} /\ fila = {}
  /\ alvo \in mapa =>
       /\ alvo \in vistos \cup fila
       /\ \A r \in Perfis : mae[r] \in vistos => r \in vistos \cup fila

PercursoAbaixo == vistos \cup fila \subseteq Abaixo(mae, Tratados)

VistosConcedidos == \A r \in vistos : Concede[r] \subseteq permissoes

AlvoTratado ==
  /\ alvo # Nenhum => alvo \in perfis \ porTratar
  /\ alvo = Nenhum => porTratar = perfis

NadaAMais == permissoes \subseteq UNION {Concede[d] : d \in Abaixo(mae, Tratados)}

NadaAMenos ==
  \A k \in Tratados \ {alvo} : \A d \in Abaixo(mae, {k}) : Concede[d] \subseteq permissoes

IInv ==
  /\ TypeOK /\ SemRevisita /\ MapaFechado /\ MapaPelaMae /\ MapaAbaixo /\ MapaPrimeiro
  /\ PercursoFechado /\ PercursoAbaixo /\ VistosConcedidos /\ AlvoTratado
  /\ NadaAMais /\ NadaAMenos
-----------------------------------------------------------------------------
\* What lies below S contains S ...
LEMMA AbaixoContem ==
  ASSUME NEW m, NEW S \in SUBSET Perfis
  PROVE  S \subseteq Abaixo(m, S)
BY DEF Abaixo

\* ... has every role whose parent it has ...
LEMMA AbaixoFechado ==
  ASSUME NEW m, NEW S \in SUBSET Perfis
  PROVE  Fechado(m, Abaixo(m, S)) /\ Abaixo(m, S) \in SUBSET Perfis
BY DEF Abaixo, Fechado

\* ... and lies in every set that does both.
LEMMA AbaixoMinimo ==
  ASSUME NEW m, NEW S \in SUBSET Perfis, NEW C \in SUBSET Perfis, S \subseteq C, Fechado(m, C)
  PROVE  Abaixo(m, S) \subseteq C
BY DEF Abaixo

\* More roles have more below them.
LEMMA AbaixoMonotono ==
  ASSUME NEW m, NEW S \in SUBSET Perfis, NEW T \in SUBSET Perfis, S \subseteq T
  PROVE  Abaixo(m, S) \subseteq Abaixo(m, T)
BY DEF Abaixo

\* What lies below S lies below its members one by one.
LEMMA AbaixoDeCada ==
  ASSUME NEW m, NEW S \in SUBSET Perfis, NEW d \in Abaixo(m, S)
  PROVE  \E k \in S : d \in Abaixo(m, {k})
<1> DEFINE C == {x \in Perfis : \E k \in S : x \in Abaixo(m, {k})}
<1>1. S \subseteq C
      BY AbaixoContem
<1>2. ASSUME NEW r \in Perfis, m[r] \in C PROVE r \in C
  <2>1. PICK k \in S : m[r] \in Abaixo(m, {k})
        BY <1>2
  <2>2. {k} \in SUBSET Perfis
        OBVIOUS
  <2>3. r \in Abaixo(m, {k})
        BY <2>1, <2>2, AbaixoFechado DEF Fechado
  <2>4. QED
        BY <2>3
<1>3. Fechado(m, C) /\ C \in SUBSET Perfis
      BY <1>2 DEF Fechado
<1> HIDE DEF C
<1>4. Abaixo(m, S) \subseteq C
      BY <1>1, <1>3, AbaixoMinimo
<1>5. QED
      BY <1>4 DEF C
-----------------------------------------------------------------------------
\* The initial states satisfy the invariant.
LEMMA InitIInv == Init => IInv
<1> SUFFICES ASSUME Init PROVE IInv
    OBVIOUS
<1>1. TypeOK
      BY DEF Init, TypeOK, Raizes
<1>2. MapaAbaixo
      BY AbaixoContem DEF Init, MapaAbaixo, Raizes
<1>3. /\ SemRevisita /\ MapaFechado /\ MapaPelaMae /\ MapaPrimeiro
      BY NenhumAssumption DEF Init, SemRevisita, MapaFechado, MapaPelaMae, MapaPrimeiro, Raizes
<1>4. /\ PercursoFechado /\ PercursoAbaixo /\ VistosConcedidos /\ AlvoTratado
      /\ NadaAMais /\ NadaAMenos
      BY DEF Init, PercursoFechado, PercursoAbaixo, VistosConcedidos, AlvoTratado,
             NadaAMais, NadaAMenos, Tratados
<1>5. QED
      BY <1>1, <1>2, <1>3, <1>4 DEF IInv

\* A visit preserves the invariant.
LEMMA VisitarIInv ==
  ASSUME IInv, NEW r \in Perfis, Visitar(r)
  PROVE  IInv'
<1>1. /\ r \in porVisitar /\ r \notin mapa
      /\ mapa' = mapa \cup {r}
      /\ porVisitar' = (porVisitar \ {r}) \cup Filhos(r)
      /\ UNCHANGED <<mae, perfis, porTratar, alvo, fila, vistos, permissoes>>
      BY DEF Visitar, IInv, SemRevisita
<1>2. porTratar = perfis /\ fila = {} /\ permissoes = {} /\ Tratados = {}
      BY <1>1 DEF IInv, MapaPrimeiro, Tratados
<1>3. Tratados' = {}
      BY <1>1, <1>2 DEF Tratados
<1>4. TypeOK'
      BY <1>1 DEF IInv, TypeOK, Filhos
<1>5. SemRevisita'
  <2>1. ASSUME NEW c \in Filhos(r), c \in mapa \cup {r} PROVE FALSE
    <3>1. c \in Perfis /\ mae[c] = r /\ mae[c] # Nenhum
          BY <2>1, NenhumAssumption DEF Filhos
    <3>2. c \in mapa \cup porVisitar
          BY <2>1, <1>1
    <3>3. QED
          BY <3>1, <3>2, <1>1 DEF IInv, MapaPelaMae
  <2>2. QED
        BY <2>1, <1>1 DEF IInv, SemRevisita
<1>6. MapaFechado'
      BY <1>1 DEF IInv, MapaFechado, Raizes, Filhos
<1>7. MapaPelaMae'
      BY <1>1 DEF IInv, MapaPelaMae, Filhos
<1>8. MapaAbaixo'
  <2>1. Filhos(r) \subseteq Abaixo(mae, Raizes(mae))
    <3>1. r \in Abaixo(mae, Raizes(mae))
          BY <1>1 DEF IInv, MapaAbaixo
    <3>2. Fechado(mae, Abaixo(mae, Raizes(mae)))
          BY AbaixoFechado DEF Raizes
    <3>3. QED
          BY <3>1, <3>2 DEF Fechado, Filhos
  <2>2. QED
        BY <2>1, <1>1 DEF IInv, MapaAbaixo
<1>9. MapaPrimeiro'
      BY <1>1, <1>2 DEF MapaPrimeiro
<1>10. alvo = Nenhum \/ alvo \in perfis \ porTratar
      BY DEF IInv, AlvoTratado
<1>11. alvo = Nenhum /\ Nenhum \notin mapa'
      BY <1>1, <1>2, <1>10, NenhumAssumption DEF IInv, TypeOK
<1>12. PercursoFechado' /\ AlvoTratado' /\ VistosConcedidos'
      BY <1>1, <1>2, <1>11 DEF IInv, PercursoFechado, AlvoTratado, VistosConcedidos
<1>13. PercursoAbaixo'
      BY <1>1, <1>2, <1>3 DEF IInv, PercursoAbaixo
<1>14. NadaAMais' /\ NadaAMenos'
      BY <1>1, <1>2, <1>3 DEF NadaAMais, NadaAMenos
<1>15. QED
      BY <1>4, <1>5, <1>6, <1>7, <1>8, <1>9, <1>12, <1>13, <1>14 DEF IInv

\* A walk that has ended has been to all that lies below its role.
LEMMA PercursoCompleto ==
  ASSUME IInv, fila = {}, alvo \in mapa
  PROVE  \A d \in Abaixo(mae, {alvo}) : Concede[d] \subseteq permissoes
<1>1. alvo \in vistos /\ vistos \in SUBSET Perfis /\ Fechado(mae, vistos)
      BY DEF IInv, PercursoFechado, TypeOK, Fechado
<1>2. Abaixo(mae, {alvo}) \subseteq vistos
  <2>1. {alvo} \in SUBSET Perfis /\ {alvo} \subseteq vistos
        BY <1>1
  <2>2. QED
        BY <1>1, <2>1, AbaixoMinimo
<1>3. QED
      BY <1>2 DEF IInv, VistosConcedidos

\* Going to the next role of the user preserves the invariant.
LEMMA EscolherIInv ==
  ASSUME IInv, NEW k \in Perfis, Escolher(k)
  PROVE  IInv'
<1>1. /\ porVisitar = {} /\ fila = {} /\ k \in porTratar
      /\ porTratar' = porTratar \ {k} /\ alvo' = k
      /\ fila' = {k} \cap mapa /\ vistos' = {}
      /\ UNCHANGED <<mae, perfis, mapa, porVisitar, permissoes>>
      BY DEF Escolher
<1>2. TypeOK'
      BY <1>1 DEF IInv, TypeOK
<1>3. /\ Tratados' = Tratados \cup ({k} \cap mapa)
      /\ Tratados \in SUBSET Perfis /\ Tratados' \in SUBSET Perfis
      BY <1>1 DEF IInv, TypeOK, Tratados
<1>4. Abaixo(mae, Tratados) \subseteq Abaixo(mae, Tratados')
      BY <1>3, AbaixoMonotono
<1>5. Tratados' \subseteq Abaixo(mae, Tratados')
      BY <1>3, AbaixoContem
<1>6. SemRevisita' /\ MapaFechado' /\ MapaPelaMae' /\ MapaAbaixo' /\ MapaPrimeiro'
      BY <1>1 DEF IInv, SemRevisita, MapaFechado, MapaPelaMae, MapaAbaixo, MapaPrimeiro
<1>7. PercursoFechado'
      BY <1>1, NenhumAssumption DEF PercursoFechado
<1>8. PercursoAbaixo'
      BY <1>1, <1>3, <1>5 DEF PercursoAbaixo
<1>9. VistosConcedidos'
      BY <1>1 DEF VistosConcedidos
<1>10. AlvoTratado'
      BY <1>1, NenhumAssumption DEF IInv, TypeOK, AlvoTratado
<1>11. NadaAMais'
      BY <1>1, <1>4 DEF IInv, NadaAMais
<1>12. NadaAMenos'
  <2>1. SUFFICES ASSUME NEW q \in Tratados', q # k, NEW d \in Abaixo(mae, {q})
                 PROVE  Concede[d] \subseteq permissoes
        BY <1>1 DEF NadaAMenos
  <2>2. q \in Tratados
        BY <2>1, <1>3
  <2>3. CASE q = alvo
        BY <2>1, <2>2, <2>3, <1>1, PercursoCompleto DEF Tratados
  <2>4. CASE q # alvo
        BY <2>1, <2>2, <2>4 DEF IInv, NadaAMenos
  <2>5. QED
        BY <2>3, <2>4
<1>13. QED
      BY <1>2, <1>6, <1>7, <1>8, <1>9, <1>10, <1>11, <1>12 DEF IInv

\* A turn of the loop preserves the invariant.
LEMMA PercorrerIInv ==
  ASSUME IInv, NEW r \in Perfis, Percorrer(r)
  PROVE  IInv'
<1>1. /\ r \in fila
      /\ UNCHANGED <<mae, perfis, mapa, porVisitar, porTratar, alvo>>
      BY DEF Percorrer
<1>2. alvo \in mapa
      BY <1>1 DEF IInv, PercursoFechado
<1>3. /\ vistos' = vistos \cup {r}
      /\ permissoes' = permissoes \cup Concede[r]
      /\ fila \subseteq fila' \cup {r}
      /\ fila' \subseteq fila \cup Filhos(r)
  <2>1. CASE r \in vistos
        BY <2>1 DEF Percorrer, IInv, VistosConcedidos
  <2>2. CASE r \notin vistos
        BY <2>2 DEF Percorrer
  <2>3. QED
        BY <2>1, <2>2
<1>4. \A c \in Perfis : mae[c] = r => c \in vistos' \cup fila'
  <2>1. CASE r \in vistos
        BY <2>1, <1>2, <1>3 DEF IInv, PercursoFechado
  <2>2. CASE r \notin vistos
        BY <2>2 DEF Percorrer, Filhos
  <2>3. QED
        BY <2>1, <2>2
<1>5. Tratados' = Tratados /\ Tratados \in SUBSET Perfis
      BY <1>1 DEF IInv, TypeOK, Tratados
<1>6. r \in Abaixo(mae, Tratados) /\ Filhos(r) \subseteq Abaixo(mae, Tratados)
      BY <1>1, <1>5, AbaixoFechado DEF IInv, PercursoAbaixo, Fechado, Filhos
<1>7. TypeOK'
      BY <1>1, <1>3, ConcedeAssumption DEF IInv, TypeOK, Filhos
<1>8. /\ SemRevisita' /\ MapaFechado' /\ MapaPelaMae' /\ MapaAbaixo' /\ MapaPrimeiro'
      /\ AlvoTratado'
      BY <1>1 DEF IInv, SemRevisita, MapaFechado, MapaPelaMae, MapaAbaixo, MapaPrimeiro,
                  AlvoTratado
<1>9. PercursoFechado'
      BY <1>1, <1>2, <1>3, <1>4 DEF IInv, PercursoFechado
<1>10. PercursoAbaixo'
      BY <1>1, <1>3, <1>5, <1>6 DEF IInv, PercursoAbaixo
<1>11. VistosConcedidos'
      BY <1>3 DEF IInv, VistosConcedidos
<1>12. NadaAMais'
      BY <1>1, <1>3, <1>5, <1>6 DEF IInv, NadaAMais
<1>13. NadaAMenos'
      BY <1>1, <1>3, <1>5 DEF IInv, NadaAMenos
<1>14. QED
      BY <1>7, <1>8, <1>9, <1>10, <1>11, <1>12, <1>13 DEF IInv

\* Every step preserves the invariant.
LEMMA PassoIInv == IInv /\ [Next]_vars => IInv'
<1> SUFFICES ASSUME IInv, [Next]_vars PROVE IInv'
    OBVIOUS
<1>1. ASSUME NEW r \in Perfis, Visitar(r) PROVE IInv'
      BY <1>1, VisitarIInv
<1>2. ASSUME NEW r \in Perfis, Escolher(r) PROVE IInv'
      BY <1>2, EscolherIInv
<1>3. ASSUME NEW r \in Perfis, Percorrer(r) PROVE IInv'
      BY <1>3, PercorrerIInv
<1>4. CASE UNCHANGED vars
      BY <1>4 DEF vars, IInv, TypeOK, SemRevisita, MapaFechado, MapaPelaMae, MapaAbaixo,
                  MapaPrimeiro, PercursoFechado, PercursoAbaixo, VistosConcedidos, AlvoTratado,
                  NadaAMais, NadaAMenos, Tratados
<1>5. QED
      BY <1>1, <1>2, <1>3, <1>4 DEF Next

(* The inductive invariant of the two walks holds in every reachable      *)
(* state, whatever the table of roles.                                    *)
THEOREM Indutivo == Spec => []IInv
<1>1. QED
      BY InitIInv, PassoIInv, PTL DEF Spec
-----------------------------------------------------------------------------
(* Sets, functions and bookkeeping of toAuthUser stay well formed.        *)
THEOREM TipagemCorrecta == Spec => []TypeOK
<1>1. IInv => TypeOK
      BY DEF IInv
<1>2. QED
      BY <1>1, Indutivo, PTL

(* buildRoleMap comes to no role twice, however the parents lie.          *)
THEOREM VisitaUnica == Spec => []SemRevisita
<1>1. IInv => SemRevisita
      BY DEF IInv
<1>2. QED
      BY <1>1, Indutivo, PTL

\* A map without visits left holds the roles at or below the roots.
LEMMA MapaExacto == IInv /\ porVisitar = {} => mapa = Abaixo(mae, Raizes(mae))
<1> SUFFICES ASSUME IInv, porVisitar = {} PROVE mapa = Abaixo(mae, Raizes(mae))
    OBVIOUS
<1>1. /\ mapa \in SUBSET Perfis /\ Raizes(mae) \in SUBSET Perfis
      /\ Raizes(mae) \subseteq mapa /\ Fechado(mae, mapa)
      BY DEF IInv, TypeOK, MapaFechado, Fechado, Raizes
<1>2. Abaixo(mae, Raizes(mae)) \subseteq mapa
      BY <1>1, AbaixoMinimo
<1>3. QED
      BY <1>2 DEF IInv, MapaAbaixo

\* At the end everything below the user's roles has been collected.
LEMMA FimExacto == IInv => PermissoesExactas
<1> SUFFICES ASSUME IInv, Fim PROVE permissoes = UNION {Concede[d] :
                 d \in Abaixo(mae, perfis \cap Abaixo(mae, Raizes(mae)))}
    BY DEF PermissoesExactas
<1>1. Tratados = perfis \cap Abaixo(mae, Raizes(mae)) /\ Tratados \in SUBSET Perfis
      BY MapaExacto DEF Fim, Tratados, IInv, TypeOK
<1>2. ASSUME NEW d \in Abaixo(mae, Tratados) PROVE Concede[d] \subseteq permissoes
  <2>1. PICK k \in Tratados : d \in Abaixo(mae, {k})
        BY <1>1, AbaixoDeCada
  <2>2. CASE k = alvo
        BY <2>1, <2>2, PercursoCompleto DEF Fim, Tratados
  <2>3. CASE k # alvo
        BY <2>1, <2>3 DEF IInv, NadaAMenos
  <2>4. QED
        BY <2>2, <2>3
<1>3. QED
      BY <1>1, <1>2 DEF IInv, NadaAMais

(* When toAuthUser is done, it has collected exactly the permissions of   *)
(* the user's roles that hang from a root and of all roles below them.    *)
THEOREM PermissoesSempreExactas == Spec => []PermissoesExactas
<1>1. QED
      BY FimExacto, Indutivo, PTL
-----------------------------------------------------------------------------
\* How far toAuthUser is from its end: the roles buildRoleMap has not come to, the
\* user's roles to look up, each with a walk of its own, and the roles the walk
\* under way has not seen.
Medida ==
  Cardinality(Perfis \ mapa)
    + Cardinality(porTratar) * (Cardinality(Perfis) + 1)
    + Cardinality(Perfis \ vistos)

\* Every visit and every turn of the loop brings toAuthUser nearer its end, for
\* any parents the table holds, circles included: no walk can go round for ever.
CadaPassoAproxima == [][Medida' < Medida /\ Medida \in Nat /\ Medida' \in Nat]_vars

\* What is queued has not been seen.
FilaPorVer == fila \cap vistos = {}

\* A set of roles, and the same set with one role less.
LEMMA UmaAMenos ==
  ASSUME IsFiniteSet(Perfis), NEW S \in SUBSET Perfis, NEW r \in S
  PROVE  /\ Cardinality(S) \in Nat /\ Cardinality(S \ {r}) \in Nat
         /\ Cardinality(S) = Cardinality(S \ {r}) + 1
<1>1. IsFiniteSet(S)
      BY FS_Subset
<1>2. IsFiniteSet(S \ {r}) /\ Cardinality(S \ {r}) = Cardinality(S) - 1
      BY <1>1, FS_RemoveElement
<1>3. QED
      BY <1>1, <1>2, FS_CardinalityType

\* A lookup less is worth one whole walk more.
LEMMA UmaConsulta ==
  ASSUME NEW a \in Nat, NEW n \in Nat
  PROVE  a * (n + 1) \in Nat /\ (a + 1) * (n + 1) = a * (n + 1) + n + 1
OBVIOUS

\* The measure falls at every step.
LEMMA PassoAproxima ==
  ASSUME IsFiniteSet(Perfis), IInv, FilaPorVer, Next
  PROVE  Medida' < Medida /\ Medida \in Nat /\ Medida' \in Nat
<1> DEFINE n == Cardinality(Perfis)
           a == Cardinality(Perfis \ mapa)
           b == Cardinality(porTratar)
           c == Cardinality(Perfis \ vistos)
<1>1. a \in Nat /\ b \in Nat /\ c \in Nat /\ n \in Nat
  <2>1. /\ Perfis \ mapa \in SUBSET Perfis /\ porTratar \in SUBSET Perfis
        /\ Perfis \ vistos \in SUBSET Perfis
        BY DEF IInv, TypeOK
  <2>2. QED
        BY <2>1, FS_Subset, FS_CardinalityType
<1>2. Medida = a + b * (n + 1) + c /\ Medida' = a' + b' * (n + 1) + c'
      BY DEF Medida
<1>3. b * (n + 1) \in Nat
      BY <1>1, UmaConsulta
<1>4. ASSUME NEW r \in Perfis, Visitar(r)
      PROVE  a' \in Nat /\ a = a' + 1 /\ b' = b /\ c' = c
  <2>1. /\ r \in Perfis \ mapa /\ Perfis \ mapa' = (Perfis \ mapa) \ {r}
        /\ porTratar' = porTratar /\ vistos' = vistos
        BY <1>4 DEF Visitar, IInv, SemRevisita
  <2>2. QED
        BY <2>1, UmaAMenos
<1>5. ASSUME NEW r \in Perfis, Escolher(r)
      PROVE  a' = a /\ b' \in Nat /\ b = b' + 1 /\ c' = n
  <2>1. /\ r \in porTratar /\ porTratar \in SUBSET Perfis /\ porTratar' = porTratar \ {r}
        /\ mapa' = mapa /\ Perfis \ vistos' = Perfis
        BY <1>5 DEF Escolher, IInv, TypeOK
  <2>2. QED
        BY <2>1, UmaAMenos
<1>6. ASSUME NEW r \in Perfis, Percorrer(r)
      PROVE  a' = a /\ b' = b /\ c' \in Nat /\ c = c' + 1
  <2>1. /\ r \in Perfis \ vistos /\ Perfis \ vistos' = (Perfis \ vistos) \ {r}
        /\ porTratar' = porTratar /\ mapa' = mapa
        BY <1>6 DEF Percorrer, FilaPorVer
  <2>2. QED
        BY <2>1, UmaAMenos
<1> HIDE DEF n, a, b, c
<1>7. ASSUME NEW r \in Perfis, Visitar(r) \/ Percorrer(r)
      PROVE  Medida' < Medida /\ Medida \in Nat /\ Medida' \in Nat
      BY <1>1, <1>2, <1>3, <1>4, <1>6, <1>7
<1>8. ASSUME NEW r \in Perfis, Escolher(r)
      PROVE  Medida' < Medida /\ Medida \in Nat /\ Medida' \in Nat
  <2>1. b' * (n + 1) \in Nat /\ b * (n + 1) = b' * (n + 1) + n + 1
        BY <1>1, <1>5, <1>8, UmaConsulta
  <2>2. QED
        BY <1>1, <1>2, <1>3, <1>5, <1>8, <2>1
<1>9. QED
      BY <1>7, <1>8 DEF Next

\* A login ends after at most as many steps as the measure says: what Termina's
\* fairness turns into an end (the walks of toAuthUser have no other bound).
THEOREM CadaPassoSempreAproxima ==
  ASSUME IsFiniteSet(Perfis)
  PROVE  Spec => CadaPassoAproxima
<1>1. Init => FilaPorVer
      BY DEF Init, FilaPorVer
<1>2. FilaPorVer /\ [Next]_vars => FilaPorVer'
      BY DEF FilaPorVer, Next, Visitar, Escolher, Percorrer, vars
<1>3. IInv /\ FilaPorVer /\ [Next]_vars => [Medida' < Medida /\ Medida \in Nat /\ Medida' \in Nat]_vars
      BY PassoAproxima
<1>4. QED
      BY <1>1, <1>2, <1>3, Indutivo, PTL DEF Spec, CadaPassoAproxima
=============================================================================
