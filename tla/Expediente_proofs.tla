--------------------------- MODULE Expediente_proofs ---------------------------
(***************************************************************************)
(* Proofs about the life of cases and documents, for any number of them    *)
(* and of overlapping uses.  The argument: what a use holds in memory was  *)
(* a coherent row when it was read, and every method turns a coherent row  *)
(* into a coherent row, so an overwritten save loses a history but never   *)
(* mixes two.  Order numbers: a number asked for is at most one above the  *)
(* count of documents there are, so one the index does not refuse is next. *)
(***************************************************************************)
EXTENDS Expediente, FiniteSetTheorems, TLAPS

\* LinhasCoerentes, of one row.
ProcessoCoerente(l) ==
  /\ l.estado = "RASCUNHO" => l.instrutor = Nenhum
  /\ l.estado \notin {"RASCUNHO", "ARQUIVADO"} => l.instrutor # Nenhum
  /\ l.estado = "EM_PROCURADORIA" => l.numero # Nenhum
  /\ l.numero # Nenhum => l.estado \in {"EM_PROCURADORIA", "ARQUIVADO"} /\ l.instrutor # Nenhum

PecaCoerente(l) ==
  /\ l.hash = Nenhum <=> l.estado = "RASCUNHO"
  /\ l.assinante # Nenhum <=> l.estado = "IMUTAVEL"

Usado ==
  [passo : {"novo", "processo", "criar", "peca", "fim"},
   alvo : Processos \cup Pecas \cup {Nenhum},
   lido : LinhaProcesso \cup LinhaPeca \cup {Nenhum}]

\* The tables and the uses are functions of the right kind.
Tabelas ==
  /\ processo \in [Processos -> LinhaProcesso]
  /\ peca \in [Pecas -> LinhaPeca \cup {Nenhum}]
  /\ uso \in [Usos -> Usado]
  /\ serial \in BOOLEAN

\* The entity in memory: coherent, and about a row that is, or is not yet, there.
Fiel(passo, alvo, lido) ==
  \/ /\ passo = "processo" /\ alvo \in Processos
     /\ lido \in LinhaProcesso /\ ProcessoCoerente(lido)
  \/ /\ passo = "criar" /\ alvo \in Pecas /\ peca[alvo] = Nenhum
     /\ lido \in LinhaPeca /\ PecaCoerente(lido)
     /\ lido.ordem <= Cardinality(Das(ProcessoDe[alvo])) + 1
  \/ /\ passo = "peca" /\ alvo \in Pecas /\ peca[alvo] # Nenhum
     /\ lido \in LinhaPeca /\ PecaCoerente(lido)
     /\ lido.ordem = peca[alvo].ordem

Fechado(u) ==
  /\ u.passo = "fim"
  /\ \/ u.alvo \in Processos /\ u.lido \in LinhaProcesso
     \/ u.alvo \in Pecas /\ u.lido \in LinhaPeca

Carregados ==
  \A o \in Usos :
    uso[o] = Parado \/ Fechado(uso[o]) \/ Fiel(uso[o].passo, uso[o].alvo, uso[o].lido)

\* A document is created by one use only.
CriadorUnico ==
  \A o, q \in Usos :
    uso[o].passo = "criar" /\ uso[q].passo = "criar" /\ uso[o].alvo = uso[q].alvo => o = q

Coerentes ==
  /\ \A x \in Processos : ProcessoCoerente(processo[x])
  /\ \A p \in Pecas : peca[p] # Nenhum => PecaCoerente(peca[p])

IInv ==
  /\ Tabelas
  /\ Carregados
  /\ CriadorUnico
  /\ Coerentes
  /\ OrdensSemSaltos
-----------------------------------------------------------------------------
\* The documents of a case are finitely many.
LEMMA DasFinitas ==
  ASSUME NEW x \in Processos
  PROVE  IsFiniteSet(Das(x)) /\ Cardinality(Das(x)) \in Nat
<1>1. Das(x) \in SUBSET Pecas
      BY DEF Das
<1>2. IsFiniteSet(Das(x))
      BY <1>1, PecasAssumption, FS_Subset
<1>3. QED
      BY <1>2, FS_CardinalityType

\* A use that ends is closed, and the others are where they were.
LEMMA AcabarFecha ==
  ASSUME IInv, NEW o \in Usos, uso[o].passo \notin {"novo", "fim"}, Acabar(o)
  PROVE  /\ uso' \in [Usos -> Usado] /\ serial' \in BOOLEAN
         /\ Fechado(uso'[o]) /\ uso'[o].passo = "fim"
         /\ \A q \in Usos \ {o} : uso'[q] = uso[q]
<1>1. uso[o] \in Usado /\ uso'[o] = [uso[o] EXCEPT !.passo = "fim"]
      BY DEF Acabar, IInv, Tabelas
<1>2. \/ uso[o].alvo \in Processos /\ uso[o].lido \in LinhaProcesso
      \/ uso[o].alvo \in Pecas /\ uso[o].lido \in LinhaPeca
      BY DEF IInv, Carregados, Parado, Fechado, Fiel
<1>3. uso'[o] \in Usado /\ Fechado(uso'[o])
      BY <1>1, <1>2 DEF Usado, Fechado
<1>4. QED
      BY <1>1, <1>3 DEF Acabar, IInv, Tabelas, Fechado

\* A use that holds a faithful entity.
LEMMA LerIInv ==
  ASSUME IInv, NEW o \in Usos, NEW passo, NEW alvo, NEW lido,
         Ler(o, passo, alvo, lido), Fiel(passo, alvo, lido),
         passo = "criar" => \A q \in Usos : uso[q].alvo # alvo
  PROVE  IInv'
<1>1. [passo |-> passo, alvo |-> alvo, lido |-> lido] \in Usado
      BY DEF Fiel, Usado
<1>2. /\ processo' = processo /\ peca' = peca /\ serial' = serial
      /\ uso'[o] = [passo |-> passo, alvo |-> alvo, lido |-> lido]
      /\ \A q \in Usos \ {o} : uso'[q] = uso[q]
      /\ uso' \in [Usos -> Usado]
      BY <1>1 DEF Ler, IInv, Tabelas
<1>3. Tabelas'
      BY <1>2 DEF IInv, Tabelas
<1>4. Carregados'
      BY <1>2 DEF IInv, Carregados, Fiel, Das
<1>5. CriadorUnico'
      BY <1>2 DEF IInv, CriadorUnico
<1>6. Coerentes' /\ OrdensSemSaltos'
      BY <1>2 DEF IInv, Coerentes, OrdensSemSaltos, Das, Ordens
<1>7. QED
      BY <1>3, <1>4, <1>5, <1>6 DEF IInv

\* A save of a case.
LEMMA GravarProcessoIInv ==
  ASSUME IInv, NEW o \in Usos, NEW linha \in LinhaProcesso, ProcessoCoerente(linha),
         uso[o].passo = "processo", GravarProcesso(o, linha)
  PROVE  IInv'
<1>1. /\ peca' = peca
      /\ uso' \in [Usos -> Usado] /\ serial' \in BOOLEAN
      /\ Fechado(uso'[o]) /\ uso'[o].passo = "fim"
      /\ \A q \in Usos \ {o} : uso'[q] = uso[q]
      BY AcabarFecha DEF GravarProcesso
<1>2. /\ processo' \in [Processos -> LinhaProcesso]
      /\ \A x \in Processos : processo'[x] = processo[x] \/ processo'[x] = linha
      BY DEF GravarProcesso, IInv, Tabelas
<1>3. Tabelas'
      BY <1>1, <1>2 DEF IInv, Tabelas
<1>4. Carregados'
      BY <1>1 DEF IInv, Carregados, Fiel, Das, Fechado
<1>5. CriadorUnico'
      BY <1>1 DEF IInv, CriadorUnico
<1>6. Coerentes' /\ OrdensSemSaltos'
      BY <1>1, <1>2 DEF IInv, Coerentes, OrdensSemSaltos, Das, Ordens, ProcessoCoerente
<1>7. QED
      BY <1>3, <1>4, <1>5, <1>6 DEF IInv

\* A save of a document that is there.
LEMMA GravarPecaIInv ==
  ASSUME IInv, NEW o \in Usos, NEW linha \in LinhaPeca, PecaCoerente(linha),
         uso[o].passo = "peca", linha.ordem = uso[o].lido.ordem, GravarPeca(o, linha)
  PROVE  IInv'
<1> DEFINE p == uso[o].alvo
<1>1. /\ p \in Pecas /\ peca[p] # Nenhum /\ linha # Nenhum /\ linha.ordem = peca[p].ordem
      BY NenhumAssumption DEF IInv, Carregados, Parado, Fechado, Fiel
<1>2. /\ processo' = processo
      /\ uso' \in [Usos -> Usado] /\ serial' \in BOOLEAN
      /\ Fechado(uso'[o]) /\ uso'[o].passo = "fim"
      /\ \A q \in Usos \ {o} : uso'[q] = uso[q]
      BY AcabarFecha DEF GravarPeca
<1>3. /\ peca' \in [Pecas -> LinhaPeca \cup {Nenhum}]
      /\ peca'[p] = linha
      /\ \A q \in Pecas \ {p} : peca'[q] = peca[q]
      BY <1>1 DEF GravarPeca, IInv, Tabelas
<1>4. /\ \A q \in Pecas : peca'[q] = Nenhum <=> peca[q] = Nenhum
      /\ \A q \in Pecas : peca[q] # Nenhum => peca'[q].ordem = peca[q].ordem
      BY <1>1, <1>3
<1>5. \A x \in Processos : Das(x)' = Das(x) /\ Ordens(x)' = Ordens(x)
  <2> SUFFICES ASSUME NEW x \in Processos
               PROVE  Das(x)' = Das(x) /\ Ordens(x)' = Ordens(x)
      OBVIOUS
  <2>1. Das(x)' = Das(x)
        BY <1>4 DEF Das
  <2>2. QED
        BY <2>1, <1>4 DEF Ordens, Das
<1>6. Tabelas'
      BY <1>2, <1>3 DEF IInv, Tabelas
<1>7. Carregados'
  <2> SUFFICES ASSUME NEW q \in Usos \ {o}, Fiel(uso[q].passo, uso[q].alvo, uso[q].lido)
               PROVE  Fiel(uso[q].passo, uso[q].alvo, uso[q].lido)'
      BY <1>2 DEF IInv, Carregados, Fechado, Parado
  <2>1. uso[q].alvo \in Pecas => ProcessoDe[uso[q].alvo] \in Processos
        BY ProcessoDeAssumption
  <2>2. uso'[q] = uso[q]
        BY <1>2
  <2>3. QED
        BY <1>4, <1>5, <2>1, <2>2 DEF Fiel
<1>8. CriadorUnico'
      BY <1>2 DEF IInv, CriadorUnico
<1>9. Coerentes' /\ OrdensSemSaltos'
  <2>1. Coerentes'
        BY <1>2, <1>3 DEF IInv, Coerentes
  <2>2. OrdensSemSaltos'
        BY <1>5 DEF IInv, OrdensSemSaltos
  <2>3. QED
        BY <2>1, <2>2
<1>10. QED
      BY <1>6, <1>7, <1>8, <1>9 DEF IInv

\* A document that is created takes the next number of its case.
LEMMA CriarIInv ==
  ASSUME IInv, NEW o \in Usos, Criar(o)
  PROVE  IInv'
<1> DEFINE linha == uso[o].lido
<1> PICK p : p = uso[o].alvo
    OBVIOUS
<1> PICK mae : mae = ProcessoDe[p]
    OBVIOUS
<1>1. /\ p \in Pecas /\ peca[p] = Nenhum /\ linha \in LinhaPeca /\ linha # Nenhum
      /\ PecaCoerente(linha) /\ linha.ordem <= Cardinality(Das(mae)) + 1
      /\ mae \in Processos /\ linha.ordem \in Nat \ {0}
      BY NenhumAssumption, ProcessoDeAssumption
      DEF Criar, IInv, Carregados, Parado, Fechado, Fiel, LinhaPeca
<1>2. /\ processo' = processo
      /\ uso' \in [Usos -> Usado] /\ serial' \in BOOLEAN
      /\ Fechado(uso'[o]) /\ uso'[o].passo = "fim"
      /\ \A q \in Usos \ {o} : uso'[q] = uso[q]
      BY AcabarFecha DEF Criar, GravarPeca
<1>3. /\ peca' \in [Pecas -> LinhaPeca \cup {Nenhum}]
      /\ peca'[p] = linha
      /\ \A q \in Pecas \ {p} : peca'[q] = peca[q]
      BY <1>1 DEF Criar, GravarPeca, IInv, Tabelas
<1>4. Das(mae)' = Das(mae) \cup {p} /\ p \notin Das(mae)
      BY <1>1, <1>3 DEF Das
<1>5. \A x \in Processos \ {mae} : Das(x)' = Das(x) /\ Ordens(x)' = Ordens(x)
  <2> SUFFICES ASSUME NEW x \in Processos \ {mae}
               PROVE  Das(x)' = Das(x) /\ Ordens(x)' = Ordens(x)
      OBVIOUS
  <2>1. Das(x)' = Das(x) /\ p \notin Das(x)
        BY <1>1, <1>3 DEF Das
  <2>2. QED
        BY <2>1, <1>3 DEF Ordens, Das
<1>6. Cardinality(Das(mae)') = Cardinality(Das(mae)) + 1 /\ Cardinality(Das(mae)) \in Nat
  <2>1. IsFiniteSet(Das(mae)) /\ Cardinality(Das(mae)) \in Nat
        BY <1>1, DasFinitas
  <2>2. Cardinality(Das(mae) \cup {p}) = Cardinality(Das(mae)) + 1
        BY <1>4, <2>1, FS_AddElement
  <2>3. QED
        BY <1>4, <2>1, <2>2
<1>7. Ordens(mae)' = Ordens(mae) \cup {linha.ordem}
      BY <1>3, <1>4 DEF Ordens, Das
<1>8. OrdensSemSaltos'
  <2>1. linha.ordem = Cardinality(Das(mae)) + 1
    <3>1. Ordens(mae) = 1 .. Cardinality(Das(mae)) /\ linha.ordem \notin Ordens(mae)
          BY <1>1 DEF IInv, OrdensSemSaltos, Criar
    <3>2. QED
          BY <1>1, <1>6, <3>1
  <2>2. Ordens(mae)' = 1 .. Cardinality(Das(mae)')
    <3>1. Ordens(mae) = 1 .. Cardinality(Das(mae))
          BY <1>1 DEF IInv, OrdensSemSaltos
    <3>2. QED
          BY <1>6, <1>7, <2>1, <3>1
  <2>3. QED
        BY <1>5, <2>2 DEF IInv, OrdensSemSaltos
<1>9. Tabelas'
      BY <1>2, <1>3 DEF IInv, Tabelas
<1>10. Carregados'
  <2> SUFFICES ASSUME NEW q \in Usos \ {o}, Fiel(uso[q].passo, uso[q].alvo, uso[q].lido)
               PROVE  Fiel(uso[q].passo, uso[q].alvo, uso[q].lido)'
      BY <1>2 DEF IInv, Carregados, Fechado, Parado
  <2>1. uso'[q] = uso[q]
        BY <1>2
  <2>2. CASE uso[q].passo = "processo"
        BY <2>1, <2>2 DEF Fiel
  <2>3. CASE uso[q].passo = "criar"
    <3>1. uso[q].alvo \in Pecas \ {p} /\ ProcessoDe[uso[q].alvo] \in Processos
          BY <2>3, ProcessoDeAssumption DEF Fiel, IInv, CriadorUnico, Criar
    <3>2. /\ uso[q].lido.ordem \in Nat
          /\ Cardinality(Das(ProcessoDe[uso[q].alvo])) \in Nat
          BY <2>3, <3>1, DasFinitas DEF Fiel, LinhaPeca
    <3>3. Cardinality(Das(ProcessoDe[uso[q].alvo])') \in
            {Cardinality(Das(ProcessoDe[uso[q].alvo])),
             Cardinality(Das(ProcessoDe[uso[q].alvo])) + 1}
          BY <1>5, <1>6, <2>1, <3>1
    <3>4. QED
          BY <1>3, <2>1, <2>3, <3>1, <3>2, <3>3 DEF Fiel
  <2>4. CASE uso[q].passo = "peca"
        BY <1>1, <1>3, <2>1, <2>4 DEF Fiel
  <2>5. QED
        BY <2>2, <2>3, <2>4 DEF Fiel
<1>11. CriadorUnico'
      BY <1>2 DEF IInv, CriadorUnico
<1>12. Coerentes'
      BY <1>1, <1>2, <1>3 DEF IInv, Coerentes
<1>13. QED
      BY <1>8, <1>9, <1>10, <1>11, <1>12 DEF IInv

\* The number asked for is one above the count of the case's documents.
LEMMA PedirOrdemIInv ==
  ASSUME IInv, NEW o \in Usos, NEW p \in Pecas, PedirOrdem(o, p)
  PROVE  IInv'
<1> DEFINE S == Ordens(ProcessoDe[p])
           maior == CHOOSE m \in S \cup {0} : \A n \in S : n <= m
           lido == [ordem |-> maior + 1, estado |-> "RASCUNHO",
                    hash |-> Nenhum, assinante |-> Nenhum]
           n == Cardinality(Das(ProcessoDe[p]))
<1>1. /\ peca[p] = Nenhum /\ Ler(o, "criar", p, lido)
      /\ \A q \in Usos : uso[q].alvo # p
      BY DEF PedirOrdem
<1>2. S = 1 .. n /\ n \in Nat
      BY ProcessoDeAssumption, DasFinitas DEF IInv, OrdensSemSaltos
<1>3. maior = n
  <2>1. n \in S \cup {0} /\ \A k \in S : k <= n
        BY <1>2
  <2>2. maior \in S \cup {0} /\ \A k \in S : k <= maior
        BY <2>1
  <2>3. QED
        BY <1>2, <2>2
<1>4. lido \in LinhaPeca /\ PecaCoerente(lido) /\ lido.ordem <= n + 1
      BY <1>2, <1>3 DEF LinhaPeca, PecaCoerente
<1>5. Fiel("criar", p, lido)
      BY <1>1, <1>4 DEF Fiel
<1>6. QED
      BY <1>1, <1>5, LerIInv

\* Each method of an entity keeps a coherent row coherent.
LEMMA MetodosIInv ==
  ASSUME IInv, NEW o \in Usos,
         \/ \E i \in Instrutores : DistribuirParaInstrutor(o, i)
         \/ RemeterParaProcuradoria(o)
         \/ \E n \in NumerosPGR : RegistarNumeroProcuradoria(o, n)
         \/ Arquivar(o)
         \/ \E h \in Hashes : GerarPDF(o, h)
         \/ Assinar(o)
  PROVE  IInv'
<1> DEFINE lido == uso[o].lido
<1>1. uso[o].passo = "processo" => lido \in LinhaProcesso /\ ProcessoCoerente(lido)
      BY DEF IInv, Carregados, Parado, Fechado, Fiel
<1>2. uso[o].passo = "peca" => lido \in LinhaPeca /\ PecaCoerente(lido)
      BY DEF IInv, Carregados, Parado, Fechado, Fiel
<1>3. ASSUME NEW i \in Instrutores, DistribuirParaInstrutor(o, i)
      PROVE  IInv'
  <2> DEFINE linha == [lido EXCEPT !.instrutor = i, !.estado = "EM_INSTRUCAO"]
  <2>1. linha \in LinhaProcesso /\ ProcessoCoerente(linha)
        BY <1>1, <1>3, NenhumAssumption
        DEF DistribuirParaInstrutor, ComProcesso, LinhaProcesso, ProcessoCoerente
  <2>2. QED
        BY <1>3, <2>1, GravarProcessoIInv DEF DistribuirParaInstrutor, ComProcesso
<1>4. CASE RemeterParaProcuradoria(o)
  <2> DEFINE linha == [lido EXCEPT !.estado = "REMETIDO_PROCURADORIA"]
  <2>1. linha \in LinhaProcesso /\ ProcessoCoerente(linha)
        BY <1>1, <1>4 DEF RemeterParaProcuradoria, ComProcesso, LinhaProcesso, ProcessoCoerente
  <2>2. QED
        BY <1>4, <2>1, GravarProcessoIInv DEF RemeterParaProcuradoria, ComProcesso
<1>5. ASSUME NEW n \in NumerosPGR, RegistarNumeroProcuradoria(o, n)
      PROVE  IInv'
  <2> DEFINE linha == [lido EXCEPT !.numero = n, !.estado = "EM_PROCURADORIA"]
  <2>1. linha \in LinhaProcesso /\ ProcessoCoerente(linha)
        BY <1>1, <1>5, NenhumAssumption
        DEF RegistarNumeroProcuradoria, ComProcesso, LinhaProcesso, ProcessoCoerente
  <2>2. QED
        BY <1>5, <2>1, GravarProcessoIInv DEF RegistarNumeroProcuradoria, ComProcesso
<1>6. CASE Arquivar(o)
  <2> DEFINE linha == [lido EXCEPT !.estado = "ARQUIVADO"]
  <2>1. linha \in LinhaProcesso /\ ProcessoCoerente(linha)
        BY <1>1, <1>6 DEF Arquivar, ComProcesso, LinhaProcesso, ProcessoCoerente
  <2>2. QED
        BY <1>6, <2>1, GravarProcessoIInv DEF Arquivar, ComProcesso
<1>7. ASSUME NEW h \in Hashes, GerarPDF(o, h)
      PROVE  IInv'
  <2> DEFINE linha == [lido EXCEPT !.hash = h, !.estado = "GERADA"]
  <2>1. linha \in LinhaPeca /\ PecaCoerente(linha) /\ linha.ordem = lido.ordem
        BY <1>2, <1>7, NenhumAssumption DEF GerarPDF, ComPeca, LinhaPeca, PecaCoerente
  <2>2. QED
        BY <1>7, <2>1, GravarPecaIInv DEF GerarPDF, ComPeca
<1>8. CASE Assinar(o)
  <2> DEFINE linha == [lido EXCEPT !.assinante = o, !.estado = "IMUTAVEL"]
  <2>1. linha \in LinhaPeca /\ PecaCoerente(linha) /\ linha.ordem = lido.ordem
        BY <1>2, <1>8, NenhumAssumption DEF Assinar, ComPeca, LinhaPeca, PecaCoerente
  <2>2. QED
        BY <1>8, <2>1, GravarPecaIInv DEF Assinar, ComPeca
<1>9. QED
      BY <1>3, <1>4, <1>5, <1>6, <1>7, <1>8

\* A use gives up.
LEMMA DesistirIInv ==
  ASSUME IInv, NEW o \in Usos, Desistir(o)
  PROVE  IInv'
<1>1. /\ processo' = processo /\ peca' = peca
      /\ uso' \in [Usos -> Usado] /\ serial' \in BOOLEAN
      /\ Fechado(uso'[o]) /\ uso'[o].passo = "fim"
      /\ \A q \in Usos \ {o} : uso'[q] = uso[q]
      BY AcabarFecha DEF Desistir
<1>2. Tabelas' /\ CriadorUnico'
      BY <1>1 DEF IInv, Tabelas, CriadorUnico
<1>3. Carregados'
      BY <1>1 DEF IInv, Carregados, Fiel, Das, Fechado
<1>4. Coerentes' /\ OrdensSemSaltos'
      BY <1>1 DEF IInv, Coerentes, OrdensSemSaltos, Das, Ordens
<1>5. QED
      BY <1>2, <1>3, <1>4 DEF IInv

\* New cases and no documents satisfy the invariant.
LEMMA InitIInv == Init => IInv
<1> SUFFICES ASSUME Init PROVE IInv
    OBVIOUS
<1>1. Tabelas
      BY DEF Init, Tabelas, LinhaProcesso, Usado, Parado
<1>2. Carregados /\ CriadorUnico /\ Coerentes
      BY DEF Init, Carregados, CriadorUnico, Coerentes, ProcessoCoerente, Parado
<1>3. OrdensSemSaltos
  <2>1. ASSUME NEW x \in Processos
        PROVE  Das(x) = {} /\ Ordens(x) = {}
    <3>1. Das(x) = {}
          BY DEF Init, Das
    <3>2. QED
          BY <3>1 DEF Ordens
  <2>2. 1 .. 0 = {}
        OBVIOUS
  <2>3. QED
        BY <2>1, <2>2, FS_EmptySet DEF OrdensSemSaltos
<1>4. QED
      BY <1>1, <1>2, <1>3 DEF IInv

\* No use, reading or saving, disturbs the invariant.
LEMMA PassoIInv == IInv /\ [Next]_vars => IInv'
<1> SUFFICES ASSUME IInv, [Next]_vars PROVE IInv'
    OBVIOUS
<1>1. ASSUME NEW o \in Usos, NEW x \in Processos, CarregarProcesso(o, x)
      PROVE  IInv'
  <2>1. Fiel("processo", x, processo[x])
        BY DEF IInv, Tabelas, Coerentes, Fiel
  <2>2. QED
        BY <1>1, <2>1, LerIInv DEF CarregarProcesso
<1>2. ASSUME NEW o \in Usos, NEW p \in Pecas, CarregarPeca(o, p)
      PROVE  IInv'
  <2>1. Fiel("peca", p, peca[p])
        BY <1>2 DEF IInv, Tabelas, Coerentes, Fiel, CarregarPeca
  <2>2. QED
        BY <1>2, <2>1, LerIInv DEF CarregarPeca
<1>3. ASSUME UNCHANGED vars
      PROVE  IInv'
  <2>1. Tabelas' /\ CriadorUnico'
        BY <1>3 DEF vars, IInv, Tabelas, CriadorUnico
  <2>2. Carregados'
        BY <1>3 DEF vars, IInv, Carregados, Fiel, Das, Fechado
  <2>3. Coerentes' /\ OrdensSemSaltos'
        BY <1>3 DEF vars, IInv, Coerentes, OrdensSemSaltos, Das, Ordens
  <2>4. QED
        BY <2>1, <2>2, <2>3 DEF IInv
<1>4. QED
      BY <1>1, <1>2, <1>3, PedirOrdemIInv, CriarIInv, MetodosIInv, DesistirIInv DEF Next

\* The inductive invariant holds in every state.
THEOREM Indutivo == Spec => []IInv
      BY InitIInv, PassoIInv, PTL DEF Spec

(* Rows and entities in memory have their types (processo.entity.ts,       *)
(* peca-processual.entity.ts and their repositories).                      *)
THEOREM TipagemCorrecta == Spec => []TypeOK
<1>1. IInv => TypeOK
      BY DEF IInv, Tabelas, Usado, Carregados, Fiel, Fechado, TypeOK
<1>2. QED
      BY <1>1, Indutivo, PTL

(* Whatever saves overlap, a case and a document show the fields their     *)
(* state calls for (the entities' methods and save of the whole row).      *)
THEOREM LinhasSempreCoerentes == Spec => []LinhasCoerentes
<1>1. IInv => LinhasCoerentes
      BY DEF IInv, Coerentes, ProcessoCoerente, PecaCoerente, LinhasCoerentes
<1>2. QED
      BY <1>1, Indutivo, PTL

(* The documents of a case are numbered without gap or double, although    *)
(* proximoNumeroOrdem and save are apart and creations are refused.        *)
THEOREM OrdensSempreSeguidas == Spec => []OrdensSemSaltos
<1>1. IInv => OrdensSemSaltos
      BY DEF IInv
<1>2. QED
      BY <1>1, Indutivo, PTL
-----------------------------------------------------------------------------
\* One use at a time: what it holds is what the table holds.
SozinhoNoExpediente ==
  serial =>
    /\ \A o, q \in Usos :
         uso[o].passo \notin {"novo", "fim"} /\ uso[q].passo \notin {"novo", "fim"} => o = q
    /\ \A o \in Usos :
         /\ uso[o].passo = "processo" => uso[o].lido = processo[uso[o].alvo]
         /\ uso[o].passo = "peca" => uso[o].lido = peca[uso[o].alvo]

\* A read is of the row as it is; a use that ends leaves nobody under way.
LEMMA SozinhoPasso ==
  ASSUME IInv, SozinhoNoExpediente, [Next]_vars
  PROVE  SozinhoNoExpediente'
<1>1. ASSUME NEW o \in Usos, NEW passo, NEW alvo, NEW lido, Ler(o, passo, alvo, lido),
             passo = "processo" => lido = processo[alvo],
             passo = "peca" => lido = peca[alvo]
      PROVE  SozinhoNoExpediente'
  <2>1. /\ processo' = processo /\ peca' = peca /\ serial' = serial
        /\ uso'[o] = [passo |-> passo, alvo |-> alvo, lido |-> lido]
        /\ \A q \in Usos \ {o} : uso'[q] = uso[q]
        /\ serial => \A q \in Usos : uso[q].passo \in {"novo", "fim"}
        BY <1>1 DEF Ler, IInv, Tabelas
  <2>2. QED
        BY <1>1, <2>1 DEF SozinhoNoExpediente
<1>2. ASSUME NEW o \in Usos, uso[o].passo \notin {"novo", "fim"}, Acabar(o)
      PROVE  SozinhoNoExpediente'
  <2>1. /\ serial' = serial /\ uso'[o].passo = "fim"
        /\ \A q \in Usos \ {o} : uso'[q] = uso[q]
        BY <1>2, AcabarFecha DEF Acabar
  <2>2. QED
        BY <1>2, <2>1 DEF SozinhoNoExpediente
<1>3. \/ \E o \in Usos, x \in Processos : CarregarProcesso(o, x)
      \/ \E o \in Usos, p \in Pecas : PedirOrdem(o, p) \/ CarregarPeca(o, p)
      \/ \E o \in Usos : uso[o].passo \notin {"novo", "fim"} /\ Acabar(o)
      \/ UNCHANGED vars
      BY DEF Next, DistribuirParaInstrutor, RemeterParaProcuradoria, RegistarNumeroProcuradoria,
         Arquivar, GerarPDF, Assinar, Criar, Desistir, ComProcesso, ComPeca, GravarProcesso,
         GravarPeca
<1>4. CASE UNCHANGED vars
      BY <1>4 DEF vars, SozinhoNoExpediente
<1>5. QED
      BY <1>1, <1>2, <1>3, <1>4 DEF CarregarProcesso, PedirOrdem, CarregarPeca

(* domain.spec.ts:129: when uses do not overlap, an archived case and a    *)
(* signed document are never changed again.                                *)
THEOREM FinaisQuandoSerial == Spec => FinaisSeSerial
<1> DEFINE Finda ==
      serial =>
       /\ \A x \in Processos :
            processo[x].estado \in Finais => processo'[x] = processo[x]
       /\ \A p \in Pecas :
            peca[p] # Nenhum /\ peca[p].estado \in Finais => peca'[p] = peca[p]
<1>1. ASSUME IInv, SozinhoNoExpediente, [Next]_vars
      PROVE  [Finda]_vars
  <2> SUFFICES ASSUME Next, serial PROVE Finda
      BY <1>1
  <2>1. ASSUME NEW o \in Usos, NEW linha, GravarProcesso(o, linha), uso[o].passo = "processo",
               uso[o].lido.estado # "ARQUIVADO"
        PROVE  Finda
    <3>1. /\ uso[o].alvo \in Processos /\ processo[uso[o].alvo] \in LinhaProcesso
          /\ processo[uso[o].alvo].estado # "ARQUIVADO"
          BY <1>1, <2>1 DEF IInv, Tabelas, Carregados, Parado, Fechado, Fiel, SozinhoNoExpediente
    <3>2. processo[uso[o].alvo].estado \notin Finais
          BY <3>1 DEF LinhaProcesso, Finais
    <3>3. \A x \in Processos \ {uso[o].alvo} : processo'[x] = processo[x]
          BY <1>1, <2>1 DEF GravarProcesso, IInv, Tabelas
    <3>4. QED
          BY <2>1, <3>2, <3>3 DEF GravarProcesso
  <2>2. ASSUME NEW o \in Usos, NEW linha, GravarPeca(o, linha),
               \/ uso[o].passo = "criar"
               \/ uso[o].passo = "peca" /\ uso[o].lido.estado \in {"RASCUNHO", "GERADA"}
        PROVE  Finda
    <3>1. peca[uso[o].alvo] = Nenhum \/ peca[uso[o].alvo].estado \notin Finais
          BY <1>1, <2>2 DEF IInv, Carregados, Parado, Fechado, Fiel, SozinhoNoExpediente, Finais
    <3>2. \A p \in Pecas \ {uso[o].alvo} : peca'[p] = peca[p]
          BY <1>1, <2>2 DEF GravarPeca, IInv, Tabelas
    <3>3. QED
          BY <2>2, <3>1, <3>2 DEF GravarPeca
  <2>3. \/ \E o \in Usos : \E linha : /\ GravarProcesso(o, linha) /\ uso[o].passo = "processo"
                                      /\ uso[o].lido.estado # "ARQUIVADO"
        \/ \E o \in Usos : \E linha :
             /\ GravarPeca(o, linha)
             /\ \/ uso[o].passo = "criar"
                \/ uso[o].passo = "peca" /\ uso[o].lido.estado \in {"RASCUNHO", "GERADA"}
        \/ processo' = processo /\ peca' = peca
        BY DEF Next, CarregarProcesso, PedirOrdem, CarregarPeca, Ler, DistribuirParaInstrutor,
           RemeterParaProcuradoria, RegistarNumeroProcuradoria, Arquivar, GerarPDF, Assinar,
           Criar, Desistir, ComProcesso, ComPeca
  <2>4. QED
        BY <2>1, <2>2, <2>3
<1>2. Init => SozinhoNoExpediente
      BY DEF Init, SozinhoNoExpediente, Parado
<1>3. IInv /\ SozinhoNoExpediente /\ [Next]_vars => SozinhoNoExpediente'
      BY SozinhoPasso
<1>4. QED
      BY <1>1, <1>2, <1>3, InitIInv, PassoIInv, PTL DEF Spec, FinaisSeSerial

\* A document is never lost and never renumbered, however stale the entity that
\* is saved over it: no method of PecaProcessual changes numeroOrdem, and its
\* creation is refused once its number is taken.
OrdemDefinitiva ==
  [][\A p \in Pecas :
       peca[p] # Nenhum => peca'[p] # Nenhum /\ peca'[p].ordem = peca[p].ordem]_vars

\* A saved document keeps its number in the case, also when uses overlap.
THEOREM OrdemSempreDefinitiva == Spec => OrdemDefinitiva
<1> DEFINE Fica == \A p \in Pecas :
                     peca[p] # Nenhum => peca'[p] # Nenhum /\ peca'[p].ordem = peca[p].ordem
<1>1. ASSUME IInv, IInv', Next
      PROVE  Fica
  <2>1. ASSUME NEW o \in Usos, Criar(o)
        PROVE  Fica
    <3>1. peca[uso[o].alvo] = Nenhum /\ \A p \in Pecas \ {uso[o].alvo} : peca'[p] = peca[p]
          BY <1>1, <2>1 DEF IInv, Tabelas, Carregados, Fechado, Fiel, Parado, Criar, GravarPeca
    <3>2. QED
          BY <3>1
  <2>2. ASSUME NEW o \in Usos, NEW linha, GravarPeca(o, linha), uso[o].passo = "peca",
               linha \in LinhaPeca, linha.ordem = uso[o].lido.ordem
        PROVE  Fica
    <3>1. /\ peca[uso[o].alvo] # Nenhum /\ linha # Nenhum
          /\ linha.ordem = peca[uso[o].alvo].ordem
          BY <1>1, <2>2, NenhumAssumption DEF IInv, Carregados, Fechado, Fiel, Parado
    <3>2. \A p \in Pecas : peca'[p] = IF p = uso[o].alvo THEN linha ELSE peca[p]
          BY <1>1, <2>2 DEF IInv, Tabelas, GravarPeca
    <3>3. QED
          BY <3>1, <3>2
  <2>3. ASSUME NEW o \in Usos, NEW h \in Hashes, GerarPDF(o, h)
        PROVE  Fica
    <3> DEFINE linha == [uso[o].lido EXCEPT !.hash = h, !.estado = "GERADA"]
    <3>1. uso[o].passo = "peca" /\ uso[o].lido \in LinhaPeca
          BY <1>1, <2>3 DEF IInv, Carregados, Fechado, Fiel, Parado, GerarPDF, ComPeca
    <3>2. linha \in LinhaPeca /\ linha.ordem = uso[o].lido.ordem
          BY <3>1 DEF LinhaPeca
    <3>3. QED
          BY <2>2, <2>3, <3>1, <3>2 DEF GerarPDF
  <2>4. ASSUME NEW o \in Usos, Assinar(o)
        PROVE  Fica
    <3> DEFINE linha == [uso[o].lido EXCEPT !.assinante = o, !.estado = "IMUTAVEL"]
    <3>1. uso[o].passo = "peca" /\ uso[o].lido \in LinhaPeca
          BY <1>1, <2>4 DEF IInv, Carregados, Fechado, Fiel, Parado, Assinar, ComPeca
    <3>2. linha \in LinhaPeca /\ linha.ordem = uso[o].lido.ordem
          BY <3>1 DEF LinhaPeca
    <3>3. QED
          BY <2>2, <2>4, <3>1, <3>2 DEF Assinar
  <2>5. \/ \E o \in Usos : Criar(o) \/ Assinar(o) \/ \E h \in Hashes : GerarPDF(o, h)
        \/ peca' = peca
        BY <1>1 DEF Next, CarregarProcesso, PedirOrdem, CarregarPeca, Ler, Desistir,
           DistribuirParaInstrutor, RemeterParaProcuradoria, RegistarNumeroProcuradoria,
           Arquivar, GravarProcesso
  <2>6. CASE peca' = peca
        BY <2>6
  <2> HIDE DEF Fica
  <2>7. QED
        BY <2>1, <2>3, <2>4, <2>5, <2>6
<1>2. IInv /\ IInv' /\ [Next]_vars => [Fica]_vars
      BY <1>1
<1>3. QED
      BY <1>2, Indutivo, PTL DEF Spec, OrdemDefinitiva
=============================================================================
