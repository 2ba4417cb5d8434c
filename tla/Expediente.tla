------------------------------ MODULE Expediente ------------------------------
(***************************************************************************)
(* The life of a case and of its documents: the entities Processo and      *)
(* PecaProcessual with their repositories.  Every use is the one the       *)
(* repositories allow: findById, one method of the entity, save of the     *)
(* whole row, with an await before and after the method and nothing that   *)
(* compares versions.  A document is created with the order number that    *)
(* proximoNumeroOrdem read.  No handler of the repository makes these uses *)
(* yet; serial says whether whoever makes them lets them overlap.          *)
(***************************************************************************)
EXTENDS Naturals, FiniteSets

CONSTANTS
  Processos, Pecas, Usos,
  Instrutores, NumerosPGR, Hashes,
  ProcessoDe,     \* [Pecas -> Processos]
  Nenhum

\* A row of processos, and a row of pecas_processuais.
LinhaProcesso ==
  [estado : {"RASCUNHO", "EM_INSTRUCAO", "REMETIDO_PROCURADORIA", "EM_PROCURADORIA", "ARQUIVADO"},
   instrutor : Instrutores \cup {Nenhum}, numero : NumerosPGR \cup {Nenhum}]

LinhaPeca ==
  [ordem : Nat \ {0}, estado : {"RASCUNHO", "GERADA", "IMUTAVEL"},
   hash : Hashes \cup {Nenhum}, assinante : Usos \cup {Nenhum}]

ASSUME ProcessoDeAssumption == ProcessoDe \in [Pecas -> Processos]
ASSUME PecasAssumption == IsFiniteSet(Pecas)
ASSUME NenhumAssumption ==
  Nenhum \notin Instrutores \cup NumerosPGR \cup Hashes \cup Usos \cup LinhaPeca

Finais == {"ARQUIVADO", "IMUTAVEL"}

VARIABLES
  processo,   \* processo[x]: its row: [estado, instrutor, numero]
  peca,       \* peca[p]: its row: [ordem, estado, hash, assinante], or Nenhum
  uso,        \* uso[o]: [passo, alvo, lido]: what it is about and the entity it holds
  serial      \* uses never overlap

vars == <<processo, peca, uso, serial>>

Parado == [passo |-> "novo", alvo |-> Nenhum, lido |-> Nenhum]

Init ==
  /\ processo = [x \in Processos |->
       [estado |-> "RASCUNHO", instrutor |-> Nenhum, numero |-> Nenhum]]
  /\ peca = [p \in Pecas |-> Nenhum]
  /\ uso = [o \in Usos |-> Parado]
  /\ serial \in BOOLEAN

\* A use begins with a read, which it keeps across an await.
Ler(o, passo, alvo, lido) ==
  /\ uso[o].passo = "novo"
  /\ serial => \A q \in Usos : uso[q].passo \in {"novo", "fim"}
  /\ uso' = [uso EXCEPT ![o] = [passo |-> passo, alvo |-> alvo, lido |-> lido]]
  /\ UNCHANGED <<processo, peca, serial>>

Acabar(o) == uso' = [uso EXCEPT ![o].passo = "fim"] /\ UNCHANGED serial

\* A method throws, or the process dies before save: nothing is written.
Desistir(o) ==
  /\ uso[o].passo \notin {"novo", "fim"}
  /\ Acabar(o)
  /\ UNCHANGED <<processo, peca>>

CarregarProcesso(o, x) == Ler(o, "processo", x, processo[x])

(* PrismaProcessoRepository.save of the entity o loaded and changed: the   *)
(* whole row, which the unique index on numero_procuradoria refuses if     *)
(* another case has come to have its number.                               *)
GravarProcesso(o, linha) ==
  /\ \A x \in Processos \ {uso[o].alvo} : linha.numero = Nenhum \/ processo[x].numero # linha.numero
  /\ processo' = [processo EXCEPT ![uso[o].alvo] = linha]
  /\ Acabar(o)
  /\ UNCHANGED peca

ComProcesso(o, estados) == uso[o].passo = "processo" /\ uso[o].lido.estado \in estados

DistribuirParaInstrutor(o, i) ==
  /\ ComProcesso(o, {"RASCUNHO"})
  /\ GravarProcesso(o, [uso[o].lido EXCEPT !.instrutor = i, !.estado = "EM_INSTRUCAO"])

RemeterParaProcuradoria(o) ==
  /\ ComProcesso(o, {"EM_INSTRUCAO"})
  /\ GravarProcesso(o, [uso[o].lido EXCEPT !.estado = "REMETIDO_PROCURADORIA"])

RegistarNumeroProcuradoria(o, n) ==
  /\ ComProcesso(o, {"REMETIDO_PROCURADORIA"})
  /\ GravarProcesso(o, [uso[o].lido EXCEPT !.numero = n, !.estado = "EM_PROCURADORIA"])

Arquivar(o) ==
  /\ ComProcesso(o, {"RASCUNHO", "EM_INSTRUCAO", "EM_PROCURADORIA"})
  /\ GravarProcesso(o, [uso[o].lido EXCEPT !.estado = "ARQUIVADO"])

\* The rows of a case's documents.
Das(x) == {p \in Pecas : peca[p] # Nenhum /\ ProcessoDe[p] = x}
Ordens(x) == {peca[p].ordem : p \in Das(x)}

(* proximoNumeroOrdem: the greatest order number of the case, plus one;   *)
(* lido is the document PecaProcessual.criar will make of it.             *)
PedirOrdem(o, p) ==
  LET maior == CHOOSE m \in Ordens(ProcessoDe[p]) \cup {0} :
                 \A n \in Ordens(ProcessoDe[p]) : n <= m
  IN /\ peca[p] = Nenhum
     /\ \A q \in Usos : uso[q].alvo # p     \* ids are new
     /\ Ler(o, "criar", p, [ordem |-> maior + 1, estado |-> "RASCUNHO",
                            hash |-> Nenhum, assinante |-> Nenhum])

GravarPeca(o, linha) ==
  /\ peca' = [peca EXCEPT ![uso[o].alvo] = linha]
  /\ Acabar(o)
  /\ UNCHANGED processo

\* Variant: a table without the unique index on (processo_id, numero_ordem).
CriarSemIndice(o) == uso[o].passo = "criar" /\ GravarPeca(o, uso[o].lido)

\* PecaProcessual.criar and save; the unique index refuses a number that is taken.
Criar(o) ==
  /\ uso[o].passo = "criar"
  /\ uso[o].lido.ordem \notin Ordens(ProcessoDe[uso[o].alvo])
  /\ GravarPeca(o, uso[o].lido)

CarregarPeca(o, p) == peca[p] # Nenhum /\ Ler(o, "peca", p, peca[p])

ComPeca(o, estado) == uso[o].passo = "peca" /\ uso[o].lido.estado = estado

\* Variant: the state of the document is not looked at.
GerarSempre(o, h) ==
  /\ uso[o].passo = "peca"
  /\ GravarPeca(o, [uso[o].lido EXCEPT !.hash = h, !.estado = "GERADA"])

\* Variant: only what gerarPDF assigns is written.
GerarSoColunas(o, h) ==
  /\ ComPeca(o, "RASCUNHO")
  /\ GravarPeca(o, [peca[uso[o].alvo] EXCEPT !.hash = h, !.estado = "GERADA"])

GerarPDF(o, h) ==
  /\ ComPeca(o, "RASCUNHO")
  /\ GravarPeca(o, [uso[o].lido EXCEPT !.hash = h, !.estado = "GERADA"])

\* Variant: the enum's ASSINADA, which nothing else expects.
AssinarSemFecho(o) ==
  /\ ComPeca(o, "GERADA")
  /\ GravarPeca(o, [uso[o].lido EXCEPT !.assinante = o, !.estado = "ASSINADA"])

Assinar(o) ==
  /\ ComPeca(o, "GERADA")
  /\ uso[o].lido.hash # Nenhum
  /\ GravarPeca(o, [uso[o].lido EXCEPT !.assinante = o, !.estado = "IMUTAVEL"])

Next ==
  \E o \in Usos :
    \/ \E x \in Processos : CarregarProcesso(o, x)
    \/ \E i \in Instrutores : DistribuirParaInstrutor(o, i)
    \/ RemeterParaProcuradoria(o)
    \/ \E n \in NumerosPGR : RegistarNumeroProcuradoria(o, n)
    \/ Arquivar(o)
    \/ \E p \in Pecas : PedirOrdem(o, p) \/ CarregarPeca(o, p)
    \/ Criar(o)
    \/ \E h \in Hashes : GerarPDF(o, h)
    \/ Assinar(o)
    \/ Desistir(o)

Spec == Init /\ [][Next]_vars
-----------------------------------------------------------------------------
(* Type correctness of the rows and of the entities in memory.            *)
TypeOK ==
  /\ processo \in [Processos -> LinhaProcesso]
  /\ peca \in [Pecas -> LinhaPeca \cup {Nenhum}]
  /\ serial \in BOOLEAN
  /\ \A o \in Usos :
       \/ uso[o] = Parado
       \/ /\ uso[o].passo \in {"processo", "criar", "peca", "fim"}
          /\ \/ uso[o].alvo \in Processos /\ uso[o].lido \in LinhaProcesso
             \/ uso[o].alvo \in Pecas /\ uso[o].lido \in LinhaPeca

(* However saves overwrite one another, no row mixes two histories: a     *)
(* case beyond RASCUNHO has its instructor and one at the prosecutor's    *)
(* office its number; a document has a hash exactly from GERADA on and a  *)
(* signature exactly when IMUTAVEL.                                       *)
LinhasCoerentes ==
  /\ \A x \in Processos :
       LET l == processo[x] IN
       /\ l.estado = "RASCUNHO" => l.instrutor = Nenhum
       /\ l.estado \notin {"RASCUNHO", "ARQUIVADO"} => l.instrutor # Nenhum
       /\ l.estado = "EM_PROCURADORIA" => l.numero # Nenhum
       /\ l.numero # Nenhum => l.estado \in {"EM_PROCURADORIA", "ARQUIVADO"} /\ l.instrutor # Nenhum
  /\ \A p \in Pecas :
       peca[p] # Nenhum =>
         /\ peca[p].hash = Nenhum <=> peca[p].estado = "RASCUNHO"
         /\ peca[p].assinante # Nenhum <=> peca[p].estado = "IMUTAVEL"

(* The documents of a case are numbered 1, 2, ... with no number twice    *)
(* and none left out, although proximoNumeroOrdem and save are apart and  *)
(* some creations are refused.                                            *)
OrdensSemSaltos ==
  \A x \in Processos : Ordens(x) = 1 .. Cardinality(Das(x))

(* What was archived stays archived, and a signed document is never       *)
(* changed (domain.spec.ts:129): true of uses that do not overlap, for    *)
(* only the entity in memory guards it.                                   *)
FinaisSeSerial ==
  [][serial =>
       /\ \A x \in Processos :
            processo[x].estado \in Finais => processo'[x] = processo[x]
       /\ \A p \in Pecas :
            peca[p] # Nenhum /\ peca[p].estado \in Finais => peca'[p] = peca[p]]_vars
=============================================================================
