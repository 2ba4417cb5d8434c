------------------------- MODULE InstauracaoProcesso -------------------------
(***************************************************************************)
(* From a registered act to its case: ActoPiqueteRegistadoEventHandler     *)
(* and InstaurarProcessoHandler.execute, next to other users of the act    *)
(* entity (validar, rejeitar) that load a row, change it and save it.      *)
(* Each await is a step; no statements share a transaction; save writes    *)
(* the whole row from the entity, so the last writer wins.  The dispatcher *)
(* that delivers the event is not in the repository: it may deliver late,  *)
(* again, twice at once, or never.                                         *)
(***************************************************************************)
EXTENDS Naturals

CONSTANTS
  Actos,          \* ids of acts
  Entregas,       \* executions of the handler; execution d creates case d
  Edicoes,        \* uses of validar or rejeitar
  Unidades,       \* unit codes, the values of piqueteId
  UnidadesValidas, Limite,
  Maiuscula,      \* [Unidades -> Unidades]: toUpperCase on a unit
  Nenhum,
  ComFalhas       \* TRUE: statements may fail and processes may die

ASSUME FalhasAssumption == ComFalhas \in BOOLEAN
ASSUME MaiusculaAssumption == Maiuscula \in [Unidades -> Unidades]

\* A row of actos_piquete, and one as ActoPiquete.criar and save leave it.
Linha == [piquete : Unidades, gera : BOOLEAN, processo : Entregas \cup {Nenhum},
          estado : {"SUBMETIDO", "VALIDADO", "REJEITADO", "CONVERTIDO"}]

Registados ==
  [piquete : Unidades, gera : BOOLEAN, estado : {"SUBMETIDO"}, processo : {Nenhum}]

ASSUME NenhumAssumption == Nenhum \notin Actos \cup Entregas \cup Linha

VARIABLES
  actos,       \* rows of actos_piquete: [piquete, gera, estado, processo, ...] or Nenhum
  processos,   \* ids of the rows of processos
  auditoria,   \* cases with a row in audit_log
  passo,       \* passo[d]: the await execution d is at, or how it ended
  alvo,        \* alvo[d]: the act it is about
  lido,        \* lido[d]: the act entity it loaded
  resultado,   \* resultado[d]: the case execute returned
  edicao,      \* edicao[o]: [passo, acto, lido] of another user of an act
  serial,      \* no two users of an act at a time
  contador, numero, recusados   \* the allocator

varsNumero == <<contador, numero, recusados>>
varsInstauracao ==
  <<processos, auditoria, passo, alvo, lido, resultado, edicao, serial, varsNumero>>
vars == <<actos, varsInstauracao>>

Numerador == INSTANCE Numerador WITH
  Chaves <- Unidades \X {"PROC"}, Pedidos <- Entregas

EmCurso == {"ler", "existente", "numerar", "salvar", "vincular", "auditar"}
Fins == {"feito", "falhou"}

InitInstauracao ==
  /\ processos = {}
  /\ auditoria = {}
  /\ passo = [d \in Entregas |-> "novo"]
  /\ alvo = [d \in Entregas |-> Nenhum]
  /\ lido = [d \in Entregas |-> Nenhum]
  /\ resultado = [d \in Entregas |-> Nenhum]
  /\ edicao = [o \in Edicoes |-> [passo |-> "novo", acto |-> Nenhum, lido |-> Nenhum]]
  /\ serial \in BOOLEAN
  /\ Numerador!Init

Init == actos = [a \in Actos |-> Nenhum] /\ InitInstauracao

Ir(d, destino) == passo' = [passo EXCEPT ![d] = destino]

Livre == /\ \A d \in Entregas : passo[d] \notin EmCurso
         /\ \A o \in Edicoes : edicao[o].passo # "mudar"

\* A request saves a new act; RegistoActo and FluxoPiquete say when.
Registar(a) ==
  /\ actos[a] = Nenhum
  /\ \E linha \in Registados : actos' = [actos EXCEPT ![a] = linha]
  /\ UNCHANGED varsInstauracao

\* A use of an act begins: at any time, or alone when uses are serial.
PodeComecar == serial => Livre

(* ActoPiqueteRegistadoEventHandler.handle: the event is of a saved act   *)
(* and carries its geraProcesso.                                          *)
Entregar(d, a) ==
  /\ passo[d] = "novo"
  /\ PodeComecar
  /\ actos[a] # Nenhum
  /\ alvo' = [alvo EXCEPT ![d] = a]
  /\ Ir(d, IF actos[a].gera THEN "ler" ELSE "feito")
  /\ UNCHANGED <<actos, processos, auditoria, lido, resultado, edicao, serial, varsNumero>>

\* InstaurarProcessoHandler.execute called with any act id and that act's unit.
Executar(d, a) ==
  /\ passo[d] = "novo"
  /\ PodeComecar
  /\ alvo' = [alvo EXCEPT ![d] = a]
  /\ Ir(d, "ler")
  /\ UNCHANGED <<actos, processos, auditoria, lido, resultado, edicao, serial, varsNumero>>

\* Variant: a case the act already has is not looked for.
LerActoSemExistente(d) ==
  LET acto == actos[alvo[d]] IN
  /\ passo[d] = "ler"
  /\ lido' = [lido EXCEPT ![d] = acto]
  /\ Ir(d, IF acto = Nenhum THEN "falhou" ELSE IF acto.gera THEN "numerar" ELSE "feito")
  /\ UNCHANGED <<actos, processos, auditoria, alvo, resultado, edicao, serial, varsNumero>>

LerActo(d) ==
  LET acto == actos[alvo[d]] IN
  /\ passo[d] = "ler"
  /\ lido' = [lido EXCEPT ![d] = acto]
  /\ Ir(d, IF acto = Nenhum THEN "falhou"
           ELSE IF acto.processo # Nenhum THEN "existente"
           ELSE IF acto.gera THEN "numerar" ELSE "feito")
  /\ UNCHANGED <<actos, processos, auditoria, alvo, resultado, edicao, serial, varsNumero>>

\* Variant: the act's id is answered instead of the case's.
DevolverActoExistente(d) ==
  /\ passo[d] = "existente"
  /\ resultado' = [resultado EXCEPT ![d] = alvo[d]]
  /\ Ir(d, "feito")
  /\ UNCHANGED <<actos, processos, auditoria, alvo, lido, edicao, serial, varsNumero>>

\* The act has a case already: execute answers it.
DevolverExistente(d) ==
  /\ passo[d] = "existente"
  /\ resultado' = [resultado EXCEPT ![d] =
       IF lido[d].processo \in processos THEN lido[d].processo ELSE Nenhum]
  /\ Ir(d, "feito")
  /\ UNCHANGED <<actos, processos, auditoria, alvo, lido, edicao, serial, varsNumero>>

\* The series gerar numbers case d in: its act's unit in upper case.
Serie(d) == <<Maiuscula[lido[d].piquete], "PROC">>

\* Variant: the next number is read, not taken.
GerarNumeroSemContar(d) ==
  LET k == Serie(d) IN
  /\ passo[d] = "numerar"
  /\ numero' = [numero EXCEPT ![d] = <<k, contador[k] + 1>>]
  /\ Ir(d, "salvar")
  /\ UNCHANGED <<actos, processos, auditoria, alvo, lido, resultado, edicao, serial,
                 contador, recusados>>

\* Variant: the act is linked to a case that is not saved.
GerarNumeroEVincular(d) ==
  /\ passo[d] = "numerar"
  /\ \/ Numerador!Atribuir(d, Serie(d)) /\ Ir(d, "vincular")
     \/ Numerador!Recusar(d) /\ Ir(d, "falhou")
  /\ UNCHANGED <<actos, processos, auditoria, alvo, lido, resultado, edicao, serial>>

(* gerar(unidadeCodigo, "PROC"): the event handler passes the act's       *)
(* piqueteId, a column no code changes.                                   *)
GerarNumero(d) ==
  /\ passo[d] = "numerar"
  /\ \/ Numerador!Atribuir(d, Serie(d)) /\ Ir(d, "salvar")
     \/ Numerador!Recusar(d) /\ Ir(d, "falhou")
  /\ UNCHANGED <<actos, processos, auditoria, alvo, lido, resultado, edicao, serial>>

SalvarProcesso(d) ==
  /\ passo[d] = "salvar"
  /\ processos' = processos \cup {d}
  /\ Ir(d, "vincular")
  /\ UNCHANGED <<actos, auditoria, alvo, lido, resultado, edicao, serial, varsNumero>>

\* Variant: the link is made on the entity and not saved.
VincularSemGuardar(d) ==
  /\ passo[d] = "vincular"
  /\ Ir(d, "auditar")
  /\ UNCHANGED <<actos, processos, auditoria, alvo, lido, resultado, edicao, serial, varsNumero>>

(* acto.vincularProcesso on the entity loaded at the start: its guard     *)
(* looks at that copy (still without a case), and so does save.           *)
VincularActo(d) ==
  /\ passo[d] = "vincular"
  /\ actos' = [actos EXCEPT ![alvo[d]] =
       [lido[d] EXCEPT !.processo = d, !.estado = "CONVERTIDO"]]
  /\ Ir(d, "auditar")
  /\ UNCHANGED <<processos, auditoria, alvo, lido, resultado, edicao, serial, varsNumero>>

\* Variant: the newest number's case is looked up and answered.
AuditarComUltimo(d) ==
  /\ passo[d] = "auditar"
  /\ auditoria' = auditoria \cup {d}
  /\ resultado' = [resultado EXCEPT ![d] =
       CHOOSE e \in processos : \A f \in processos : numero[f][2] <= numero[e][2]]
  /\ Ir(d, "feito")
  /\ UNCHANGED <<actos, processos, alvo, lido, edicao, serial, varsNumero>>

Auditar(d) ==
  /\ passo[d] = "auditar"
  /\ auditoria' = auditoria \cup {d}
  /\ resultado' = [resultado EXCEPT ![d] = d]
  /\ Ir(d, "feito")
  /\ UNCHANGED <<actos, processos, alvo, lido, edicao, serial, varsNumero>>

(* A statement fails or the process dies: committed statements stay, no   *)
(* code compensates for them.                                             *)
Falhar(d) ==
  /\ ComFalhas
  /\ passo[d] \in EmCurso
  /\ Ir(d, "falhou")
  /\ UNCHANGED <<actos, processos, auditoria, alvo, lido, resultado, edicao, serial, varsNumero>>

\* actoRepo.findById by a caller that will validate or reject the act.
Carregar(o, a) ==
  /\ edicao[o].passo = "novo"
  /\ PodeComecar
  /\ actos[a] # Nenhum
  /\ edicao' = [edicao EXCEPT ![o] = [passo |-> "mudar", acto |-> a, lido |-> actos[a]]]
  /\ UNCHANGED <<actos, processos, auditoria, passo, alvo, lido, resultado, serial, varsNumero>>

\* Variant: only the column estado is written.
EditarSoEstado(o, estado) ==
  LET e == edicao[o] IN
  /\ e.passo = "mudar"
  /\ actos' = IF e.lido.estado = "SUBMETIDO"
              THEN [actos EXCEPT ![e.acto].estado = estado] ELSE actos
  /\ edicao' = [edicao EXCEPT ![o].passo = "feito"]
  /\ UNCHANGED <<processos, auditoria, passo, alvo, lido, resultado, serial, varsNumero>>

(* ActoPiquete.validar or rejeitar, which demand SUBMETIDO of the loaded  *)
(* entity, then actoRepo.save of all its columns.                         *)
Editar(o, estado) ==
  LET e == edicao[o] IN
  /\ e.passo = "mudar"
  /\ IF e.lido.estado = "SUBMETIDO"
     THEN actos' = [actos EXCEPT ![e.acto] = [e.lido EXCEPT !.estado = estado]]
     ELSE UNCHANGED actos
  /\ edicao' = [edicao EXCEPT ![o].passo = "feito"]
  /\ UNCHANGED <<processos, auditoria, passo, alvo, lido, resultado, serial, varsNumero>>

\* A step of an execution or of another user of an act.
Tratar ==
  \/ \E d \in Entregas :
       \/ \E a \in Actos : Entregar(d, a) \/ Executar(d, a)
       \/ LerActo(d) \/ DevolverExistente(d) \/ GerarNumero(d)
       \/ SalvarProcesso(d) \/ VincularActo(d) \/ Auditar(d) \/ Falhar(d)
  \/ \E o \in Edicoes :
       \/ \E a \in Actos : Carregar(o, a)
       \/ \E estado \in {"VALIDADO", "REJEITADO"} : Editar(o, estado)

Next == Tratar \/ \E a \in Actos : Registar(a)

Spec == Init /\ [][Next]_vars
-----------------------------------------------------------------------------
(* Type correctness of the rows, the executions and the loaded entities.  *)
TypeOK ==
  /\ actos \in [Actos -> Linha \cup {Nenhum}]
  /\ processos \subseteq Entregas
  /\ auditoria \subseteq Entregas
  /\ passo \in [Entregas -> EmCurso \cup Fins \cup {"novo"}]
  /\ alvo \in [Entregas -> Actos \cup {Nenhum}]
  /\ lido \in [Entregas -> Linha \cup {Nenhum}]
  /\ resultado \in [Entregas -> Entregas \cup {Nenhum}]
  /\ serial \in BOOLEAN
  /\ edicao \in [Edicoes -> [passo : {"novo", "mudar", "feito"}, acto : Actos \cup {Nenhum},
                             lido : Linha \cup {Nenhum}]]

(* An act is CONVERTIDO exactly when it carries a case: whole-row saves   *)
(* from stale entities may undo a link but never tear it from the state.  *)
ConvertidoSseVinculado ==
  \A a \in Actos :
    actos[a] # Nenhum => (actos[a].estado = "CONVERTIDO" <=> actos[a].processo # Nenhum)

(* The case an act carries is a saved one and was created for that act,   *)
(* of a kind that creates cases: executions for different acts and stale  *)
(* saves never cross (foreign key fk_actos_piquete_processo).             *)
LigacaoReferencial ==
  \A a \in Actos :
    actos[a] # Nenhum /\ actos[a].processo # Nenhum
      => /\ actos[a].processo \in processos
         /\ alvo[actos[a].processo] = a
         /\ actos[a].gera

(* What execute returns is a case of the act asked about, whoever created *)
(* it and whatever happened to the link since.                            *)
ResultadoDoActo ==
  \A d \in Entregas :
    resultado[d] # Nenhum
      => resultado[d] \in processos /\ alvo[resultado[d]] = alvo[d]

-----------------------------------------------------------------------------
(* docs/dia-4.md:25, "Repetir o mesmo pedido nao cria associacoes         *)
(* duplicadas": however often the event of an act is delivered, one case  *)
(* is created for it.                                                     *)
UmProcessoPorActo == \A d, e \in processos : alvo[d] = alvo[e] => d = e

(* docs/dia-4.md:22, "O processo fica associado ao acto": when users of   *)
(* an act do not overlap, every saved case is carried by the act it was   *)
(* created for, except those of executions that failed before the link.   *)
AssociadoSeSerial ==
  serial => \A d \in processos :
    actos[alvo[d]].processo # d => passo[d] \in {"vincular", "falhou"}

(* Without overlaps no row goes back: an act is decided once, from        *)
(* SUBMETIDO (domain.spec.ts:92); it is converted once, whatever was      *)
(* decided (vincularProcesso looks at the case only), and that is final.  *)
AvancoSeSerial ==
  [][serial => \A a \in Actos :
       actos[a] # Nenhum /\ actos'[a] # actos[a] =>
         /\ actos[a].processo = Nenhum
         /\ actos'[a].estado \in {"VALIDADO", "REJEITADO"} => actos[a].estado = "SUBMETIDO"]_vars
=============================================================================
