----------------------------- MODULE FluxoPiquete -----------------------------
(***************************************************************************)
(* The whole flow, from POST /actos-piquete to the case: RegistoActo and   *)
(* InstauracaoProcesso over one table of acts.  save clears the events of  *)
(* an act before anybody has read them, so whoever delivers them is        *)
(* outside the repository and delivers late, again, at once, or never;     *)
(* requests go on meanwhile.  Numbers of acts and of cases are rows of one *)
(* table under keys of different tipo, which never meet.                   *)
(***************************************************************************)
EXTENDS Naturals

CONSTANTS
  Pedidos, Chaves, SemChave, Entradas, Codigos, GeraProcesso,
  Entregas, Edicoes, ComFalhas,
  UnidadesValidas, Unidades, Maiuscula, Limite, Nenhum

VARIABLES
  actos,                                                       \* shared
  passo, entrada, activos, idem, auditoria, resposta,          \* requests
  contador, numero, recusados,                                 \* numbers of acts
  processos, auditados, execucao, alvo, lido, resultado, edicao, serial,
  contadorProc, numeroProc, recusadosProc                      \* numbers of cases

Registo == INSTANCE RegistoActo

Instauracao == INSTANCE InstauracaoProcesso WITH
  Actos <- Pedidos, passo <- execucao, auditoria <- auditados,
  contador <- contadorProc, numero <- numeroProc, recusados <- recusadosProc

\* A row of actos_piquete, with what each component knows of it.
Linha == [user : Registo!Utentes, numero : Registo!Sequencias \X Nat, piquete : Unidades,
          gera : BOOLEAN, processo : Entregas \cup {Nenhum},
          estado : {"SUBMETIDO", "VALIDADO", "REJEITADO", "CONVERTIDO"}]

ASSUME EntradasAssumption == Registo!EntradasAssumption /\ Registo!SemChaveAssumption
ASSUME MaiusculaAssumption == Registo!MaiusculaAssumption
ASSUME GeraAssumption == Registo!GeraAssumption
ASSUME FalhasAssumption == Instauracao!FalhasAssumption
ASSUME NenhumAssumption ==
  Nenhum \notin Pedidos \cup Entregas \cup Linha \cup Registo!LinhasIdem \cup Instauracao!Linha

varsPedidos ==
  <<passo, entrada, activos, idem, auditoria, resposta, contador, numero, recusados>>
varsProcessos ==
  <<processos, auditados, execucao, alvo, lido, resultado, edicao, serial,
    contadorProc, numeroProc, recusadosProc>>
vars == <<actos, varsPedidos, varsProcessos>>

Init == Registo!Init /\ Instauracao!InitInstauracao

\* A step of a request: the executions of the handler stay where they are.
Registar == Registo!Next /\ UNCHANGED varsProcessos

\* A step of a delivery or of another user of an act.
Instaurar == Instauracao!Tratar /\ UNCHANGED varsPedidos

Next == Registar \/ Instaurar

Spec == Init /\ [][Next]_vars
-----------------------------------------------------------------------------
(* Type correctness: each component finds the rows it knows in the table  *)
(* the other one writes.                                                  *)
TypeOK ==
  /\ \A p \in Pedidos : actos[p] # Nenhum =>
       /\ [actos[p] EXCEPT !.estado = "SUBMETIDO", !.processo = Nenhum] \in Registo!Linha
       /\ actos[p].estado \in {"SUBMETIDO", "VALIDADO", "REJEITADO", "CONVERTIDO"}
       /\ actos[p].processo \in Entregas \cup {Nenhum}
  /\ processos \cup auditados \subseteq Entregas
  /\ execucao \in [Entregas -> Instauracao!EmCurso \cup {"novo", "feito", "falhou"}]

(* A case stands for one registration, whoever delivered its event and   *)
(* whatever was saved over the act meanwhile: the act was saved first, by *)
(* the request, user and number it still shows, is of a kind that creates *)
(* cases, and the case has a number of its own in the act's unit.         *)
ProcessoDoRegisto ==
  \A d \in processos : LET a == alvo[d] IN
    /\ actos[a] # Nenhum
    /\ actos[a].numero = numero[a] /\ actos[a].user = entrada[a].user
    /\ GeraProcesso[entrada[a].tipo]
    /\ numeroProc[d][1] = <<Maiuscula[entrada[a].unidade], "PROC">>
    /\ \A e \in processos : numeroProc[e] = numeroProc[d] => e = d

(* What a client was told stays true while cases are made: the act of a   *)
(* 201 is in the table, audited and his own, and if it carries a case it  *)
(* is one made for that very act.                                         *)
RespostaDuravelNoFluxo ==
  /\ Registo!RespostaDuravel
  /\ Registo!RespostaDoProprio
  /\ Instauracao!LigacaoReferencial

(* The audit log misses nothing that went well: an act or a case without  *)
(* its row is still at that statement, or its request or delivery failed, *)
(* although no transaction ties the row to what it records.               *)
SemAuditoriaSoPorFalha ==
  /\ \A p \in Pedidos :
       actos[p] # Nenhum /\ p \notin auditoria
         => \/ passo[p] = "auditar"
            \/ passo[p] = "fim" /\ resposta[p].estado = 500
  /\ \A d \in processos \ auditados : execucao[d] \in {"vincular", "auditar", "falhou"}

-----------------------------------------------------------------------------
(* docs/dia-4.md:24, "Uma falha na criacao do processo nao deixa um acto  *)
(* parcialmente gravado": after the creation of a case has failed, the    *)
(* act is not there, or it carries its case.                              *)
FalhaSemRasto ==
  \A d \in Entregas :
    execucao[d] = "falhou" /\ alvo[d] # Nenhum /\ actos[alvo[d]] # Nenhum
      => actos[alvo[d]].processo # Nenhum
=============================================================================
