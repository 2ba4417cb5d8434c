---------------------- MODULE InstauracaoProcesso_proofs ----------------------
(***************************************************************************)
(* Proofs about the creation of cases, for any number of acts, executions  *)
(* and other users of an act.  The argument: every copy of an act's row,   *)
(* in the table or in the memory of whoever loaded it, is coherent by      *)
(* itself, and what makes it coherent (a saved case created for that act)  *)
(* never stops being true; so a stale save writes a coherent row.          *)
(***************************************************************************)
EXTENDS InstauracaoProcesso, TLAPS

\* A copy r of the row of act a: state and link agree, the link is to a case of a.
Coerente(r, a) ==
  /\ r.estado = "CONVERTIDO" <=> r.processo # Nenhum
  /\ r.processo # Nenhum => r.processo \in processos /\ alvo[r.processo] = a /\ r.gera

LinhasCoerentes == \A a \in Actos : actos[a] # Nenhum => Coerente(actos[a], a)

\* What an execution knows of its act.
Conhecido ==
  \A d \in Entregas :
    /\ passo[d] # "novo" => alvo[d] \in Actos
    /\ passo[d] \in EmCurso \ {"ler"} => lido[d] \in Linha /\ Coerente(lido[d], alvo[d])
    /\ passo[d] \in {"numerar", "salvar", "vincular"} => lido[d].processo = Nenhum /\ lido[d].gera

\* What another user of an act holds.
EdicoesCoerentes ==
  \A o \in Edicoes :
    edicao[o].passo = "mudar" =>
      /\ edicao[o].acto \in Actos
      /\ edicao[o].lido \in Linha
      /\ Coerente(edicao[o].lido, edicao[o].acto)

\* A case is saved between two steps of its execution.
Fases ==
  \A d \in Entregas :
    /\ d \in processos => passo[d] \in {"vincular", "auditar"} \cup Fins
    /\ passo[d] \in {"vincular", "auditar"} => d \in processos
    /\ passo[d] # "feito" => resultado[d] = Nenhum

IInv ==
  /\ TypeOK
  /\ LinhasCoerentes
  /\ Conhecido
  /\ EdicoesCoerentes
  /\ Fases
  /\ ResultadoDoActo
-----------------------------------------------------------------------------
\* A saved link keeps the row in its type.
LEMMA LinhaVinculada ==
  ASSUME NEW x \in Linha, NEW d \in Entregas
  PROVE  /\ [x EXCEPT !.processo = d, !.estado = "CONVERTIDO"] \in Linha
         /\ [x EXCEPT !.processo = d, !.estado = "CONVERTIDO"].processo = d
         /\ [x EXCEPT !.processo = d, !.estado = "CONVERTIDO"].estado = "CONVERTIDO"
         /\ [x EXCEPT !.processo = d, !.estado = "CONVERTIDO"].gera = x.gera
  BY DEF Linha

\* So does a decision, which leaves everything but the state.
LEMMA LinhaDecidida ==
  ASSUME NEW x \in Linha, NEW e \in {"VALIDADO", "REJEITADO"}
  PROVE  /\ [x EXCEPT !.estado = e] \in Linha
         /\ [x EXCEPT !.estado = e].processo = x.processo
         /\ [x EXCEPT !.estado = e].estado = e
         /\ [x EXCEPT !.estado = e].gera = x.gera
  BY DEF Linha

\* No step forgets a case or what it was created for, so no copy of a row
\* becomes incoherent by what others do.
LEMMA CoerenciaEstavel ==
  ASSUME IInv, [Next]_vars
  PROVE  /\ processos \subseteq processos'
         /\ \A d \in Entregas : passo[d] # "novo" => alvo'[d] = alvo[d]
         /\ \A r, a : Coerente(r, a) => Coerente(r, a)'
<1>1. /\ processos \subseteq processos'
      /\ \A d \in Entregas : passo[d] # "novo" => alvo'[d] = alvo[d]
      BY DEF IInv, TypeOK, Next, Tratar, Registar, vars, varsInstauracao, Entregar, Executar, LerActo,
         DevolverExistente, GerarNumero, SalvarProcesso, VincularActo, Auditar, Falhar,
         Carregar, Editar
<1>2. \A d \in processos : passo[d] # "novo"
      BY DEF IInv, TypeOK, Fases, Fins
<1>3. ASSUME NEW r, NEW a, Coerente(r, a)
      PROVE  Coerente(r, a)'
      BY <1>1, <1>2, <1>3 DEF Coerente, IInv, TypeOK
<1>4. QED
      BY <1>1, <1>3

-----------------------------------------------------------------------------
\* A delivery or a direct call begins: only its act is fixed.
LEMMA ComecarIInv ==
  ASSUME IInv, Next, NEW d \in Entregas, NEW a \in Actos, Entregar(d, a) \/ Executar(d, a)
  PROVE  IInv'
<1>0. \A r, b : Coerente(r, b) => Coerente(r, b)'
      BY CoerenciaEstavel
<1>1. passo[d] = "novo" /\ passo' \in [Entregas -> EmCurso \cup Fins \cup {"novo"}]
      BY DEF IInv, TypeOK, Entregar, Executar, Ir, EmCurso, Fins
<1>2. TypeOK'
      BY <1>1 DEF IInv, TypeOK, Entregar, Executar
<1>3. LinhasCoerentes'
      BY <1>0 DEF IInv, TypeOK, LinhasCoerentes, Entregar, Executar
<1>4. Conhecido'
      BY <1>0 DEF IInv, TypeOK, Conhecido, Entregar, Executar, Ir, EmCurso
<1>5. EdicoesCoerentes'
      BY <1>0 DEF IInv, TypeOK, EdicoesCoerentes, Entregar, Executar
<1>6. Fases'
      BY <1>1 DEF IInv, TypeOK, Fases, Entregar, Executar, Ir, Fins
<1>7. ResultadoDoActo'
      BY <1>1 DEF IInv, TypeOK, Fases, ResultadoDoActo, Entregar, Executar, Fins
<1>8. QED
      BY <1>2, <1>3, <1>4, <1>5, <1>6, <1>7 DEF IInv

\* The entity loaded is the row, so it is coherent.
LEMMA LerActoIInv ==
  ASSUME IInv, Next, NEW d \in Entregas, LerActo(d)
  PROVE  IInv'
<1>0. \A r, b : Coerente(r, b) => Coerente(r, b)'
      BY CoerenciaEstavel
<1>1. TypeOK'
      BY DEF IInv, TypeOK, Conhecido, EmCurso, Fins, Ir, LerActo
<1>2. LinhasCoerentes'
      BY <1>0 DEF IInv, TypeOK, LinhasCoerentes, Ir, LerActo
<1>3. Conhecido'
      BY <1>0 DEF IInv, TypeOK, Conhecido, LinhasCoerentes, EmCurso, Ir, LerActo
<1>4. EdicoesCoerentes'
      BY <1>0 DEF IInv, TypeOK, EdicoesCoerentes, Ir, LerActo
<1>5. Fases'
      BY DEF IInv, TypeOK, Fases, Fins, Ir, LerActo
<1>6. ResultadoDoActo'
      BY DEF IInv, TypeOK, ResultadoDoActo, Fases, Fins, Ir, LerActo
<1>7. QED
      BY <1>1, <1>2, <1>3, <1>4, <1>5, <1>6 DEF IInv

\* A case found is one of the act asked about.
LEMMA DevolverExistenteIInv ==
  ASSUME IInv, Next, NEW d \in Entregas, DevolverExistente(d)
  PROVE  IInv'
<1>0. \A r, b : Coerente(r, b) => Coerente(r, b)'
      BY CoerenciaEstavel
<1>1. TypeOK'
      BY DEF IInv, TypeOK, Conhecido, Coerente, EmCurso, Fins, Ir, DevolverExistente
<1>2. LinhasCoerentes'
      BY <1>0 DEF IInv, TypeOK, LinhasCoerentes, Ir, DevolverExistente
<1>3. Conhecido'
      BY <1>0 DEF IInv, TypeOK, Conhecido, EmCurso, Ir, DevolverExistente
<1>4. EdicoesCoerentes'
      BY <1>0 DEF IInv, TypeOK, EdicoesCoerentes, Ir, DevolverExistente
<1>5. Fases'
      BY DEF IInv, TypeOK, Fases, EmCurso, Fins, Ir, DevolverExistente
<1>6. ResultadoDoActo'
      BY DEF IInv, TypeOK, ResultadoDoActo, Conhecido, Coerente, EmCurso, Fases,
         Fins, Ir, DevolverExistente
<1>7. QED
      BY <1>1, <1>2, <1>3, <1>4, <1>5, <1>6 DEF IInv

\* Taking a number, or failing to, concerns no act.
LEMMA GerarNumeroIInv ==
  ASSUME IInv, Next, NEW d \in Entregas, GerarNumero(d)
  PROVE  IInv'
<1>0. \A r, b : Coerente(r, b) => Coerente(r, b)'
      BY CoerenciaEstavel
<1>1. TypeOK'
      BY DEF IInv, TypeOK, EmCurso, Fins, Ir, GerarNumero
<1>2. LinhasCoerentes'
      BY <1>0 DEF IInv, TypeOK, LinhasCoerentes, Ir, GerarNumero
<1>3. Conhecido'
      BY <1>0 DEF IInv, TypeOK, Conhecido, EmCurso, Ir, GerarNumero
<1>4. EdicoesCoerentes'
      BY <1>0 DEF IInv, TypeOK, EdicoesCoerentes, Ir, GerarNumero
<1>5. Fases'
      BY DEF IInv, TypeOK, Fases, Fins, Ir, GerarNumero
<1>6. ResultadoDoActo'
      BY DEF IInv, TypeOK, ResultadoDoActo, Fases, Fins, Ir, GerarNumero
<1>7. QED
      BY <1>1, <1>2, <1>3, <1>4, <1>5, <1>6 DEF IInv

\* The case is saved before any row names it.
LEMMA SalvarProcessoIInv ==
  ASSUME IInv, Next, NEW d \in Entregas, SalvarProcesso(d)
  PROVE  IInv'
<1>0. \A r, b : Coerente(r, b) => Coerente(r, b)'
      BY CoerenciaEstavel
<1>1. TypeOK'
      BY DEF IInv, TypeOK, EmCurso, Fins, Ir, SalvarProcesso
<1>2. LinhasCoerentes'
      BY <1>0 DEF IInv, TypeOK, LinhasCoerentes, Ir, SalvarProcesso
<1>3. Conhecido'
      BY <1>0 DEF IInv, TypeOK, Conhecido, EmCurso, Ir, SalvarProcesso
<1>4. EdicoesCoerentes'
      BY <1>0 DEF IInv, TypeOK, EdicoesCoerentes, Ir, SalvarProcesso
<1>5. Fases'
      BY DEF IInv, TypeOK, Fases, Fins, Ir, SalvarProcesso
<1>6. ResultadoDoActo'
      BY DEF IInv, TypeOK, ResultadoDoActo, Fases, Fins, Ir, SalvarProcesso
<1>7. QED
      BY <1>1, <1>2, <1>3, <1>4, <1>5, <1>6 DEF IInv

\* The row written is the entity loaded, with a link to a saved case of its act.
LEMMA VincularActoIInv ==
  ASSUME IInv, Next, NEW d \in Entregas, VincularActo(d)
  PROVE  IInv'
<1>0. \A r, b : Coerente(r, b) => Coerente(r, b)'
      BY CoerenciaEstavel
<1>a. /\ alvo[d] \in Actos /\ lido[d] \in Linha /\ lido[d].gera /\ d \in processos
      /\ d # Nenhum
      BY NenhumAssumption DEF IInv, TypeOK, Conhecido, Fases, VincularActo, EmCurso
<1>b. /\ actos'[alvo[d]] \in Linha /\ actos'[alvo[d]].processo = d
      /\ actos'[alvo[d]].estado = "CONVERTIDO" /\ actos'[alvo[d]].gera
  <2>1. actos'[alvo[d]] = [lido[d] EXCEPT !.processo = d, !.estado = "CONVERTIDO"]
        BY <1>a DEF IInv, TypeOK, VincularActo
  <2>2. /\ [lido[d] EXCEPT !.processo = d, !.estado = "CONVERTIDO"] \in Linha
        /\ [lido[d] EXCEPT !.processo = d, !.estado = "CONVERTIDO"].processo = d
        /\ [lido[d] EXCEPT !.processo = d, !.estado = "CONVERTIDO"].estado = "CONVERTIDO"
        /\ [lido[d] EXCEPT !.processo = d, !.estado = "CONVERTIDO"].gera = lido[d].gera
        BY <1>a, LinhaVinculada
  <2>3. QED
        BY <1>a, <2>1, <2>2
<1>1. TypeOK'
      BY <1>a, <1>b DEF IInv, TypeOK, EmCurso, Fins, Ir, VincularActo
<1>2. LinhasCoerentes'
      BY <1>0, <1>a, <1>b DEF IInv, TypeOK, LinhasCoerentes, Coerente, Ir,
         VincularActo
<1>3. Conhecido'
      BY <1>0 DEF IInv, TypeOK, Conhecido, EmCurso, Ir, VincularActo
<1>4. EdicoesCoerentes'
      BY <1>0 DEF IInv, TypeOK, EdicoesCoerentes, Ir, VincularActo
<1>5. Fases'
      BY DEF IInv, TypeOK, Fases, Fins, Ir, VincularActo
<1>6. ResultadoDoActo'
      BY DEF IInv, TypeOK, ResultadoDoActo, Fases, Fins, Ir, VincularActo
<1>7. QED
      BY <1>1, <1>2, <1>3, <1>4, <1>5, <1>6 DEF IInv

\* The answer is the execution's own case.
LEMMA AuditarIInv ==
  ASSUME IInv, Next, NEW d \in Entregas, Auditar(d)
  PROVE  IInv'
<1>0. \A r, b : Coerente(r, b) => Coerente(r, b)'
      BY CoerenciaEstavel
<1>1. TypeOK'
      BY DEF IInv, TypeOK, EmCurso, Fins, Ir, Auditar
<1>2. LinhasCoerentes'
      BY <1>0 DEF IInv, TypeOK, LinhasCoerentes, Ir, Auditar
<1>3. Conhecido'
      BY <1>0 DEF IInv, TypeOK, Conhecido, EmCurso, Ir, Auditar
<1>4. EdicoesCoerentes'
      BY <1>0 DEF IInv, TypeOK, EdicoesCoerentes, Ir, Auditar
<1>5. Fases'
      BY DEF IInv, TypeOK, Fases, Fins, Ir, Auditar
<1>6. ResultadoDoActo'
      BY DEF IInv, TypeOK, ResultadoDoActo, Fases, Fins, Ir, Auditar
<1>7. QED
      BY <1>1, <1>2, <1>3, <1>4, <1>5, <1>6 DEF IInv

\* A failure undoes nothing and writes nothing.
LEMMA FalharIInv ==
  ASSUME IInv, Next, NEW d \in Entregas, Falhar(d)
  PROVE  IInv'
<1>0. \A r, b : Coerente(r, b) => Coerente(r, b)'
      BY CoerenciaEstavel
<1>1. TypeOK'
      BY DEF IInv, TypeOK, EmCurso, Fins, Ir, Falhar
<1>2. LinhasCoerentes'
      BY <1>0 DEF IInv, TypeOK, LinhasCoerentes, Ir, Falhar
<1>3. Conhecido'
      BY <1>0 DEF IInv, TypeOK, Conhecido, EmCurso, Ir, Falhar
<1>4. EdicoesCoerentes'
      BY <1>0 DEF IInv, TypeOK, EdicoesCoerentes, Ir, Falhar
<1>5. Fases'
      BY DEF IInv, TypeOK, Fases, EmCurso, Fins, Ir, Falhar
<1>6. ResultadoDoActo'
      BY DEF IInv, TypeOK, ResultadoDoActo, Fases, Fins, Ir, Falhar
<1>7. QED
      BY <1>1, <1>2, <1>3, <1>4, <1>5, <1>6 DEF IInv

\* Another user of an act loads a coherent row.
LEMMA CarregarIInv ==
  ASSUME IInv, Next, NEW o \in Edicoes, NEW a \in Actos, Carregar(o, a)
  PROVE  IInv'
<1>0. \A r, b : Coerente(r, b) => Coerente(r, b)'
      BY CoerenciaEstavel
<1>1. TypeOK'
      BY DEF IInv, TypeOK, EmCurso, Fins, Ir, Carregar
<1>2. LinhasCoerentes'
      BY <1>0 DEF IInv, TypeOK, LinhasCoerentes, Ir, Carregar
<1>3. Conhecido'
      BY <1>0 DEF IInv, TypeOK, Conhecido, EmCurso, Ir, Carregar
<1>4. EdicoesCoerentes'
      BY <1>0 DEF IInv, TypeOK, EdicoesCoerentes, LinhasCoerentes, Ir, Carregar
<1>5. Fases'
      BY DEF IInv, TypeOK, Fases, Fins, Ir, Carregar
<1>6. ResultadoDoActo'
      BY DEF IInv, TypeOK, ResultadoDoActo, Fases, Fins, Ir, Carregar
<1>7. QED
      BY <1>1, <1>2, <1>3, <1>4, <1>5, <1>6 DEF IInv

\* A decision is saved over the row as it was loaded: SUBMETIDO, without a case.
LEMMA EditarIInv ==
  ASSUME IInv, Next, NEW o \in Edicoes, NEW e \in {"VALIDADO", "REJEITADO"}, Editar(o, e)
  PROVE  IInv'
<1>0. \A r, b : Coerente(r, b) => Coerente(r, b)'
      BY CoerenciaEstavel
<1>1. /\ edicao[o].acto \in Actos
      /\ edicao[o].lido \in Linha
      /\ Coerente(edicao[o].lido, edicao[o].acto)
      BY DEF IInv, TypeOK, EdicoesCoerentes, Editar
<1>2. edicao[o].lido.estado = "SUBMETIDO" =>
        /\ actos'[edicao[o].acto] \in Linha
        /\ actos'[edicao[o].acto].processo = Nenhum
        /\ actos'[edicao[o].acto].estado = e
  <2>1. [edicao[o].lido EXCEPT !.estado = e] \in Linha
        BY <1>1, LinhaDecidida
  <2>2. /\ [edicao[o].lido EXCEPT !.estado = e].processo = edicao[o].lido.processo
        /\ [edicao[o].lido EXCEPT !.estado = e].estado = e
        BY <1>1, LinhaDecidida
  <2>3. edicao[o].lido.estado = "SUBMETIDO" =>
          actos'[edicao[o].acto] = [edicao[o].lido EXCEPT !.estado = e]
        BY <1>1 DEF IInv, TypeOK, Editar
  <2>4. edicao[o].lido.estado = "SUBMETIDO" => edicao[o].lido.processo = Nenhum
        BY <1>1 DEF Coerente
  <2>5. QED
        BY <2>1, <2>2, <2>3, <2>4
<1>3. \A a \in Actos : actos'[a] # actos[a] =>
        a = edicao[o].acto /\ edicao[o].lido.estado = "SUBMETIDO"
      BY <1>1 DEF IInv, TypeOK, Editar
<1>4. \A q \in Edicoes : edicao'[q].passo = "mudar" => edicao'[q] = edicao[q]
      BY DEF IInv, TypeOK, Editar
<1>5. TypeOK'
  <2>1. actos' \in [Actos -> Linha \cup {Nenhum}]
        BY <1>1, <1>2, <1>3 DEF IInv, TypeOK, Editar
  <2>2. edicao' \in [Edicoes -> [passo : {"novo", "mudar", "feito"},
                     acto : Actos \cup {Nenhum}, lido : Linha \cup {Nenhum}]]
        BY DEF IInv, TypeOK, Editar
  <2>3. QED
        BY <2>1, <2>2 DEF IInv, TypeOK, Editar
<1>6. LinhasCoerentes'
      BY <1>0, <1>2, <1>3 DEF IInv, LinhasCoerentes, Coerente
<1>7. Conhecido'
      BY <1>0 DEF IInv, TypeOK, Conhecido, EmCurso, Editar
<1>8. EdicoesCoerentes'
      BY <1>0, <1>4 DEF IInv, EdicoesCoerentes
<1>9. Fases' /\ ResultadoDoActo'
      BY DEF IInv, Fases, ResultadoDoActo, Editar
<1>10. QED
      BY <1>5, <1>6, <1>7, <1>8, <1>9 DEF IInv

\* A new row is SUBMETIDO and has no case.
LEMMA RegistarIInv ==
  ASSUME IInv, Next, NEW b \in Actos, Registar(b)
  PROVE  IInv'
<1>0. \A r, a : Coerente(r, a) => Coerente(r, a)'
      BY CoerenciaEstavel
<1>1. PICK linha \in Registados : actos' = [actos EXCEPT ![b] = linha]
      BY DEF Registar
<1>2. linha \in Linha /\ linha.estado = "SUBMETIDO" /\ linha.processo = Nenhum
      BY DEF Registados, Linha
<1>3. TypeOK'
      BY <1>1, <1>2 DEF IInv, TypeOK, Registar, varsInstauracao
<1>4. LinhasCoerentes'
  <2>1. \A a \in Actos : actos'[a] = IF a = b THEN linha ELSE actos[a]
        BY <1>1 DEF IInv, TypeOK
  <2>2. Coerente(linha, b)'
        BY <1>2 DEF Coerente
  <2>3. \A a \in Actos : actos[a] # Nenhum => \A x : x = actos[a] => Coerente(x, a)'
        BY <1>0 DEF IInv, LinhasCoerentes
  <2>4. QED
        BY <2>1, <2>2, <2>3 DEF LinhasCoerentes, Coerente
<1>5. Conhecido' /\ EdicoesCoerentes'
      BY <1>0 DEF IInv, Conhecido, EdicoesCoerentes, Registar, varsInstauracao
<1>6. Fases' /\ ResultadoDoActo'
      BY DEF IInv, Fases, ResultadoDoActo, Registar, varsInstauracao
<1>7. QED
      BY <1>3, <1>4, <1>5, <1>6 DEF IInv

-----------------------------------------------------------------------------
\* Before anything happens no row has a case and nobody holds one.
LEMMA InitIInv == Init => IInv
<1> SUFFICES ASSUME Init
             PROVE  IInv
    OBVIOUS
<1>1. TypeOK
      BY DEF Init, InitInstauracao, TypeOK, EmCurso, Fins
<1>2. LinhasCoerentes
      BY DEF Init, InitInstauracao, LinhasCoerentes
<1>3. Conhecido /\ EdicoesCoerentes /\ Fases /\ ResultadoDoActo
      BY DEF Init, InitInstauracao, Conhecido, EdicoesCoerentes, Fases, ResultadoDoActo, EmCurso
<1>4. QED
      BY <1>1, <1>2, <1>3 DEF IInv

\* Every step keeps the inductive invariant.
LEMMA PassoIInv == IInv /\ [Next]_vars => IInv'
<1> SUFFICES ASSUME IInv, [Next]_vars
             PROVE  IInv'
    OBVIOUS
<1>1. ASSUME Next, NEW d \in Entregas, NEW a \in Actos, Entregar(d, a) \/ Executar(d, a)
      PROVE  IInv'
      BY <1>1, ComecarIInv
<1>2. ASSUME Next, NEW d \in Entregas, LerActo(d)
      PROVE  IInv'
      BY <1>2, LerActoIInv
<1>3. ASSUME Next, NEW d \in Entregas, DevolverExistente(d)
      PROVE  IInv'
      BY <1>3, DevolverExistenteIInv
<1>4. ASSUME Next, NEW d \in Entregas, GerarNumero(d)
      PROVE  IInv'
      BY <1>4, GerarNumeroIInv
<1>5. ASSUME Next, NEW d \in Entregas, SalvarProcesso(d)
      PROVE  IInv'
      BY <1>5, SalvarProcessoIInv
<1>6. ASSUME Next, NEW d \in Entregas, VincularActo(d)
      PROVE  IInv'
      BY <1>6, VincularActoIInv
<1>7. ASSUME Next, NEW d \in Entregas, Auditar(d)
      PROVE  IInv'
      BY <1>7, AuditarIInv
<1>8. ASSUME Next, NEW d \in Entregas, Falhar(d)
      PROVE  IInv'
      BY <1>8, FalharIInv
<1>9. ASSUME Next, NEW o \in Edicoes, NEW a \in Actos, Carregar(o, a)
      PROVE  IInv'
      BY <1>9, CarregarIInv
<1>10. ASSUME Next, NEW o \in Edicoes, NEW e \in {"VALIDADO", "REJEITADO"}, Editar(o, e)
      PROVE  IInv'
      BY <1>10, EditarIInv
<1>11. ASSUME Next, NEW a \in Actos, Registar(a)
      PROVE  IInv'
      BY <1>11, RegistarIInv
<1>12. CASE UNCHANGED vars
      BY <1>12 DEF IInv, TypeOK, LinhasCoerentes, Conhecido, EdicoesCoerentes, Fases,
         ResultadoDoActo, Coerente, vars, varsInstauracao
<1>13. QED
      BY <1>1, <1>2, <1>3, <1>4, <1>5, <1>6, <1>7, <1>8, <1>9, <1>10, <1>11, <1>12 DEF Next, Tratar

\* Every reachable state satisfies the inductive invariant.
THEOREM Indutivo == Spec => []IInv
<1>1. QED
      BY InitIInv, PassoIInv, PTL DEF Spec

\* The rows, the executions and the entities they hold are well typed.
THEOREM TipagemCorrecta == Spec => []TypeOK
<1>1. IInv => TypeOK
      BY DEF IInv
<1>2. QED
      BY <1>1, Indutivo, PTL

\* Stale whole-row saves (save of PrismaActoPiqueteRepository) never tear the
\* state CONVERTIDO of an act from its link.
THEOREM EstadoELigacaoJuntos == Spec => []ConvertidoSseVinculado
<1>1. IInv => ConvertidoSseVinculado
      BY DEF IInv, LinhasCoerentes, Coerente, ConvertidoSseVinculado
<1>2. QED
      BY <1>1, Indutivo, PTL

\* The case an act carries is saved and was created for it by execute.
THEOREM LigacaoSempreReferencial == Spec => []LigacaoReferencial
<1>1. IInv => LigacaoReferencial
      BY DEF IInv, LinhasCoerentes, Coerente, LigacaoReferencial
<1>2. QED
      BY <1>1, Indutivo, PTL

\* What execute returns is a case of the act it was asked about.
THEOREM ResultadoSempreDoActo == Spec => []ResultadoDoActo
<1>1. IInv => ResultadoDoActo
      BY DEF IInv
<1>2. QED
      BY <1>1, Indutivo, PTL

\* Users of an act one at a time.
Exclusivos ==
  serial =>
    /\ \A d, e \in Entregas : passo[d] \in EmCurso /\ passo[e] \in EmCurso => d = e
    /\ \A d \in Entregas, o \in Edicoes :
         ~(passo[d] \in EmCurso /\ edicao[o].passo = "mudar")
    /\ \A o, q \in Edicoes : edicao[o].passo = "mudar" /\ edicao[q].passo = "mudar" => o = q

\* What is held in memory is what the table has.
CopiasActuais ==
  serial =>
    /\ \A d \in Entregas :
         passo[d] \in {"existente", "numerar", "salvar", "vincular"} => lido[d] = actos[alvo[d]]
    /\ \A o \in Edicoes :
         edicao[o].passo = "mudar" => edicao[o].lido = actos[edicao[o].acto]

\* The act of an execution under way, and of a case, is in the table.
Presentes ==
  \A d \in Entregas :
    d \in processos \/ passo[d] \in EmCurso \ {"ler"} => actos[alvo[d]] # Nenhum

SInv == IInv /\ Presentes /\ Exclusivos /\ CopiasActuais /\ AssociadoSeSerial

\* No step takes an act from the table.
LEMMA PresentesPreservado ==
  ASSUME IInv, Presentes, [Next]_vars
  PROVE  Presentes'
<1>1. \A a \in Actos : actos[a] # Nenhum => actos'[a] # Nenhum
  <2>1. ASSUME NEW d \in Entregas, VincularActo(d)
        PROVE  actos' = [actos EXCEPT ![alvo[d]] =
                 [lido[d] EXCEPT !.processo = d, !.estado = "CONVERTIDO"]]
               /\ [lido[d] EXCEPT !.processo = d, !.estado = "CONVERTIDO"] # Nenhum
    <3>1. lido[d] \in Linha
          BY <2>1 DEF IInv, Conhecido, VincularActo, EmCurso
    <3>2. [lido[d] EXCEPT !.processo = d, !.estado = "CONVERTIDO"] \in Linha
          BY <3>1, LinhaVinculada
    <3>3. QED
          BY <2>1, <3>2, NenhumAssumption DEF VincularActo
  <2>2. ASSUME NEW o \in Edicoes, NEW e \in {"VALIDADO", "REJEITADO"}, Editar(o, e)
        PROVE  /\ \/ actos' = actos
                  \/ actos' = [actos EXCEPT ![edicao[o].acto] = [edicao[o].lido EXCEPT !.estado = e]]
               /\ [edicao[o].lido EXCEPT !.estado = e] # Nenhum
    <3>1. edicao[o].lido \in Linha
          BY <2>2 DEF IInv, EdicoesCoerentes, Editar
    <3>2. [edicao[o].lido EXCEPT !.estado = e] \in Linha
          BY <3>1, LinhaDecidida
    <3>3. QED
          BY <2>2, <3>2, NenhumAssumption DEF Editar
  <2>3. ASSUME NEW a \in Actos, Registar(a)
        PROVE  \E linha : linha # Nenhum /\ actos' = [actos EXCEPT ![a] = linha]
    <3>1. Registados \subseteq Linha
          BY DEF Registados, Linha
    <3>2. QED
          BY <2>3, <3>1, NenhumAssumption DEF Registar
  <2>4. \/ actos' = actos
        \/ \E d \in Entregas : VincularActo(d)
        \/ \E o \in Edicoes, e \in {"VALIDADO", "REJEITADO"} : Editar(o, e)
        \/ \E a \in Actos : Registar(a)
        BY DEF Next, Tratar, vars, Entregar, Executar, LerActo, DevolverExistente,
           GerarNumero, SalvarProcesso, Auditar, Falhar, Carregar
  <2>5. QED
        BY <2>1, <2>2, <2>3, <2>4 DEF IInv, TypeOK
<1>2. \A d \in Entregas :
        d \in processos' \/ passo'[d] \in EmCurso \ {"ler"} =>
          /\ alvo'[d] = alvo[d] /\ alvo[d] \in Actos
          /\ d \in processos \/ passo[d] \in EmCurso \ {"ler"} \/ actos[alvo[d]] # Nenhum
  <2> DEFINE Sabido(d) ==
        d \in processos' \/ passo'[d] \in EmCurso \ {"ler"} =>
          /\ passo[d] # "novo"
          /\ d \in processos \/ passo[d] \in EmCurso \ {"ler"} \/ actos[alvo[d]] # Nenhum
  <2>0. /\ passo \in [Entregas -> EmCurso \cup {"novo", "feito", "falhou"}]
        /\ \A d \in Entregas : d \in processos => passo[d] # "novo"
        BY DEF IInv, TypeOK, Fases, EmCurso, Fins
  <2>1. ASSUME NEW e \in Entregas, NEW a \in Actos, Entregar(e, a) \/ Executar(e, a)
        PROVE  \A d \in Entregas : Sabido(d)
        BY <2>0, <2>1 DEF EmCurso, Ir, Entregar, Executar
  <2>2. ASSUME NEW e \in Entregas, LerActo(e)
        PROVE  \A d \in Entregas : Sabido(d)
        BY <2>0, <2>2 DEF EmCurso, Ir, LerActo
  <2>3. ASSUME NEW e \in Entregas, DevolverExistente(e)
        PROVE  \A d \in Entregas : Sabido(d)
        BY <2>0, <2>3 DEF EmCurso, Ir, DevolverExistente
  <2>4. ASSUME NEW e \in Entregas, GerarNumero(e)
        PROVE  \A d \in Entregas : Sabido(d)
        BY <2>0, <2>4 DEF EmCurso, Ir, GerarNumero
  <2>5. ASSUME NEW e \in Entregas, SalvarProcesso(e)
        PROVE  \A d \in Entregas : Sabido(d)
        BY <2>0, <2>5 DEF EmCurso, Ir, SalvarProcesso
  <2>6. ASSUME NEW e \in Entregas, VincularActo(e)
        PROVE  \A d \in Entregas : Sabido(d)
        BY <2>0, <2>6 DEF EmCurso, Ir, VincularActo
  <2>7. ASSUME NEW e \in Entregas, Auditar(e)
        PROVE  \A d \in Entregas : Sabido(d)
        BY <2>0, <2>7 DEF EmCurso, Ir, Auditar
  <2>8. ASSUME NEW e \in Entregas, Falhar(e)
        PROVE  \A d \in Entregas : Sabido(d)
        BY <2>0, <2>8 DEF EmCurso, Ir, Falhar
  <2>9. ASSUME UNCHANGED <<passo, processos>>
        PROVE  \A d \in Entregas : Sabido(d)
        BY <2>0, <2>9 DEF EmCurso
  <2>10. \A d \in Entregas : Sabido(d)
    <3> HIDE DEF Sabido
    <3>1. \/ \E e \in Entregas : \/ \E a \in Actos : Entregar(e, a) \/ Executar(e, a)
                                \/ LerActo(e) \/ DevolverExistente(e) \/ GerarNumero(e)
                                \/ SalvarProcesso(e) \/ VincularActo(e) \/ Auditar(e)
                                \/ Falhar(e)
          \/ UNCHANGED <<passo, processos>>
          BY DEF Next, Tratar, Registar, vars, varsInstauracao, Carregar, Editar
    <3>2. QED
          BY <2>1, <2>2, <2>3, <2>4, <2>5, <2>6, <2>7, <2>8, <2>9, <3>1
  <2>11. \A d \in Entregas : passo[d] # "novo" => alvo'[d] = alvo[d] /\ alvo[d] \in Actos
        BY CoerenciaEstavel DEF IInv, Conhecido
  <2>12. QED
        BY <2>10, <2>11
<1>3. QED
      BY <1>1, <1>2 DEF Presentes

\* Whoever begins alone stays alone.
LEMMA ExclusivosPreservado ==
  ASSUME SInv, [Next]_vars
  PROVE  Exclusivos'
<1>1. ASSUME NEW d \in Entregas, NEW a \in Actos, Entregar(d, a) \/ Executar(d, a)
      PROVE  Exclusivos'
      BY <1>1 DEF SInv, IInv, TypeOK, Exclusivos, EmCurso, Ir, Entregar, Executar,
         PodeComecar, Livre
<1>2. ASSUME NEW d \in Entregas, LerActo(d)
      PROVE  Exclusivos'
      BY <1>2 DEF SInv, IInv, TypeOK, Exclusivos, EmCurso, Ir, LerActo
<1>3. ASSUME NEW d \in Entregas, DevolverExistente(d)
      PROVE  Exclusivos'
      BY <1>3 DEF SInv, IInv, TypeOK, Exclusivos, EmCurso, Ir, DevolverExistente
<1>4. ASSUME NEW d \in Entregas, GerarNumero(d)
      PROVE  Exclusivos'
      BY <1>4 DEF SInv, IInv, TypeOK, Exclusivos, EmCurso, Ir, GerarNumero
<1>5. ASSUME NEW d \in Entregas, SalvarProcesso(d)
      PROVE  Exclusivos'
      BY <1>5 DEF SInv, IInv, TypeOK, Exclusivos, EmCurso, Ir, SalvarProcesso
<1>6. ASSUME NEW d \in Entregas, VincularActo(d)
      PROVE  Exclusivos'
      BY <1>6 DEF SInv, IInv, TypeOK, Exclusivos, EmCurso, Ir, VincularActo
<1>7. ASSUME NEW d \in Entregas, Auditar(d)
      PROVE  Exclusivos'
      BY <1>7 DEF SInv, IInv, TypeOK, Exclusivos, EmCurso, Ir, Auditar
<1>8. ASSUME NEW d \in Entregas, Falhar(d)
      PROVE  Exclusivos'
      BY <1>8 DEF SInv, IInv, TypeOK, Exclusivos, EmCurso, Ir, Falhar
<1>9. ASSUME NEW o \in Edicoes, NEW a \in Actos, Carregar(o, a)
      PROVE  Exclusivos'
      BY <1>9 DEF SInv, IInv, TypeOK, Exclusivos, EmCurso, Ir, Carregar,
         PodeComecar, Livre
<1>10. ASSUME NEW o \in Edicoes, NEW e \in {"VALIDADO", "REJEITADO"}, Editar(o, e)
      PROVE  Exclusivos'
      BY <1>10 DEF SInv, IInv, TypeOK, Exclusivos, EmCurso, Ir, Editar
<1>11. ASSUME NEW a \in Actos, Registar(a)
      PROVE  Exclusivos'
      BY <1>11 DEF SInv, Exclusivos, Registar, varsInstauracao
<1>12. CASE UNCHANGED vars
      BY <1>12 DEF SInv, Exclusivos, vars, varsInstauracao
<1>13. QED
      BY <1>1, <1>2, <1>3, <1>4, <1>5, <1>6, <1>7, <1>8, <1>9, <1>10, <1>11, <1>12 DEF Next, Tratar

\* A save by the only user of an act is of the entity it holds.
LEMMA CopiasPreservado ==
  ASSUME SInv, [Next]_vars
  PROVE  CopiasActuais'
<1>1. ASSUME NEW d \in Entregas, NEW a \in Actos, Entregar(d, a) \/ Executar(d, a)
      PROVE  CopiasActuais'
      BY <1>1 DEF SInv, IInv, TypeOK, Exclusivos, CopiasActuais, Conhecido,
         EdicoesCoerentes, EmCurso, Ir, Entregar, Executar, PodeComecar, Livre
<1>2. ASSUME NEW d \in Entregas, LerActo(d)
      PROVE  CopiasActuais'
      BY <1>2 DEF SInv, IInv, TypeOK, Exclusivos, CopiasActuais, Conhecido,
         EdicoesCoerentes, EmCurso, Ir, LerActo
<1>3. ASSUME NEW d \in Entregas, DevolverExistente(d)
      PROVE  CopiasActuais'
      BY <1>3 DEF SInv, IInv, TypeOK, Exclusivos, CopiasActuais, Conhecido,
         EdicoesCoerentes, EmCurso, Ir, DevolverExistente
<1>4. ASSUME NEW d \in Entregas, GerarNumero(d)
      PROVE  CopiasActuais'
      BY <1>4 DEF SInv, IInv, TypeOK, Exclusivos, CopiasActuais, Conhecido,
         EdicoesCoerentes, EmCurso, Ir, GerarNumero
<1>5. ASSUME NEW d \in Entregas, SalvarProcesso(d)
      PROVE  CopiasActuais'
      BY <1>5 DEF SInv, IInv, TypeOK, Exclusivos, CopiasActuais, Conhecido,
         EdicoesCoerentes, EmCurso, Ir, SalvarProcesso
<1>6. ASSUME NEW d \in Entregas, VincularActo(d)
      PROVE  CopiasActuais'
      BY <1>6 DEF SInv, IInv, TypeOK, Exclusivos, CopiasActuais, Conhecido,
         EdicoesCoerentes, EmCurso, Ir, VincularActo
<1>7. ASSUME NEW d \in Entregas, Auditar(d)
      PROVE  CopiasActuais'
      BY <1>7 DEF SInv, IInv, TypeOK, Exclusivos, CopiasActuais, Conhecido,
         EdicoesCoerentes, EmCurso, Ir, Auditar
<1>8. ASSUME NEW d \in Entregas, Falhar(d)
      PROVE  CopiasActuais'
      BY <1>8 DEF SInv, IInv, TypeOK, Exclusivos, CopiasActuais, Conhecido,
         EdicoesCoerentes, EmCurso, Ir, Falhar
<1>9. ASSUME NEW o \in Edicoes, NEW a \in Actos, Carregar(o, a)
      PROVE  CopiasActuais'
      BY <1>9 DEF SInv, IInv, TypeOK, Exclusivos, CopiasActuais, Conhecido,
         EdicoesCoerentes, EmCurso, Ir, Carregar, PodeComecar, Livre
<1>10. ASSUME NEW o \in Edicoes, NEW e \in {"VALIDADO", "REJEITADO"}, Editar(o, e)
      PROVE  CopiasActuais'
      BY <1>10 DEF SInv, IInv, TypeOK, Exclusivos, CopiasActuais, Conhecido,
         EdicoesCoerentes, EmCurso, Ir, Editar
<1>11. ASSUME NEW a \in Actos, Registar(a)
      PROVE  CopiasActuais'
  <2>1. /\ \A d \in Entregas :
             passo[d] \in {"existente", "numerar", "salvar", "vincular"} => lido[d] # Nenhum
        /\ \A o \in Edicoes : edicao[o].passo = "mudar" => edicao[o].lido # Nenhum
        BY NenhumAssumption DEF SInv, IInv, Conhecido, EdicoesCoerentes, EmCurso
  <2>2. QED
        BY <1>11, <2>1 DEF SInv, IInv, TypeOK, CopiasActuais, Registar, varsInstauracao
<1>12. CASE UNCHANGED vars
      BY <1>12 DEF SInv, CopiasActuais, vars, varsInstauracao
<1>13. QED
      BY <1>1, <1>2, <1>3, <1>4, <1>5, <1>6, <1>7, <1>8, <1>9, <1>10, <1>11, <1>12 DEF Next, Tratar

\* A link is only ever written over a row that has none.
LEMMA AssociadoPreservado ==
  ASSUME SInv, [Next]_vars
  PROVE  AssociadoSeSerial'
<1>1. ASSUME NEW d \in Entregas, NEW a \in Actos, Entregar(d, a) \/ Executar(d, a)
      PROVE  AssociadoSeSerial'
      BY <1>1 DEF SInv, IInv, TypeOK, Fases, AssociadoSeSerial, EmCurso, Fins, Ir,
         Entregar, Executar, PodeComecar, Livre
<1>2. ASSUME NEW d \in Entregas, LerActo(d)
      PROVE  AssociadoSeSerial'
      BY <1>2 DEF SInv, IInv, TypeOK, Fases, AssociadoSeSerial, EmCurso, Fins, Ir,
         LerActo
<1>3. ASSUME NEW d \in Entregas, DevolverExistente(d)
      PROVE  AssociadoSeSerial'
      BY <1>3 DEF SInv, IInv, TypeOK, Fases, AssociadoSeSerial, EmCurso, Fins, Ir,
         DevolverExistente
<1>4. ASSUME NEW d \in Entregas, GerarNumero(d)
      PROVE  AssociadoSeSerial'
      BY <1>4 DEF SInv, IInv, TypeOK, Fases, AssociadoSeSerial, EmCurso, Fins, Ir,
         GerarNumero
<1>5. ASSUME NEW d \in Entregas, SalvarProcesso(d)
      PROVE  AssociadoSeSerial'
      BY <1>5 DEF SInv, IInv, TypeOK, Fases, AssociadoSeSerial, EmCurso, Fins, Ir,
         SalvarProcesso
<1>6. ASSUME NEW d \in Entregas, VincularActo(d)
      PROVE  AssociadoSeSerial'
  <2> SUFFICES ASSUME serial', NEW f \in processos', actos'[alvo'[f]].processo # f
               PROVE  passo'[f] \in {"vincular", "falhou"}
      BY DEF AssociadoSeSerial
  <2>1. /\ alvo[d] \in Actos /\ lido[d] \in Linha /\ lido[d].processo = Nenhum
        /\ serial /\ f \in processos /\ f \in Entregas /\ alvo' = alvo
        BY <1>6 DEF SInv, IInv, TypeOK, Conhecido, VincularActo, EmCurso
  <2>2. actos'[alvo[d]].processo = d
    <3>1. actos'[alvo[d]] = [lido[d] EXCEPT !.processo = d, !.estado = "CONVERTIDO"]
          BY <1>6, <2>1 DEF SInv, IInv, TypeOK, VincularActo
    <3>2. [lido[d] EXCEPT !.processo = d, !.estado = "CONVERTIDO"].processo = d
          BY <2>1, LinhaVinculada
    <3>3. QED
          BY <3>1, <3>2
  <2>3. f # d
        BY <2>1, <2>2
  <2>4. passo[f] # "vincular"
        BY <1>6, <2>1, <2>3 DEF SInv, Exclusivos, VincularActo, EmCurso
  <2>5. actos[alvo[f]].processo # f
    <3>1. CASE alvo[f] = alvo[d]
      <4>1. actos[alvo[d]] = lido[d]
            BY <1>6, <2>1 DEF SInv, CopiasActuais, VincularActo
      <4>2. QED
            BY <3>1, <4>1, <2>1, NenhumAssumption
    <3>2. CASE alvo[f] # alvo[d]
          BY <3>2, <1>6, <2>1 DEF SInv, IInv, TypeOK, VincularActo
    <3>3. QED
          BY <3>1, <3>2
  <2>6. QED
        BY <1>6, <2>1, <2>3, <2>4, <2>5 DEF SInv, IInv, TypeOK, AssociadoSeSerial,
           VincularActo, Ir
<1>7. ASSUME NEW d \in Entregas, Auditar(d)
      PROVE  AssociadoSeSerial'
      BY <1>7 DEF SInv, IInv, TypeOK, Fases, AssociadoSeSerial, EmCurso, Fins, Ir,
         Auditar
<1>8. ASSUME NEW d \in Entregas, Falhar(d)
      PROVE  AssociadoSeSerial'
      BY <1>8 DEF SInv, IInv, TypeOK, Fases, AssociadoSeSerial, EmCurso, Fins, Ir,
         Falhar
<1>9. ASSUME NEW o \in Edicoes, NEW a \in Actos, Carregar(o, a)
      PROVE  AssociadoSeSerial'
      BY <1>9 DEF SInv, IInv, TypeOK, Fases, AssociadoSeSerial, EmCurso, Fins, Ir,
         Carregar, PodeComecar, Livre
<1>10. ASSUME NEW o \in Edicoes, NEW e \in {"VALIDADO", "REJEITADO"}, Editar(o, e)
      PROVE  AssociadoSeSerial'
  <2>1. /\ edicao[o].acto \in Actos /\ edicao[o].lido \in Linha
        /\ edicao[o].lido.estado = "SUBMETIDO" => edicao[o].lido.processo = Nenhum
        BY <1>10 DEF SInv, IInv, EdicoesCoerentes, Coerente, Editar
  <2>2. serial => edicao[o].lido = actos[edicao[o].acto]
        BY <1>10 DEF SInv, CopiasActuais, Editar
  <2>3. [edicao[o].lido EXCEPT !.estado = e].processo = edicao[o].lido.processo
        BY <2>1, LinhaDecidida
  <2>4. serial => \A a \in Actos : actos'[a].processo = actos[a].processo
        BY <1>10, <2>1, <2>2, <2>3 DEF SInv, IInv, TypeOK, Editar
  <2>5. QED
        BY <1>10, <2>4 DEF SInv, IInv, TypeOK, Fases, Conhecido, AssociadoSeSerial,
           Fins, Editar
<1>11. ASSUME NEW a \in Actos, Registar(a)
      PROVE  AssociadoSeSerial'
  <2>1. \A d \in processos : alvo[d] # a
        BY <1>11 DEF SInv, IInv, TypeOK, Presentes, Registar
  <2>2. QED
        BY <1>11, <2>1 DEF SInv, IInv, TypeOK, AssociadoSeSerial, Registar, varsInstauracao
<1>12. CASE UNCHANGED vars
      BY <1>12 DEF SInv, AssociadoSeSerial, vars, varsInstauracao
<1>13. QED
      BY <1>1, <1>2, <1>3, <1>4, <1>5, <1>6, <1>7, <1>8, <1>9, <1>10, <1>11, <1>12 DEF Next, Tratar

\* Nobody has begun, and no case is saved.
LEMMA InitSInv == Init => SInv
<1>1. Init => IInv
      BY InitIInv
<1>2. Init => Presentes /\ Exclusivos /\ CopiasActuais /\ AssociadoSeSerial
      BY DEF Init, InitInstauracao, Presentes, Exclusivos, CopiasActuais, AssociadoSeSerial, EmCurso
<1>3. QED
      BY <1>1, <1>2 DEF SInv

\* Every reachable state satisfies the invariant of serial use.
THEOREM IndutivoSerial == Spec => []SInv
<1>1. SInv /\ [Next]_vars => SInv'
      BY PassoIInv, PresentesPreservado, ExclusivosPreservado, CopiasPreservado, AssociadoPreservado DEF SInv
<1>2. QED
      BY <1>1, InitSInv, PTL DEF Spec

\* Without overlaps every saved case is carried by its act, unless its execution
\* failed between the two saves of execute.
THEOREM AssociadoQuandoSerial == Spec => []AssociadoSeSerial
<1>1. SInv => AssociadoSeSerial
      BY DEF SInv
<1>2. QED
      BY <1>1, IndutivoSerial, PTL

\* Without overlaps an act is decided once and converted once.
THEOREM AvancoQuandoSerial == Spec => AvancoSeSerial
<1> DEFINE Avanco ==
      serial => \A a \in Actos :
        actos[a] # Nenhum /\ actos'[a] # actos[a] =>
          /\ actos[a].processo = Nenhum
          /\ actos'[a].estado \in {"VALIDADO", "REJEITADO"} => actos[a].estado = "SUBMETIDO"
<1>1. ASSUME SInv, [Next]_vars
      PROVE  [Avanco]_vars
  <2>1. ASSUME NEW d \in Entregas, VincularActo(d)
        PROVE  Avanco
    <3>1. alvo[d] \in Actos /\ lido[d] \in Linha /\ lido[d].processo = Nenhum
          BY <1>1, <2>1 DEF SInv, IInv, Conhecido, VincularActo, EmCurso
    <3>2. serial => actos[alvo[d]] = lido[d]
          BY <1>1, <2>1 DEF SInv, CopiasActuais, VincularActo
    <3>3. actos'[alvo[d]] = [lido[d] EXCEPT !.processo = d, !.estado = "CONVERTIDO"]
          BY <1>1, <2>1, <3>1 DEF SInv, IInv, TypeOK, VincularActo
    <3>4. [lido[d] EXCEPT !.processo = d, !.estado = "CONVERTIDO"].estado = "CONVERTIDO"
          BY <3>1, LinhaVinculada
    <3>5. actos'[alvo[d]].estado = "CONVERTIDO"
          BY <3>3, <3>4
    <3>6. \A a \in Actos : actos'[a] # actos[a] => a = alvo[d]
          BY <1>1, <2>1 DEF SInv, IInv, TypeOK, VincularActo
    <3>7. QED
          BY <3>1, <3>2, <3>5, <3>6
  <2>2. ASSUME NEW o \in Edicoes, NEW e \in {"VALIDADO", "REJEITADO"}, Editar(o, e)
        PROVE  Avanco
    <3>1. serial => edicao[o].lido = actos[edicao[o].acto]
          BY <1>1, <2>2 DEF SInv, CopiasActuais, Editar
    <3>2. edicao[o].lido.estado = "SUBMETIDO" => edicao[o].lido.processo = Nenhum
          BY <1>1, <2>2 DEF SInv, IInv, EdicoesCoerentes, Coerente, Editar
    <3>3. \A a \in Actos : actos'[a] # actos[a] =>
            a = edicao[o].acto /\ edicao[o].lido.estado = "SUBMETIDO"
          BY <1>1, <2>2 DEF SInv, IInv, TypeOK, Editar
    <3>4. QED
          BY <3>1, <3>2, <3>3
  <2>3. \/ \A a \in Actos : actos[a] # Nenhum => actos'[a] = actos[a]
        \/ \E d \in Entregas : VincularActo(d)
        \/ \E o \in Edicoes, e \in {"VALIDADO", "REJEITADO"} : Editar(o, e)
        BY <1>1 DEF SInv, IInv, TypeOK, Next, Tratar, Registar, vars, Entregar, Executar, LerActo, DevolverExistente, GerarNumero,
           SalvarProcesso, Auditar, Falhar, Carregar
  <2>4. QED
        BY <2>1, <2>2, <2>3
<1>2. QED
      BY <1>1, IndutivoSerial, PTL DEF Spec, AvancoSeSerial

\* When users of an act do not overlap, an act has at most one case whose
\* execution did not fail, however often its event is delivered: execute finds
\* the link of the one before, or the entity it holds is still the row.
UmProcessoSeSerial ==
  serial => \A d, e \in processos :
    alvo[d] = alvo[e] /\ passo[d] # "falhou" /\ passo[e] # "falhou" => d = e

\* Two cases that are both carried, or about to be, are the same one.
LEMMA ProcessoUnico == SInv => UmProcessoSeSerial
<1> SUFFICES ASSUME SInv, serial, NEW d \in processos, NEW e \in processos,
                    alvo[d] = alvo[e], passo[d] # "falhou", passo[e] # "falhou"
             PROVE  d = e
    BY DEF UmProcessoSeSerial
<1>1. d \in Entregas /\ e \in Entregas /\ d # Nenhum /\ e # Nenhum
      BY NenhumAssumption DEF SInv, IInv, TypeOK
<1>2. /\ actos[alvo[d]].processo = d \/ passo[d] = "vincular"
      /\ actos[alvo[e]].processo = e \/ passo[e] = "vincular"
      BY DEF SInv, AssociadoSeSerial
<1>3. \A f \in {d, e} : passo[f] = "vincular" => actos[alvo[f]].processo = Nenhum
      BY <1>1 DEF SInv, IInv, Conhecido, CopiasActuais
<1>4. passo[d] = "vincular" /\ passo[e] = "vincular" => d = e
      BY <1>1 DEF SInv, Exclusivos, EmCurso
<1>5. QED
      BY <1>1, <1>2, <1>3, <1>4

\* A second case for an act takes an overlap or a failure between the two saves
\* of execute.
THEOREM UmProcessoQuandoSerial == Spec => []UmProcessoSeSerial
<1>1. QED
      BY ProcessoUnico, IndutivoSerial, PTL

\* docs/dia-4.md:25 holds as written when users of an act do not overlap and no
\* statement fails: these two, and nothing else, are what it leaves out.
UmProcessoSemFalhas == serial /\ ~ComFalhas => UmProcessoPorActo

\* Without failing statements, what fails does so before its case is saved.
ProcessosSemFalha == ~ComFalhas => \A d \in processos : passo[d] # "falhou"

\* Only gerar can refuse then, and an act that is not there.
LEMMA SemFalhaPreservado ==
  ASSUME IInv, ProcessosSemFalha, [Next]_vars
  PROVE  ProcessosSemFalha'
<1> SUFFICES ASSUME ~ComFalhas
             PROVE  \A d \in processos' : passo'[d] # "falhou"
    BY DEF ProcessosSemFalha
<1>0. \A d \in processos : d \in Entregas /\ passo[d] # "falhou"
      BY DEF ProcessosSemFalha, IInv, TypeOK
<1>1. ASSUME NEW d \in Entregas,
             \/ \E a \in Actos : Entregar(d, a) \/ Executar(d, a)
             \/ LerActo(d) \/ GerarNumero(d)
      PROVE  \A e \in processos' : passo'[e] # "falhou"
  <2>1. d \notin processos /\ processos' = processos
        BY <1>1 DEF IInv, Fases, Fins, Entregar, Executar, LerActo, GerarNumero
  <2>2. \A e \in Entregas \ {d} : passo'[e] = passo[e]
        BY <1>1 DEF IInv, TypeOK, Entregar, Executar, LerActo, GerarNumero, Ir
  <2>3. QED
        BY <1>0, <2>1, <2>2
<1>2. ASSUME NEW d \in Entregas,
             DevolverExistente(d) \/ SalvarProcesso(d) \/ VincularActo(d) \/ Auditar(d)
      PROVE  \A e \in processos' : passo'[e] # "falhou"
  <2>1. /\ processos' \subseteq processos \cup {d} /\ passo'[d] # "falhou"
        /\ \A e \in Entregas \ {d} : passo'[e] = passo[e]
        BY <1>2 DEF IInv, TypeOK, DevolverExistente, SalvarProcesso, VincularActo, Auditar, Ir
  <2>2. QED
        BY <1>0, <2>1
<1>3. ASSUME \/ \E o \in Edicoes, a \in Actos : Carregar(o, a)
             \/ \E o \in Edicoes, e \in {"VALIDADO", "REJEITADO"} : Editar(o, e)
             \/ \E a \in Actos : Registar(a)
             \/ UNCHANGED vars
      PROVE  \A e \in processos' : passo'[e] # "falhou"
      BY <1>0, <1>3 DEF Carregar, Editar, Registar, vars, varsInstauracao
<1>4. ASSUME NEW d \in Entregas, Falhar(d)
      PROVE  FALSE
      BY <1>4 DEF Falhar
<1>5. QED
      BY <1>1, <1>2, <1>3, <1>4 DEF Next, Tratar

\* Deliveries repeated one after the other create one case for an act.
THEOREM UmProcessoSeNadaFalha == Spec => []UmProcessoSemFalhas
<1>1. Init => ProcessosSemFalha
      BY DEF Init, InitInstauracao, ProcessosSemFalha
<1>2. IInv /\ ProcessosSemFalha /\ [Next]_vars => ProcessosSemFalha'
      BY SemFalhaPreservado
<1>3. UmProcessoSeSerial /\ ProcessosSemFalha => UmProcessoSemFalhas
      BY DEF UmProcessoSeSerial, ProcessosSemFalha, UmProcessoSemFalhas, UmProcessoPorActo
<1>4. QED
      BY <1>1, <1>2, <1>3, UmProcessoQuandoSerial, Indutivo, PTL DEF Spec

\* A step of an execution is at most one indivisible call of the allocator, for
\* the case series of the unit of the act it loaded.
LEMMA PassoDoNumerador ==
  ASSUME IInv, [Next]_vars
  PROVE  [Numerador!Next]_(Numerador!vars)
<1>1. ASSUME NEW d \in Entregas, GerarNumero(d)
      PROVE  Numerador!Next
  <2>1. Serie(d) \in Unidades \X {"PROC"}
        BY <1>1, MaiusculaAssumption DEF IInv, Conhecido, GerarNumero, EmCurso, Linha, Serie
  <2>2. QED
        BY <1>1, <2>1 DEF GerarNumero, Numerador!Next
<1>2. ASSUME NEW d \in Entregas,
             \/ \E a \in Actos : Entregar(d, a) \/ Executar(d, a)
             \/ LerActo(d) \/ DevolverExistente(d) \/ SalvarProcesso(d)
             \/ VincularActo(d) \/ Auditar(d) \/ Falhar(d)
      PROVE  UNCHANGED varsNumero
      BY <1>2 DEF Entregar, Executar, LerActo, DevolverExistente, SalvarProcesso,
         VincularActo, Auditar, Falhar
<1>3. ASSUME \/ \E o \in Edicoes, a \in Actos : Carregar(o, a)
             \/ \E o \in Edicoes, e \in {"VALIDADO", "REJEITADO"} : Editar(o, e)
             \/ \E a \in Actos : Registar(a)
             \/ UNCHANGED vars
      PROVE  UNCHANGED varsNumero
      BY <1>3 DEF Carregar, Editar, Registar, vars, varsInstauracao
<1>4. UNCHANGED varsNumero => UNCHANGED Numerador!vars
      BY DEF varsNumero, Numerador!vars
<1>5. QED
      BY <1>1, <1>2, <1>3, <1>4 DEF Next, Tratar

\* execute uses the numbering service as the allocator promises it.
THEOREM ImplementaNumerador == Spec => Numerador!Spec
<1>1. Init => Numerador!Init
      BY DEF Init, InitInstauracao
<1>2. IInv /\ [Next]_vars => [Numerador!Next]_(Numerador!vars)
      BY PassoDoNumerador
<1>3. QED
      BY <1>1, <1>2, Indutivo, PTL DEF Spec, Numerador!Spec
=============================================================================
