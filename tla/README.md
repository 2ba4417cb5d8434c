# Formal models of SIP

SIP is the case-management system of a criminal investigation service: a NestJS
API over PostgreSQL (Prisma), with a web front end that is still a placeholder.
This directory holds TLA+ models of the API's behaviour, the TLC runs that check
them on small instances, and TLAPS proofs of what matters most for every
instance. Paths below are relative to `apps/api/src/` unless they say otherwise.
Names of actions and variables follow the code, which is in Portuguese.

## 1. Inventory

| Component | State | Operations | Interacts with |
|---|---|---|---|
| Numbering: `application/services/gerador-numero.service.ts`, `domain/value-objects/numero-processo.vo.ts` | table `sequencias_numeracao` | `gerar` (one READ COMMITTED transaction) | called by both handlers |
| Registration of acts: `interface/http/acto-piquete.controller.ts`, `application/handlers/registar-acto-piquete.handler.ts` | tables `actos_piquete`, `audit_log` | `POST /actos-piquete` | idempotency, types of acts, numbering, act repository, audit |
| Idempotency keys: `application/services/idempotency.service.ts` | table `idempotency_keys` | `verificar`, `guardar`, `limparExpirados` | called by the controller |
| Types of acts: `domain/entities/tipo-acto.entity.ts` | table `tipos_atos` | `activar`, `desactivar`, `findByCodigo` | read by registration |
| Creation of cases: `application/handlers/acto-piquete-registado.event-handler.ts`, `instaurar-processo.handler.ts` | tables `processos`, `actos_piquete` | `handle`, `execute` | event of the act, numbering, both repositories, audit |
| Act entity: `domain/entities/acto-piquete.entity.ts` | a row in memory | `criar`, `validar`, `rejeitar`, `vincularProcesso` | saved whole by its repository |
| Case entity: `domain/entities/processo.entity.ts` | a row in memory | `instaurar`, `distribuirParaInstrutor`, `remeterParaProcuradoria`, `registarNumeroProcuradoria`, `arquivar` | saved whole by its repository |
| Document entity: `domain/entities/peca-processual.entity.ts` | table `pecas_processuais` | `criar`, `gerarPDF`, `assinar`, `proximoNumeroOrdem` | numbered within its case |
| Sessions: `auth/auth.service.ts`, `auth/prisma-auth.repository.ts` | table `refresh_tokens` | `login`, `refresh`, `logout` | authorization policy |
| Authorization policy: `auth/authorization-policy.ts`, `toRoleTree` | tables `roles`, `role_permissions` (read) | `toAuthUser` | fills the access token |
| Guards and rate limit: `auth/auth.guard.ts`, `permissions.guard.ts`, `auth.module.ts` | the access token a request carries | `canActivate` | every request |
| Seed: `src/packages/database/prisma/seed.ts` | tables `roles`, `permissions`, `role_permissions`, `users`, `user_roles`, `tipos_atos` | `main` | writes what logins read |
| Audit log: `application/services/audit.service.ts` | table `audit_log` | one row per act and per case | written by both handlers |
| Queries, unit repository, outbox table, wiring, web page | | | see section 7 |

How they interact. A request runs as a chain of awaits in one Node process, and
every await lets other requests in; there may be several API processes over one
database. Only `gerar` and `rotateRefreshToken` use a database transaction; every
other handler is a series of statements that commit one by one. Repositories load
an entity, hand it out, and later write all of its columns back with an upsert:
nothing compares versions, so the last writer wins. The event
`ActoPiqueteRegistado` is recorded on the entity and cleared by `save`; no code
publishes it, and the event handler has no caller in the repository.

What makes each part correct, and what is hard about it:

- **Numbering**: unique, dense, ordered numbers per unit, type and year, with
  concurrent transactions that insert or update the same row, time out or die;
  the counter at its last six-digit number.
- **Registration and idempotency**: what a 201 says is stored and is the
  requester's own; a key answers with one act for ever, although it is looked up
  before and stored after the act, in separate statements.
- **Creation of cases**: one case per act and a link that is neither lost nor
  torn, with repeated or concurrent deliveries, stale entities and failures
  between the two saves.
- **Sessions**: a chain of tokens with one active at its end, each exchanged at
  most once, with overlapping refreshes, logouts, reuse, expiry and lost answers.
- **Policy**: exact permissions and termination on any table of parents.
- **Access**: a route opens exactly for those the tables allow, although the token
  is signed from several reads, lives for 15 minutes and the seed rewrites the grants
  in statements of their own, over whatever an earlier release left; a seed that died
  is repaired by the next one.
- **The whole flow**: a case stands for one registration, and what a client was
  told stays true, while the event that ties the two may be lost or repeated.
- **Cases and documents**: rows that stay coherent under stale whole-row saves;
  order numbers without holes; final states that last.

`PROJECT.json` lists these hazards at their lines with the properties that cover
them.

## 2. Modules

| Module | Models | Level |
|---|---|---|
| `Numerador` | what the numbering promises: a number or a refusal, in one step | abstract |
| `Numeracao` | `gerar`, statement by statement | implements `Numerador` |
| `RegistoActo` | `POST /actos-piquete` with the idempotency service | uses `Numerador` |
| `InstauracaoProcesso` | event handler, `execute`, and other users of the act row | uses `Numerador` |
| `FluxoPiquete` | the two above over one table of acts | composition |
| `Sessao` | what a session promises: a register with one good token | abstract |
| `SessaoRefresh` | `login`, `refresh`, `logout`, statement by statement | implements `Sessao` |
| `PoliticaAutorizacao` | `toRoleTree`, `buildRoleMap`, `getEffectivePermissionsForRole` | |
| `Acesso` | the seed, the reads a login signs into a token, both guards | uses the result of `PoliticaAutorizacao` |
| `Expediente` | life of cases and documents through their repositories | |
| `*_proofs` | theorems about the module in the name | |
| `MC*` | definitions TLC needs; each `.cfg` is one instance | |

`RegistoActo` and `InstauracaoProcesso` take their numbers from `INSTANCE
Numerador`, in one step. That step is sound because `Numeracao` implements
`Numerador`: the run `numeracao` checks it and theorem `Implementacao` proves it.

### How state and actions correspond to the code

**Numeracao.** `existe` and `ultimo` are the committed rows; `dono[k]` is the
transaction that holds an uncommitted version of row `k`, which is all that row
locks, the wait of `ON CONFLICT` and the re-read of `UPDATE` need. `passo[p]` is
the statement call `p` executes next: `Chamar` (year, upper case),
`InserirSeAusente`, `Incrementar`, `Formatar` or `RejeitarFormato`
(`NumeroProcesso.gerar` inside the callback), `Confirmar`, `Devolver`. `Abortar`
is the 5 s timeout or a death at any statement; `PerderResposta` is a death after
the commit. The UPDATE keeps the branch "Falha ao incrementar" although
`SemFalhaDeIncremento` shows it dead. `VirarAno` is the calendar. A format is
abstracted to whether the unit's letters are accepted and the number has at most
six digits (`FormatoAceite`); the year has four.

**RegistoActo.** `passo[p]` is the await request `p` is at. An act's id is the
request that creates it (`randomUUID` never repeats). `entrada[p]` keeps of the
request what the code branches on: key, user, type, unit and whether the facts
reach 20 characters. `Receber` is the `ValidationPipe` of main.ts:9, which answers
400 to shorter facts (dtos/criar-acto-piquete.dto.ts:15-19), and then the
controller. The entity's own check of the facts, after the number is taken, is kept
in `SalvarActo` as a branch no request reaches. `gerar` upper-cases the unit before
it looks for the counter while the act keeps it as it came: `Maiuscula` is that
conversion and `Serie` the row of `sequencias_numeracao`, here and in
`InstauracaoProcesso`. `Verificar` decides on the row alone (it looks neither at
`expiresAt` nor at `requestHash`, as the code); `Guardar` is a create that the
unique index may refuse, which the client sees as a 500. `Falhar` ends a request
at any await and undoes nothing. `AlternarTipo` is an administrator's
`activar`/`desactivar` and save. `Expirar` is 24 hours passing and does not happen
between storing a key and the answer that follows it at once.

**InstauracaoProcesso.** `actos` are the rows, which appear when a request saves
them (`Registar`) at any time; `Tratar` is every step that is not a request's.
`lido[d]` is the entity execution
`d` loaded and still holds when it saves. A case's id is the execution that
creates it. `Entregar` is the event handler, `Executar` a direct call of
`execute`. `Carregar` and `Editar` are any other user of an act (`validar`,
`rejeitar`, then `save`). The dispatcher that delivers events is outside the
repository, so deliveries happen at any time, any number of times, or never.
`serial` is chosen at the start and never changes: when it is TRUE, a use of an act
begins only when no other one is under way. It is not something the code
guarantees; the properties named `...SeSerial` show which of the documents'
promises rest on it, next to the runs that show them broken without it. The
constant `ComFalhas` switches failures off for the run in which only the overlap
matters.

**FluxoPiquete** instantiates both modules over one variable `actos`: a step is a
request's (`Registar`, `RegistoActo!Next`) or a delivery's or another user's
(`Instaurar`, `InstauracaoProcesso!Tratar`), and leaves the other side's variables
alone. Numbers of acts and of cases have variables of
their own because their keys differ in `tipo`, so they are different rows of
`sequencias_numeracao`. `alvo[d]` of a delivery is the act whose event it carries;
an event exists only for a saved act.

**SessaoRefresh.** A row is `[sessao, revogado, substituto]`; `trava[t]` is the
request holding an uncommitted change of row `t`. `Ler` is the `findUnique` that
chooses between rotation and revocation; `Marcar` the guarded `updateMany`;
`ConfirmarRotacao` the creation of the replacement, the pointer and the COMMIT
(the new row is visible to nobody before it); `Revogar` takes the snapshot of an
`updateMany`, `TravarLinha` reaches one of its rows, waiting and looking again,
and `ConfirmarRevogacao` commits. `logout` and the revocation inside `refresh`
share these steps because they run the same statement. `Falhar` drops what is
uncommitted and leaves the client without an answer. `Expirar` is the seven days
of both the JWT and the row; the constant `Expiraveis` says which tokens they may
pass for. A client may present any token it holds, any number of times. `serial`
is as above, for requests.

**Sessao** is the register the table implements. `ImplementaSessao` maps it: the
good token of a session is its one active row, the opened sessions are those whose
first row exists, and a token's successor is its `replacedByTokenId`. An exchange
is possible only of the good token and only for a token never stored, so the
refinement says that every commit is an atomic compare-and-swap.

**PoliticaAutorizacao.** `mae` is the column `parent_id`, any function the foreign
key admits. `Raizes` and `Filhos` are the tree `toRoleTree` builds. `Visitar` is
one call of `visit`, `Escolher` the start of `getEffectivePermissionsForRole` for
one of the user's roles, `Percorrer` one turn of its loop. The code rebuilds the
same map for each role of the user; the model builds it once. Recursion depth and
queues are sets: no answer depends on the order.

**Acesso.** A first run of the seed may find any database of `Anteriores`: a fresh one,
or what earlier releases and administrators left, with other roles, parents, grants and
users, and users with other roles, bound by the foreign keys only
(`AnterioresAssumption`). `antes` remembers which. `mae` is the column `parent_id`.
`Plano` is the sequence of statements `main` executes, in its order: roles,
permissions, types, then for each role a `deleteMany` and a `createMany` of its grants,
then for each user an `upsert` and the `upsert` of his role. `semente[s]` is where run
`s` of the script is; each statement commits by itself, `Morrer` ends a run at any of
them, and `Conceder` dies on the unique index when another run has granted meanwhile.
find-or-create and upsert leave an existing row alone: a role keeps the parent it has
(seed.ts:25-43), and no statement takes a role from a user (seed.ts:158-183); only the
grants of the roles the seed names are replaced. So a role an earlier release gave goes
on opening routes after any number of runs. No document promises that the seed
withdraws it, so this is no finding; `PapeisDevidos`, `MaeDevida` and
`ConcessoesDevidas` say what a run that ends well leaves, and `Devidas` what a user may
then do. A login or a refresh is three steps, because `findUserByEmail` and
`findUserById` send separate queries: `LerUser` (the user and his roles), `LerPapeis`
(the roles of the tree), `Emitir` (their permissions, and the signature). `Efectivas`
is what `PoliticaAutorizacao` shows the walk to compute on these rows and parents.
`Expirar` is 15 minutes. `Guardas` is `AuthGuard` and then `PermissionsGuard`: they
look at the token only, never at the tables. `seguro` and `actual` record, for the
properties, whether a run of the seed had ended well when the login read its user.
`serial` is as above, for runs and logins.

**Expediente.** No handler uses these entities yet; the model is the only use the
repositories offer: a read (`CarregarProcesso`, `CarregarPeca`, `PedirOrdem`),
then one method and a save of the whole row. `serial` is chosen at the start and
says whether uses overlap. The unique index on `numero_procuradoria` is a guard of
every save of a case, as each writes the whole row. `Desistir` is a method that
throws, a save the index refuses or a death before the save. Arguments a method
rejects at once (blank names, short reasons) are the same `Desistir`.

Operators marked *Variant* are single plausible mistakes in the definition that
follows them (a dropped guard, a missing wait). They are in no specification;
each is listed in `PROJECT.json` with the property that tells it from the code.

## 3. Runs

| Run (cfg) | Instance | Checks | Shows |
|---|---|---|---|
| `numeracao` | 3 calls, units `lu`, `LU`, `PIQUETE` (refused), limit 2, two years | types, `NumerosUnicos`, `ContadorExacto`, `SemFalhaDeIncremento`, `OrdemDeCommit`, refinement, `TodosTerminam` | numbering is an atomic allocator and never hangs |
| `registo` | 3 requests, 2 users, 1 key, short facts, one unit in upper and in lower case and one refused, limit 2 | types, `RespostaDaChave`, `RespostaDoProprio`, `FurosExplicados` | every 201 is about the user's own act, the one its key stands for; a number no act has was lost with a 500 |
| `registo_repetido` | the same request twice | `UmActoPorChave`, violated | finding 1 |
| `instauracao` | 2 acts, 3 executions, 2 edits, failures, limit 2, overlapping or serial | types, `ConvertidoSseVinculado`, `LigacaoReferencial`, `ResultadoDoActo`, `AssociadoSeSerial`, `AvancoSeSerial` | what survives every overlap, and what holds without overlaps |
| `instauracao_dupla` | 1 act, 2 executions, no failures | `UmProcessoPorActo`, violated | finding 2 |
| `fluxo` | 2 requests of 2 users, each of one of three kinds (with a key; in a unit in lower case; of a type that creates no case), 2 executions, failures, overlapping or serial | types, `ProcessoDoRegisto`, `RespostaDuravelNoFluxo`, `SemAuditoriaSoPorFalha` | registration and creation over one table keep each other's promises |
| `fluxo_falha` | 1 request, 1 execution, failures | `FalhaSemRasto`, violated | finding 3 |
| `sessao` | 2 sessions, 3 requests, expiry of a first and of a replacement token, overlapping or serial | types, `UmActivoPorSessao`, `TrocaUnica`, `CadeiaDaSessao`, `RecusaJustificada`, `ImplementaSessao`, `TerminaSeSerial`, `TodosTerminam` | a session is a compare-and-swap register; no deadlock |
| `sessao_logout` | 1 session, 2 requests | `LogoutTerminaSessao`, violated | finding 4 |
| `politica` | all 625 parent tables of 4 roles, all users | types, `PermissoesExactas`, `Termina` | exact permissions, no endless walk |
| `expediente` | 2 cases, 3 documents of one, 5 uses, overlapping or serial | types, `LinhasCoerentes`, `OrdensSemSaltos`, `FinaisSeSerial` | coherence under stale saves |
| `acesso` | 3 runs of the seed, 1 login, 2 roles one below the other and 2 users, over three databases: fresh, with other grants and a user with one role more, with another tree, another role and another user; overlapping or serial | types, `SementeRepara`, `RetiradaVale`, `RespostaCertaSeSerial` | repair, withdrawal, exact answers |

Why the bounds are enough. Three actors are what the known races need: one that inserts
or holds a row, one that waits, one that aborts or comes later; two suffice for each
violation. Three runs of the seed are one that dies half way, one that overlaps it and
one that repairs; one login is enough because logins write nothing and so cannot
disturb one another. The earlier databases hold, each where it can change an answer, an
extra role of a user, a parent the seed would not set, a role and a user the seed does
not name, and a permission it no longer grants. A limit of 2 with three numberings
exhausts a counter; two years make two rows of one unit. One key with two users and
three requests has a first, a late and a foreign user of it. Two acts and two sessions
are there so that effects can cross. Four roles admit circles with a role below them
next to a proper tree. Five uses are enough to bring a case to EM_PROCURADORIA and
overlap one more, or to number, generate and sign a document. Other users of an act
(`Edicoes`) are absent from the two `fluxo` runs and present in `instauracao`, where
what they may do to a row is checked; the theorems about `FluxoPiquete` hold for any
number of them. Symmetry is used only in runs without liveness and over sets whose
members the model treats alike. Where a `.cfg` switches the deadlock check off, the
instance runs out of requests, which is where the real system idles; `numeracao` has an
explicit `Repouso` instead, and in `registo` and `fluxo` types can always be toggled.

## 4. Findings

1. `UmActoPorChave`: docs/dia-4.md:25 says that repeating a request creates
   nothing twice; the key is stored only after the act, so overlapping repeats, or
   a retry after a failure in between, register two acts.
2. `UmProcessoPorActo`: the same line; `execute` checks for an existing case on the
   entity it loaded and links after three awaits.
3. `FalhaSemRasto`: docs/dia-4.md:24 says that a failed creation of a case leaves no
   act half recorded; the act is committed before, no transaction spans the two, and
   no code delivers its event again, so the act stays without a case.
4. `LogoutTerminaSessao`: auth.spec.ts:181 states that logout revokes the session,
   tested only in sequence; a refresh of the session that overlaps the logout
   commits a token the logout's update does not see.

## 5. Fairness and liveness

`Numeracao!FairSpec` is weak fairness of each call's own steps: the event loop
runs what is ready and PostgreSQL wakes the waiters of a freed row. Calls need
not start, abort, or lose answers. `TodosTerminam` then says that locks are always
given back. `SessaoRefresh!FairSpec` is the same for requests: a request that
waits for a row is continuously enabled once the row is free and taken by no
other, and requests are finite. `PoliticaAutorizacao!FairSpec` is weak fairness of
`Next`: the walk is synchronous code. The other modules have no liveness property:
no step of theirs waits for another actor, so termination there would only say that
steps are taken, and nothing in the repository delivers an event, so that an act
ever gets its case cannot be promised under any fairness of this code.

## 6. Proofs

The proofs hold for every value of the constants under the named assumptions of each
module, which TLC evaluates in the runs: `Nenhum` (and, of keys, `SemChave`) is no
value it could be confused with, constants that are tables are functions (`Maiuscula`
is one, from units to units), sessions and requests are different, runs of the seed are
numbered, its grants name exactly the roles it creates, what an earlier release left
obeys the foreign keys, the year interval is not empty, `Limite` is a natural. Only
`Expediente` needs finiteness (of `Pecas`, to count a case's documents), and one
theorem of `PoliticaAutorizacao` (of the roles); nowhere is it assumed how many actors
there are. Theorems beyond the runs' properties state what a run's bounds could hide or
what a violation run leaves of a promise: their properties are defined next to the
theorems, in the proof modules.

In every proof module the properties alone are not inductive, because they do not
say why what an actor read some statements ago is still good when it writes.
`IInv` adds that; one lemma per action, or per group of alike ones, shows it is
preserved, and the last lemmas combine them.

**Numeracao_proofs.** `IInv` adds `ChaveAtribuida` (a started call has a key),
`DonoActivo` (a row is held only by a call inside its transaction, and only its own
row), `ValorReservado` (from the UPDATE to the COMMIT a call holds its row and its
value is the committed counter plus one: the heart of the argument),
`FormatoConfirmado`, `ValoresConsumidos` and `SemSaltos`. `OrdemDeCommit` follows
because a committing value is the counter plus one and all given values are at most
the counter. `Implementacao` maps each step to `Numerador!Atribuir` (the COMMIT),
`Numerador!Recusar` (roll-backs) or a stutter. `EsperasSemCirculo` is the safety half
of `TodosTerminam`: a call that waits holds no row, and the one it waits for is in its
transaction and waits for nobody, because the INSERT is the only statement that ever
waits and a call takes one row. That a lock is then given back is fairness, for TLC.

**RegistoActo_proofs.** The row of a key is written only after the act and its audit
row, and nothing takes those back (`IdemDuravel`); between storing its key and
answering, a request finds its own row there (`ChaveGuardada`, which rests on
`Expirar` not falling between the two: 24 hours do not pass there). So a 201 is about
a saved, audited act of the user, and with a key about the key's act.
`ChaveSempreImutavel` and `RepeticaoNuncaCria` are what remains of finding 1: a stored
key keeps its act until it has expired and a cleanup removes it, and a request that is
answered from it has saved no act and taken no number. For the numbers, `NInv` adds
that what a request took is at most its counter (`Numerados`), is its own
(`Distintos`), and that every number up to a counter was taken by a request that
saved its act, is about to, or ended with 500 (`FurosExplicados`): the holes that
committing the number before saving the act leaves, and no others.
`ImplementaNumerador` says that to the requests numbering is `Numerador`, the
specification `Numeracao` is shown to implement.

**InstauracaoProcesso_proofs.** Copies of a row go stale, so nothing can be said of a
copy by comparing it with the table. What can be said is that each copy is coherent
by itself (`Coerente`: state and link agree, and the link is to a saved case of that
act), and that what makes it so never stops being true (`CoerenciaEstavel`); a stale
save thus writes a coherent row, which gives `ConvertidoSseVinculado`,
`LigacaoReferencial` and `ResultadoDoActo`. For the properties of serial uses, `SInv`
adds that at most one use is under way (`Exclusivos`) and that its copy is the row
(`CopiasActuais`). `UmProcessoQuandoSerial` and `UmProcessoSeNadaFalha` are the other
side of finding 2: without overlaps an act has at most one case among executions that
did not fail, and when nothing fails at most one altogether, so docs/dia-4.md:25 holds
under exactly the two conditions the runs break. `ImplementaNumerador` is as above.

**FluxoPiquete_proofs.** To a request, a row is what it saved, whatever `estado` and
`processo` others write (`ParaRegisto`); to an execution, a row is four columns that
appear when a request saves it (`ParaInstauracao`). Under these two mappings every step
of the flow is a step of each component or a stutter, because every copy that is saved
over a row agrees with it on the rest (`Copias`). `ImplementaRegisto` and
`ImplementaInstauracao` state this as `Spec => R!Spec` and `Spec => I!Spec`; what is
proved of a component is then true of the flow and is used to prove the flow's own
properties; the theorems named `...NoFluxo` carry the components' results over.
`Numerados` ties a case's number to its act's unit. `RegistoSempreIntacto` says that
the whole-row saves of executions and other users lose no act and change nothing of
what a request wrote, however old their copies are. `ImplementaNumerador` maps the
number variables of both components to one `Numerador` over the keys (unit, ACTO or
PROC): it is what justifies keeping the two series in variables of their own, since
gerar serves both from one table.

**SessaoRefresh_proofs.** `IInv` adds `Travada` and `Reservado` (a held row is active;
the request that rotates holds exactly the row of the token it carries), `TokenNovo`
(the row of the token a request signs exists from its COMMIT on, so it is new),
`RecusaPrevista` (a refresh on its way to refuse has seen a dead token, and dead
tokens stay dead), `Conhecidos`, `SessaoIniciada` and `SemResposta`. From it follow
one active token per session, the chain, justified refusals, that revoked rows never
change, and `Implementacao`: each COMMIT is one step of the register `Sessao`, and
every other step a stutter. `TrocaUnica` follows from the chain: two requests
answered 200 for one token would both be its single replacement.
`TerminaQuandoSerial` needs in addition that a revocation that runs alone has yet to
visit, or holds, every active row of its session (`SozinhoNaSessao`). Around finding 4:
`LogoutRevogaOSeuToken` (under every overlap the token sent to an answered logout is
dead), `SessoesMortasFicam` (a session without an active token stays without one: only
a rotation adds a token to an open session, and it consumes one), and
`LogoutTerminaQuandoSerial`, the promise of auth.spec.ts:181 for requests that do not
overlap. `EsperasSemCirculo` rests on one active token per session: a revocation that
waits has locked nothing yet, so it waits for a request that waits for nobody.

**PoliticaAutorizacao_proofs.** A role enters `buildRoleMap`'s walk only through its
one parent (`MapaPelaMae`, `MapaFechado`), so never twice (`VisitaUnica`) and never
from a circle.
`PermissoesExactas` uses the least-fixed-point definition `Abaixo`: what has been
visited lies below the start (`MapaAbaixo`, `PercursoAbaixo`), and a walk that has
nothing left has visited a set closed under children, which holds everything below
(`PercursoFechado`, `NadaAMenos`, `NadaAMais`). No induction over paths is needed.
`CadaPassoSempreAproxima` gives the walk a measure, the roles not yet in the map plus
the user's roles still to do plus the roles not yet seen, weighted: with finitely many
roles each step makes it smaller, circles or not. `Termina` follows by fairness.

**Acesso_proofs.** First about the plan alone: it is well formed and puts each role's
grant right after its deletion and each user's role right after the user (`Parelhas`).
Then what the first run found: `Herdado` says that rows, parents and the grants of
roles the seed does not name stay as they were, and that a user has the roles he had,
or these and the one the seed gives him; `Atribuido` that after the last statement
about a user it is the latter. `Concedido`: a role that lacks grants, although a run
ended well, is one that another run stands in front of, or died at; after any deletion
a role has nothing or what the seed declares. `Leituras` says what a login may hold of
what it read; with no overlap, what it read is what the last run declares.
`SementeRepara`, `RetiradaVale` and `RespostaCertaSeSerial` follow, for every earlier
database the foreign keys admit. `SementeSempreCompleta` says that from the first run
that ends well, whatever overlaps it, roles, tree and users' roles are for good those
the first run found, completed by the seed's: nothing is lost and nothing withdrawn,
but for the grants of the seed's roles, which are the declared ones or, while a run
stands between its two statements or died there, none.

**Expediente_proofs.** What a use holds in memory was a coherent row when it was
read, and each method turns coherent rows into coherent rows (`Fiel`, `Coerentes`).
An order number in memory is at most one above the count of the case's documents,
which never falls, so a number the unique index lets through is the next one:
`OrdensSemSaltos`, by the cardinality theorems. `FinaisSeSerial` is an action
property from the same invariant and from what a use that runs alone holds
(`SozinhoNoExpediente`). `OrdemSempreDefinitiva` needs no such condition: also under
overlaps a saved document stays in its case with its number, because every copy of it
holds that number already.

Only model-checked: `TodosTerminam` (twice) and `Termina`, as liveness under fairness
is beyond the prover; `EsperasSemCirculo` (twice) and `CadaPassoSempreAproxima` are
the parts of them that can be said without it. What the violation runs show violated
is of course not proved.
Every other property of the passing runs is the subject of a theorem.

## 7. Not modelled

- The throttler of `auth.module.ts`: a library's counter of requests per minute that
  no other part reads.
- Queries (`GET /actos-piquete`, the `listar` methods): reads that filter and slice.
  The unit repository: one query without a caller.
- The columns of types of acts other than `activo`, and of audit rows: data.
- `SequenciaNumeracao` entity: without a caller. Outbox table: without code.
- Deletion of users or roles, which no code does.
- Passwords, token hashes, JWT signatures, value objects, formats of values: data
  that no property tells apart beyond accepted or refused.
- Generated coverage reports, CI, Docker, wiring, the shared packages, the web page.

## 8. Plan

Done: all components whose operations change state, the composition of registration
and creation, the abstract specifications `Numerador` and `Sessao`, theorems for
every safety property of the passing runs, what holds on the other side of each
finding, and the absence of circular waits.

What is left depends on changes in the code:

1. When the event of an act is stored or delivered (the outbox table is declared for
   it), an action for the dispatcher in `FluxoPiquete`, and with its fairness the
   liveness property that an act of a kind that creates cases gets one.
2. When the link of an act is saved under a condition on the row (as
   `rotateRefreshToken` does), `UmProcessoPorActo` moves to the passing runs; so does
   `LogoutTerminaSessao` when a logout also stops later replacements, and
   `UmActoPorChave` when the key is reserved before the act.
3. When handlers use `Processo` and `PecaProcessual`, `Expediente` takes their order
   of awaits in place of the arbitrary uses it has now.
