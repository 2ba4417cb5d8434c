-------------------------------- MODULE Acesso --------------------------------
(***************************************************************************)
(* Who may do what: the seed that writes roles, grants and users, the      *)
(* reads by which a login or a refresh puts permissions in a 15-minute     *)
(* access token, and the guards that later decide on the token alone.  The *)
(* seed is a script: every statement commits by itself, it may die at any  *)
(* of them, be run again, or be run twice at once.  Reads of a login are   *)
(* not one transaction either.  PoliticaAutorizacao shows that the walk    *)
(* over the tree gives what Efectivas says.                                *)
(***************************************************************************)
EXTENDS Naturals, Sequences

CONSTANTS
  Perfis, Pessoas,   \* every role and user there is or was
  Papeis,            \* the seed's roles, in the order it creates them
  Permissoes, Tipos, \* its permissions and types of acts, in its order
  Concessoes,        \* its roles, in the order it grants them permissions
  Users,             \* its users, in its order
  Mae,               \* Mae[r]: the parent it creates role r with, or Nenhum
  Declaradas,        \* Declaradas[r]: what it grants role r
  PapelDe,           \* PapelDe[u]: the role it gives user u
  Anteriores,        \* the databases its first run may find
  Execucoes,         \* runs of the seed, numbered as they begin
  Acessos,           \* logins and refreshes; l gets at most one access token
  Operacoes, Exige, Publicas,   \* routes, @RequirePermissions, @Public
  Nenhum

ConjuntoDe(s) == {s[i] : i \in DOMAIN s}
Semeados == ConjuntoDe(Papeis)
Utilizadores == ConjuntoDe(Users)

\* All permissions that were ever granted.
Concediveis ==
  UNION {Declaradas[r] : r \in Semeados} \cup UNION {a.concede[r] : a \in Anteriores, r \in Perfis}

ASSUME SequenciasAssumption ==
  /\ Papeis \in Seq(Semeados) \ {<<>>} /\ Permissoes \in Seq(ConjuntoDe(Permissoes))
  /\ Tipos \in Seq(ConjuntoDe(Tipos)) /\ Users \in Seq(Utilizadores)
  /\ Concessoes \in Seq(Semeados) /\ ConjuntoDe(Concessoes) = Semeados
  /\ Semeados \subseteq Perfis /\ Utilizadores \subseteq Pessoas
ASSUME ConcessoesAssumption ==
  /\ Mae \in [Semeados -> Semeados \cup {Nenhum}]
  /\ Declaradas \in [Semeados -> SUBSET Concediveis]
  /\ PapelDe \in [Utilizadores -> Semeados]

(* What an earlier release left obeys the foreign keys, and that is all:  *)
(* it may have had other roles, parents, grants and users, and users may  *)
(* have been given other roles.                                           *)
ASSUME AnterioresAssumption ==
  \A a \in Anteriores :
    /\ a.papeis \subseteq Perfis
    /\ a.mae \in [Perfis -> Perfis \cup {Nenhum}]
    /\ \A r \in Perfis : a.mae[r] \in (IF r \in a.papeis THEN a.papeis ELSE {}) \cup {Nenhum}
    /\ a.concede \in [Perfis -> SUBSET Concediveis]
    /\ \A r \in Perfis \ a.papeis : a.concede[r] = {}
    /\ a.papeisDe \in [Pessoas -> (SUBSET a.papeis) \cup {Nenhum}]
ASSUME NenhumAssumption == Nenhum \notin Perfis /\ \A S \in SUBSET Perfis : S # Nenhum
ASSUME ExecucoesAssumption == Execucoes \subseteq Nat
ASSUME ExigeAssumption == Publicas \subseteq Operacoes /\ DOMAIN Exige = Operacoes

VARIABLES
  papeis, permissoes, tipos,   \* the rows there are
  mae,         \* mae[r]: column parent_id of role r, or Nenhum
  concede,     \* concede[r]: role_permissions of role r
  papeisDe,    \* papeisDe[u]: roles of user u, or Nenhum without a row
  semente,     \* semente[s]: [estado, em] of a run of the seed
  acesso,      \* acesso[l]: [passo, user, perfis, conhecidos, claims, seguro, actual]
  antes,       \* the database the first run found
  serial       \* runs of the seed and logins never overlap

tabelas == <<papeis, permissoes, tipos, mae, concede, papeisDe>>
vars == <<tabelas, semente, acesso, antes, serial>>

\* The statements of a run, in order.
Tarefas(faz, s) == [i \in DOMAIN s |-> [faz |-> faz, de |-> s[i]]]
Alternadas(a, b) == [i \in 1..(2 * Len(a)) |-> IF i % 2 = 1 THEN a[(i + 1) \div 2] ELSE b[i \div 2]]

\* Variant: the grants are created first and the old ones deleted then.
PlanoTrocado ==
  Tarefas("papel", Papeis) \o Tarefas("permissao", Permissoes) \o Tarefas("tipo", Tipos)
  \o Alternadas(Tarefas("conceder", Concessoes), Tarefas("limpar", Concessoes))
  \o Alternadas(Tarefas("user", Users), Tarefas("atribuir", Users))

Plano ==
  Tarefas("papel", Papeis) \o Tarefas("permissao", Permissoes) \o Tarefas("tipo", Tipos)
  \o Alternadas(Tarefas("limpar", Concessoes), Tarefas("conceder", Concessoes))
  \o Alternadas(Tarefas("user", Users), Tarefas("atribuir", Users))

\* The rows migrations, earlier releases and administrators have left.
Init ==
  /\ antes \in Anteriores
  /\ papeis = antes.papeis /\ permissoes = antes.permissoes /\ tipos = antes.tipos
  /\ mae = antes.mae /\ concede = antes.concede /\ papeisDe = antes.papeisDe
  /\ semente = [s \in Execucoes |-> [estado |-> "nova", em |-> 1]]
  /\ acesso = [l \in Acessos |->
       [passo |-> "novo", user |-> Nenhum, perfis |-> {}, conhecidos |-> {}, claims |-> {},
        seguro |-> FALSE, actual |-> FALSE]]
  /\ serial \in BOOLEAN
-----------------------------------------------------------------------------
A(s, faz) == semente[s].estado = "corre" /\ Plano[semente[s].em].faz = faz
De(s) == Plano[semente[s].em].de

Seguir(s) ==
  IF semente[s].em = Len(Plano)
  THEN semente' = [semente EXCEPT ![s].estado = "feita"]
  ELSE semente' = [semente EXCEPT ![s].em = @ + 1]

Lendo(l) == acesso[l].passo \in {"papeis", "permissoes"}
Quieto == /\ \A s \in Execucoes : semente[s].estado # "corre"
          /\ \A l \in Acessos : ~Lendo(l)

ComecarSemente(s) ==
  /\ semente[s].estado = "nova"
  /\ \A q \in Execucoes : q < s => semente[q].estado # "nova"
  /\ serial => Quieto
  /\ semente' = [semente EXCEPT ![s].estado = "corre"]
  /\ UNCHANGED <<tabelas, acesso, antes, serial>>

(* find-or-create and upsert leave what is there as it is: a role keeps   *)
(* the parent it has.  When two runs create the same row, or the parent   *)
(* to connect is not there, the run dies, which Morrer allows.            *)
CriarPapel(s) ==
  /\ A(s, "papel")
  /\ De(s) \in papeis \/ Mae[De(s)] \in papeis \cup {Nenhum}
  /\ papeis' = papeis \cup {De(s)}
  /\ mae' = IF De(s) \in papeis THEN mae ELSE [mae EXCEPT ![De(s)] = Mae[De(s)]]
  /\ Seguir(s)
  /\ UNCHANGED <<permissoes, tipos, concede, papeisDe, acesso, antes, serial>>

CriarPermissao(s) ==
  /\ A(s, "permissao")
  /\ permissoes' = permissoes \cup {De(s)}
  /\ Seguir(s)
  /\ UNCHANGED <<papeis, tipos, mae, concede, papeisDe, acesso, antes, serial>>

CriarTipo(s) ==
  /\ A(s, "tipo")
  /\ tipos' = tipos \cup {De(s)}
  /\ Seguir(s)
  /\ UNCHANGED <<papeis, permissoes, mae, concede, papeisDe, acesso, antes, serial>>

\* rolePermission.deleteMany: a role without permissions until the next statement.
LimparConcessoes(s) ==
  /\ A(s, "limpar")
  /\ concede' = [concede EXCEPT ![De(s)] = {}]
  /\ Seguir(s)
  /\ UNCHANGED <<papeis, permissoes, tipos, mae, papeisDe, acesso, antes, serial>>

\* createMany: all rows, or a unique violation that ends the run.
Conceder(s) ==
  /\ A(s, "conceder")
  /\ IF concede[De(s)] \cap Declaradas[De(s)] = {}
     THEN concede' = [concede EXCEPT ![De(s)] = @ \cup Declaradas[De(s)]] /\ Seguir(s)
     ELSE semente' = [semente EXCEPT ![s].estado = "morta"] /\ UNCHANGED concede
  /\ UNCHANGED <<papeis, permissoes, tipos, mae, papeisDe, acesso, antes, serial>>

\* user.upsert: a new user is created with the role, in one statement.
CriarUser(s) ==
  /\ A(s, "user")
  /\ papeisDe' = [papeisDe EXCEPT ![De(s)] = IF @ = Nenhum THEN {PapelDe[De(s)]} ELSE @]
  /\ Seguir(s)
  /\ UNCHANGED <<papeis, permissoes, tipos, mae, concede, acesso, antes, serial>>

AtribuirPapel(s) ==
  /\ A(s, "atribuir")
  /\ papeisDe' = [papeisDe EXCEPT ![De(s)] = @ \cup {PapelDe[De(s)]}]
  /\ Seguir(s)
  /\ UNCHANGED <<papeis, permissoes, tipos, mae, concede, acesso, antes, serial>>

Morrer(s) ==
  /\ semente[s].estado = "corre"
  /\ semente' = [semente EXCEPT ![s].estado = "morta"]
  /\ UNCHANGED <<tabelas, acesso, antes, serial>>
-----------------------------------------------------------------------------
Feita(s) == semente[s].estado = "feita"

\* Variant: a user without a row is given a role that is none.
LerUserSemVer(l, u) ==
  /\ acesso[l].passo = "novo"
  /\ acesso' = [acesso EXCEPT ![l].passo = "papeis", ![l].user = u,
       ![l].perfis = IF papeisDe[u] = Nenhum THEN {Nenhum} ELSE papeisDe[u]]
  /\ UNCHANGED <<tabelas, semente, antes, serial>>

(* user.findUnique with the roles of the user.  seguro and actual note    *)
(* whether some run, and whether the last run, has ended well by then.    *)
LerUser(l, u) ==
  /\ acesso[l].passo = "novo"
  /\ serial => Quieto
  /\ acesso' = [acesso EXCEPT ![l] =
       IF papeisDe[u] = Nenhum THEN [@ EXCEPT !.passo = "recusado"]
       ELSE [@ EXCEPT !.passo = "papeis", !.user = u, !.perfis = papeisDe[u],
               !.seguro = \E s \in Execucoes : Feita(s),
               !.actual = \E s \in Execucoes :
                  /\ Feita(s)
                  /\ \A q \in Execucoes : q > s => semente[q].estado = "nova"]]
  /\ UNCHANGED <<tabelas, semente, antes, serial>>

\* role.findMany sends a query for the roles and then one for their permissions.
LerPapeis(l) ==
  /\ acesso[l].passo = "papeis"
  /\ acesso' = [acesso EXCEPT ![l].passo = "permissoes", ![l].conhecidos = papeis]
  /\ UNCHANGED <<tabelas, semente, antes, serial>>

(* PoliticaAutorizacao over the rows E with parents m: from a user's roles *)
(* that hang from a root, the grants of these roles and all below them.    *)
Raizes(E, m) == {r \in E : m[r] \notin E}
Abaixo(E, m, S) ==
  {d \in E : \A C \in SUBSET E :
     S \cap E \subseteq C /\ (\A r \in E : m[r] \in C => r \in C) => d \in C}
Efectivas(perfis, E, m, grants) ==
  UNION {grants[q] : q \in Abaixo(E, m, perfis \cap Abaixo(E, m, Raizes(E, m)))}

\* Variant: permissions are inherited from the roles above.
EmitirInvertido(l) ==
  /\ acesso[l].passo = "permissoes"
  /\ acesso' = [acesso EXCEPT ![l].passo = "emitido", ![l].claims =
       UNION {concede[q] : q \in {x \in papeis :
                                   Abaixo(papeis, mae, {x}) \cap acesso[l].perfis # {}}}]
  /\ UNCHANGED <<tabelas, semente, antes, serial>>

\* Variant: a role gives its own permissions only.
EmitirSemHeranca(l) ==
  /\ acesso[l].passo = "permissoes"
  /\ acesso' = [acesso EXCEPT ![l].passo = "emitido", ![l].claims =
       UNION {concede[q] : q \in acesso[l].perfis}]
  /\ UNCHANGED <<tabelas, semente, antes, serial>>

\* The permissions are read and signed into the token; the parents came with
\* the roles, and a row's parent never changes.
Emitir(l) ==
  /\ acesso[l].passo = "permissoes"
  /\ acesso' = [acesso EXCEPT ![l].passo = "emitido",
       ![l].claims = Efectivas(acesso[l].perfis, acesso[l].conhecidos, mae, concede)]
  /\ UNCHANGED <<tabelas, semente, antes, serial>>

\* Fifteen minutes pass.
Expirar(l) ==
  /\ acesso[l].passo = "emitido"
  /\ acesso' = [acesso EXCEPT ![l].passo = "expirado"]
  /\ UNCHANGED <<tabelas, semente, antes, serial>>

\* AuthGuard: a Bearer token, signed here, of type access, not expired.
Autenticado(portador) == portador \in Acessos /\ acesso[portador].passo = "emitido"

(* AuthGuard, then PermissionsGuard: the status a request ends with, or   *)
(* 200 when its handler is reached.  portador is what it sends as Bearer: *)
(* the access token of a login, or anything else.                         *)
Guardas(portador, op) ==
  CASE op \notin Publicas /\ ~Autenticado(portador)               -> 401
    [] op \in Publicas /\ Exige[op] # {}                          -> 401
    [] op \in Publicas /\ Exige[op] = {}                          -> 200
    [] op \notin Publicas /\ Autenticado(portador)
       -> IF Exige[op] \subseteq acesso[portador].claims THEN 200 ELSE 403

Next ==
  \/ \E s \in Execucoes :
       \/ ComecarSemente(s) \/ CriarPapel(s) \/ CriarPermissao(s) \/ CriarTipo(s)
       \/ LimparConcessoes(s) \/ Conceder(s) \/ CriarUser(s) \/ AtribuirPapel(s) \/ Morrer(s)
  \/ \E l \in Acessos :
       \/ \E u \in Pessoas : LerUser(l, u)
       \/ LerPapeis(l) \/ Emitir(l) \/ Expirar(l)

Spec == Init /\ [][Next]_vars
-----------------------------------------------------------------------------
(* Type correctness: a token carries nothing that was never granted, and  *)
(* the parent of a role is a role.                                        *)
TypeOK ==
  /\ antes \in Anteriores
  /\ papeis \subseteq Perfis
  /\ permissoes \subseteq antes.permissoes \cup ConjuntoDe(Permissoes)
  /\ tipos \subseteq antes.tipos \cup ConjuntoDe(Tipos)
  /\ mae \in [Perfis -> papeis \cup {Nenhum}]
  /\ concede \in [Perfis -> SUBSET Concediveis]
  /\ papeisDe \in [Pessoas -> (SUBSET Perfis) \cup {Nenhum}]
  /\ semente \in [Execucoes -> [estado : {"nova", "corre", "feita", "morta"}, em : 1..Len(Plano)]]
  /\ acesso \in [Acessos ->
       [passo : {"novo", "papeis", "permissoes", "emitido", "expirado", "recusado"},
        user : Pessoas \cup {Nenhum}, perfis : SUBSET Perfis, conhecidos : SUBSET Perfis,
        claims : SUBSET Concediveis, seguro : BOOLEAN, actual : BOOLEAN]]
  /\ serial \in BOOLEAN

(* What the database should be once a run has ended well.  The seed takes  *)
(* nothing from a user and moves no role (seed.ts:25-43, 158-183): users   *)
(* keep the roles an earlier release gave them and roles their parents.    *)
(* Of the roles it names it replaces the grants (seed.ts:135-141).         *)
PapeisDevidos(u) ==
  IF u \notin Utilizadores THEN antes.papeisDe[u]
  ELSE {PapelDe[u]} \cup (IF antes.papeisDe[u] = Nenhum THEN {} ELSE antes.papeisDe[u])
MaeDevida ==
  [r \in Perfis |-> IF r \in Semeados \ antes.papeis THEN Mae[r] ELSE antes.mae[r]]
ConcessoesDevidas ==
  [r \in Perfis |-> IF r \in Semeados THEN Declaradas[r] ELSE antes.concede[r]]

\* What user u may then do.
Devidas(u) ==
  Efectivas(PapeisDevidos(u), antes.papeis \cup Semeados, MaeDevida, ConcessoesDevidas)

ParadaEm(s, r) ==
  semente[s].estado \in {"corre", "morta"}
    /\ Plano[semente[s].em] = [faz |-> "conceder", de |-> r]

(* A run repairs what earlier runs left half done: once one has ended     *)
(* well, every user has his role and lost none he had, and a role of the  *)
(* seed has other permissions than the seed's only while another run is,  *)
(* or has died, between its deletion and its grant; and when it was alone *)
(* and last there is no such role, and roles of earlier releases, parents *)
(* and grants of theirs included, are as they were.                       *)
SementeRepara ==
  \A s \in Execucoes : Feita(s) =>
    /\ \A r \in Semeados :
         concede[r] = Declaradas[r] \/ \E q \in Execucoes : ParadaEm(q, r)
    /\ papeisDe = [u \in Pessoas |-> PapeisDevidos(u)]
    /\ serial /\ (\A q \in Execucoes : q > s => semente[q].estado = "nova")
         => /\ concede = ConcessoesDevidas
            /\ papeis = antes.papeis \cup Semeados /\ mae = MaeDevida
            /\ tipos = antes.tipos \cup ConjuntoDe(Tipos)

(* docs/dia-3.md:26, protected endpoints refuse users without permission: *)
(* after a run of the seed took a permission from a role, no token of a   *)
(* later login opens a route by that role, whichever runs overlap the     *)
(* login; what a user may still do he may by roles the seed leaves him.   *)
RetiradaVale ==
  \A l \in Acessos, op \in Operacoes \ Publicas :
    acesso[l].seguro /\ Guardas(l, op) = 200 => Exige[op] \subseteq Devidas(acesso[l].user)

(* docs/dia-3.md:31, 401 and 403 are told apart: when no run overlaps the *)
(* login and the last one ended well, a token that has not expired opens  *)
(* every route its user may use by the roles he has, given by the seed or *)
(* before it, and by those below them in the tree as it was first built,  *)
(* and gets 403, never 401, on the others.                                *)
RespostaCertaSeSerial ==
  \A l \in Acessos, op \in Operacoes \ Publicas :
    serial /\ acesso[l].actual /\ acesso[l].passo = "emitido" =>
      Guardas(l, op) = IF Exige[op] \subseteq Devidas(acesso[l].user) THEN 200 ELSE 403
=============================================================================
