-------------------------- MODULE PoliticaAutorizacao --------------------------
(***************************************************************************)
(* The permissions a login or a refresh puts in the access token:          *)
(* AuthService.toAuthUser over the tree that toRoleTree builds from the    *)
(* rows of roles.  buildRoleMap visits the tree without remembering where  *)
(* it has been; getEffectivePermissionsForRole walks down from each role   *)
(* of the user with a queue and a set of roles seen.  Every visit and      *)
(* every turn of the loop is a step; the order of arrays and queues, which *)
(* no answer depends on, is left open.  The table may hold any parents the *)
(* foreign key admits, circles included.                                   *)
(***************************************************************************)
EXTENDS Naturals

CONSTANTS
  Perfis,       \* rows of roles
  Permissoes,
  Concede,      \* [Perfis -> SUBSET Permissoes]: role_permissions
  Nenhum

ASSUME ConcedeAssumption == Concede \in [Perfis -> SUBSET Permissoes]
ASSUME NenhumAssumption == Nenhum \notin Perfis

VARIABLES
  mae,         \* mae[r]: parentId of role r, or Nenhum
  perfis,      \* the roles of the user
  mapa,        \* roles buildRoleMap has put in its map
  porVisitar,  \* calls of visit still to be made
  porTratar,   \* roles of the user toAuthUser has not come to
  alvo,        \* the role it is at
  fila,        \* queue
  vistos,      \* seen
  permissoes   \* permissions collected so far

vars == <<mae, perfis, mapa, porVisitar, porTratar, alvo, fila, vistos, permissoes>>

\* Variant: every node of the map is a root.
TodosRaizes(m) == Perfis

\* toRoleTree: the nodes without a parent, and what each node has below it.
Raizes(m) == {r \in Perfis : m[r] = Nenhum}

Filhos(r) == {c \in Perfis : mae[c] = r}

Init ==
  /\ mae \in [Perfis -> Perfis \cup {Nenhum}]
  /\ perfis \in SUBSET Perfis
  /\ mapa = {}
  /\ porVisitar = Raizes(mae)
  /\ porTratar = perfis
  /\ alvo = Nenhum
  /\ fila = {}
  /\ vistos = {}
  /\ permissoes = {}

(* visit(role): into the map, then every child.                           *)
Visitar(r) ==
  /\ r \in porVisitar
  /\ mapa' = mapa \cup {r}
  /\ porVisitar' = (porVisitar \ {r}) \cup Filhos(r)
  /\ UNCHANGED <<mae, perfis, porTratar, alvo, fila, vistos, permissoes>>

(* The next role of the user; a role that is not in the map gives [].     *)
Escolher(k) ==
  /\ porVisitar = {} /\ fila = {}
  /\ k \in porTratar
  /\ porTratar' = porTratar \ {k}
  /\ alvo' = k
  /\ fila' = {k} \cap mapa
  /\ vistos' = {}
  /\ UNCHANGED <<mae, perfis, mapa, porVisitar, permissoes>>

\* Variant: the children of the role at the head are not queued.
PercorrerSemFilhos(r) ==
  /\ r \in fila
  /\ fila' = fila \ {r}
  /\ vistos' = vistos \cup {r}
  /\ permissoes' = permissoes \cup Concede[r]
  /\ UNCHANGED <<mae, perfis, mapa, porVisitar, porTratar, alvo>>

\* Variant: undefined instead of [] for a role without permissions.
PercorrerComNada(r) ==
  /\ r \in fila
  /\ fila' = (fila \ {r}) \cup Filhos(r)
  /\ vistos' = vistos \cup {r}
  /\ permissoes' = permissoes \cup (IF Concede[r] = {} THEN {Nenhum} ELSE Concede[r])
  /\ UNCHANGED <<mae, perfis, mapa, porVisitar, porTratar, alvo>>

(* One turn of the while loop.                                            *)
Percorrer(r) ==
  /\ r \in fila
  /\ IF r \in vistos
     THEN fila' = fila \ {r} /\ UNCHANGED <<vistos, permissoes>>
     ELSE /\ vistos' = vistos \cup {r}
          /\ permissoes' = permissoes \cup Concede[r]
          /\ fila' = (fila \ {r}) \cup (Filhos(r) \ vistos')
  /\ UNCHANGED <<mae, perfis, mapa, porVisitar, porTratar, alvo>>

Next == \E r \in Perfis : Visitar(r) \/ Escolher(r) \/ Percorrer(r)

Spec == Init /\ [][Next]_vars

\* The code is synchronous: once begun, it runs.
FairSpec == Spec /\ WF_vars(Next)
-----------------------------------------------------------------------------
Fim == porVisitar = {} /\ fila = {} /\ porTratar = {}

\* The roles at or below those of S under parents m: the least set with S
\* and every role whose parent it has.
Fechado(m, C) == \A r \in Perfis : m[r] \in C => r \in C
Abaixo(m, S) ==
  {d \in Perfis : \A C \in SUBSET Perfis : S \subseteq C /\ Fechado(m, C) => d \in C}

(* Type correctness of the table and of the walk.                         *)
TypeOK ==
  /\ mae \in [Perfis -> Perfis \cup {Nenhum}]
  /\ perfis \subseteq Perfis
  /\ mapa \subseteq Perfis
  /\ porVisitar \subseteq Perfis
  /\ porTratar \subseteq perfis
  /\ alvo \in Perfis \cup {Nenhum}
  /\ fila \subseteq Perfis
  /\ vistos \subseteq Perfis
  /\ permissoes \subseteq Permissoes

(* buildRoleMap, which keeps no record of its visits, comes to no role    *)
(* twice: toRoleTree starts it only at roles without a parent, from which *)
(* no circle can be reached.                                              *)
SemRevisita == porVisitar \cap mapa = {}

(* The token carries exactly the permissions of the user's roles and of   *)
(* all roles below them, for the roles that hang from a root; a role on   *)
(* or below a circle gives nothing, not even its own.                     *)
PermissoesExactas ==
  Fim => permissoes = UNION {Concede[d] : d \in Abaixo(mae, perfis \cap Abaixo(mae, Raizes(mae)))}

(* toAuthUser returns whatever parents the table holds: neither walk goes *)
(* round a circle for ever.                                               *)
Termina == <>Fim
=============================================================================
