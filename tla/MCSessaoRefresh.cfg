\* Two sessions, three requests of either kind, overlapping or not; a
\* login's token and one replacement expire.
CONSTANTS
  Sessoes = {s1, s2}
  Pedidos = {r1, r2, r3}
  Expiraveis = {s1, r1}
  Nenhum = Nenhum
SPECIFICATION FairSpec
CHECK_DEADLOCK FALSE
INVARIANTS TypeOK UmActivoPorSessao TrocaUnica CadeiaDaSessao RecusaJustificada
PROPERTIES ImplementaSessao TerminaSeSerial TodosTerminam
