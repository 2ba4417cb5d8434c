\* Every table of four roles and every user.
CONSTANTS
  Perfis = {"diretor", "chefe", "instrutor", "oficial"}
  Permissoes = {"relatorio", "despacho", "processo"}
  Concede <- MCConcede
  Nenhum = "nenhum"
SPECIFICATION FairSpec
CHECK_DEADLOCK FALSE
INVARIANTS TypeOK PermissoesExactas
PROPERTIES Termina
