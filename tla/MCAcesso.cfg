\* Three runs of the seed, one login; a fresh database or an earlier release's.
CONSTANTS
  Perfis <- MCPerfis
  Pessoas <- MCPessoas
  Papeis <- MCPapeis
  Permissoes <- MCPermissoes
  Tipos <- MCTipos
  Concessoes <- MCConcessoes
  Users <- MCUsers
  Mae <- MCMae
  Declaradas <- MCDeclaradas
  PapelDe <- MCPapelDe
  Anteriores <- MCAnteriores
  Execucoes = {1, 2, 3}
  Acessos = {l1}
  Operacoes <- MCOperacoes
  Exige <- MCExige
  Publicas = {"login"}
  Nenhum = Nenhum
SPECIFICATION Spec
CHECK_DEADLOCK FALSE
INVARIANTS TypeOK SementeRepara RetiradaVale RespostaCertaSeSerial
