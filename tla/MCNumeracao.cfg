\* Three concurrent calls, a counter that is exhausted at 2, one new year.
CONSTANTS
  Pedidos = {p1, p2, p3}
  Unidades <- MCUnidades
  Maiuscula <- MCMaiuscula
  UnidadesValidas <- MCValidas
  Tipos = {"ACTO"}
  PrimeiroAno = 2026
  UltimoAno = 2027
  Limite = 2
  Nenhum = Nenhum
SPECIFICATION FairSpec
INVARIANTS TypeOK NumerosUnicos ContadorExacto SemFalhaDeIncremento
PROPERTIES OrdemDeCommit ImplementaNumerador TodosTerminam
