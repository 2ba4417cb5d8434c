\* The same request sent twice, with its key.
CONSTANTS
  Pedidos = {p1, p2}
  Chaves = {c1}
  c1 = c1
  ana = ana
  rui = rui
  SemChave = SemChave
  Entradas <- MCRepetido
  Codigos = {"QUEIXA"}
  GeraProcesso <- MCGera
  UnidadesValidas = {"LU"}
  Unidades = {"LU", "lu", "PIQUETE"}
  Limite = 2
  Maiuscula <- MCMaiuscula
  Nenhum = Nenhum
SPECIFICATION Spec
INVARIANTS UmActoPorChave
