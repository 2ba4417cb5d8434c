\* Three requests of two users around one key; the numbering stops at 2.
CONSTANTS
  Pedidos = {p1, p2, p3}
  Chaves = {c1}
  c1 = c1
  ana = ana
  rui = rui
  SemChave = SemChave
  Entradas <- MCEntradas
  Codigos = {"QUEIXA"}
  GeraProcesso <- MCGera
  UnidadesValidas = {"LU"}
  Unidades = {"LU", "lu", "PIQUETE"}
  Limite = 2
  Maiuscula <- MCMaiuscula
  Nenhum = Nenhum
SPECIFICATION Spec
SYMMETRY Simetria
INVARIANTS TypeOK RespostaDoProprio FurosExplicados
PROPERTIES RespostaDaChave
