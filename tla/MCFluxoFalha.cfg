\* One request, one delivery, one failure.
CONSTANTS
  Pedidos = {p1}
  Chaves = {c1}
  c1 = c1
  ana = ana
  rui = rui
  SemChave = SemChave
  Entradas <- MCUmaEntrada
  Codigos = {"AUTO_NOTICIA"}
  GeraProcesso <- MCGera
  Entregas = {d1}
  Edicoes = {}
  ComFalhas = TRUE
  UnidadesValidas = {"LU"}
  Unidades = {"LU"}
  Maiuscula <- MCMaiuscula
  Limite = 2
  Nenhum = Nenhum
SPECIFICATION Spec
INVARIANTS FalhaSemRasto
