\* Two requests and two executions, overlapping or not, failures anywhere.
CONSTANTS
  Pedidos = {p1, p2}
  Chaves = {c1}
  c1 = c1
  ana = ana
  rui = rui
  SemChave = SemChave
  Entradas <- MCEntradas
  Codigos = {"AUTO_NOTICIA", "TERMO"}
  GeraProcesso <- MCGera
  Entregas = {d1, d2}
  Edicoes = {}
  ComFalhas = TRUE
  UnidadesValidas = {"LU", "BG"}
  Unidades = {"LU", "bg", "BG"}
  Maiuscula <- MCMaiuscula
  Limite = 2
  Nenhum = Nenhum
SPECIFICATION Spec
SYMMETRY Simetria
INVARIANTS TypeOK ProcessoDoRegisto RespostaDuravelNoFluxo SemAuditoriaSoPorFalha
