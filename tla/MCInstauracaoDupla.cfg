\* The event of one act delivered twice at once; nothing fails.
CONSTANTS
  Actos = {a1}
  Entregas = {d1, d2}
  Edicoes = {}
  Unidades = {"LU", "lu"}
  UnidadesValidas = {"LU"}
  Limite = 3
  Maiuscula <- MCMaiuscula
  Nenhum = Nenhum
  ComFalhas = FALSE
SPECIFICATION Spec
CHECK_DEADLOCK FALSE
INVARIANTS UmProcessoPorActo
