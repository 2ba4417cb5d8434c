\* Three executions for two acts and two edits, overlapping or not, failures, a
\* numbering that ends at 2.
CONSTANTS
  Actos = {a1, a2}
  Entregas = {d1, d2, d3}
  Edicoes = {o1, o2}
  Unidades = {"LU"}
  UnidadesValidas = {"LU"}
  Limite = 2
  Maiuscula <- MCMaiuscula
  Nenhum = Nenhum
  ComFalhas = TRUE
SPECIFICATION Spec
CHECK_DEADLOCK FALSE
SYMMETRY Simetria
INVARIANTS TypeOK ConvertidoSseVinculado LigacaoReferencial ResultadoDoActo AssociadoSeSerial
PROPERTIES AvancoSeSerial
