\* A logout and a refresh of the same session.
CONSTANTS
  Sessoes = {s1}
  Pedidos = {r1, r2}
  Expiraveis = {s1, r1}
  Nenhum = Nenhum
SPECIFICATION Spec
CHECK_DEADLOCK FALSE
INVARIANTS LogoutTerminaSessao
