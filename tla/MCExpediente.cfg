\* Two cases, three documents of one of them; five uses, overlapping or one at a time.
CONSTANTS
  x1 = x1
  Processos = {x1, x2}
  Pecas = {p1, p2, p3}
  Usos = {o1, o2, o3, o4, o5}
  Instrutores = {i1}
  NumerosPGR = {n1}
  Hashes = {h1}
  ProcessoDe <- MCProcessoDe
  Nenhum = Nenhum
SPECIFICATION Spec
SYMMETRY Simetria
CHECK_DEADLOCK FALSE
INVARIANTS TypeOK LinhasCoerentes OrdensSemSaltos
PROPERTIES FinaisSeSerial
