----------------------------- MODULE Acesso_proofs -----------------------------
(***************************************************************************)
(* Proofs about the seed and what logins sign while it runs, for any       *)
(* roles, users, grants, runs and logins.  The argument: the plan puts a   *)
(* role's grant right after its deletion, so a role that lacks grants      *)
(* after a run that ended well is one another run stands between these     *)
(* two; after any deletion a role has nothing or what the seed declares;   *)
(* and when nothing overlaps, the last run is the last that wrote.         *)
(***************************************************************************)
EXTENDS Acesso, SequenceTheorems, TLAPS

\* The statements a plan may have.
Tarefa ==
  [faz : {"papel"}, de : Semeados] \cup [faz : {"permissao"}, de : ConjuntoDe(Permissoes)]
  \cup [faz : {"tipo"}, de : ConjuntoDe(Tipos)] \cup [faz : {"limpar", "conceder"}, de : Semeados]
  \cup [faz : {"user", "atribuir"}, de : Utilizadores]

\* A deletion and its grant, and a user and his role, stand side by side.
Parelhas(s) ==
  \A i \in 1 .. Len(s) :
    /\ s[i].faz = "limpar" => i + 1 <= Len(s) /\ s[i+1] = [faz |-> "conceder", de |-> s[i].de]
    /\ s[i].faz = "conceder" => i > 1 /\ s[i-1] = [faz |-> "limpar", de |-> s[i].de]
    /\ s[i].faz = "atribuir" => i > 1 /\ s[i-1] = [faz |-> "user", de |-> s[i].de]

Tem(s, t) == \E i \in 1 .. Len(s) : s[i] = t
-----------------------------------------------------------------------------
\* The tasks made of a sequence, one for each element.
LEMMA TarefasDe ==
  ASSUME NEW S, NEW s \in Seq(S), NEW faz,
         \A x \in S : [faz |-> faz, de |-> x] \in Tarefa
  PROVE  /\ Tarefas(faz, s) \in Seq(Tarefa) /\ Len(Tarefas(faz, s)) = Len(s)
         /\ \A i \in 1 .. Len(s) : Tarefas(faz, s)[i] = [faz |-> faz, de |-> s[i]]
<1>1. Len(s) \in Nat /\ DOMAIN s = 1 .. Len(s) /\ \A i \in 1 .. Len(s) : s[i] \in S
      BY LenProperties, ElementOfSeq
<1>2. Tarefas(faz, s) \in [1 .. Len(s) -> Tarefa]
      BY <1>1 DEF Tarefas
<1>3. Tarefas(faz, s) \in Seq(Tarefa)
      BY <1>1, <1>2, SeqDef
<1>4. Len(Tarefas(faz, s)) = Len(s)
      BY <1>1, <1>2, <1>3, LenProperties
<1>5. QED
      BY <1>1, <1>3, <1>4 DEF Tarefas

\* Two sequences of tasks taken in turn.
LEMMA AlternadasDe ==
  ASSUME NEW a \in Seq(Tarefa), NEW b \in Seq(Tarefa), Len(a) = Len(b)
  PROVE  /\ Alternadas(a, b) \in Seq(Tarefa) /\ Len(Alternadas(a, b)) = 2 * Len(a)
         /\ \A k \in 1 .. Len(a) : /\ Alternadas(a, b)[2 * k - 1] = a[k]
                                   /\ Alternadas(a, b)[2 * k] = b[k]
<1> DEFINE n == Len(a)
           f(i) == IF i % 2 = 1 THEN a[(i + 1) \div 2] ELSE b[i \div 2]
<1>1. n \in Nat /\ \A k \in 1 .. n : a[k] \in Tarefa /\ b[k] \in Tarefa
      BY LenProperties, ElementOfSeq
<1>2. \A i \in 1 .. 2 * n : f(i) \in Tarefa
  <2> SUFFICES ASSUME NEW i \in 1 .. 2 * n PROVE f(i) \in Tarefa
      OBVIOUS
  <2>1. i % 2 = 1 => (i + 1) \div 2 \in 1 .. n
        BY <1>1
  <2>2. i % 2 # 1 => i \div 2 \in 1 .. n
        BY <1>1
  <2>3. QED
        BY <1>1, <2>1, <2>2
<1>3. Alternadas(a, b) = [i \in 1 .. 2 * n |-> f(i)]
      BY DEF Alternadas
<1>4. Alternadas(a, b) \in [1 .. 2 * n -> Tarefa] /\ 2 * n \in Nat
  <2> HIDE DEF f
  <2> QED
      BY <1>1, <1>2, <1>3
<1>5. Alternadas(a, b) \in Seq(Tarefa)
      BY <1>4, SeqDef
<1>6. Len(Alternadas(a, b)) = 2 * n
      BY <1>4, <1>5, LenProperties
<1>7. ASSUME NEW k \in 1 .. n
      PROVE  Alternadas(a, b)[2 * k - 1] = a[k] /\ Alternadas(a, b)[2 * k] = b[k]
  <2>1. /\ 2 * k - 1 \in 1 .. 2 * n /\ (2 * k - 1) % 2 = 1 /\ ((2 * k - 1) + 1) \div 2 = k
        /\ 2 * k \in 1 .. 2 * n /\ (2 * k) % 2 = 0 /\ (2 * k) \div 2 = k
        BY <1>1
  <2>2. /\ Alternadas(a, b)[2 * k - 1] = f(2 * k - 1)
        /\ Alternadas(a, b)[2 * k] = f(2 * k)
    <3> HIDE DEF f
    <3> QED
        BY <1>3, <2>1
  <2>3. QED
        BY <2>1, <2>2
<1>8. QED
      BY <1>5, <1>6, <1>7

\* Half an index, rounded up.
LEMMA Metade ==
  ASSUME NEW n \in Nat, NEW i \in 1 .. 2 * n
  PROVE  \E k \in 1 .. n : i = 2 * k - 1 \/ i = 2 * k
<1>1. CASE i % 2 = 1
  <2>1. (i + 1) \div 2 \in 1 .. n /\ i = 2 * ((i + 1) \div 2) - 1
        BY <1>1
  <2>2. QED
        BY <2>1
<1>2. CASE i % 2 # 1
  <2>1. i \div 2 \in 1 .. n /\ i = 2 * (i \div 2)
        BY <1>2
  <2>2. QED
        BY <2>1
<1>3. QED
      BY <1>1, <1>2

\* Deletions before their grants, and users before their roles, are side by side.
LEMMA AlternadasParelhas ==
  ASSUME NEW S, NEW s \in Seq(S), NEW f, NEW g,
         \/ f = "limpar" /\ g = "conceder"
         \/ f = "user" /\ g = "atribuir",
         \A x \in S : [faz |-> f, de |-> x] \in Tarefa,
         \A x \in S : [faz |-> g, de |-> x] \in Tarefa,
         NEW t, t = Alternadas(Tarefas(f, s), Tarefas(g, s))
  PROVE  /\ t \in Seq(Tarefa) /\ Parelhas(t)
         /\ \A i \in 1 .. Len(s) : /\ Tem(t, [faz |-> f, de |-> s[i]])
                                   /\ Tem(t, [faz |-> g, de |-> s[i]])
<1> DEFINE n == Len(s)
           a == Tarefas(f, s)
           b == Tarefas(g, s)
<1>a. /\ a \in Seq(Tarefa) /\ Len(a) = n
      /\ \A i \in 1 .. n : a[i] = [faz |-> f, de |-> s[i]]
      BY TarefasDe
<1>b. /\ b \in Seq(Tarefa) /\ Len(b) = n
      /\ \A i \in 1 .. n : b[i] = [faz |-> g, de |-> s[i]]
      BY TarefasDe
<1>c. t = Alternadas(a, b)
      OBVIOUS
<1> HIDE DEF a, b
<1>1. n \in Nat /\ t \in Seq(Tarefa) /\ Len(t) = 2 * n
      BY <1>a, <1>b, <1>c, AlternadasDe, LenProperties
<1>2. ASSUME NEW k \in 1 .. n
      PROVE  /\ t[2 * k - 1] = [faz |-> f, de |-> s[k]]
             /\ t[2 * k] = [faz |-> g, de |-> s[k]]
      BY <1>a, <1>b, <1>c, AlternadasDe
<1>3. Parelhas(t)
  <2> SUFFICES ASSUME NEW i \in 1 .. Len(t)
               PROVE  /\ t[i].faz = "limpar" =>
                           i + 1 <= Len(t) /\ t[i+1] = [faz |-> "conceder", de |-> t[i].de]
                      /\ t[i].faz = "conceder" =>
                           i > 1 /\ t[i-1] = [faz |-> "limpar", de |-> t[i].de]
                      /\ t[i].faz = "atribuir" =>
                           i > 1 /\ t[i-1] = [faz |-> "user", de |-> t[i].de]
      BY DEF Parelhas
  <2>1. PICK k \in 1 .. n : i = 2 * k - 1 \/ i = 2 * k
        BY <1>1, Metade
  <2>2. CASE i = 2 * k - 1
    <3>1. /\ t[i] = [faz |-> f, de |-> s[k]] /\ i + 1 = 2 * k /\ i + 1 <= Len(t)
          /\ t[i+1] = [faz |-> g, de |-> s[k]]
          BY <1>1, <1>2, <2>2
    <3>2. QED
          BY <3>1
  <2>3. CASE i = 2 * k
    <3>1. /\ t[i] = [faz |-> g, de |-> s[k]] /\ i - 1 = 2 * k - 1 /\ i > 1
          /\ t[i-1] = [faz |-> f, de |-> s[k]]
          BY <1>1, <1>2, <2>3
    <3>2. QED
          BY <3>1
  <2>4. QED
        BY <2>1, <2>2, <2>3
<1>4. ASSUME NEW k \in 1 .. n
      PROVE  Tem(t, [faz |-> f, de |-> s[k]]) /\ Tem(t, [faz |-> g, de |-> s[k]])
  <2>1. 2 * k - 1 \in 1 .. Len(t) /\ 2 * k \in 1 .. Len(t)
        BY <1>1
  <2>2. QED
        BY <1>2, <2>1 DEF Tem
<1>5. QED
      BY <1>1, <1>3, <1>4

\* Parts of a plan can be put one after the other.
LEMMA Juntar ==
  ASSUME NEW s \in Seq(Tarefa), NEW t \in Seq(Tarefa), Parelhas(s), Parelhas(t)
  PROVE  /\ s \o t \in Seq(Tarefa) /\ Parelhas(s \o t)
         /\ \A x : Tem(s, x) \/ Tem(t, x) => Tem(s \o t, x)
         /\ Len(s \o t) = Len(s) + Len(t)
<1> DEFINE u == s \o t
<1>1. /\ Len(s) \in Nat /\ Len(t) \in Nat
      /\ u \in Seq(Tarefa) /\ Len(u) = Len(s) + Len(t)
      /\ \A i \in 1 .. Len(s) + Len(t) : u[i] = IF i <= Len(s) THEN s[i] ELSE t[i - Len(s)]
      BY LenProperties, ConcatProperties
<1> HIDE DEF u
<1>2. \A i \in 1 .. Len(s) : i \in 1 .. Len(u) /\ u[i] = s[i]
      BY <1>1
<1>3. \A i \in 1 .. Len(t) : Len(s) + i \in 1 .. Len(u) /\ u[Len(s) + i] = t[i]
  <2> SUFFICES ASSUME NEW i \in 1 .. Len(t)
               PROVE  Len(s) + i \in 1 .. Len(u) /\ u[Len(s) + i] = t[i]
      OBVIOUS
  <2>1. /\ Len(s) + i \in 1 .. Len(s) + Len(t) /\ ~(Len(s) + i <= Len(s))
        /\ (Len(s) + i) - Len(s) = i
        BY <1>1
  <2>2. QED
        BY <1>1, <2>1
<1>4. Parelhas(u)
  <2> SUFFICES ASSUME NEW i \in 1 .. Len(u)
               PROVE  /\ u[i].faz = "limpar" =>
                           i + 1 <= Len(u) /\ u[i+1] = [faz |-> "conceder", de |-> u[i].de]
                      /\ u[i].faz = "conceder" =>
                           i > 1 /\ u[i-1] = [faz |-> "limpar", de |-> u[i].de]
                      /\ u[i].faz = "atribuir" =>
                           i > 1 /\ u[i-1] = [faz |-> "user", de |-> u[i].de]
      BY DEF Parelhas
  <2>1. CASE i <= Len(s)
    <3>1. i \in 1 .. Len(s) /\ u[i] = s[i]
          BY <1>1, <1>2, <2>1
    <3>2. i + 1 <= Len(s) => u[i+1] = s[i+1] /\ i + 1 <= Len(u)
          BY <1>1, <1>2, <3>1
    <3>3. i > 1 => u[i-1] = s[i-1]
          BY <1>1, <1>2, <3>1
    <3>4. QED
          BY <3>1, <3>2, <3>3 DEF Parelhas
  <2>2. CASE i > Len(s)
    <3> DEFINE j == i - Len(s)
    <3>1. j \in 1 .. Len(t) /\ i = Len(s) + j /\ u[i] = t[j]
          BY <1>1, <2>2
    <3>0. /\ Len(s) \in Nat /\ Len(t) \in Nat /\ j \in Nat
          /\ Len(u) = Len(s) + Len(t)
          BY <1>1, <3>1
    <3> HIDE DEF j
    <3>2. j + 1 <= Len(t) => u[i+1] = t[j+1] /\ i + 1 <= Len(u)
      <4> SUFFICES ASSUME j + 1 <= Len(t) PROVE u[i+1] = t[j+1] /\ i + 1 <= Len(u)
          OBVIOUS
      <4>1. j + 1 \in 1 .. Len(t) /\ i + 1 = Len(s) + (j + 1)
            BY <3>0, <3>1
      <4>2. QED
            BY <1>3, <4>1
    <3>3. j > 1 => u[i-1] = t[j-1] /\ i > 1
      <4> SUFFICES ASSUME j > 1 PROVE u[i-1] = t[j-1] /\ i > 1
          OBVIOUS
      <4>1. j - 1 \in 1 .. Len(t) /\ i - 1 = Len(s) + (j - 1)
            BY <3>0, <3>1
      <4>2. u[i-1] = t[j-1]
            BY <1>3, <4>1
      <4>3. QED
            BY <3>0, <3>1, <4>2
    <3>4. QED
          BY <3>1, <3>2, <3>3 DEF Parelhas
  <2>3. QED
        BY <1>1, <2>1, <2>2
<1>5. \A x : Tem(s, x) \/ Tem(t, x) => Tem(u, x)
      BY <1>2, <1>3 DEF Tem
<1>6. QED
      BY <1>1, <1>4, <1>5 DEF u

\* Parts that only create.
LEMMA TarefasParelhas ==
  ASSUME NEW S, NEW s \in Seq(S), NEW f, f \in {"papel", "permissao", "tipo"},
         \A x \in S : [faz |-> f, de |-> x] \in Tarefa
  PROVE  /\ Tarefas(f, s) \in Seq(Tarefa) /\ Parelhas(Tarefas(f, s))
         /\ Len(Tarefas(f, s)) = Len(s)
         /\ \A i \in 1 .. Len(s) : Tem(Tarefas(f, s), [faz |-> f, de |-> s[i]])
<1>1. /\ Tarefas(f, s) \in Seq(Tarefa) /\ Len(Tarefas(f, s)) = Len(s)
      /\ \A i \in 1 .. Len(s) : Tarefas(f, s)[i] = [faz |-> f, de |-> s[i]]
      BY TarefasDe
<1>2. ASSUME NEW i \in 1 .. Len(s)
      PROVE  Tarefas(f, s)[i].faz \notin {"limpar", "conceder", "atribuir"}
  <2>1. Tarefas(f, s)[i] = [faz |-> f, de |-> s[i]]
        BY <1>1
  <2>2. [faz |-> f, de |-> s[i]].faz = f
        OBVIOUS
  <2>3. QED
        BY <2>1, <2>2
<1>3. Parelhas(Tarefas(f, s))
      BY <1>1, <1>2 DEF Parelhas
<1>4. \A i \in 1 .. Len(s) : Tem(Tarefas(f, s), [faz |-> f, de |-> s[i]])
      BY <1>1 DEF Tem
<1>5. QED
      BY <1>1, <1>3, <1>4

\* The plan of the seed: what it has, and what stands side by side.
LEMMA PlanoDaSemente ==
  /\ Plano \in Seq(Tarefa) /\ Parelhas(Plano) /\ Len(Plano) \in Nat \ {0}
  /\ \A r \in Semeados : /\ Tem(Plano, [faz |-> "papel", de |-> r])
                       /\ Tem(Plano, [faz |-> "conceder", de |-> r])
  /\ \A x \in ConjuntoDe(Permissoes) : Tem(Plano, [faz |-> "permissao", de |-> x])
  /\ \A t \in ConjuntoDe(Tipos) : Tem(Plano, [faz |-> "tipo", de |-> t])
  /\ \A u \in Utilizadores : Tem(Plano, [faz |-> "atribuir", de |-> u])
<1> DEFINE a == Tarefas("papel", Papeis)
           b == Tarefas("permissao", Permissoes)
           c == Tarefas("tipo", Tipos)
           d == Alternadas(Tarefas("limpar", Concessoes), Tarefas("conceder", Concessoes))
           e == Alternadas(Tarefas("user", Users), Tarefas("atribuir", Users))
<1>1. /\ a \in Seq(Tarefa) /\ Parelhas(a) /\ Len(a) = Len(Papeis)
      /\ \A i \in 1 .. Len(Papeis) : Tem(a, [faz |-> "papel", de |-> Papeis[i]])
  <2>1. \A x \in Semeados : [faz |-> "papel", de |-> x] \in Tarefa
        BY DEF Tarefa
  <2>2. QED
        BY <2>1, TarefasParelhas, SequenciasAssumption
<1>2. /\ b \in Seq(Tarefa) /\ Parelhas(b)
      /\ \A i \in 1 .. Len(Permissoes) : Tem(b, [faz |-> "permissao", de |-> Permissoes[i]])
  <2>1. \A x \in ConjuntoDe(Permissoes) : [faz |-> "permissao", de |-> x] \in Tarefa
        BY DEF Tarefa
  <2>2. QED
        BY <2>1, TarefasParelhas, SequenciasAssumption
<1>3. /\ c \in Seq(Tarefa) /\ Parelhas(c)
      /\ \A i \in 1 .. Len(Tipos) : Tem(c, [faz |-> "tipo", de |-> Tipos[i]])
  <2>1. \A x \in ConjuntoDe(Tipos) : [faz |-> "tipo", de |-> x] \in Tarefa
        BY DEF Tarefa
  <2>2. QED
        BY <2>1, TarefasParelhas, SequenciasAssumption
<1>4. /\ d \in Seq(Tarefa) /\ Parelhas(d)
      /\ \A i \in 1 .. Len(Concessoes) : Tem(d, [faz |-> "conceder", de |-> Concessoes[i]])
  <2>1. \A x \in Semeados : /\ [faz |-> "limpar", de |-> x] \in Tarefa
                          /\ [faz |-> "conceder", de |-> x] \in Tarefa
        BY DEF Tarefa
  <2>2. QED
        BY <2>1, AlternadasParelhas, SequenciasAssumption
<1>5. /\ e \in Seq(Tarefa) /\ Parelhas(e)
      /\ \A i \in 1 .. Len(Users) : Tem(e, [faz |-> "atribuir", de |-> Users[i]])
  <2>1. \A x \in Utilizadores : /\ [faz |-> "user", de |-> x] \in Tarefa
                           /\ [faz |-> "atribuir", de |-> x] \in Tarefa
        BY DEF Tarefa
  <2>2. QED
        BY <2>1, AlternadasParelhas, SequenciasAssumption
<1>6. Len(a) \in Nat \ {0}
      BY <1>1, SequenciasAssumption, EmptySeq
<1> HIDE DEF a, b, c, d, e
<1>7. /\ a \o b \in Seq(Tarefa) /\ Parelhas(a \o b)
      /\ \A x : Tem(a, x) \/ Tem(b, x) => Tem(a \o b, x)
      /\ Len(a \o b) \in Nat \ {0}
  <2>1. Len(b) \in Nat
        BY <1>2, LenProperties
  <2>2. /\ a \o b \in Seq(Tarefa) /\ Parelhas(a \o b)
        /\ \A x : Tem(a, x) \/ Tem(b, x) => Tem(a \o b, x)
        /\ Len(a \o b) = Len(a) + Len(b)
        BY <1>1, <1>2, Juntar
  <2>3. QED
        BY <1>6, <2>1, <2>2
<1> DEFINE ab == a \o b
<1> HIDE DEF ab
<1>8. /\ ab \o c \in Seq(Tarefa) /\ Parelhas(ab \o c)
      /\ \A x : Tem(a, x) \/ Tem(b, x) \/ Tem(c, x) => Tem(ab \o c, x)
      /\ Len(ab \o c) \in Nat \ {0}
  <2>1. Len(c) \in Nat
        BY <1>3, LenProperties
  <2>2. /\ ab \o c \in Seq(Tarefa) /\ Parelhas(ab \o c)
        /\ \A x : Tem(ab, x) \/ Tem(c, x) => Tem(ab \o c, x)
        /\ Len(ab \o c) = Len(ab) + Len(c)
        BY <1>3, <1>7, Juntar DEF ab
  <2>3. QED
        BY <1>3, <1>7, <2>1, <2>2 DEF ab
<1> DEFINE abc == ab \o c
<1> HIDE DEF abc
<1>9. /\ abc \o d \in Seq(Tarefa) /\ Parelhas(abc \o d)
      /\ \A x : Tem(a, x) \/ Tem(b, x) \/ Tem(c, x) \/ Tem(d, x) => Tem(abc \o d, x)
      /\ Len(abc \o d) \in Nat \ {0}
  <2>1. Len(d) \in Nat
        BY <1>4, LenProperties
  <2>2. /\ abc \o d \in Seq(Tarefa) /\ Parelhas(abc \o d)
        /\ \A x : Tem(abc, x) \/ Tem(d, x) => Tem(abc \o d, x)
        /\ Len(abc \o d) = Len(abc) + Len(d)
        BY <1>4, <1>8, Juntar DEF abc
  <2>3. QED
        BY <1>4, <1>8, <2>1, <2>2 DEF abc
<1> DEFINE abcd == abc \o d
<1> HIDE DEF abcd
<1>10. /\ abcd \o e \in Seq(Tarefa) /\ Parelhas(abcd \o e)
       /\ \A x : Tem(a, x) \/ Tem(b, x) \/ Tem(c, x) \/ Tem(d, x) \/ Tem(e, x)
                   => Tem(abcd \o e, x)
       /\ Len(abcd \o e) \in Nat \ {0}
  <2>1. Len(e) \in Nat
        BY <1>5, LenProperties
  <2>2. /\ abcd \o e \in Seq(Tarefa) /\ Parelhas(abcd \o e)
        /\ \A x : Tem(abcd, x) \/ Tem(e, x) => Tem(abcd \o e, x)
        /\ Len(abcd \o e) = Len(abcd) + Len(e)
        BY <1>5, <1>9, Juntar DEF abcd
  <2>3. QED
        BY <1>5, <1>9, <2>1, <2>2 DEF abcd
<1>11. Plano = abcd \o e
       BY DEF Plano, abcd, abc, ab, a, b, c, d, e
<1>12. /\ \A r \in Semeados : \E i \in 1 .. Len(Papeis) : Papeis[i] = r
       /\ \A r \in Semeados : \E i \in 1 .. Len(Concessoes) : Concessoes[i] = r
       /\ \A x \in ConjuntoDe(Permissoes) : \E i \in 1 .. Len(Permissoes) : Permissoes[i] = x
       /\ \A t \in ConjuntoDe(Tipos) : \E i \in 1 .. Len(Tipos) : Tipos[i] = t
       /\ \A u \in Utilizadores : \E i \in 1 .. Len(Users) : Users[i] = u
  <2>1. /\ DOMAIN Papeis = 1 .. Len(Papeis) /\ DOMAIN Concessoes = 1 .. Len(Concessoes)
        /\ DOMAIN Permissoes = 1 .. Len(Permissoes)
        /\ DOMAIN Tipos = 1 .. Len(Tipos) /\ DOMAIN Users = 1 .. Len(Users)
        BY SequenciasAssumption, LenProperties
  <2>2. /\ Semeados = {Concessoes[i] : i \in DOMAIN Concessoes}
        /\ Semeados = {Papeis[i] : i \in DOMAIN Papeis}
        BY SequenciasAssumption DEF ConjuntoDe, Semeados
  <2>3. QED
        BY <2>1, <2>2 DEF ConjuntoDe, Utilizadores
<1>13. /\ \A r \in Semeados : Tem(a, [faz |-> "papel", de |-> r])
       /\ \A r \in Semeados : Tem(d, [faz |-> "conceder", de |-> r])
       /\ \A x \in ConjuntoDe(Permissoes) : Tem(b, [faz |-> "permissao", de |-> x])
       /\ \A t \in ConjuntoDe(Tipos) : Tem(c, [faz |-> "tipo", de |-> t])
       /\ \A u \in Utilizadores : Tem(e, [faz |-> "atribuir", de |-> u])
       BY <1>1, <1>2, <1>3, <1>4, <1>5, <1>12
<1>14. QED
       BY <1>10, <1>11, <1>13
-----------------------------------------------------------------------------
\* Run s has executed statement i.
Passou(s, i) == i < semente[s].em \/ Feita(s)

UltimaDe(s) == \A q \in Execucoes : q > s => semente[q].estado = "nova"

\* Runs begin in order; without overlap, a run is over when the next one begins.
Sementes ==
  /\ \A s \in Execucoes : semente[s].estado = "nova" => semente[s].em = 1
  /\ \A s, q \in Execucoes :
       q < s /\ semente[s].estado # "nova" =>
         semente[q].estado # "nova" /\ (serial => semente[q].estado # "corre")
  /\ serial => \/ \A s \in Execucoes : semente[s].estado # "corre"
               \/ \A l \in Acessos : ~Lendo(l)

\* What is created stays.
Criado ==
  \A s \in Execucoes : \A i \in 1 .. Len(Plano) : Passou(s, i) =>
    /\ Plano[i].faz = "papel" => Plano[i].de \in papeis
    /\ Plano[i].faz = "permissao" => Plano[i].de \in permissoes
    /\ Plano[i].faz = "tipo" => Plano[i].de \in tipos
    /\ Plano[i].faz \in {"user", "atribuir"} => papeisDe[Plano[i].de] # Nenhum

\* What the first run found stays, but for grants of the seed's own roles; a
\* user has the roles he had, or these and the one the seed gives him.
Herdado ==
  /\ antes.papeis \subseteq papeis /\ papeis \subseteq antes.papeis \cup Semeados
  /\ antes.permissoes \subseteq permissoes /\ antes.tipos \subseteq tipos
  /\ \A r \in Perfis : mae[r] = IF r \in papeis THEN MaeDevida[r] ELSE Nenhum
  /\ \A r \in Perfis \ Semeados : concede[r] = antes.concede[r]
  /\ \A u \in Pessoas : papeisDe[u] \in {antes.papeisDe[u], PapeisDevidos(u)}

Atribuido ==
  \A s \in Execucoes : \A i \in 1 .. Len(Plano) :
    Passou(s, i) /\ Plano[i].faz = "atribuir" =>
      papeisDe[Plano[i].de] = PapeisDevidos(Plano[i].de)

\* Once deleted, grants are nothing or the seed's; and nothing only while, or
\* because, a run is between its two statements.
Concedido ==
  \A s \in Execucoes : \A i \in 1 .. Len(Plano) : Passou(s, i) =>
    /\ Plano[i].faz = "limpar" =>
         concede[Plano[i].de] = {} \/ concede[Plano[i].de] = Declaradas[Plano[i].de]
    /\ Plano[i].faz = "conceder" =>
         /\ \/ concede[Plano[i].de] = Declaradas[Plano[i].de]
            \/ \E q \in Execucoes : ParadaEm(q, Plano[i].de)
         /\ serial /\ UltimaDe(s) => \/ concede[Plano[i].de] = Declaradas[Plano[i].de]
                                     \/ ParadaEm(s, Plano[i].de)

\* What a login has read, and what it may sign.
Leituras ==
  \A l \in Acessos :
    /\ acesso[l].passo \in {"papeis", "permissoes", "emitido", "expirado"} =>
         acesso[l].user \in Pessoas
    /\ acesso[l].seguro =>
         /\ \E s \in Execucoes : Feita(s)
         /\ acesso[l].perfis = PapeisDevidos(acesso[l].user)
         /\ acesso[l].passo = "permissoes" => acesso[l].conhecidos = antes.papeis \cup Semeados
         /\ acesso[l].claims \subseteq Devidas(acesso[l].user)
    /\ acesso[l].passo \in {"novo", "papeis", "permissoes"} => acesso[l].claims = {}
    /\ serial /\ acesso[l].actual =>
         /\ acesso[l].seguro
         /\ Lendo(l) => concede = ConcessoesDevidas
         /\ acesso[l].passo = "emitido" => acesso[l].claims = Devidas(acesso[l].user)

IInv ==
  /\ TypeOK
  /\ Sementes
  /\ Criado
  /\ Herdado
  /\ Atribuido
  /\ Concedido
  /\ Leituras
-----------------------------------------------------------------------------
\* What each statement is about.
LEMMA TarefaDoPlano ==
  ASSUME NEW i \in 1 .. Len(Plano)
  PROVE  /\ Plano[i].faz \in {"papel", "limpar", "conceder"} =>
              Plano[i].de \in Semeados /\ Plano[i].de \in Perfis
         /\ Plano[i].faz = "permissao" => Plano[i].de \in ConjuntoDe(Permissoes)
         /\ Plano[i].faz = "tipo" => Plano[i].de \in ConjuntoDe(Tipos)
         /\ Plano[i].faz \in {"user", "atribuir"} =>
              Plano[i].de \in Utilizadores /\ Plano[i].de \in Pessoas
         /\ Plano[i] = [faz |-> Plano[i].faz, de |-> Plano[i].de]
<1>1. Plano[i] \in Tarefa
      BY PlanoDaSemente, ElementOfSeq
<1>2. Semeados \subseteq Perfis /\ Utilizadores \subseteq Pessoas
      BY SequenciasAssumption DEF Utilizadores
<1>3. QED
      BY <1>1, <1>2 DEF Tarefa

\* What a run should leave depends on what the first run found only.
LEMMA DevidasFixas ==
  ASSUME antes' = antes
  PROVE  /\ \A u : PapeisDevidos(u)' = PapeisDevidos(u) /\ Devidas(u)' = Devidas(u)
         /\ MaeDevida' = MaeDevida /\ ConcessoesDevidas' = ConcessoesDevidas
<1>1. \A u : PapeisDevidos(u)' = PapeisDevidos(u)
      BY DEF PapeisDevidos
<1>2. MaeDevida' = MaeDevida /\ ConcessoesDevidas' = ConcessoesDevidas
      BY DEF MaeDevida, ConcessoesDevidas
<1>3. \A u : Devidas(u)' = Devidas(u)
      BY DEF Devidas, PapeisDevidos, MaeDevida, ConcessoesDevidas
<1>4. QED
      BY <1>1, <1>2, <1>3

\* The roles at or below others are rows; more grants give no fewer permissions.
LEMMA EfectivasMonotona ==
  ASSUME NEW P, NEW E, NEW m, NEW g, NEW h, \A r \in E : g[r] \subseteq h[r]
  PROVE  Efectivas(P, E, m, g) \subseteq Efectivas(P, E, m, h)
<1>1. \A S : Abaixo(E, m, S) \subseteq E
      BY DEF Abaixo
<1>2. QED
      BY <1>1 DEF Efectivas

\* A column of roles that are not there is empty.
LEMMA SemLinhaSemMae ==
  ASSUME antes \in Anteriores
  PROVE  /\ antes.papeis \subseteq Perfis
         /\ antes.mae \in [Perfis -> antes.papeis \cup {Nenhum}]
         /\ \A r \in Perfis \ antes.papeis : antes.mae[r] = Nenhum
         /\ antes.concede \in [Perfis -> SUBSET Concediveis]
         /\ antes.papeisDe \in [Pessoas -> (SUBSET antes.papeis) \cup {Nenhum}]
<1>1. /\ antes.papeis \subseteq Perfis
      /\ antes.mae \in [Perfis -> Perfis \cup {Nenhum}]
      /\ \A r \in Perfis :
           antes.mae[r] \in (IF r \in antes.papeis THEN antes.papeis ELSE {}) \cup {Nenhum}
      /\ antes.concede \in [Perfis -> SUBSET Concediveis]
      /\ antes.papeisDe \in [Pessoas -> (SUBSET antes.papeis) \cup {Nenhum}]
      BY AnterioresAssumption
<1>2. QED
      BY <1>1

\* A run that goes on.
LEMMA SeguirFactos ==
  ASSUME TypeOK, NEW s \in Execucoes, semente[s].estado = "corre", Seguir(s)
  PROVE  /\ semente' \in [Execucoes -> [estado : {"nova", "corre", "feita", "morta"},
                                        em : 1 .. Len(Plano)]]
         /\ \A q \in Execucoes \ {s} : semente'[q] = semente[q]
         /\ semente'[s].estado \in {"corre", "feita"}
         /\ semente[s].em < Len(Plano) =>
              semente'[s].estado = "corre" /\ semente'[s].em = semente[s].em + 1
         /\ \A q \in Execucoes : Feita(q) => Feita(q)'
         /\ \A i \in 1 .. Len(Plano) : Passou(s, i)' <=> Passou(s, i) \/ i = semente[s].em
<1>1. Len(Plano) \in Nat /\ semente[s].em \in 1 .. Len(Plano)
      BY PlanoDaSemente DEF TypeOK
<1>0. semente \in [Execucoes -> [estado : {"nova", "corre", "feita", "morta"},
                                em : 1 .. Len(Plano)]]
      BY DEF TypeOK
<1>2. /\ \A q \in Execucoes \ {s} : semente'[q] = semente[q]
      /\ semente'[s] = IF semente[s].em = Len(Plano) THEN [semente[s] EXCEPT !.estado = "feita"]
                       ELSE [semente[s] EXCEPT !.em = semente[s].em + 1]
      /\ DOMAIN semente' = Execucoes
  <2>1. CASE semente[s].em = Len(Plano)
        BY <1>0, <2>1 DEF Seguir
  <2>2. CASE semente[s].em # Len(Plano)
        BY <1>0, <2>2 DEF Seguir
  <2>3. QED
        BY <2>1, <2>2
<1>3. semente[s] \in [estado : {"nova", "corre", "feita", "morta"}, em : 1 .. Len(Plano)]
      BY DEF TypeOK
<1>4. CASE semente[s].em = Len(Plano)
  <2>1. semente'[s].estado = "feita" /\ semente'[s].em = Len(Plano)
        BY <1>2, <1>3, <1>4
  <2>2. semente'[s] \in [estado : {"nova", "corre", "feita", "morta"}, em : 1 .. Len(Plano)]
        BY <1>2, <1>3, <1>4
  <2>3. semente' \in [Execucoes -> [estado : {"nova", "corre", "feita", "morta"},
                                    em : 1 .. Len(Plano)]]
        BY <1>0, <1>2, <2>2 DEF Seguir
  <2>4. \A i \in 1 .. Len(Plano) : Passou(s, i)' /\ (Passou(s, i) \/ i = semente[s].em)
        BY <1>1, <1>4, <2>1 DEF Passou, Feita
  <2>5. QED
        BY <1>1, <1>2, <1>4, <2>1, <2>3, <2>4 DEF Feita
<1>5. CASE semente[s].em # Len(Plano)
  <2>1. semente'[s].estado = "corre" /\ semente'[s].em = semente[s].em + 1
        BY <1>2, <1>3, <1>5
  <2>2. semente'[s] \in [estado : {"nova", "corre", "feita", "morta"}, em : 1 .. Len(Plano)]
        BY <1>1, <1>2, <1>3, <1>5
  <2>3. semente' \in [Execucoes -> [estado : {"nova", "corre", "feita", "morta"},
                                    em : 1 .. Len(Plano)]]
        BY <1>0, <1>2, <2>2 DEF Seguir
  <2>4. \A i \in 1 .. Len(Plano) : Passou(s, i)' <=> Passou(s, i) \/ i = semente[s].em
        BY <1>1, <2>1 DEF Passou, Feita
  <2>5. QED
        BY <1>1, <1>2, <2>1, <2>3, <2>4 DEF Feita
<1>6. QED
      BY <1>4, <1>5

\* The runs after a step of run s that is under way.
LEMMA SementesPasso ==
  ASSUME Sementes, NEW s \in Execucoes, semente[s].estado = "corre",
         \A q \in Execucoes \ {s} : semente'[q] = semente[q],
         semente'[s].estado \in {"corre", "feita", "morta"},
         acesso' = acesso, serial' = serial
  PROVE  Sementes'
  BY DEF Sementes, Lendo

\* While a run is under way and nothing overlaps, nobody is reading.
LEMMA LeiturasFicam ==
  ASSUME Sementes, Leituras, NEW s \in Execucoes,
         semente[s].estado = "corre" \/ (serial => Quieto),
         \A q \in Execucoes : Feita(q) => Feita(q)',
         acesso' = acesso, antes' = antes, serial' = serial
  PROVE  Leituras'
<1>1. serial => \A l \in Acessos : ~Lendo(l)
      BY DEF Sementes, Quieto
<1>2. /\ \A u : PapeisDevidos(u)' = PapeisDevidos(u) /\ Devidas(u)' = Devidas(u)
      /\ ConcessoesDevidas' = ConcessoesDevidas
      BY DevidasFixas
<1>3. QED
      BY <1>1, <1>2 DEF Leituras, Lendo

\* A statement that creates is done, and what was there stays.
LEMMA CriadoPasso ==
  ASSUME TypeOK, Criado, NEW s \in Execucoes, semente[s].estado = "corre", Seguir(s),
         papeis \subseteq papeis', permissoes \subseteq permissoes', tipos \subseteq tipos',
         \A u \in Pessoas : papeisDe[u] # Nenhum => papeisDe'[u] # Nenhum,
         Plano[semente[s].em].faz = "papel" => Plano[semente[s].em].de \in papeis',
         Plano[semente[s].em].faz = "permissao" => Plano[semente[s].em].de \in permissoes',
         Plano[semente[s].em].faz = "tipo" => Plano[semente[s].em].de \in tipos',
         Plano[semente[s].em].faz \in {"user", "atribuir"} =>
           papeisDe'[Plano[semente[s].em].de] # Nenhum
  PROVE  Criado'
<1> SUFFICES ASSUME NEW q \in Execucoes, NEW i \in 1 .. Len(Plano), Passou(q, i)'
             PROVE  /\ Plano[i].faz = "papel" => Plano[i].de \in papeis'
                    /\ Plano[i].faz = "permissao" => Plano[i].de \in permissoes'
                    /\ Plano[i].faz = "tipo" => Plano[i].de \in tipos'
                    /\ Plano[i].faz \in {"user", "atribuir"} => papeisDe'[Plano[i].de] # Nenhum
    BY DEF Criado
<1>1. Passou(q, i) \/ (q = s /\ i = semente[s].em)
  <2>1. CASE q = s
        BY <2>1, SeguirFactos
  <2>2. CASE q # s
        BY <2>2, SeguirFactos DEF Passou, Feita
  <2>3. QED
        BY <2>1, <2>2
<1>2. CASE Passou(q, i)
      BY <1>2, TarefaDoPlano DEF Criado
<1>3. CASE q = s /\ i = semente[s].em
      BY <1>3
<1>4. QED
      BY <1>1, <1>2, <1>3

\* A statement that neither deletes nor grants.
LEMMA ConcedidoSegue ==
  ASSUME TypeOK, Concedido, NEW s \in Execucoes, semente[s].estado = "corre", Seguir(s),
         Plano[semente[s].em].faz \notin {"limpar", "conceder"},
         concede' = concede, serial' = serial
  PROVE  Concedido'
<1>1. \A q \in Execucoes, r \in Perfis : ParadaEm(q, r) => ParadaEm(q, r)'
  <2> SUFFICES ASSUME NEW q \in Execucoes, NEW r \in Perfis, ParadaEm(q, r)
               PROVE  ParadaEm(q, r)'
      OBVIOUS
  <2>1. q # s
        BY DEF ParadaEm
  <2>2. QED
        BY <2>1, SeguirFactos DEF ParadaEm
<1>2. \A q \in Execucoes : UltimaDe(q)' => UltimaDe(q)
  <2> SUFFICES ASSUME NEW q \in Execucoes, UltimaDe(q)', NEW p \in Execucoes, p > q
               PROVE  semente[p].estado = "nova"
      BY DEF UltimaDe
  <2>1. semente'[p].estado = "nova"
        BY DEF UltimaDe
  <2>2. QED
        BY <2>1, SeguirFactos
<1>3. ASSUME NEW q \in Execucoes, NEW i \in 1 .. Len(Plano), Passou(q, i)',
             Plano[i].faz \in {"limpar", "conceder"}
      PROVE  Passou(q, i)
  <2>1. CASE q = s
        BY <1>3, <2>1, SeguirFactos
  <2>2. CASE q # s
        BY <1>3, <2>2, SeguirFactos DEF Passou, Feita
  <2>3. QED
        BY <2>1, <2>2
<1>4. \A i \in 1 .. Len(Plano) : Plano[i].faz = "conceder" => Plano[i].de \in Perfis
      BY TarefaDoPlano
<1>5. QED
      BY <1>1, <1>2, <1>3, <1>4 DEF Concedido

\* A step that changes neither the grants nor how far the runs are.
LEMMA ConcedidoFica ==
  ASSUME Concedido, concede' = concede, serial' = serial,
         \A q \in Execucoes, i \in 1 .. Len(Plano) : Passou(q, i)' => Passou(q, i),
         \A q \in Execucoes, r \in Perfis : ParadaEm(q, r) => ParadaEm(q, r)',
         \A q \in Execucoes : UltimaDe(q)' => UltimaDe(q)
  PROVE  Concedido'
<1>1. \A i \in 1 .. Len(Plano) : Plano[i].faz = "conceder" => Plano[i].de \in Perfis
      BY TarefaDoPlano
<1>2. QED
      BY <1>1 DEF Concedido

\* The deletion of a role's grants.
LEMMA ConcedidoLimpo ==
  ASSUME TypeOK, Sementes, Concedido, NEW s \in Execucoes, LimparConcessoes(s)
  PROVE  Concedido'
<1> PICK k : k = semente[s].em
    OBVIOUS
<1> PICK r : r = Plano[k].de
    OBVIOUS
<1>1. /\ semente[s].estado = "corre" /\ Plano[k].faz = "limpar" /\ k \in 1 .. Len(Plano)
      /\ Seguir(s) /\ serial' = serial
      BY DEF LimparConcessoes, A, TypeOK
<1>2. /\ r \in Perfis /\ k + 1 <= Len(Plano) /\ Plano[k + 1] = [faz |-> "conceder", de |-> r]
      /\ k < Len(Plano)
  <2>1. r \in Perfis /\ k + 1 <= Len(Plano) /\ Plano[k + 1] = [faz |-> "conceder", de |-> r]
        BY <1>1, TarefaDoPlano, PlanoDaSemente DEF Parelhas
  <2>2. QED
        BY <1>1, <2>1, PlanoDaSemente
<1>3. concede'[r] = {} /\ \A x \in Perfis \ {r} : concede'[x] = concede[x]
      BY <1>1, <1>2 DEF LimparConcessoes, De, TypeOK
<1>4. semente'[s].estado = "corre" /\ semente'[s].em = k + 1
      BY <1>1, <1>2, SeguirFactos
<1>5. ParadaEm(s, r)'
      BY <1>2, <1>4 DEF ParadaEm
<1>6. \A q \in Execucoes, x \in Perfis : ParadaEm(q, x) => ParadaEm(q, x)'
  <2> SUFFICES ASSUME NEW q \in Execucoes, NEW x \in Perfis, ParadaEm(q, x)
               PROVE  ParadaEm(q, x)'
      OBVIOUS
  <2>1. q # s
        BY <1>1 DEF ParadaEm
  <2>2. QED
        BY <1>1, <2>1, SeguirFactos DEF ParadaEm
<1>7. ASSUME NEW q \in Execucoes, UltimaDe(q)'
      PROVE  UltimaDe(q) /\ (serial => q = s \/ semente[q].estado = "nova")
  <2>1. \A p \in Execucoes \ {s} : semente'[p] = semente[p]
        BY <1>1, SeguirFactos
  <2>2. ~(s > q)
        BY <1>4, <1>7 DEF UltimaDe
  <2>3. UltimaDe(q)
        BY <1>7, <2>1, <2>2 DEF UltimaDe
  <2>4. serial /\ s < q => semente[q].estado = "nova"
        BY <1>1 DEF Sementes
  <2>5. s \in Nat /\ q \in Nat
        BY ExecucoesAssumption
  <2>6. QED
        BY <2>2, <2>3, <2>4, <2>5
<1>8. ASSUME NEW q \in Execucoes, NEW i \in 1 .. Len(Plano), Passou(q, i)'
      PROVE  Passou(q, i) \/ (q = s /\ i = k)
  <2>1. CASE q = s
        BY <1>1, <1>8, <2>1, SeguirFactos
  <2>2. CASE q # s
        BY <1>1, <1>8, <2>2, SeguirFactos DEF Passou, Feita
  <2>3. QED
        BY <2>1, <2>2
<1>9. ASSUME NEW q \in Execucoes, NEW i \in 1 .. Len(Plano), Passou(q, i)',
             Plano[i].faz = "limpar"
      PROVE  concede'[Plano[i].de] = {} \/ concede'[Plano[i].de] = Declaradas[Plano[i].de]
  <2>1. CASE Plano[i].de = r
        BY <1>3, <2>1
  <2>2. CASE Plano[i].de # r
    <3>1. Passou(q, i) /\ Plano[i].de \in Perfis
          BY <1>8, <1>9, <2>2, TarefaDoPlano
    <3>2. QED
          BY <1>3, <1>9, <2>2, <3>1 DEF Concedido
  <2>3. QED
        BY <2>1, <2>2
<1>10. ASSUME NEW q \in Execucoes, NEW i \in 1 .. Len(Plano), Passou(q, i)',
              Plano[i].faz = "conceder"
       PROVE  /\ \/ concede'[Plano[i].de] = Declaradas[Plano[i].de]
                 \/ \E p \in Execucoes : ParadaEm(p, Plano[i].de)'
              /\ serial /\ UltimaDe(q)' => \/ concede'[Plano[i].de] = Declaradas[Plano[i].de]
                                           \/ ParadaEm(q, Plano[i].de)'
  <2>1. Passou(q, i) /\ Plano[i].de \in Perfis
        BY <1>1, <1>8, <1>10, TarefaDoPlano
  <2>2. CASE Plano[i].de = r
    <3>1. semente[q].estado # "nova"
          BY <2>1 DEF Sementes, Passou, Feita
    <3>2. QED
          BY <1>5, <1>7, <2>2, <3>1
  <2>3. CASE Plano[i].de # r
    <3>1. concede'[Plano[i].de] = concede[Plano[i].de]
          BY <1>3, <2>1, <2>3
    <3>2. QED
          BY <1>6, <1>7, <1>10, <2>1, <3>1 DEF Concedido
  <2>4. QED
        BY <2>2, <2>3
<1>11. QED
       BY <1>1, <1>9, <1>10 DEF Concedido

\* The grants of a role are written, or another run has written them.
LEMMA ConcedidoConcede ==
  ASSUME TypeOK, Sementes, Concedido, NEW s \in Execucoes, Conceder(s)
  PROVE  Concedido'
<1> PICK k : k = semente[s].em
    OBVIOUS
<1> PICK r : r = Plano[k].de
    OBVIOUS
<1>1. /\ semente[s].estado = "corre" /\ Plano[k].faz = "conceder" /\ k \in 1 .. Len(Plano)
      /\ serial' = serial
      BY DEF Conceder, A, TypeOK
<1>2. /\ r \in Perfis /\ k > 1 /\ Plano[k - 1] = [faz |-> "limpar", de |-> r]
      /\ k - 1 \in 1 .. Len(Plano)
  <2>1. r \in Perfis /\ k > 1 /\ Plano[k - 1] = [faz |-> "limpar", de |-> r]
        BY <1>1, TarefaDoPlano, PlanoDaSemente DEF Parelhas
  <2>2. QED
        BY <1>1, <2>1, PlanoDaSemente
<1>3. concede[r] = {} \/ concede[r] = Declaradas[r]
  <2>1. Passou(s, k - 1)
        BY <1>1, <1>2, PlanoDaSemente DEF Passou
  <2>2. QED
        BY <1>2, <2>1 DEF Concedido
<1>4. CASE concede[r] \cap Declaradas[r] # {}
  <2>1. /\ semente' = [semente EXCEPT ![s].estado = "morta"] /\ concede' = concede
        BY <1>4 DEF Conceder, De
  <2>2. /\ semente'[s].estado = "morta" /\ semente'[s].em = k
        /\ \A q \in Execucoes \ {s} : semente'[q] = semente[q]
        BY <2>1 DEF TypeOK
  <2>3. \A q \in Execucoes, i \in 1 .. Len(Plano) : Passou(q, i)' => Passou(q, i)
        BY <1>1, <2>2 DEF Passou, Feita
  <2>4. \A q \in Execucoes, x \in Perfis : ParadaEm(q, x) => ParadaEm(q, x)'
        BY <2>2 DEF ParadaEm
  <2>5. \A q \in Execucoes : UltimaDe(q)' => UltimaDe(q)
    <3> SUFFICES ASSUME NEW q \in Execucoes, UltimaDe(q)', NEW p \in Execucoes, p > q
                 PROVE  semente[p].estado = "nova"
        BY DEF UltimaDe
    <3>1. semente'[p].estado = "nova"
          BY DEF UltimaDe
    <3>2. QED
          BY <2>2, <3>1
  <2>6. QED
        BY <1>1, <2>1, <2>3, <2>4, <2>5, ConcedidoFica
<1>5. CASE concede[r] \cap Declaradas[r] = {}
  <2>1. /\ concede' = [concede EXCEPT ![r] = @ \cup Declaradas[r]] /\ Seguir(s)
        BY <1>5 DEF Conceder, De
  <2>2. concede'[r] = Declaradas[r] /\ \A x \in Perfis \ {r} : concede'[x] = concede[x]
        BY <1>2, <1>3, <2>1 DEF TypeOK
  <2>3. \A q \in Execucoes, x \in Perfis \ {r} : ParadaEm(q, x) => ParadaEm(q, x)'
    <3> SUFFICES ASSUME NEW q \in Execucoes, NEW x \in Perfis \ {r}, ParadaEm(q, x)
                 PROVE  ParadaEm(q, x)'
        OBVIOUS
    <3>1. q # s
          BY <1>1 DEF ParadaEm
    <3>2. QED
          BY <1>1, <2>1, <3>1, SeguirFactos DEF ParadaEm
  <2>4. \A q \in Execucoes : UltimaDe(q)' => UltimaDe(q)
    <3> SUFFICES ASSUME NEW q \in Execucoes, UltimaDe(q)', NEW p \in Execucoes, p > q
                 PROVE  semente[p].estado = "nova"
        BY DEF UltimaDe
    <3>1. semente'[p].estado = "nova"
          BY DEF UltimaDe
    <3>2. QED
          BY <1>1, <2>1, <3>1, SeguirFactos
  <2>5. ASSUME NEW q \in Execucoes, NEW i \in 1 .. Len(Plano), Passou(q, i)'
        PROVE  Passou(q, i) \/ (q = s /\ i = k)
    <3>1. CASE q = s
          BY <1>1, <2>1, <2>5, <3>1, SeguirFactos
    <3>2. CASE q # s
          BY <1>1, <2>1, <2>5, <3>2, SeguirFactos DEF Passou, Feita
    <3>3. QED
          BY <3>1, <3>2
  <2>6. ASSUME NEW q \in Execucoes, NEW i \in 1 .. Len(Plano), Passou(q, i)',
               Plano[i].faz = "limpar"
        PROVE  concede'[Plano[i].de] = {} \/ concede'[Plano[i].de] = Declaradas[Plano[i].de]
    <3>1. Passou(q, i) /\ Plano[i].de \in Perfis
          BY <1>1, <2>5, <2>6, TarefaDoPlano
    <3>2. QED
          BY <2>2, <2>6, <3>1 DEF Concedido
  <2>7. ASSUME NEW q \in Execucoes, NEW i \in 1 .. Len(Plano), Passou(q, i)',
               Plano[i].faz = "conceder"
        PROVE  /\ \/ concede'[Plano[i].de] = Declaradas[Plano[i].de]
                  \/ \E p \in Execucoes : ParadaEm(p, Plano[i].de)'
               /\ serial /\ UltimaDe(q)' => \/ concede'[Plano[i].de] = Declaradas[Plano[i].de]
                                            \/ ParadaEm(q, Plano[i].de)'
    <3>1. CASE Plano[i].de = r
          BY <2>2, <3>1
    <3>2. CASE Plano[i].de # r
      <4>1. Passou(q, i) /\ Plano[i].de \in Perfis \ {r}
            BY <2>5, <2>7, <3>2, TarefaDoPlano
      <4>2. concede'[Plano[i].de] = concede[Plano[i].de]
            BY <2>2, <4>1
      <4>3. QED
            BY <2>3, <2>4, <2>7, <4>1, <4>2 DEF Concedido
    <3>3. QED
          BY <3>1, <3>2
  <2>8. QED
        BY <1>1, <2>6, <2>7 DEF Concedido
<1>6. QED
      BY <1>4, <1>5
-----------------------------------------------------------------------------
\* Whatever the first run finds satisfies the invariant.
LEMMA InitIInv == Init => IInv
<1> SUFFICES ASSUME Init PROVE IInv
    OBVIOUS
<1>1. /\ semente = [s \in Execucoes |-> [estado |-> "nova", em |-> 1]]
      /\ acesso = [l \in Acessos |->
           [passo |-> "novo", user |-> Nenhum, perfis |-> {}, conhecidos |-> {}, claims |-> {},
            seguro |-> FALSE, actual |-> FALSE]]
      /\ serial \in BOOLEAN
      BY DEF Init
<1>2. 1 \in 1 .. Len(Plano)
      BY PlanoDaSemente
<1>3. /\ antes \in Anteriores /\ papeis = antes.papeis
      /\ permissoes = antes.permissoes /\ tipos = antes.tipos
      /\ mae = antes.mae /\ concede = antes.concede /\ papeisDe = antes.papeisDe
      BY DEF Init
<1>4. /\ antes.papeis \subseteq Perfis
      /\ antes.mae \in [Perfis -> antes.papeis \cup {Nenhum}]
      /\ \A r \in Perfis \ antes.papeis : antes.mae[r] = Nenhum
      /\ antes.concede \in [Perfis -> SUBSET Concediveis]
      /\ antes.papeisDe \in [Pessoas -> (SUBSET antes.papeis) \cup {Nenhum}]
      BY <1>3, SemLinhaSemMae
<1>5. Herdado
  <2>1. \A r \in Perfis : mae[r] = IF r \in papeis THEN MaeDevida[r] ELSE Nenhum
        BY <1>3, <1>4 DEF MaeDevida
  <2>2. QED
        BY <1>3, <2>1 DEF Herdado
<1>6. semente \in [Execucoes -> [estado : {"nova", "corre", "feita", "morta"},
                                em : 1 .. Len(Plano)]]
      BY <1>1, <1>2
<1>7. acesso \in [Acessos ->
         [passo : {"novo", "papeis", "permissoes", "emitido", "expirado", "recusado"},
          user : Pessoas \cup {Nenhum}, perfis : SUBSET Perfis, conhecidos : SUBSET Perfis,
          claims : SUBSET Concediveis, seguro : BOOLEAN, actual : BOOLEAN]]
      BY <1>1
<1>8. TypeOK
  <2>1. papeisDe \in [Pessoas -> (SUBSET Perfis) \cup {Nenhum}]
    <3>1. (SUBSET antes.papeis) \cup {Nenhum} \subseteq (SUBSET Perfis) \cup {Nenhum}
          BY <1>4
    <3>2. QED
          BY <1>3, <1>4, <3>1
  <2>2. mae \in [Perfis -> papeis \cup {Nenhum}] /\ concede \in [Perfis -> SUBSET Concediveis]
        BY <1>3, <1>4
  <2>3. /\ papeis \subseteq Perfis
        /\ permissoes \subseteq antes.permissoes \cup ConjuntoDe(Permissoes)
        /\ tipos \subseteq antes.tipos \cup ConjuntoDe(Tipos)
        BY <1>3, <1>4
  <2>4. QED
        BY <1>1, <1>3, <1>6, <1>7, <2>1, <2>2, <2>3 DEF TypeOK
<1>9. \A s \in Execucoes : \A i \in 1 .. Len(Plano) : ~Passou(s, i)
      BY <1>1, PlanoDaSemente DEF Passou, Feita
<1>10. Sementes /\ Criado /\ Atribuido /\ Concedido
       BY <1>1, <1>9 DEF Sementes, Criado, Atribuido, Concedido
<1>11. Leituras
       BY <1>1 DEF Leituras, Lendo
<1>12. QED
       BY <1>5, <1>8, <1>10, <1>11 DEF IInv

\* A new run, and a run that dies.
LEMMA ComecarMorrerIInv ==
  ASSUME IInv, NEW s \in Execucoes, ComecarSemente(s) \/ Morrer(s)
  PROVE  IInv'
<1>1. /\ UNCHANGED <<papeis, permissoes, tipos, mae, concede, papeisDe, acesso, antes, serial>>
      /\ \/ semente' = [semente EXCEPT ![s].estado = "corre"] /\ semente[s].estado = "nova"
            /\ (serial => Quieto) /\ \A q \in Execucoes : q < s => semente[q].estado # "nova"
         \/ semente' = [semente EXCEPT ![s].estado = "morta"] /\ semente[s].estado = "corre"
      BY DEF ComecarSemente, Morrer, tabelas
<1>2. semente \in [Execucoes -> [estado : {"nova", "corre", "feita", "morta"},
                                em : 1 .. Len(Plano)]]
      BY DEF IInv, TypeOK
<1>3. /\ \A q \in Execucoes \ {s} : semente'[q] = semente[q]
      /\ semente'[s].em = semente[s].em
      /\ \/ semente'[s].estado = "corre" /\ semente[s].estado = "nova"
         \/ semente'[s].estado = "morta" /\ semente[s].estado = "corre"
      BY <1>1, <1>2
<1>4. TypeOK'
  <2>1. semente' \in [Execucoes -> [estado : {"nova", "corre", "feita", "morta"},
                                    em : 1 .. Len(Plano)]]
    <3>1. semente[s] \in [estado : {"nova", "corre", "feita", "morta"}, em : 1 .. Len(Plano)]
          BY <1>2
    <3>2. /\ [semente[s] EXCEPT !.estado = "corre"]
               \in [estado : {"nova", "corre", "feita", "morta"}, em : 1 .. Len(Plano)]
          /\ [semente[s] EXCEPT !.estado = "morta"]
               \in [estado : {"nova", "corre", "feita", "morta"}, em : 1 .. Len(Plano)]
          BY <3>1
    <3>3. QED
          BY <1>1, <1>2, <3>2
  <2>2. QED
        BY <1>1, <2>1 DEF IInv, TypeOK
<1>5. Sementes'
  <2>1. CASE semente[s].estado = "corre"
        BY <1>1, <1>3, <2>1, SementesPasso DEF IInv
  <2>2. CASE semente[s].estado = "nova"
    <3>1. /\ \A q \in Execucoes : q < s => semente[q].estado # "nova"
          /\ serial => Quieto
          /\ semente'[s].estado = "corre"
          BY <1>1, <1>3, <2>2
    <3>2. s \in Nat /\ \A q \in Execucoes : q \in Nat
          BY ExecucoesAssumption
    <3>3. QED
          BY <1>1, <1>3, <2>2, <3>1, <3>2 DEF IInv, Sementes, Quieto, Lendo
  <2>3. QED
        BY <1>3, <2>1, <2>2
<1>6. \A q \in Execucoes, i \in 1 .. Len(Plano) : Passou(q, i)' => Passou(q, i)
      BY <1>3 DEF Passou, Feita
<1>7. \A q \in Execucoes, x \in Perfis : ParadaEm(q, x) => ParadaEm(q, x)'
      BY <1>3 DEF ParadaEm
<1>8. \A q \in Execucoes : UltimaDe(q)' => UltimaDe(q)
  <2> SUFFICES ASSUME NEW q \in Execucoes, UltimaDe(q)', NEW p \in Execucoes, p > q
               PROVE  semente[p].estado = "nova"
      BY DEF UltimaDe
  <2>1. semente'[p].estado = "nova"
        BY DEF UltimaDe
  <2>2. QED
        BY <1>3, <2>1
<1>9. Criado' /\ Herdado' /\ Atribuido'
  <2>1. Criado'
        BY <1>1, <1>6 DEF IInv, Criado
  <2>2. /\ \A u : PapeisDevidos(u)' = PapeisDevidos(u)
        /\ MaeDevida' = MaeDevida
        BY <1>1, DevidasFixas
  <2>3. Herdado' /\ Atribuido'
        BY <1>1, <1>6, <2>2 DEF IInv, Herdado, Atribuido
  <2>4. QED
        BY <2>1, <2>3
<1>10. Concedido'
       BY <1>1, <1>6, <1>7, <1>8, ConcedidoFica DEF IInv
<1>11. Leituras'
  <2>1. \A q \in Execucoes : Feita(q) => Feita(q)'
        BY <1>3 DEF Feita
  <2>2. semente[s].estado = "corre" \/ (serial => Quieto)
        BY <1>1
  <2>3. QED
        BY <1>1, <2>1, <2>2, LeiturasFicam DEF IInv
<1>12. QED
       BY <1>4, <1>5, <1>9, <1>10, <1>11 DEF IInv

\* The role of a user the seed knows, after its upsert and after its role's.
LEMMA PapelAtribuido ==
  ASSUME IInv, NEW s \in Execucoes, semente[s].estado = "corre",
         NEW k, k = semente[s].em, NEW u, u = Plano[k].de,
         \/ CriarUser(s) /\ Plano[k].faz = "user"
         \/ AtribuirPapel(s) /\ Plano[k].faz = "atribuir"
  PROVE  /\ u \in Utilizadores /\ u \in Pessoas /\ PapeisDevidos(u) \in SUBSET Perfis
         /\ papeisDe'[u] \in {antes.papeisDe[u], PapeisDevidos(u)} /\ papeisDe'[u] # Nenhum
         /\ papeisDe'[u] \in SUBSET Perfis
         /\ papeisDe' = [papeisDe EXCEPT ![u] = papeisDe'[u]]
         /\ Plano[k].faz = "atribuir" => papeisDe'[u] = PapeisDevidos(u)
         /\ papeisDe[u] = PapeisDevidos(u) => papeisDe'[u] = PapeisDevidos(u)
<1>1. k \in 1 .. Len(Plano) /\ papeisDe \in [Pessoas -> (SUBSET Perfis) \cup {Nenhum}]
      BY DEF IInv, TypeOK
<1>2. u \in Utilizadores /\ u \in Pessoas
      BY <1>1, TarefaDoPlano
<1>3. PapelDe[u] \in Perfis
      BY <1>2, ConcessoesAssumption, SequenciasAssumption
<1>4. antes.papeisDe[u] \in (SUBSET Perfis) \cup {Nenhum}
  <2>1. antes \in Anteriores
        BY DEF IInv, TypeOK
  <2>2. /\ antes.papeis \subseteq Perfis
        /\ antes.papeisDe[u] \in (SUBSET antes.papeis) \cup {Nenhum}
        BY <1>2, <2>1, SemLinhaSemMae
  <2>3. QED
        BY <2>2
<1>5. PapeisDevidos(u) =
        {PapelDe[u]} \cup (IF antes.papeisDe[u] = Nenhum THEN {} ELSE antes.papeisDe[u])
      BY <1>2 DEF PapeisDevidos
<1>6. PapeisDevidos(u) \in SUBSET Perfis /\ PapeisDevidos(u) # Nenhum
  <2>1. PapeisDevidos(u) \in SUBSET Perfis
        BY <1>3, <1>4, <1>5
  <2>2. QED
        BY <2>1, NenhumAssumption
<1>7. papeisDe[u] \in {antes.papeisDe[u], PapeisDevidos(u)}
      BY <1>2 DEF IInv, Herdado
<1>8. CASE CriarUser(s) /\ Plano[k].faz = "user"
  <2>1. papeisDe' = [papeisDe EXCEPT ![u] =
                       IF papeisDe[u] = Nenhum THEN {PapelDe[u]} ELSE papeisDe[u]]
        BY <1>8 DEF CriarUser, De
  <2>2. papeisDe'[u] = IF papeisDe[u] = Nenhum THEN {PapelDe[u]} ELSE papeisDe[u]
        BY <1>1, <1>2, <2>1
  <2>3. papeisDe[u] = Nenhum => PapeisDevidos(u) = {PapelDe[u]}
        BY <1>5, <1>6, <1>7
  <2>4. papeisDe'[u] \in {antes.papeisDe[u], PapeisDevidos(u)} /\ papeisDe'[u] # Nenhum
        BY <1>6, <1>7, <2>2, <2>3
  <2>5. papeisDe'[u] \in SUBSET Perfis
        BY <1>4, <1>6, <2>4
  <2>6. papeisDe' = [papeisDe EXCEPT ![u] = papeisDe'[u]]
        BY <2>1, <2>2
  <2>7. papeisDe[u] = PapeisDevidos(u) => papeisDe'[u] = PapeisDevidos(u)
        BY <1>6, <2>2
  <2>8. QED
        BY <1>2, <1>6, <1>8, <2>4, <2>5, <2>6, <2>7
<1>9. CASE AtribuirPapel(s) /\ Plano[k].faz = "atribuir"
  <2>1. papeisDe' = [papeisDe EXCEPT ![u] = papeisDe[u] \cup {PapelDe[u]}]
        BY <1>9 DEF AtribuirPapel, De
  <2>2. papeisDe[u] # Nenhum
    <3>1. k > 1 /\ Plano[k - 1] = [faz |-> "user", de |-> u]
          BY <1>1, <1>9, PlanoDaSemente DEF Parelhas
    <3>2. k - 1 \in 1 .. Len(Plano) /\ k - 1 < k
          BY <1>1, <3>1, PlanoDaSemente
    <3>3. Passou(s, k - 1)
          BY <3>2 DEF Passou
    <3>4. QED
          BY <3>1, <3>2, <3>3 DEF IInv, Criado
  <2>3. papeisDe'[u] = papeisDe[u] \cup {PapelDe[u]}
        BY <1>1, <1>2, <2>1
  <2>4. papeisDe'[u] = PapeisDevidos(u)
        BY <1>5, <1>7, <2>2, <2>3
  <2>5. papeisDe' = [papeisDe EXCEPT ![u] = papeisDe'[u]]
        BY <2>1, <2>3
  <2>6. QED
        BY <1>2, <1>6, <2>4, <2>5
<1>10. QED
       BY <1>8, <1>9

\* The statements that create rows, and those that give a role to a user.
LEMMA CriarIInv ==
  ASSUME IInv, NEW s \in Execucoes,
         CriarPapel(s) \/ CriarPermissao(s) \/ CriarTipo(s) \/ CriarUser(s) \/ AtribuirPapel(s)
  PROVE  IInv'
<1> DEFINE k == semente[s].em
           d == Plano[semente[s].em].de
<1>1. /\ semente[s].estado = "corre" /\ Seguir(s) /\ k \in 1 .. Len(Plano)
      /\ concede' = concede /\ acesso' = acesso /\ antes' = antes /\ serial' = serial
      /\ Plano[k].faz \in {"papel", "permissao", "tipo", "user", "atribuir"}
      BY DEF CriarPapel, CriarPermissao, CriarTipo, CriarUser, AtribuirPapel, A, IInv, TypeOK
<1>2. \/ /\ Plano[k].faz = "papel" /\ papeis' = papeis \cup {d}
         /\ d \in papeis \/ Mae[d] \in papeis \cup {Nenhum}
         /\ mae' = IF d \in papeis THEN mae ELSE [mae EXCEPT ![d] = Mae[d]]
         /\ UNCHANGED <<permissoes, tipos, papeisDe>>
      \/ /\ Plano[k].faz = "permissao" /\ permissoes' = permissoes \cup {d}
         /\ UNCHANGED <<papeis, tipos, mae, papeisDe>>
      \/ /\ Plano[k].faz = "tipo" /\ tipos' = tipos \cup {d}
         /\ UNCHANGED <<papeis, permissoes, mae, papeisDe>>
      \/ /\ Plano[k].faz = "user" /\ CriarUser(s)
         /\ UNCHANGED <<papeis, permissoes, tipos, mae>>
      \/ /\ Plano[k].faz = "atribuir" /\ AtribuirPapel(s)
         /\ UNCHANGED <<papeis, permissoes, tipos, mae>>
      BY DEF CriarPapel, CriarPermissao, CriarTipo, CriarUser, AtribuirPapel, A, De
<1>3. /\ Plano[k].faz = "papel" => d \in Semeados /\ d \in Perfis
      /\ Plano[k].faz = "permissao" => d \in ConjuntoDe(Permissoes)
      /\ Plano[k].faz = "tipo" => d \in ConjuntoDe(Tipos)
      BY <1>1, TarefaDoPlano
<1>4. \/ papeisDe' = papeisDe /\ Plano[k].faz \notin {"user", "atribuir"}
      \/ /\ Plano[k].faz \in {"user", "atribuir"} /\ d \in Pessoas
         /\ papeisDe' = [papeisDe EXCEPT ![d] = papeisDe'[d]]
         /\ papeisDe'[d] \in {antes.papeisDe[d], PapeisDevidos(d)}
         /\ papeisDe'[d] # Nenhum /\ papeisDe'[d] \in SUBSET Perfis
         /\ Plano[k].faz = "atribuir" => papeisDe'[d] = PapeisDevidos(d)
         /\ papeisDe[d] = PapeisDevidos(d) => papeisDe'[d] = PapeisDevidos(d)
  <2>1. CASE Plano[k].faz = "user" /\ CriarUser(s)
        BY <1>1, <2>1, PapelAtribuido
  <2>2. CASE Plano[k].faz = "atribuir" /\ AtribuirPapel(s)
        BY <1>1, <2>2, PapelAtribuido
  <2>3. CASE Plano[k].faz \notin {"user", "atribuir"}
        BY <1>2, <2>3
  <2>4. QED
        BY <1>2, <2>1, <2>2, <2>3
<1> HIDE DEF d, k
<1>5. /\ papeisDe \in [Pessoas -> (SUBSET Perfis) \cup {Nenhum}]
      /\ mae \in [Perfis -> papeis \cup {Nenhum}]
      /\ papeis \subseteq Perfis /\ permissoes \subseteq antes.permissoes \cup ConjuntoDe(Permissoes)
      /\ tipos \subseteq antes.tipos \cup ConjuntoDe(Tipos)
      BY DEF IInv, TypeOK
<1>6. /\ papeisDe' \in [Pessoas -> (SUBSET Perfis) \cup {Nenhum}]
      /\ \A u \in Pessoas : papeisDe[u] # Nenhum => papeisDe'[u] # Nenhum
      /\ \A u \in Pessoas : papeisDe[u] = PapeisDevidos(u) => papeisDe'[u] = PapeisDevidos(u)
      /\ \A u \in Pessoas : papeisDe'[u] \in {antes.papeisDe[u], PapeisDevidos(u)}
      /\ Plano[k].faz \in {"user", "atribuir"} => papeisDe'[d] # Nenhum
      /\ Plano[k].faz = "atribuir" => papeisDe'[d] = PapeisDevidos(d)
  <2>0. \A u \in Pessoas : papeisDe[u] \in {antes.papeisDe[u], PapeisDevidos(u)}
        BY DEF IInv, Herdado
  <2>1. CASE papeisDe' = papeisDe /\ Plano[k].faz \notin {"user", "atribuir"}
        BY <1>5, <2>0, <2>1
  <2>2. CASE papeisDe' # papeisDe \/ Plano[k].faz \in {"user", "atribuir"}
    <3> PICK v : v = papeisDe'[d]
        OBVIOUS
    <3>1. /\ d \in Pessoas /\ papeisDe' = [papeisDe EXCEPT ![d] = v]
          /\ v \in {antes.papeisDe[d], PapeisDevidos(d)} /\ v # Nenhum /\ v \in SUBSET Perfis
          /\ Plano[k].faz = "atribuir" => v = PapeisDevidos(d)
          /\ papeisDe[d] = PapeisDevidos(d) => v = PapeisDevidos(d)
          BY <1>4, <2>2
    <3>2. papeisDe' \in [Pessoas -> (SUBSET Perfis) \cup {Nenhum}]
          BY <1>5, <3>1
    <3>3. papeisDe'[d] = v /\ \A u \in Pessoas \ {d} : papeisDe'[u] = papeisDe[u]
          BY <1>5, <3>1
    <3>4. QED
          BY <2>0, <3>1, <3>2, <3>3
  <2>3. QED
        BY <2>1, <2>2
<1>7. /\ papeis \subseteq papeis' /\ permissoes \subseteq permissoes' /\ tipos \subseteq tipos'
      /\ papeis' \subseteq Perfis
      /\ permissoes' \subseteq antes.permissoes \cup ConjuntoDe(Permissoes)
      /\ tipos' \subseteq antes.tipos \cup ConjuntoDe(Tipos)
      /\ papeis' \subseteq papeis \cup Semeados
      /\ Plano[k].faz = "papel" => d \in papeis'
      /\ Plano[k].faz = "permissao" => d \in permissoes'
      /\ Plano[k].faz = "tipo" => d \in tipos'
  <2>1. CASE Plano[k].faz = "papel"
        BY <1>2, <1>3, <1>5, <2>1
  <2>2. CASE Plano[k].faz = "permissao"
        BY <1>2, <1>3, <1>5, <2>2
  <2>3. CASE Plano[k].faz = "tipo"
        BY <1>2, <1>3, <1>5, <2>3
  <2>4. CASE Plano[k].faz \notin {"papel", "permissao", "tipo"}
        BY <1>2, <1>5, <2>4
  <2>5. QED
        BY <2>1, <2>2, <2>3, <2>4
<1>8. \/ mae' = mae /\ papeis' = papeis
      \/ /\ d \in Semeados \ papeis /\ d \in Perfis /\ papeis' = papeis \cup {d}
         /\ Mae[d] \in papeis \cup {Nenhum} /\ mae' = [mae EXCEPT ![d] = Mae[d]]
  <2>1. CASE Plano[k].faz = "papel"
    <3>1. CASE d \in papeis
          BY <1>2, <2>1, <3>1
    <3>2. CASE d \notin papeis
          BY <1>2, <1>3, <2>1, <3>2
    <3>3. QED
          BY <3>1, <3>2
  <2>2. CASE Plano[k].faz # "papel"
        BY <1>2, <2>2
  <2>3. QED
        BY <2>1, <2>2
<1>9. /\ mae' \in [Perfis -> papeis' \cup {Nenhum}]
      /\ \A r \in Perfis : mae'[r] = IF r \in papeis' THEN MaeDevida[r] ELSE Nenhum
  <2>1. /\ \A r \in Perfis : mae[r] = IF r \in papeis THEN MaeDevida[r] ELSE Nenhum
        /\ antes.papeis \subseteq papeis
        BY DEF IInv, Herdado
  <2>2. CASE mae' = mae /\ papeis' = papeis
        BY <1>5, <2>1, <2>2
  <2>3. CASE /\ d \in Semeados \ papeis /\ d \in Perfis /\ papeis' = papeis \cup {d}
             /\ Mae[d] \in papeis \cup {Nenhum} /\ mae' = [mae EXCEPT ![d] = Mae[d]]
    <3>1. mae' \in [Perfis -> papeis' \cup {Nenhum}]
          BY <1>5, <2>3
    <3>2. MaeDevida[d] = Mae[d]
          BY <2>1, <2>3 DEF MaeDevida
    <3>3. mae'[d] = Mae[d] /\ \A r \in Perfis \ {d} : mae'[r] = mae[r]
          BY <1>5, <2>3
    <3>4. QED
          BY <2>1, <2>3, <3>1, <3>2, <3>3
  <2>4. QED
        BY <1>8, <2>2, <2>3
<1>10. /\ \A u : PapeisDevidos(u)' = PapeisDevidos(u)
       /\ MaeDevida' = MaeDevida
       BY <1>1, DevidasFixas
<1>11. Herdado'
  <2>1. /\ antes.papeis \subseteq papeis' /\ papeis' \subseteq antes.papeis \cup Semeados
        /\ antes.permissoes \subseteq permissoes' /\ antes.tipos \subseteq tipos'
        /\ \A r \in Perfis \ Semeados : concede[r] = antes.concede[r]
        BY <1>7 DEF IInv, Herdado
  <2>2. QED
        BY <1>1, <1>6, <1>9, <1>10, <2>1 DEF Herdado
<1> USE DEF d, k
<1>12. Atribuido'
  <2> SUFFICES ASSUME NEW q \in Execucoes, NEW i \in 1 .. Len(Plano), Passou(q, i)',
                      Plano[i].faz = "atribuir"
               PROVE  papeisDe'[Plano[i].de] = PapeisDevidos(Plano[i].de)
      BY <1>10 DEF Atribuido
  <2>1. Passou(q, i) \/ (q = s /\ i = semente[s].em)
    <3>1. CASE q = s
          BY <1>1, <3>1, SeguirFactos DEF IInv
    <3>2. CASE q # s
          BY <1>1, <3>2, SeguirFactos DEF IInv, Passou, Feita
    <3>3. QED
          BY <3>1, <3>2
  <2>2. CASE Passou(q, i)
    <3>1. Plano[i].de \in Pessoas /\ papeisDe[Plano[i].de] = PapeisDevidos(Plano[i].de)
          BY <2>2, TarefaDoPlano DEF IInv, Atribuido
    <3>2. QED
          BY <1>6, <3>1
  <2>3. CASE q = s /\ i = semente[s].em
        BY <1>6, <2>3
  <2>4. QED
        BY <2>1, <2>2, <2>3
<1>13. TypeOK'
  <2>1. semente' \in [Execucoes -> [estado : {"nova", "corre", "feita", "morta"},
                                    em : 1 .. Len(Plano)]]
        BY <1>1, SeguirFactos DEF IInv
  <2>2. /\ antes \in Anteriores /\ concede \in [Perfis -> SUBSET Concediveis]
        /\ serial \in BOOLEAN
        /\ acesso \in [Acessos ->
             [passo : {"novo", "papeis", "permissoes", "emitido", "expirado", "recusado"},
              user : Pessoas \cup {Nenhum}, perfis : SUBSET Perfis, conhecidos : SUBSET Perfis,
              claims : SUBSET Concediveis, seguro : BOOLEAN, actual : BOOLEAN]]
        BY DEF IInv, TypeOK
  <2>3. QED
        BY <1>1, <1>6, <1>7, <1>9, <2>1, <2>2 DEF TypeOK
<1>14. Sementes'
       BY <1>1, SeguirFactos, SementesPasso DEF IInv
<1>15. Criado'
       BY <1>1, <1>6, <1>7, CriadoPasso DEF IInv
<1>16. Concedido'
       BY <1>1, ConcedidoSegue DEF IInv
<1>17. Leituras'
       BY <1>1, SeguirFactos, LeiturasFicam DEF IInv
<1>18. QED
       BY <1>11, <1>12, <1>13, <1>14, <1>15, <1>16, <1>17 DEF IInv

\* The statements that take and give grants.
LEMMA ConcessoesIInv ==
  ASSUME IInv, NEW s \in Execucoes, LimparConcessoes(s) \/ Conceder(s)
  PROVE  IInv'
<1> DEFINE k == semente[s].em
           r == Plano[semente[s].em].de
<1>1. /\ semente[s].estado = "corre" /\ k \in 1 .. Len(Plano)
      /\ UNCHANGED <<papeis, permissoes, tipos, mae, papeisDe, acesso, antes, serial>>
      /\ Plano[k].faz \in {"limpar", "conceder"} /\ r \in Semeados /\ r \in Perfis
  <2>1. semente[s].estado = "corre" /\ Plano[k].faz \in {"limpar", "conceder"}
        BY DEF LimparConcessoes, Conceder, A
  <2>2. k \in 1 .. Len(Plano)
        BY DEF IInv, TypeOK
  <2>3. QED
        BY <2>1, <2>2, TarefaDoPlano DEF LimparConcessoes, Conceder
<1>2. \/ Seguir(s)
      \/ semente' = [semente EXCEPT ![s].estado = "morta"]
      BY DEF LimparConcessoes, Conceder
<1>3. /\ semente' \in [Execucoes -> [estado : {"nova", "corre", "feita", "morta"},
                                     em : 1 .. Len(Plano)]]
      /\ \A q \in Execucoes \ {s} : semente'[q] = semente[q]
      /\ semente'[s].estado \in {"corre", "feita", "morta"}
      /\ \A q \in Execucoes : Feita(q) => Feita(q)'
  <2>1. CASE Seguir(s)
        BY <1>1, <2>1, SeguirFactos DEF IInv
  <2>2. CASE semente' = [semente EXCEPT ![s].estado = "morta"]
        BY <1>1, <2>2 DEF IInv, TypeOK, Feita
  <2>3. QED
        BY <1>2, <2>1, <2>2
<1>4. concede' \in [Perfis -> SUBSET Concediveis]
  <2>1. concede \in [Perfis -> SUBSET Concediveis]
        BY DEF IInv, TypeOK
  <2>2. \/ concede' = [concede EXCEPT ![r] = {}]
        \/ concede' = [concede EXCEPT ![r] = concede[r] \cup Declaradas[r]]
        \/ concede' = concede
        BY DEF LimparConcessoes, Conceder, De
  <2>3. concede[r] \cup Declaradas[r] \in SUBSET Concediveis
        BY <1>1, <2>1, ConcessoesAssumption
  <2> HIDE DEF r
  <2>4. QED
        BY <2>1, <2>2, <2>3
<1>5. TypeOK'
      BY <1>1, <1>3, <1>4 DEF IInv, TypeOK
<1>6. Sementes'
      BY <1>1, <1>3, SementesPasso DEF IInv
<1>7. Criado'
  <2>1. CASE Seguir(s)
        BY <1>1, <2>1, CriadoPasso DEF IInv
  <2>2. CASE semente' = [semente EXCEPT ![s].estado = "morta"]
    <3>1. semente'[s].em = semente[s].em /\ semente'[s].estado = "morta"
          BY <2>2 DEF IInv, TypeOK
    <3>2. \A q \in Execucoes, i \in 1 .. Len(Plano) : Passou(q, i)' => Passou(q, i)
          BY <1>3, <3>1 DEF Passou, Feita
    <3>3. QED
          BY <1>1, <3>2 DEF IInv, Criado
  <2>3. QED
        BY <1>2, <2>1, <2>2
<1>8. Herdado' /\ Atribuido'
  <2>1. /\ \A u : PapeisDevidos(u)' = PapeisDevidos(u)
        /\ MaeDevida' = MaeDevida
        BY <1>1, DevidasFixas
  <2>2. \A x \in Perfis \ Semeados : concede'[x] = concede[x]
    <3>1. \/ concede' = [concede EXCEPT ![r] = {}]
          \/ concede' = [concede EXCEPT ![r] = concede[r] \cup Declaradas[r]]
          \/ concede' = concede
          BY DEF LimparConcessoes, Conceder, De
    <3>2. concede \in [Perfis -> SUBSET Concediveis]
          BY DEF IInv, TypeOK
    <3> HIDE DEF r
    <3>3. \A x \in Perfis \ Semeados : x # r
          BY <1>1
    <3>4. QED
          BY <3>1, <3>2, <3>3
  <2>3. Herdado'
        BY <1>1, <2>1, <2>2 DEF IInv, Herdado
  <2>4. Atribuido'
    <3> SUFFICES ASSUME NEW q \in Execucoes, NEW i \in 1 .. Len(Plano), Passou(q, i)',
                        Plano[i].faz = "atribuir"
                 PROVE  Passou(q, i)
        BY <1>1, <2>1 DEF IInv, Atribuido
    <3>1. CASE q = s /\ Seguir(s)
          BY <1>1, <3>1, SeguirFactos DEF IInv
    <3>2. CASE q = s /\ semente' = [semente EXCEPT ![s].estado = "morta"]
      <4>1. semente'[s].em = semente[s].em /\ semente'[s].estado = "morta"
            BY <3>2 DEF IInv, TypeOK
      <4>2. QED
            BY <3>2, <4>1 DEF Passou, Feita
    <3>3. CASE q # s
          BY <1>3, <3>3 DEF Passou, Feita
    <3>4. QED
          BY <1>2, <3>1, <3>2, <3>3
  <2>5. QED
        BY <2>3, <2>4
<1>9. Concedido'
      BY ConcedidoLimpo, ConcedidoConcede DEF IInv
<1>10. Leituras'
       BY <1>1, <1>3, LeiturasFicam DEF IInv
<1>11. QED
       BY <1>5, <1>6, <1>7, <1>8, <1>9, <1>10 DEF IInv
-----------------------------------------------------------------------------
\* When some run has ended well, no role has a grant that is not the seed's.
LEMMA SoDeclaradas ==
  ASSUME IInv, NEW s \in Execucoes, Feita(s), NEW r \in Semeados
  PROVE  concede[r] = {} \/ concede[r] = Declaradas[r]
<1>1. PICK i \in 1 .. Len(Plano) : Plano[i] = [faz |-> "conceder", de |-> r]
      BY PlanoDaSemente DEF Tem
<1>2. i > 1 /\ Plano[i - 1] = [faz |-> "limpar", de |-> r]
  <2>1. Plano[i].faz = "conceder" /\ Plano[i].de = r
        BY <1>1
  <2>2. QED
        BY <2>1, PlanoDaSemente DEF Parelhas
<1>3. i - 1 \in 1 .. Len(Plano)
      BY <1>1, <1>2, PlanoDaSemente
<1>4. Passou(s, i - 1)
      BY DEF Passou
<1>5. QED
      BY <1>2, <1>3, <1>4 DEF IInv, Concedido

\* Users and the tree of roles, once some run has ended well.
LEMMA FeitaDeixa ==
  ASSUME IInv, NEW s \in Execucoes, Feita(s)
  PROVE  /\ papeis = antes.papeis \cup Semeados /\ mae = MaeDevida
         /\ \A u \in Pessoas : papeisDe[u] = PapeisDevidos(u)
<1>1. \A i \in 1 .. Len(Plano) : Passou(s, i)
      BY DEF Passou
<1>2. papeis = antes.papeis \cup Semeados
  <2>1. \A r \in Semeados : r \in papeis
    <3> SUFFICES ASSUME NEW r \in Semeados PROVE r \in papeis
        OBVIOUS
    <3>1. PICK i \in 1 .. Len(Plano) : Plano[i] = [faz |-> "papel", de |-> r]
          BY PlanoDaSemente DEF Tem
    <3>2. QED
          BY <1>1, <3>1 DEF IInv, Criado
  <2>2. QED
        BY <2>1 DEF IInv, Herdado
<1>3. mae = MaeDevida
  <2>1. mae \in [Perfis -> papeis \cup {Nenhum}] /\ antes \in Anteriores
        BY DEF IInv, TypeOK
  <2>2. \A r \in Perfis \ antes.papeis : antes.mae[r] = Nenhum
        BY <2>1, SemLinhaSemMae
  <2>3. ASSUME NEW r \in Perfis
        PROVE  mae[r] = MaeDevida[r]
    <3>1. mae[r] = IF r \in papeis THEN MaeDevida[r] ELSE Nenhum
          BY DEF IInv, Herdado
    <3>2. r \notin papeis => MaeDevida[r] = Nenhum
          BY <1>2, <2>2 DEF MaeDevida
    <3>3. QED
          BY <3>1, <3>2
  <2>4. MaeDevida = [r \in Perfis |-> MaeDevida[r]]
        BY DEF MaeDevida
  <2>5. QED
        BY <2>1, <2>3, <2>4
<1>4. \A u \in Pessoas : papeisDe[u] = PapeisDevidos(u)
  <2> SUFFICES ASSUME NEW u \in Pessoas PROVE papeisDe[u] = PapeisDevidos(u)
      OBVIOUS
  <2>1. CASE u \in Utilizadores
    <3>1. PICK i \in 1 .. Len(Plano) : Plano[i] = [faz |-> "atribuir", de |-> u]
          BY <2>1, PlanoDaSemente DEF Tem
    <3>2. QED
          BY <1>1, <3>1 DEF IInv, Atribuido
  <2>2. CASE u \notin Utilizadores
    <3>1. PapeisDevidos(u) = antes.papeisDe[u]
          BY <2>2 DEF PapeisDevidos
    <3>2. QED
          BY <3>1 DEF IInv, Herdado
  <2>3. QED
        BY <2>1, <2>2
<1>5. QED
      BY <1>2, <1>3, <1>4

\* The types of acts, once some run has ended well.
LEMMA TiposCriados ==
  ASSUME IInv, NEW s \in Execucoes, Feita(s)
  PROVE  tipos = antes.tipos \cup ConjuntoDe(Tipos)
<1>1. \A t \in ConjuntoDe(Tipos) : t \in tipos
  <2> SUFFICES ASSUME NEW t \in ConjuntoDe(Tipos) PROVE t \in tipos
      OBVIOUS
  <2>1. PICK i \in 1 .. Len(Plano) : Plano[i] = [faz |-> "tipo", de |-> t]
        BY PlanoDaSemente DEF Tem
  <2>2. Passou(s, i)
        BY DEF Passou
  <2>3. QED
        BY <2>1, <2>2 DEF IInv, Criado
<1>2. QED
      BY <1>1 DEF IInv, TypeOK, Herdado

\* What the last run leaves when nothing overlapped it.
LEMMA UltimaRepara ==
  ASSUME IInv, serial, NEW s \in Execucoes, Feita(s), UltimaDe(s)
  PROVE  concede = ConcessoesDevidas
<1>1. ASSUME NEW r \in Semeados
      PROVE  concede[r] = Declaradas[r]
  <2>1. PICK i \in 1 .. Len(Plano) : Plano[i] = [faz |-> "conceder", de |-> r]
        BY PlanoDaSemente DEF Tem
  <2>2. Passou(s, i) /\ ~ParadaEm(s, r)
        BY DEF Passou, ParadaEm, Feita
  <2>3. QED
        BY <2>1, <2>2 DEF IInv, Concedido
<1>2. \A r \in Perfis \ Semeados : concede[r] = antes.concede[r]
      BY DEF IInv, Herdado
<1>3. concede \in [Perfis -> SUBSET Concediveis]
      BY DEF IInv, TypeOK
<1>4. \A r \in Perfis : concede[r] = IF r \in Semeados THEN Declaradas[r] ELSE antes.concede[r]
      BY <1>1, <1>2
<1>5. QED
      BY <1>3, <1>4 DEF ConcessoesDevidas

\* A step of a login leaves the tables and the runs alone.
LEMMA LoginDeixa ==
  ASSUME IInv, UNCHANGED <<tabelas, semente, antes, serial>>
  PROVE  Criado' /\ Herdado' /\ Atribuido' /\ Concedido'
<1>1. /\ papeis' = papeis /\ permissoes' = permissoes /\ tipos' = tipos /\ mae' = mae
      /\ concede' = concede /\ papeisDe' = papeisDe
      /\ semente' = semente /\ antes' = antes /\ serial' = serial
      BY DEF tabelas
<1>2. Concedido'
      BY <1>1, ConcedidoFica DEF IInv, Passou, Feita, ParadaEm, UltimaDe
<1>3. /\ \A u : PapeisDevidos(u)' = PapeisDevidos(u)
      /\ MaeDevida' = MaeDevida
      BY <1>1, DevidasFixas
<1>4. Criado'
      BY <1>1 DEF IInv, Criado, Passou, Feita
<1>5. Herdado'
      BY <1>1, <1>3 DEF IInv, Herdado
<1>6. Atribuido'
      BY <1>1, <1>3 DEF IInv, Atribuido, Passou, Feita
<1>7. QED
      BY <1>2, <1>4, <1>5, <1>6

\* The user is read, with his roles.
LEMMA LerUserIInv ==
  ASSUME IInv, NEW l \in Acessos, NEW u \in Pessoas, LerUser(l, u)
  PROVE  IInv'
<1>1. /\ UNCHANGED <<tabelas, semente, antes, serial>> /\ acesso[l].passo = "novo" /\ (serial => Quieto)
      /\ UNCHANGED <<papeis, permissoes, tipos, mae, concede, papeisDe, antes>>
      BY DEF LerUser, tabelas
<1>2. acesso \in [Acessos ->
         [passo : {"novo", "papeis", "permissoes", "emitido", "expirado", "recusado"},
          user : Pessoas \cup {Nenhum}, perfis : SUBSET Perfis, conhecidos : SUBSET Perfis,
          claims : SUBSET Concediveis, seguro : BOOLEAN, actual : BOOLEAN]]
      BY DEF IInv, TypeOK
<1>0. /\ \A v : PapeisDevidos(v)' = PapeisDevidos(v) /\ Devidas(v)' = Devidas(v)
      /\ ConcessoesDevidas' = ConcessoesDevidas
      BY <1>1, DevidasFixas
<1> DEFINE certo == \E s \in Execucoes : Feita(s)
           ultimo == \E s \in Execucoes :
                       Feita(s) /\ \A q \in Execucoes : q > s => semente[q].estado = "nova"
<1>3. CASE papeisDe[u] = Nenhum
  <2>1. /\ \A m \in Acessos \ {l} : acesso'[m] = acesso[m]
        /\ acesso'[l] = [acesso[l] EXCEPT !.passo = "recusado"]
        /\ DOMAIN acesso' = Acessos
        BY <1>2, <1>3 DEF LerUser
  <2>2. /\ acesso'[l].passo = "recusado" /\ acesso'[l].seguro = acesso[l].seguro
        /\ acesso'[l].claims = acesso[l].claims /\ acesso'[l].user = acesso[l].user
        /\ acesso'[l].perfis = acesso[l].perfis /\ acesso'[l].actual = acesso[l].actual
        /\ acesso' \in [Acessos ->
             [passo : {"novo", "papeis", "permissoes", "emitido", "expirado", "recusado"},
              user : Pessoas \cup {Nenhum}, perfis : SUBSET Perfis, conhecidos : SUBSET Perfis,
              claims : SUBSET Concediveis, seguro : BOOLEAN, actual : BOOLEAN]]
        BY <1>2, <1>3 DEF LerUser
  <2>3. TypeOK'
        BY <1>1, <2>2 DEF IInv, TypeOK
  <2>4. Sementes'
        BY <1>1, <2>1, <2>2 DEF IInv, Sementes, Lendo
  <2>5. Leituras'
        BY <1>1, <1>0, <2>1, <2>2 DEF IInv, Leituras, Lendo, Feita
  <2>6. QED
        BY <1>1, <2>3, <2>4, <2>5, LoginDeixa DEF IInv
<1>4. CASE papeisDe[u] # Nenhum
  <2>1. papeisDe[u] \in SUBSET Perfis
        BY <1>4 DEF IInv, TypeOK
  <2>2. acesso' = [acesso EXCEPT ![l] =
          [acesso[l] EXCEPT !.passo = "papeis", !.user = u, !.perfis = papeisDe[u],
             !.seguro = certo, !.actual = ultimo]]
        BY <1>4 DEF LerUser
  <2>3. certo \in BOOLEAN /\ ultimo \in BOOLEAN
        OBVIOUS
  <2> DEFINE novo == [acesso[l] EXCEPT !.passo = "papeis", !.user = u, !.perfis = papeisDe[u],
                        !.seguro = certo, !.actual = ultimo]
  <2> HIDE DEF certo, ultimo
  <2>4. /\ novo \in [passo : {"novo", "papeis", "permissoes", "emitido", "expirado", "recusado"},
                     user : Pessoas \cup {Nenhum}, perfis : SUBSET Perfis,
                     conhecidos : SUBSET Perfis, claims : SUBSET Concediveis,
                     seguro : BOOLEAN, actual : BOOLEAN]
        /\ novo.passo = "papeis" /\ novo.user = u /\ novo.perfis = papeisDe[u]
        /\ novo.seguro = certo /\ novo.actual = ultimo /\ novo.claims = acesso[l].claims
        BY <1>2, <2>1, <2>3
  <2>5. acesso' = [acesso EXCEPT ![l] = novo]
        BY <2>2
  <2> HIDE DEF novo
  <2>6. /\ \A m \in Acessos \ {l} : acesso'[m] = acesso[m]
        /\ acesso'[l] = novo
        /\ acesso' \in [Acessos ->
             [passo : {"novo", "papeis", "permissoes", "emitido", "expirado", "recusado"},
              user : Pessoas \cup {Nenhum}, perfis : SUBSET Perfis, conhecidos : SUBSET Perfis,
              claims : SUBSET Concediveis, seguro : BOOLEAN, actual : BOOLEAN]]
        BY <1>2, <2>4, <2>5
  <2>7. TypeOK'
        BY <1>1, <2>6 DEF IInv, TypeOK
  <2>8. Sementes'
        BY <1>1 DEF IInv, Sementes, Quieto, Lendo
  <2>9. acesso[l].claims = {}
        BY <1>1 DEF IInv, Leituras
  <2>10. /\ serial /\ ultimo => concede = ConcessoesDevidas
         /\ ultimo => certo
        BY UltimaRepara DEF ultimo, UltimaDe, certo
  <2>11. /\ certo => \E s \in Execucoes : Feita(s)'
         /\ certo => papeisDe[u] = PapeisDevidos(u)
        BY <1>1, FeitaDeixa DEF certo, Feita
  <2>12. Leituras'
    <3> SUFFICES ASSUME NEW m \in Acessos
                 PROVE
           /\ acesso'[m].passo \in {"papeis", "permissoes", "emitido", "expirado"} =>
                acesso'[m].user \in Pessoas
           /\ acesso'[m].seguro =>
                /\ \E s \in Execucoes : Feita(s)'
                /\ acesso'[m].perfis = PapeisDevidos(acesso'[m].user)
                /\ acesso'[m].passo = "permissoes" =>
                     acesso'[m].conhecidos = antes.papeis \cup Semeados
                /\ acesso'[m].claims \subseteq Devidas(acesso'[m].user)
           /\ acesso'[m].passo \in {"novo", "papeis", "permissoes"} => acesso'[m].claims = {}
           /\ serial /\ acesso'[m].actual =>
                /\ acesso'[m].seguro
                /\ Lendo(m)' => concede = ConcessoesDevidas
                /\ acesso'[m].passo = "emitido" => acesso'[m].claims = Devidas(acesso'[m].user)
        BY <1>1, <1>0 DEF Leituras
    <3>1. CASE m = l
          BY <1>1, <2>4, <2>6, <2>9, <2>10, <2>11, <3>1
    <3>2. CASE m # l
      <4>1. acesso'[m] = acesso[m] /\ \A s \in Execucoes : Feita(s)' <=> Feita(s)
            BY <1>1, <2>6, <3>2 DEF Feita
      <4>2. QED
            BY <1>1, <4>1 DEF IInv, Leituras, Lendo
    <3>3. QED
          BY <3>1, <3>2
  <2>13. QED
        BY <1>1, <2>7, <2>8, <2>12, LoginDeixa DEF IInv
<1>5. QED
      BY <1>3, <1>4

\* The second read, the answer, and the 15 minutes.
LEMMA LoginIInv ==
  ASSUME IInv, NEW l \in Acessos, LerPapeis(l) \/ Emitir(l) \/ Expirar(l)
  PROVE  IInv'
<1> DEFINE a == acesso[l]
           b == acesso'[l]
<1>1. /\ UNCHANGED <<tabelas, semente, antes, serial>>
      /\ UNCHANGED <<papeis, permissoes, tipos, mae, concede, papeisDe, antes>>
      BY DEF LerPapeis, Emitir, Expirar, tabelas
<1>2. acesso \in [Acessos ->
         [passo : {"novo", "papeis", "permissoes", "emitido", "expirado", "recusado"},
          user : Pessoas \cup {Nenhum}, perfis : SUBSET Perfis, conhecidos : SUBSET Perfis,
          claims : SUBSET Concediveis, seguro : BOOLEAN, actual : BOOLEAN]]
      BY DEF IInv, TypeOK
<1>0. /\ \A v : PapeisDevidos(v)' = PapeisDevidos(v) /\ Devidas(v)' = Devidas(v)
      /\ ConcessoesDevidas' = ConcessoesDevidas
      BY <1>1, DevidasFixas
<1>3. Efectivas(a.perfis, a.conhecidos, mae, concede) \in SUBSET Concediveis
  <2>1. \A q \in a.conhecidos : concede[q] \in SUBSET Concediveis
        BY <1>2 DEF IInv, TypeOK
  <2>2. \A S : Abaixo(a.conhecidos, mae, S) \subseteq a.conhecidos
        BY DEF Abaixo
  <2>3. QED
        BY <2>1, <2>2 DEF Efectivas
<1>4. papeis \in SUBSET Perfis
      BY DEF IInv, TypeOK
<1>5. /\ \A m \in Acessos \ {l} : acesso'[m] = acesso[m]
      /\ b.user = a.user /\ b.perfis = a.perfis
      /\ b.seguro = a.seguro /\ b.actual = a.actual
      /\ \/ a.passo = "papeis" /\ b.passo = "permissoes" /\ b.conhecidos = papeis
            /\ b.claims = a.claims
         \/ a.passo = "permissoes" /\ b.passo = "emitido" /\ b.conhecidos = a.conhecidos
            /\ b.claims = Efectivas(a.perfis, a.conhecidos, mae, concede)
         \/ a.passo = "emitido" /\ b.passo = "expirado" /\ b.conhecidos = a.conhecidos
            /\ b.claims = a.claims
  <2> DEFINE e == Efectivas(a.perfis, a.conhecidos, mae, concede)
  <2>1. \/ /\ a.passo = "papeis"
           /\ acesso' = [acesso EXCEPT ![l].passo = "permissoes", ![l].conhecidos = papeis]
        \/ /\ a.passo = "permissoes"
           /\ acesso' = [acesso EXCEPT ![l].passo = "emitido", ![l].claims = e]
        \/ /\ a.passo = "emitido"
           /\ acesso' = [acesso EXCEPT ![l].passo = "expirado"]
        BY DEF LerPapeis, Emitir, Expirar
  <2> HIDE DEF e
  <2>2. QED
        BY <1>2, <2>1 DEF e
<1>6. TypeOK'
  <2> DEFINE e == Efectivas(a.perfis, a.conhecidos, mae, concede)
  <2>1. \/ acesso' = [acesso EXCEPT ![l].passo = "permissoes", ![l].conhecidos = papeis]
        \/ acesso' = [acesso EXCEPT ![l].passo = "emitido", ![l].claims = e]
        \/ acesso' = [acesso EXCEPT ![l].passo = "expirado"]
        BY DEF LerPapeis, Emitir, Expirar
  <2>2. e \in SUBSET Concediveis
        BY <1>3
  <2> HIDE DEF e
  <2>3. acesso' \in [Acessos ->
         [passo : {"novo", "papeis", "permissoes", "emitido", "expirado", "recusado"},
          user : Pessoas \cup {Nenhum}, perfis : SUBSET Perfis, conhecidos : SUBSET Perfis,
          claims : SUBSET Concediveis, seguro : BOOLEAN, actual : BOOLEAN]]
        BY <1>2, <1>4, <2>1, <2>2
  <2>4. QED
        BY <1>1, <2>3 DEF IInv, TypeOK
<1>7. Sementes'
  <2>1. \A m \in Acessos : Lendo(m)' => Lendo(m)
        BY <1>5 DEF Lendo
  <2>2. semente' = semente /\ serial' = serial
        BY <1>1
  <2>3. QED
        BY <2>1, <2>2 DEF IInv, Sementes
<1>8. a.passo \in {"papeis", "permissoes", "emitido"} => a.user \in Pessoas
      BY DEF IInv, Leituras
<1>9. ASSUME a.seguro
      PROVE  /\ papeis = antes.papeis \cup Semeados /\ mae = MaeDevida
             /\ a.perfis = PapeisDevidos(a.user)
             /\ a.passo = "permissoes" => a.conhecidos = antes.papeis \cup Semeados
             /\ a.passo = "permissoes" => b.claims \subseteq Devidas(a.user)
  <2>1. PICK s \in Execucoes : Feita(s)
        BY <1>9 DEF IInv, Leituras
  <2>2. papeis = antes.papeis \cup Semeados /\ mae = MaeDevida
        BY <2>1, FeitaDeixa
  <2>3. \A r \in Perfis : concede[r] \subseteq ConcessoesDevidas[r]
    <3> SUFFICES ASSUME NEW r \in Perfis PROVE concede[r] \subseteq ConcessoesDevidas[r]
        OBVIOUS
    <3>1. ConcessoesDevidas[r] = IF r \in Semeados THEN Declaradas[r] ELSE antes.concede[r]
          BY DEF ConcessoesDevidas
    <3>2. CASE r \in Semeados
          BY <2>1, <3>1, <3>2, SoDeclaradas
    <3>3. CASE r \notin Semeados
          BY <3>1, <3>3 DEF IInv, Herdado
    <3>4. QED
          BY <3>2, <3>3
  <2>4. /\ a.perfis = PapeisDevidos(a.user)
        /\ a.passo = "permissoes" => a.conhecidos = antes.papeis \cup Semeados
        BY <1>9 DEF IInv, Leituras
  <2>5. ASSUME a.passo = "permissoes"
        PROVE  b.claims \subseteq Devidas(a.user)
    <3>1. b.claims = Efectivas(PapeisDevidos(a.user), a.conhecidos, MaeDevida, concede)
          BY <1>5, <2>2, <2>4, <2>5
    <3>2. Devidas(a.user) =
            Efectivas(PapeisDevidos(a.user), a.conhecidos, MaeDevida, ConcessoesDevidas)
          BY <2>4, <2>5 DEF Devidas
    <3>3. \A r \in a.conhecidos : concede[r] \subseteq ConcessoesDevidas[r]
          BY <1>2, <2>3
    <3>4. QED
          BY <3>1, <3>2, <3>3, EfectivasMonotona
  <2>6. QED
        BY <2>2, <2>4, <2>5
<1>10. ASSUME serial, a.actual, a.passo = "permissoes"
       PROVE  b.claims = Devidas(a.user)
  <2>1. concede = ConcessoesDevidas /\ a.seguro
        BY <1>10 DEF IInv, Leituras, Lendo
  <2>2. /\ mae = MaeDevida /\ a.perfis = PapeisDevidos(a.user)
        /\ a.conhecidos = antes.papeis \cup Semeados
        BY <1>9, <1>10, <2>1
  <2>3. QED
        BY <1>5, <1>10, <2>1, <2>2 DEF Devidas
<1>11. Leituras'
  <2> SUFFICES ASSUME NEW m \in Acessos
               PROVE
         /\ acesso'[m].passo \in {"papeis", "permissoes", "emitido", "expirado"} =>
              acesso'[m].user \in Pessoas
         /\ acesso'[m].seguro =>
              /\ \E s \in Execucoes : Feita(s)'
              /\ acesso'[m].perfis = PapeisDevidos(acesso'[m].user)
              /\ acesso'[m].passo = "permissoes" =>
                   acesso'[m].conhecidos = antes.papeis \cup Semeados
              /\ acesso'[m].claims \subseteq Devidas(acesso'[m].user)
         /\ acesso'[m].passo \in {"novo", "papeis", "permissoes"} => acesso'[m].claims = {}
         /\ serial /\ acesso'[m].actual =>
              /\ acesso'[m].seguro
              /\ Lendo(m)' => concede = ConcessoesDevidas
              /\ acesso'[m].passo = "emitido" => acesso'[m].claims = Devidas(acesso'[m].user)
      BY <1>1, <1>0 DEF Leituras
  <2>1. \A s \in Execucoes : Feita(s)' <=> Feita(s)
        BY <1>1 DEF Feita
  <2>2. CASE m = l
    <3>1. /\ a.seguro => \E s \in Execucoes : Feita(s)'
          /\ a.seguro => a.claims \subseteq Devidas(a.user)
          /\ a.passo = "papeis" => a.claims = {}
          /\ serial /\ a.actual => a.seguro
          /\ serial /\ a.actual /\ a.passo = "emitido" => a.claims = Devidas(a.user)
          /\ serial /\ a.actual /\ a.passo \in {"papeis", "permissoes"} =>
               concede = ConcessoesDevidas
          BY <2>1 DEF IInv, Leituras, Lendo
    <3> HIDE DEF a, b
    <3>2. acesso'[m] = b /\ (Lendo(m)' => b.passo \in {"papeis", "permissoes"})
          BY <2>2 DEF b, Lendo
    <3>3. QED
          BY <1>1, <1>5, <1>8, <1>9, <1>10, <3>1, <3>2
  <2>3. CASE m # l
    <3>1. acesso'[m] = acesso[m]
          BY <1>5, <2>3
    <3>2. QED
          BY <1>1, <2>1, <3>1 DEF IInv, Leituras, Lendo
  <2>4. QED
        BY <2>2, <2>3
<1>12. QED
       BY <1>1, <1>6, <1>7, <1>11, LoginDeixa DEF IInv

\* One lemma per action, together.
LEMMA PassoIInv == IInv /\ [Next]_vars => IInv'
<1> SUFFICES ASSUME IInv, [Next]_vars PROVE IInv'
    OBVIOUS
<1>1. CASE UNCHANGED vars
  <2>1. /\ UNCHANGED <<tabelas, semente, antes, serial>> /\ acesso' = acesso
        /\ UNCHANGED <<papeis, permissoes, tipos, mae, concede, papeisDe, semente, antes, serial>>
        BY <1>1 DEF vars, tabelas
  <2>2. TypeOK' /\ Sementes'
        BY <2>1 DEF IInv, TypeOK, Sementes, Lendo
  <2>3. Leituras'
        BY <2>1, DevidasFixas DEF IInv, Leituras, Lendo, Feita
  <2>4. QED
        BY <2>1, <2>2, <2>3, LoginDeixa DEF IInv
<1>2. QED
      BY <1>1, ComecarMorrerIInv, CriarIInv, ConcessoesIInv, LerUserIInv, LoginIInv DEF Next

\* The inductive invariant holds in every state.
THEOREM Indutivo == Spec => []IInv
      BY InitIInv, PassoIInv, PTL DEF Spec

(* Rows, runs of the seed and logins have their types, and a token carries *)
(* nothing that was never granted (seed.ts, auth.service.ts).              *)
THEOREM TipagemCorrecta == Spec => []TypeOK
<1>1. IInv => TypeOK
      BY DEF IInv
<1>2. QED
      BY <1>1, Indutivo, PTL

(* seed.ts: a run that ended well has repaired what earlier runs left half *)
(* done, but for what another run is, or died, in the middle of, and has   *)
(* taken from no user a role he had.                                       *)
THEOREM SementeReparaSempre == Spec => []SementeRepara
<1>1. ASSUME IInv, NEW s \in Execucoes, Feita(s), NEW r \in Semeados
      PROVE  concede[r] = Declaradas[r] \/ \E q \in Execucoes : ParadaEm(q, r)
  <2>1. PICK i \in 1 .. Len(Plano) : Plano[i] = [faz |-> "conceder", de |-> r]
        BY PlanoDaSemente DEF Tem
  <2>2. Passou(s, i)
        BY <1>1 DEF Passou
  <2>3. QED
        BY <1>1, <2>1, <2>2 DEF IInv, Concedido
<1>2. ASSUME IInv, NEW s \in Execucoes, Feita(s)
      PROVE  tipos = antes.tipos \cup ConjuntoDe(Tipos)
      BY <1>2, TiposCriados
<1>3. ASSUME IInv, NEW s \in Execucoes, Feita(s)
      PROVE  papeisDe = [u \in Pessoas |-> PapeisDevidos(u)]
  <2>1. \A u \in Pessoas : papeisDe[u] = PapeisDevidos(u)
        BY <1>3, FeitaDeixa
  <2>2. papeisDe \in [Pessoas -> (SUBSET Perfis) \cup {Nenhum}]
        BY <1>3 DEF IInv, TypeOK
  <2>3. papeisDe = [u \in Pessoas |-> papeisDe[u]]
        BY <2>2
  <2>4. QED
        BY <2>1, <2>3
<1>4. IInv => SementeRepara
  <2> SUFFICES ASSUME IInv, NEW s \in Execucoes, Feita(s)
               PROVE  /\ \A r \in Semeados :
                           concede[r] = Declaradas[r] \/ \E q \in Execucoes : ParadaEm(q, r)
                      /\ papeisDe = [u \in Pessoas |-> PapeisDevidos(u)]
                      /\ serial /\ UltimaDe(s)
                           => /\ concede = ConcessoesDevidas
                              /\ papeis = antes.papeis \cup Semeados /\ mae = MaeDevida
                              /\ tipos = antes.tipos \cup ConjuntoDe(Tipos)
      BY DEF SementeRepara, UltimaDe
  <2>1. QED
        BY <1>1, <1>2, <1>3, FeitaDeixa, UltimaRepara
<1>5. QED
      BY <1>4, Indutivo, PTL

(* A database in which some run of the seed ended well: every permission   *)
(* and type of act of the seed there next to those of earlier releases, no *)
(* role lost or moved in the tree, and every role of the seed with the     *)
(* grants it declares or, while a run is between its deletion and its      *)
(* grant or died there, with none: never with a mixture of two releases;   *)
(* roles the seed does not name keep what an earlier release granted them. *)
SementeCompleta ==
  \A s \in Execucoes : Feita(s) =>
    /\ papeis = antes.papeis \cup Semeados /\ mae = MaeDevida
    /\ permissoes = antes.permissoes \cup ConjuntoDe(Permissoes)
    /\ tipos = antes.tipos \cup ConjuntoDe(Tipos)
    /\ \A r \in Perfis :
         \/ concede[r] = ConcessoesDevidas[r]
         \/ r \in Semeados /\ concede[r] = {} /\ \E q \in Execucoes : ParadaEm(q, r)

(* seed.ts:25-183: whichever runs overlap it or died before it, a run      *)
(* that ended well leaves the whole of what the seed declares, for good,   *)
(* and keeps what an earlier release left beside it.                       *)
THEOREM SementeSempreCompleta == Spec => []SementeCompleta
<1>1. ASSUME IInv, NEW s \in Execucoes, Feita(s)
      PROVE  \A i \in 1 .. Len(Plano) : Passou(s, i)
      BY <1>1 DEF Passou
<1>2. ASSUME IInv, NEW s \in Execucoes, Feita(s)
      PROVE  permissoes = antes.permissoes \cup ConjuntoDe(Permissoes)
  <2>1. \A x \in ConjuntoDe(Permissoes) : x \in permissoes
    <3> SUFFICES ASSUME NEW x \in ConjuntoDe(Permissoes) PROVE x \in permissoes
        OBVIOUS
    <3>1. PICK i \in 1 .. Len(Plano) : Plano[i] = [faz |-> "permissao", de |-> x]
          BY PlanoDaSemente DEF Tem
    <3>2. QED
          BY <1>1, <1>2, <3>1 DEF IInv, Criado
  <2>2. QED
        BY <1>2, <2>1 DEF IInv, TypeOK, Herdado
<1>3. ASSUME IInv, NEW s \in Execucoes, Feita(s), NEW r \in Semeados
      PROVE  \/ concede[r] = Declaradas[r]
             \/ concede[r] = {} /\ \E q \in Execucoes : ParadaEm(q, r)
  <2>1. PICK i \in 1 .. Len(Plano) : Plano[i] = [faz |-> "conceder", de |-> r]
        BY PlanoDaSemente DEF Tem
  <2>2. concede[r] = {} \/ concede[r] = Declaradas[r]
        BY <1>3, SoDeclaradas
  <2>3. concede[r] = Declaradas[r] \/ \E q \in Execucoes : ParadaEm(q, r)
    <3>1. Plano[i].faz = "conceder" /\ Plano[i].de = r
          BY <2>1
    <3>2. Passou(s, i) /\ Concedido
          BY <1>1, <1>3 DEF IInv
    <3>3. QED
          BY <3>1, <3>2 DEF Concedido
  <2>4. QED
        BY <2>2, <2>3
<1>4. ASSUME IInv, NEW s \in Execucoes, Feita(s), NEW r \in Perfis
      PROVE  \/ concede[r] = ConcessoesDevidas[r]
             \/ r \in Semeados /\ concede[r] = {} /\ \E q \in Execucoes : ParadaEm(q, r)
  <2>1. ConcessoesDevidas[r] = IF r \in Semeados THEN Declaradas[r] ELSE antes.concede[r]
        BY DEF ConcessoesDevidas
  <2>2. CASE r \in Semeados
        BY <1>3, <1>4, <2>1, <2>2
  <2>3. CASE r \notin Semeados
        BY <1>4, <2>1, <2>3 DEF IInv, Herdado
  <2>4. QED
        BY <2>2, <2>3
<1>5. IInv => SementeCompleta
      BY <1>2, <1>4, FeitaDeixa, TiposCriados DEF SementeCompleta
<1>6. QED
      BY <1>5, Indutivo, PTL

(* docs/dia-3.md:26, AuthGuard and PermissionsGuard: after a run of the    *)
(* seed took a permission from a role, no token of a later login opens a   *)
(* route by that role, whichever runs overlap the login.                   *)
THEOREM RetiradasValem == Spec => []RetiradaVale
<1>1. ASSUME IInv, NEW l \in Acessos, NEW op \in Operacoes \ Publicas,
             acesso[l].seguro, Guardas(l, op) = 200
      PROVE  Exige[op] \subseteq Devidas(acesso[l].user)
  <2>1. Exige[op] \subseteq acesso[l].claims
        BY <1>1 DEF Guardas, Autenticado
  <2>2. acesso[l].claims \subseteq Devidas(acesso[l].user)
        BY <1>1 DEF IInv, Leituras
  <2>3. QED
        BY <2>1, <2>2
<1>2. IInv => RetiradaVale
      BY <1>1 DEF RetiradaVale
<1>3. QED
      BY <1>2, Indutivo, PTL

(* docs/dia-3.md:31, AuthGuard and PermissionsGuard: when no run overlaps  *)
(* the login and the last one ended well, a live token gets 200 exactly    *)
(* where its user may go by the roles he has, those an earlier release     *)
(* gave included, and 403 elsewhere, never 401.                            *)
THEOREM RespostasCertasQuandoSerial == Spec => []RespostaCertaSeSerial
<1>1. ASSUME IInv, NEW l \in Acessos, NEW op \in Operacoes \ Publicas,
             serial, acesso[l].actual, acesso[l].passo = "emitido"
      PROVE  Guardas(l, op) = IF Exige[op] \subseteq Devidas(acesso[l].user) THEN 200 ELSE 403
  <2>1. acesso[l].claims = Devidas(acesso[l].user)
        BY <1>1 DEF IInv, Leituras
  <2>2. Guardas(l, op) = IF Exige[op] \subseteq acesso[l].claims THEN 200 ELSE 403
        BY <1>1 DEF Guardas, Autenticado
  <2>3. QED
        BY <2>1, <2>2
<1>2. IInv => RespostaCertaSeSerial
      BY <1>1 DEF RespostaCertaSeSerial
<1>3. QED
      BY <1>2, Indutivo, PTL
=============================================================================
