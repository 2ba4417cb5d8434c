------------------------------- MODULE MCAcesso -------------------------------
(* Instances of Acesso for TLC.                                            *)
EXTENDS Acesso, TLC

\* A chief with an agent below him; eva and inspectors are of earlier releases.
MCPerfis == {"chefe", "agente", "inspector"}
MCPessoas == {"rui", "ana", "eva"}
MCPapeis == <<"chefe", "agente">>
MCPermissoes == <<"criar", "ler">>
MCTipos == <<"AUTO">>
MCConcessoes == <<"agente", "chefe">>
MCUsers == <<"rui", "ana">>
MCMae == "chefe" :> Nenhum @@ "agente" :> "chefe"
MCDeclaradas == "chefe" :> {"ler"} @@ "agente" :> {"criar"}
MCPapelDe == "rui" :> "chefe" @@ "ana" :> "agente"
MCOperacoes == {"login", "logout", "registar", "listar", "remover"}
MCExige ==
  [op \in MCOperacoes |->
    CASE op = "registar" -> {"criar"} [] op = "listar" -> {"ler"}
      [] op = "remover" -> {"apagar"} [] OTHER -> {}]

\* A fresh database.
MCVazia ==
  [papeis |-> {}, permissoes |-> {}, tipos |-> {}, mae |-> [r \in MCPerfis |-> Nenhum],
   concede |-> [r \in MCPerfis |-> {}], papeisDe |-> [u \in MCPessoas |-> Nenhum]]

\* Agents could delete, and ana was a chief too.
MCOutrasConcessoes ==
  [papeis |-> {"chefe", "agente"}, permissoes |-> {"criar", "apagar"}, tipos |-> {"AUTO"},
   mae |-> "agente" :> "chefe" @@ [r \in MCPerfis |-> Nenhum],
   concede |-> "agente" :> {"criar", "apagar"} @@ [r \in MCPerfis |-> {}],
   papeisDe |-> "rui" :> {"chefe"} @@ "ana" :> {"agente", "chefe"} @@ "eva" :> Nenhum]

\* Agents were below inspectors, a role of rui and eva; ana was not there.
MCOutraArvore ==
  [papeis |-> {"inspector", "agente"}, permissoes |-> {"apagar"}, tipos |-> {"TERMO"},
   mae |-> "agente" :> "inspector" @@ [r \in MCPerfis |-> Nenhum],
   concede |-> "inspector" :> {"apagar"} @@ [r \in MCPerfis |-> {}],
   papeisDe |-> "ana" :> Nenhum @@ [u \in MCPessoas |-> {"inspector"}]]

MCAnteriores == {MCVazia, MCOutrasConcessoes, MCOutraArvore}
=============================================================================
