---------------------------- MODULE MCMcpServer ----------------------------
EXTENDS McpServer, TLC

(* One session may do everything, the other may only forget.                *)
Tokens == "full" :> Verbs @@ "limited" :> {"forget"}
OneToken == "full" :> Verbs
Symmetric == Permutations(Memories)
(* Around the second entry, and too wide.                                  *)
Pairs == {<<1, 2>>, <<0, 4>>}
=============================================================================
