------------------------------- MODULE MCMcts -------------------------------
(* Plans, actions and skills for model checking Mcts. *)
EXTENDS Mcts

Leaf(x) == [tag |-> x, kids |-> <<>>]
Seq1(kids) == [tag |-> "seq", kids |-> kids]
Plain == Seq1(<<Leaf("a")>>)
Other == Seq1(<<Leaf("c")>>)

Act(kind, path0, at, arg, skill) ==
    [kind |-> kind, path |-> path0, at |-> at, arg |-> arg, skill |-> skill]

(* Every plan can be replaced by Other, which thereby is reached over        *)
(* several paths, and from what add makes of it; the skill cannot take the  *)
(* plan it is.                                                              *)
Growing == {Act("add", <<>>, 2, Leaf("b"), ""), Act("substitute", <<>>, 0, Other, ""),
            Act("compose", <<>>, 0, Other, "self")}
Library == [self |-> Plain]
=============================================================================
