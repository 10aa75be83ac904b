------------------------------ MODULE MCBalance ------------------------------
(* Three nodes with two points each: all apart, two with a point in common, *)
(* and each with a point in common with the next one.                       *)
EXTENDS Balance

MCNodes == 0..2
MCHashes ==
    {[n \in MCNodes |-> f[n + 1]] :
        f \in {<<{1, 5}, {2, 6}, {3, 7}>>, <<{1, 4}, {2, 4}, {3, 6}>>,
               <<{1, 2}, {2, 3}, {3, 1}>>}}
MCKeys == {0, 4}
MCLists == {<<0, 1>>, <<1, 2, 0>>, <<2>>}
=============================================================================
