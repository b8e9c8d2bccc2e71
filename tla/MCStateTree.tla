---------------------------- MODULE MCStateTree ----------------------------
\* Two levels, with a pair of siblings on the left and one resource on the right.
EXTENDS StateTree

ThreeKeys == {<<0, 0>>, <<0, 1>>, <<1, 0>>}

\* A batch that changes nothing, one that sets the pair, one that sets one of the pair
\* and the lone resource, and one that deletes the lone resource.
SomeDiffs ==
    {<<>>, <<1, 0>> :> "delete",
     <<0, 0>> :> "set" @@ <<0, 1>> :> "set",
     <<0, 1>> :> "set" @@ <<1, 0>> :> "set"}
=============================================================================
