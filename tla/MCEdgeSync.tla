------------------------------ MODULE MCEdgeSync ------------------------------
(* An instance of EdgeSync for TLC: file a defines x, or y instead; b uses  *)
(* x and y and defines y at one of two lines, or at both; c uses y, and may  *)
(* come to define x.                                                         *)
EXTENDS EdgeSync, TLC

CONSTANTS a, b, c, x, y

MCFiles == {a, b, c}
MCNames == {x, y}
MCLines == {1, 2}
Content(defines, uses) == [defines |-> defines, uses |-> uses]
MCContents ==
    (a :> {Content({<<x, 1>>}, {}), Content({<<y, 1>>}, {})}) @@
    (b :> {Content(d, {x, y}) : d \in {{<<y, 1>>}, {<<y, 2>>}, {<<y, 1>>, <<y, 2>>}}}) @@
    (c :> {Content({}, {y}), Content({<<x, 1>>}, {y})})
MCOrigin ==
    (a :> Content({<<x, 1>>}, {})) @@
    (b :> Content({<<y, 1>>, <<y, 2>>}, {x, y})) @@
    (c :> Content({}, {y}))
MCDoubtful == {<<c, y>>}
MCUnstamped == {<<b, x>>}
=============================================================================
