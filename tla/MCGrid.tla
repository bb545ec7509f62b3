------------------------------- MODULE MCGrid -------------------------------
(***************************************************************************)
(* Instances of Grid for TLC.                                              *)
(***************************************************************************)
EXTENDS GridProperties

CONSTANTS a, W

S(width, height) == [width |-> width, height |-> height]

P(may, texts, from, sizes, n) ==
  [may |-> may, texts |-> texts, counts |-> {1}, from |-> from, sizes |-> sizes, steps |-> n]

Reflowing == P({"text", "newline", "return", "move", "erase", "resize"},
               {<<a>>, <<a, a, W>>}, S(3, 2),
               {S(1, 2), S(2, 2), S(4, 2), S(3, 1)}, 5)
Editing == P({"text", "place", "erase", "characters", "lines", "resize"},
             {<<a, W>>, <<W, W, a>>}, S(4, 2), {S(2, 2)}, 4)
Viewing == P({"text", "newline", "view", "resize", "clear", "lines", "upgrade"},
             {<<a, W, a>>}, S(2, 2), {S(3, 2), S(2, 1)}, 5)
Regions == P({"text", "newline", "reverse", "region", "origin", "cursor", "place", "lines"},
             {<<a, a, W>>}, S(2, 3), {}, 5)
Upgrading == P({"text", "newline", "return", "erase", "upgrade", "region", "cursor"},
               {<<a>>, <<a, W, a>>}, S(3, 2), {}, 5)

Users == {Reflowing, Editing, Viewing, Regions, Upgrading}
=============================================================================
