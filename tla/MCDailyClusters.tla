-------------------------- MODULE MCDailyClusters --------------------------
(* Instances of DailyClusters for TLC. *)
EXTENDS DailyClusters

\* The second and third articles are one story; the last three stories share words.
Stories == <<"oil", "chips", "chips", "rally">>
SharedWords == {{"chips", "rally"}}

\* A chain 4-3-2, then a single pair.
Graphs == {{<<3, 4>>, <<2, 3>>}, {<<2, 4>>}}
=============================================================================
