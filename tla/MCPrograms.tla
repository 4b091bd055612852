------------------------------ MODULE MCPrograms ------------------------------
(* Programs made of one or two shaders that share uniforms; init holds handle 0. *)
EXTENDS Programs
CONSTANTS p1, p2, s0, s1, s2, u1, u2, u3, u4
MCTwoNames == [b \in Binaries |-> CASE b = "vs" -> <<"tint", "light">>
                                   [] b = "cs" -> <<"tint">>
                                   [] OTHER -> <<>>]
MCRefs == [shader |-> 1, program |-> 2, uniform |-> 1]
MCNums == [n \in Names |-> IF n = "tint" THEN {2} ELSE {}]
Symmetric == Permutations({p1, p2}) \union Permutations({s1, s2}) \union Permutations({u1, u2, u3, u4})
=============================================================================
