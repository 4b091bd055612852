--------------------------- MODULE MCHandleHashMap ---------------------------
(* HandleHashMap with keys that collide in every possible way.                *)
EXTENDS HandleHashMap
CONSTANTS h1, h2, h3
=============================================================================
