-------------------------- MODULE MCPgLiteInstance --------------------------
(* Small instances of PgLiteInstance for TLC. *)
EXTENDS PgLiteInstance, TLC

CONSTANTS h1, h2, h3, h4, i1, i2, i3

Alike == Permutations({h1, h2, h3, h4}) \cup Permutations({i1, i2, i3})
=============================================================================
