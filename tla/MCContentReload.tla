-------------------------- MODULE MCContentReload --------------------------
(* Two publications race; the second revision drops a definition.           *)
EXTENDS ContentReload, TLC

CONSTANTS first, second, full, lean, tower

Definitions == full :> {tower} @@ lean :> {}
=============================================================================
