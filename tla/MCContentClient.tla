-------------------------- MODULE MCContentClient --------------------------
(* Small instances of ContentClient for TLC.                                  *)
EXTENDS ContentClient

Once == <<"a", "b">>
Twice == <<"a", "b", "c">>
Back == <<"a", "b", "a">>
Artwork == [r \in Revisions |-> IF r = "a" THEN {"ship", "base"} ELSE {"ship"}]
=============================================================================
