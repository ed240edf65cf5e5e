-------------------------- MODULE MCPublicSettings --------------------------
(* An instance of PublicSettings for TLC.                                   *)
EXTENDS PublicSettings

Asks(token, password) == [s \in Secret |-> IF s = "token" THEN token ELSE password]

\* Both replaced, one generated, one deleted, settings only.
Requests == {Asks("update", "update"), Asks("keep", "update"), Asks("keep", "delete"), Asks("keep", "keep")}
=============================================================================
