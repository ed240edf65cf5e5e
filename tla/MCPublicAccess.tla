--------------------------- MODULE MCPublicAccess ---------------------------
(* Two runtimes at most; a reconfiguration generates a new password, or      *)
(* replaces the token and deletes the password.                              *)
EXTENDS PublicAccess

NewPassword == [s \in Secret |-> IF s = "password" THEN "replace" ELSE "keep"]
NewToken == [s \in Secret |-> IF s = "password" THEN "delete" ELSE "replace"]
BothMutations == {NewPassword, NewToken}
=============================================================================
