--------------------------- MODULE MCOAuthProvider ---------------------------
(* One operation, with its context ended at any moment: operations share    *)
(* nothing but immutable configuration, so one shows what each of them does. *)
EXTENDS OAuthProvider
=============================================================================
