------------------------------- MODULE MCOAuth -------------------------------
(* Model-checking instance of OAuthClient: two client objects of different  *)
(* processes, with one port to listen on between them.                      *)
EXTENDS OAuthClient

CONSTANTS c1, c2

TwoClients == {c1, c2}
OneClient  == {c1}
=============================================================================
