---------------------------------- MODULE MCDHT22 ----------------------------------
(***************************************************************************)
(* DHT22 with bytes of two bits and triggers of every order and distance.   *)
(***************************************************************************)
EXTENDS DHT22

\* Humidity 6, temperature -1 and their sum.
MCReplies == {<<0, 1, 1, 0, 1, 0, 0, 1, 1, 0>>}
=====================================================================================
