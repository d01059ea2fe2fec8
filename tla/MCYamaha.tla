------------------------------ MODULE MCYamaha ------------------------------
(* Model-checking instance of YamahaListener: two listener threads.         *)
EXTENDS YamahaListener

CONSTANTS Playing, Idle
=============================================================================
