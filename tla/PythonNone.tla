-------------------------------- MODULE PythonNone --------------------------------
(* What Python calls None: a value that is missing. *)
CONSTANT None
===================================================================================
