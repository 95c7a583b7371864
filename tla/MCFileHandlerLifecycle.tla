------------------------ MODULE MCFileHandlerLifecycle -----------------------
(* Instances of FileHandlerLifecycle. *)
EXTENDS FileHandlerLifecycle
=============================================================================
