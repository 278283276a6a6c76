---------------------------- MODULE MCAsioServer ----------------------------
(* AsioServer with a client that is replaced by another while chunks,      *)
(* acknowledgements and a message are under way.                           *)
EXTENDS AsioServer
=============================================================================
