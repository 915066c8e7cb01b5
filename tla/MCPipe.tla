-------------------------------- MODULE MCPipe --------------------------------
(* A small instance of Pipe.                                               *)
EXTENDS Pipe

CONSTANTS r1, w1, a, b

\* Writes that leave room for another, and one that fills the pipe.
Writes == {<<a>>, <<b, a>>, <<a, b, b>>}
=============================================================================
