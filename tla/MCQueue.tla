------------------------------- MODULE MCQueue -------------------------------
(* A small instance of Queue: the threads are model values.                *)
EXTENDS Queue

CONSTANTS r1, w1, w2
=============================================================================
