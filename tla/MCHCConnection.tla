-------------------------- MODULE MCHCConnection ---------------------------
(* A small instance of HCConnection.                                       *)
EXTENDS HCConnection

CONSTANTS brief, full, long

Letters == {"a", "b", "c", "d", "e", "f", "g"}

\* Files of less than a chunk of two, of two chunks, and of two and a half;
\* full and long begin alike.
Files == [v \in {brief, full, long} |->
            IF v = brief THEN <<"a">>
            ELSE IF v = full THEN <<"a", "b", "c", "d">>
            ELSE <<"a", "b", "e", "f", "g">>]
=============================================================================
