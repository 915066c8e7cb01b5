----------------------------- MODULE MCTCPDevice -----------------------------
(* An instance of TCPDevice: messages with bytes to escape, one of them longer than the room for it. *)
EXTENDS TCPDevice

SomeBytes == {END, ESC, ESC_END, ESC_ESC, "x", "y", "z"}
SomeFrames == {<<END, "x">>, <<ESC>>, <<"x", "y", ESC, "z", "x">>}
==============================================================================
