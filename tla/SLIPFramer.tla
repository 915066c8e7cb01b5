----------------------------- MODULE SLIPFramer -----------------------------
(***************************************************************************)
(* Framing of messages on a stream of bytes (lib/common/slipframer.cc): an *)
(* END before and after every frame, and two bytes for an END or an ESC    *)
(* within.  A frame and a stream are sequences of bytes, of which those    *)
(* with a meaning to the framer have names.                                *)
(***************************************************************************)
EXTENDS Naturals, SequencesExt

CONSTANTS
  Bytes,   \* what a byte may be
  MaxLen   \* the room in the buffer a frame is read to

END == "END"
ESC == "ESC"
ESC_END == "ESC_END"
ESC_ESC == "ESC_ESC"

ASSUME BytesAssumption == {END, ESC, ESC_END, ESC_ESC} \subseteq Bytes
ASSUME RoomAssumption == MaxLen \in Nat \ {0}

\* A mutant: the byte for the escape is not escaped itself.
StuffedEndOnly(ch) == IF ch = END THEN <<ESC, ESC_END>> ELSE <<ch>>

Stuffed(ch) ==
    CASE ch = END -> <<ESC, ESC_END>>
      [] ch = ESC -> <<ESC, ESC_ESC>>
      [] OTHER -> <<ch>>

\* The bytes for the first n of a frame.
Stuffing(frame) ==
    LET stuffing[n \in 0..Len(frame)] == IF n = 0 THEN <<>> ELSE stuffing[n - 1] \o Stuffed(frame[n])
    IN  stuffing

\* A mutant: a frame ends with END but does not begin with it.
EncodeEnded(frame) == Stuffing(frame)[Len(frame)] \o <<END>>

\* What Write gives to the device below.
Encode(frame) == <<END>> \o Stuffing(frame)[Len(frame)] \o <<END>>

\* What Read has of a frame: its mode and what it has buffered.
Empty == [escape |-> FALSE, buf |-> <<>>]
Buffered(s, ch) == [escape |-> FALSE, buf |-> Append(s.buf, ch)]

\* A mutant: one byte too many is buffered.
DecodeOneMore(s, ch) ==
    CASE ~s.escape /\ ch = END -> s
      [] ~s.escape /\ ch = ESC -> [s EXCEPT !.escape = TRUE]
      [] ~s.escape /\ ch \notin {END, ESC} -> IF Len(s.buf) > MaxLen THEN Empty ELSE Buffered(s, ch)
      [] s.escape -> CASE ch = ESC_END -> Buffered(s, END) [] ch = ESC_ESC -> Buffered(s, ESC) [] OTHER -> Empty

\* The state after byte ch, unless it ends a frame.  Without room, or after an escape of nothing, Read starts again,
\* in the middle of the frame.
Decode(s, ch) ==
    CASE ~s.escape /\ ch = END -> s
      [] ~s.escape /\ ch = ESC -> [s EXCEPT !.escape = TRUE]
      [] ~s.escape /\ ch \notin {END, ESC} -> IF Len(s.buf) >= MaxLen THEN Empty ELSE Buffered(s, ch)
      [] s.escape -> CASE Len(s.buf) >= MaxLen -> Empty
                       [] Len(s.buf) < MaxLen /\ ch = ESC_END -> Buffered(s, END)
                       [] Len(s.buf) < MaxLen /\ ch = ESC_ESC -> Buffered(s, ESC)
                       [] OTHER -> Empty

EndsFrame(s, ch) == ~s.escape /\ ch = END /\ s.buf # <<>>
==============================================================================
