---------------------------- MODULE MCHCServer -----------------------------
(* Small instances of HCServer.                                            *)
EXTENDS HCServer

CONSTANTS call, calltable, value, text, table, list, file, log

T_STR == 2
T_U32 == 18

Kind(k, t, g, s, ws) == [kind |-> k, type |-> t, get |-> g, set |-> s, widths |-> ws]

\* One parameter of each class; text is a string that may be too long for a
\* cell, list cannot be read, log is a file that can only be written.
Description ==
  [p \in {call, calltable, value, text, table, list, file, log} |->
     IF p = call THEN Kind("call", 0, FALSE, TRUE, {})
     ELSE IF p = calltable THEN Kind("calltable", 0, FALSE, TRUE, {})
     ELSE IF p = value THEN Kind("value", T_U32, TRUE, TRUE, {4})
     ELSE IF p = text THEN Kind("value", T_STR, TRUE, FALSE, {1, CellMax - 4, CellMax})
     ELSE IF p = table THEN Kind("table", T_U32, TRUE, TRUE, {4})
     ELSE IF p = list THEN Kind("list", T_U32, FALSE, TRUE, {4})
     ELSE IF p = file THEN Kind("file", T_FILE, TRUE, FALSE, {})
     ELSE Kind("file", T_FILE, FALSE, TRUE, {})]

U16(v) == F(2, v)
U32(v) == F(4, v)
Cell(op, fields, type) == [op |-> op, fields |-> fields, type |-> type]

\* A table with n parameters has the PIDs below n.
Calls(pids) == {Cell("Call", <<U16(i)>>, 0) : i \in pids}
ICalls(pids) == {Cell("ICall", <<U16(i), U32(1)>>, 0) : i \in pids}
Gets(pids, t) == {Cell("Get", <<U16(i)>>, t) : i \in pids}
IGets(pids, t) == {Cell("IGet", <<U16(i), U32(1)>>, t) : i \in pids}
Sets(op, pids, t) == {Cell(op, <<U16(i), U8(t), U32(5)>>, t) : i \in pids}
ISets(pids, t) == {Cell("ISet", <<U16(i), U32(1), U8(t), U32(5)>>, t) : i \in pids}
Reads(pids) == {Cell("Read", <<U16(i), U32(0), U16(n)>>, T_FILE) : i \in pids, n \in {1, CellMax}}
Writes1(pids) == {Cell("Write", <<U16(i), U32(0), F(5, 3)>>, T_FILE) : i \in pids}
Strange == {Cell("Status", <<U16(0)>>, 0), Cell("Call", <<>>, 0),
            Cell("IGet", <<U16(0)>>, T_U32), Cell("Read", <<U16(0)>>, 0),
            Cell("Set", <<U16(0), U8(T_U32)>>, T_U32)}

Alone(cells) == {<<c>> : c \in cells}
Pairs(cells) == {<<c, d>> : c \in cells, d \in cells}

\* What a client with the server's information file sends: commands that fit
\* the parameter they address, calls and reads of a PID beyond the table.
Sensible ==
  Calls(0..2) \cup ICalls(0..2) \cup Reads(0..2) \cup Writes1(0..2) \cup Strange
    \cup Gets(0..1, T_U32) \cup IGets(0..1, T_U32) \cup ISets(0..1, T_U32)
    \cup Sets("Set", 0..1, T_U32) \cup Sets("Add", 0..1, T_U32) \cup Sets("Sub", 0..1, T_U32)

\* Cells of different length and fate.
Mixed ==
  Calls({0, 2}) \cup Gets({0}, T_U32) \cup IGets({0}, T_U32) \cup Sets("Set", {0}, T_U32)
    \cup Reads({0}) \cup {Cell("Status", <<U16(0)>>, 0), Cell("Call", <<>>, 0)}

MethodResults == {0, -10}

Scenario(P, n, messages, m) == [params |-> P, adds |-> n, messages |-> messages, receives |-> m]

\* Any table and one cell, or a table of one and two messages of two cells.
AnyTable == Scenario(Params, 3, Alone(Sensible), 1)
TwoMessages == Scenario({call, value, file}, 1, Pairs(Mixed), 2)
Usual == <<AnyTable, TwoMessages>>

UnknownPIDOrType ==
  <<Scenario({value}, 1, Alone(Sets("Set", {1}, T_U32) \cup Sets("Set", {0}, T_STR)), 1)>>

\* More small commands than fit in one reply.
Burst == <<Scenario({call}, 1, {<<c, c, c, c>> : c \in Calls({0})}, 1)>>
NoMethodErrors == {0}
=============================================================================
