------------------------------- MODULE HCState -------------------------------
(* The state file of Host Control.  The console's `save` command and the query server's "sa" cell print every     *)
(* savable parameter to default.state, one line each, and the console's `load` command, which its constructor     *)
(* also runs, reads the file back as if each line had been typed.  The console has one thread and the query       *)
(* server another, so that two saves, or a save and a load, may be under way together, while clients set the      *)
(* parameters.                                                                                                    *)
(*                                                                                                                *)
(* Text is a sequence of symbols: a name, a digit or a punctuation mark is one symbol, and the blanks printed     *)
(* around "=" and "<" are left out.  An output stream hands its text to the file Block symbols at a time.         *)
EXTENDS Integers, Sequences, FiniteSets, SequencesExt

CONSTANTS Programs,               \* sets of parameters, each in the order in which the containers list them
          Block,                  \* symbols an output stream buffers
          MaxSets, MaxSaves, MaxLoads, MaxCrashes    \* bounds

IsSequence(s) == s \in Seq(ToSet(s))

\* A parameter is a record: name; kind ("int", "bool", "float", "vec", "string" or "array"); shape ("scalar",
\* "table" or "list"); size, the number of its elements at most; enum and eids, its names for values and for
\* elements; savable; mayfail, whether its get method may fail; dom, the values it is given; init, its first.
Kinds == {"int", "bool", "float", "vec", "string", "array"}
IsValue(p, v) == p.kind \in {"string", "array"} => IsSequence(v)
IsParam(p) ==
    /\ p.kind \in Kinds /\ p.shape \in {"scalar", "table", "list"}
    /\ p.size \in Nat /\ (p.shape = "scalar" => p.size = 1)
    /\ IsSequence(p.init) /\ Len(p.init) <= p.size /\ (p.shape # "list" => Len(p.init) = p.size)
    /\ \A v \in p.dom \cup ToSet(p.init) : IsValue(p, v)

ASSUME ProgramsAssumption == \A program \in Programs : IsSequence(program) /\ \A p \in ToSet(program) : IsParam(p)
ASSUME BlockAssumption == Block \in Nat \ {0}

VARIABLES params,   \* the parameters of this program
          val,      \* val[p]: the elements of parameter p, held by the application's objects
          file,     \* the contents of default.state
          save,     \* save[s]: the progress of saver s
          load,     \* the progress of the console's load
          shown,    \* shown[s]: what saver s has printed since it opened the file (history)
          part,     \* the savers whose text the file may hold (history)
          whole,    \* no crash has cut those saves short (history)
          used      \* steps taken of each bounded kind

vars == <<params, val, file, save, load, shown, part, whole, used>>

Savers == {"console", "net"}
PIds == 1..Len(params)
Quote == "\""
NL == "\n"
Digit == <<"0", "1", "2", "3", "4", "5", "6", "7", "8", "9">>

\* Numbers are printed in decimal; those of the model have at most two digits.
Numeral(n) == IF n < 10 THEN <<Digit[n + 1]>> ELSE <<Digit[n \div 10 + 1], Digit[(n % 10) + 1]>>

\* StringConvert to an integer: the set of the number read, or none.  The empty string converts to zero.
StringConvert(tok) ==
    IF \A i \in DOMAIN tok : tok[i] \in ToSet(Digit)
    THEN {FoldLeft(LAMBDA n, d : 10 * n + (CHOOSE k \in 0..9 : Digit[k + 1] = d), 0, tok)}
    ELSE {}

\* StrTok, repeated: the pieces of a comma separated string, without blanks.
StrTok(a, c) ==
    CASE c = "," -> [done |-> Append(a.done, a.cur), cur |-> <<>>]
      [] c = " " -> a
      [] OTHER   -> [a EXCEPT !.cur = Append(@, c)]
Pieces(tok) ==
    LET cut[n \in 0..Len(tok)] == IF n = 0 THEN [done |-> <<>>, cur |-> <<>>] ELSE StrTok(cut[n - 1], tok[n])
        all == cut[Len(tok)]
    IN  IF all.cur = <<>> THEN all.done ELSE Append(all.done, all.cur)

Named(p, v) == v \in DOMAIN p.enum
NamesOf(p, tok) == {v \in DOMAIN p.enum : tok = <<p.enum[v]>>}

------------------------------------------------------------------------------
(* What each class of parameter prints as its value, and how it reads a value back: as the set of the value to    *)
(* set, which is empty when the class answers with an error.                                                      *)

IntText(p, v) == IF Named(p, v) THEN <<Quote, p.enum[v], Quote>> ELSE Numeral(v)
IntSetStr(p, tok) == {v \in StringConvert(tok) : p.enum = <<>> \/ Named(p, v)}
IntSetStrLit(p, tok) == NamesOf(p, tok)

BoolText(p, v) == IF Named(p, v) THEN <<Quote, p.enum[v], Quote>> ELSE <<IF v = 1 THEN "true" ELSE "false">>
BoolConvert(tok) == {v \in {0, 1} : tok \in {Numeral(v), <<IF v = 1 THEN "true" ELSE "false">>}}
\* A mutant: a lone boolean refuses a value without a name too.
BoolSetStrNamed(p, tok) == {v \in BoolConvert(tok) : p.enum = <<>> \/ Named(p, v)}
BoolSetStr(p, tok) == BoolConvert(tok)
BoolSetStrLit(p, tok) == NamesOf(p, tok)

\* A stream prints six significant digits of a float; here it prints one.
Rounded(v) == IF v < 10 THEN v ELSE 10 * (v \div 10)
FloatText(p, v) == Numeral(Rounded(v))
FloatSetStr(p, tok) == StringConvert(tok)

VecText(p, v) == Numeral(v[1]) \o <<",", " ">> \o Numeral(v[2])
VecSetStr(p, tok) ==
    LET ps == Pieces(tok)
    IN  IF Len(ps) = 2 /\ <<>> \notin ToSet(ps) THEN StringConvert(ps[1]) \X StringConvert(ps[2]) ELSE {}

StringText(p, v) == <<Quote>> \o v \o <<Quote>>
StringSetStr(p, tok) == {tok}

\* An array prints in base 16: a negative element as the digits of its 32 bit pattern, here the symbol "f", which
\* is out of range when it is read.
ArrayText(p, v) ==
    FlattenSeq([i \in DOMAIN v |-> (IF i = 1 THEN <<>> ELSE <<",">>)
                                   \o (IF v[i] < 0 THEN <<"f">> ELSE Numeral(v[i]))])
ArraySetStr(p, tok) ==
    LET ps == Pieces(tok)
    IN  IF \E i \in DOMAIN ps : StringConvert(ps[i]) = {} THEN {}
        ELSE {[i \in DOMAIN ps |-> CHOOSE n \in StringConvert(ps[i]) : TRUE]}

Text(p, v) ==
    CASE p.kind = "int"    -> IntText(p, v)    [] p.kind = "bool"   -> BoolText(p, v)
      [] p.kind = "float"  -> FloatText(p, v)  [] p.kind = "vec"    -> VecText(p, v)
      [] p.kind = "string" -> StringText(p, v) [] p.kind = "array"  -> ArrayText(p, v)

SetStr(p, tok) ==
    CASE p.kind = "int"    -> IntSetStr(p, tok)    [] p.kind = "bool"  -> BoolSetStr(p, tok)
      [] p.kind = "float"  -> FloatSetStr(p, tok)  [] p.kind = "vec"   -> VecSetStr(p, tok)
      [] p.kind = "string" -> StringSetStr(p, tok) [] p.kind = "array" -> ArraySetStr(p, tok)

\* The classes without value names hand a literal to SetStr.
SetStrLit(p, tok) ==
    CASE p.kind = "int" -> IntSetStrLit(p, tok) [] p.kind = "bool" -> BoolSetStrLit(p, tok)
      [] OTHER -> SetStr(p, tok)

\* A table refuses an element past its end; a table of booleans refuses a value without a name, as a table of
\* integers does, though a lone boolean does not.
IntSetStrTbl(p, e, tok) == {v \in SetStr(p, tok) : e < p.size}
BoolSetStrTbl(p, e, tok) == {v \in BoolConvert(tok) : e < p.size /\ (p.enum = <<>> \/ Named(p, v))}
SetStrTbl(p, e, tok) == IF p.kind = "bool" THEN BoolSetStrTbl(p, e, tok) ELSE IntSetStrTbl(p, e, tok)
SetStrLitTbl(p, e, tok) == {v \in SetStrLit(p, tok) : e < p.size}

\* Lists read a value to add as the other classes read one to set.
AddStr(p, tok) == SetStr(p, tok)
AddStrLit(p, tok) == SetStrLit(p, tok)

EIDStrToNum(p, tok) == {e \in DOMAIN p.eids : tok = <<p.eids[e]>>}

\* A mutant: an element too many.
ListAddBeyond(p, l, v) == IF Len(l) > p.size \/ v \in ToSet(l) THEN l ELSE Append(l, v)

\* ListAdd of the scratch server's objects: a full list and a value it holds already are errors.
ListAdd(p, l, v) == IF Len(l) >= p.size \/ v \in ToSet(l) THEN l ELSE Append(l, v)

------------------------------------------------------------------------------
(* PrintConfig: the line of one element. *)

Index(p, e) ==
    IF e \in DOMAIN p.eids THEN <<"[", Quote, p.eids[e], Quote, "]">>
    ELSE <<"[">> \o Numeral(e) \o <<"]">>

ScalarLine(p, v) == <<p.name, "=">> \o Text(p, v) \o <<NL>>
TableLine(p, e, v) == <<p.name>> \o Index(p, e) \o <<"=">> \o Text(p, v) \o <<NL>>
BoolTableLine(p, e, v) == <<p.name>> \o Index(p, e) \o <<"=">> \o BoolText(p, v) \o <<NL>>
ListLine(p, v) == <<p.name, "<">> \o Text(p, v) \o <<NL>>
Line(p, e, v) == CASE p.shape = "scalar" -> ScalarLine(p, v)
                   [] p.shape = "table"  -> IF p.kind = "bool" THEN BoolTableLine(p, e, v) ELSE TableLine(p, e, v)
                   [] p.shape = "list"   -> ListLine(p, v)

TextOf(lines) == FlattenSeq([i \in DOMAIN lines |-> Line(params[lines[i].p], lines[i].e, lines[i].v)])

------------------------------------------------------------------------------
(* The console's commands, as far as the lines of a state file go. *)

\* HCCommand::Tokenize: a quote and the other special characters are tokens of their own, blanks separate tokens
\* outside a literal, and no token is empty.
Special == {Quote, "=", "<", "[", "]"}
Push(toks, tok) == IF tok = <<>> THEN toks ELSE Append(toks, tok)
NextChar(a, c) ==
    IF c = Quote \/ (~a.lit /\ c \in Special)
    THEN [toks |-> Append(Push(a.toks, a.tok), <<c>>), tok |-> <<>>, lit |-> IF c = Quote THEN ~a.lit ELSE a.lit]
    ELSE IF ~a.lit /\ c = " " THEN [a EXCEPT !.toks = Push(@, a.tok), !.tok = <<>>]
    ELSE [a EXCEPT !.tok = Append(@, c)]
Tokenize(line) ==
    LET read[n \in 0..Len(line)] ==
            IF n = 0 THEN [toks |-> <<>>, tok |-> <<>>, lit |-> FALSE] ELSE NextChar(read[n - 1], line[n])
        all == read[Len(line)]
    IN  Push(all.toks, all.tok)

\* A pattern is a sequence of symbols in which "_" stands for any token.
Matches(toks, pattern) ==
    /\ Len(toks) = Len(pattern)
    /\ \A i \in DOMAIN toks : pattern[i] # "_" => toks[i] = <<pattern[i]>>

\* ParamCmdProc for P=N, P="" and P="S": the values set.
SetCmd(p, toks) ==
    CASE Matches(toks, <<"_", "=", "_">>)               -> SetStr(p, toks[3])
      [] Matches(toks, <<"_", "=", Quote, Quote>>)      -> SetStrLit(p, <<>>)
      [] Matches(toks, <<"_", "=", Quote, "_", Quote>>) -> SetStrLit(p, toks[4])
      [] OTHER -> {}

\* ParamCmdProc for P<N, P<"" and P<"S": the values added.
AddCmd(p, toks) ==
    CASE Matches(toks, <<"_", "<", "_">>)               -> AddStr(p, toks[3])
      [] Matches(toks, <<"_", "<", Quote, Quote>>)      -> AddStrLit(p, <<>>)
      [] Matches(toks, <<"_", "<", Quote, "_", Quote>>) -> AddStrLit(p, toks[4])
      [] OTHER -> {}

\* ParamCmdProc for P[I]=N, P[I]="", P[I]="S", P["E"]=N, P["E"]="" and P["E"]="S": the elements and values set.
\* The empty literal goes to SetStrTbl when the element is named.
TableCmd(p, toks) ==
    LET I == <<"_", "[", "_", "]", "=">>
        E == <<"_", "[", Quote, "_", Quote, "]", "=">>
        num(tok)  == UNION {{e} \X SetStrTbl(p, e, tok) : e \in StringConvert(toks[3])}
        lit(tok)  == UNION {{e} \X SetStrLitTbl(p, e, tok) : e \in StringConvert(toks[3])}
        nnum(tok) == UNION {{e} \X SetStrTbl(p, e, tok) : e \in EIDStrToNum(p, toks[4])}
        nlit(tok) == UNION {{e} \X SetStrLitTbl(p, e, tok) : e \in EIDStrToNum(p, toks[4])}
    IN  CASE Matches(toks, I \o <<"_">>)               -> num(toks[6])
          [] Matches(toks, I \o <<Quote, Quote>>)      -> lit(<<>>)
          [] Matches(toks, I \o <<Quote, "_", Quote>>) -> lit(toks[7])
          [] Matches(toks, E \o <<"_">>)               -> nnum(toks[8])
          [] Matches(toks, E \o <<Quote, Quote>>)      -> nnum(<<>>)
          [] Matches(toks, E \o <<Quote, "_", Quote>>) -> nlit(toks[9])
          [] OTHER -> {}

\* The elements of parameter i after the command.  An error is only printed: the parameter keeps what it had.
Result(i, toks, had) ==
    LET p == params[i]
        sets == SetCmd(p, toks)
        adds == AddCmd(p, toks)
        tbl == TableCmd(p, toks)
    IN  CASE p.shape = "scalar" -> IF sets = {} THEN had ELSE <<CHOOSE v \in sets : TRUE>>
          [] p.shape = "list"   -> IF adds = {} THEN had ELSE ListAdd(p, had, CHOOSE v \in adds : TRUE)
          [] p.shape = "table"  -> [k \in DOMAIN had |-> IF \E s \in tbl : s[1] + 1 = k
                                                         THEN (CHOOSE s \in tbl : s[1] + 1 = k)[2] ELSE had[k]]

\* The elements of every parameter after the command on a line.
Execute(vals, toks) ==
    [i \in PIds |-> IF toks # <<>> /\ toks[1] = <<params[i].name>> THEN Result(i, toks, vals[i]) ELSE vals[i]]

------------------------------------------------------------------------------
Default == [i \in PIds |-> params[i].init]
Idle == [pc |-> "idle", p |-> 1, e |-> 0, buf |-> <<>>, off |-> 0]
NoLoad == [pc |-> "idle", off |-> 0, before |-> <<>>, quiet |-> FALSE]

Init ==
    /\ params \in Programs
    /\ val = Default
    /\ file = <<>>
    /\ save = [s \in Savers |-> Idle]
    /\ load = NoLoad
    /\ shown = [s \in Savers |-> <<>>]
    /\ part = {}
    /\ whole = TRUE
    /\ used = [sets |-> 0, saves |-> 0, loads |-> 0, crashes |-> 0]

Spend(kind, max) == used[kind] < max /\ used' = [used EXCEPT ![kind] = @ + 1]
Disturbed == load' = [load EXCEPT !.quiet = FALSE]

\* A client sets a parameter, or adds to a list or subtracts from it: the cell interface takes any value.
SetCell(i, e, v) ==
    /\ Spend("sets", MaxSets)
    /\ val' = [val EXCEPT ![i] = IF params[i].shape = "list" THEN ListAdd(params[i], @, v) ELSE [@ EXCEPT ![e + 1] = v]]
    /\ Disturbed
    /\ UNCHANGED <<file, save, shown, part, whole>>

SubCell(i, v) ==
    /\ params[i].shape = "list"
    /\ Spend("sets", MaxSets)
    /\ \E k \in DOMAIN val[i] :
          /\ val[i][k] = v /\ \A j \in 1..(k - 1) : val[i][j] # v
          /\ val' = [val EXCEPT ![i] = RemoveAt(@, k)]
    /\ Disturbed
    /\ UNCHANGED <<file, save, shown, part, whole>>

\* A mutant: the file opened without emptying it.
OpenedAsIs(f) == f
\* What an opened output stream leaves of the file.
Opened(f) == <<>>

\* SaveCmdProc and ProcessSaveCell open the file, which empties it.  The console does one thing at a time.
SaveOpen(s) ==
    /\ save[s].pc = "idle"
    /\ s = "console" => load.pc # "loading"
    /\ Spend("saves", MaxSaves)
    /\ save' = [save EXCEPT ![s] = [Idle EXCEPT !.pc = "printing"]]
    /\ file' = Opened(file)
    /\ shown' = [shown EXCEPT ![s] = <<>>]
    /\ LET open == {r \in Savers : save[r].pc = "printing"}
       IN  /\ part' = {s} \cup (IF open = {} THEN {} ELSE part)
           /\ whole' = (open = {} \/ whole)
    /\ Disturbed
    /\ UNCHANGED val

\* A mutant: the file opened for appending.
WriteAtEnd(f, off, text) == f \o text

\* An output stream writes at its own offset; what lies between the end of the file and there reads as NUL.
WriteAt(f, off, text) ==
    [i \in 1..(IF off + Len(text) > Len(f) THEN off + Len(text) ELSE Len(f)) |->
        IF i > off /\ i <= off + Len(text) THEN text[i - off]
        ELSE IF i <= Len(f) THEN f[i] ELSE "NUL"]

\* PrintConfig of one element: read it, and print its line unless its get method fails, which ends a list.
PrintElement(s) ==
    LET c == save[s]
        p == params[c.p]
        none == ~p.savable \/ c.e >= Len(val[c.p])
    IN  /\ c.pc = "printing" /\ c.p \in PIds
        /\ \E fails \in (IF p.mayfail THEN BOOLEAN ELSE {FALSE}) :
              LET skip == none \/ fails
                  buf == IF skip THEN c.buf ELSE c.buf \o Line(p, c.e, val[c.p][c.e + 1])
                  out == SubSeq(buf, 1, (Len(buf) \div Block) * Block)
                  last == c.e + 1 >= p.size \/ ~p.savable \/ (skip /\ p.shape = "list")
              IN  /\ save' = [save EXCEPT ![s] = [pc |-> "printing", p |-> IF last THEN c.p + 1 ELSE c.p,
                                                  e |-> IF last THEN 0 ELSE c.e + 1,
                                                  buf |-> SubSeq(buf, Len(out) + 1, Len(buf)),
                                                  off |-> c.off + Len(out)]]
                  /\ file' = IF out = <<>> THEN file ELSE WriteAt(file, c.off, out)
                  /\ shown' = IF skip THEN shown
                              ELSE [shown EXCEPT ![s] = Append(@, [p |-> c.p, e |-> c.e, v |-> val[c.p][c.e + 1]])]
        /\ UNCHANGED <<val, load, part, whole, used>>

SaveClose(s) ==
    /\ save[s].pc = "printing" /\ save[s].p \notin PIds
    /\ file' = IF save[s].buf = <<>> THEN file ELSE WriteAt(file, save[s].off, save[s].buf)
    /\ save' = [save EXCEPT ![s] = Idle]
    /\ UNCHANGED <<val, load, shown, part, whole, used>>

Quiet == \A s \in Savers : save[s].pc = "idle"

\* LoadCmdProc: the `load` command.
LoadOpen ==
    /\ load.pc # "loading" /\ save["console"].pc = "idle"
    /\ Spend("loads", MaxLoads)
    /\ load' = [pc |-> "loading", off |-> 0, before |-> val, quiet |-> Quiet]
    /\ UNCHANGED <<val, file, save, shown, part, whole>>

\* getline, Trim, Tokenize and CmdTokensProc.  The last line need not end with a newline.
LoadLine ==
    LET rest == SubSeq(file, load.off + 1, Len(file))
        ends == {i \in DOMAIN rest : rest[i] = NL}
        len == IF ends = {} THEN Len(rest) ELSE (CHOOSE i \in ends : \A j \in ends : i <= j) - 1
    IN  /\ load.pc = "loading"
        /\ val' = Execute(val, Tokenize(SubSeq(rest, 1, len)))
        /\ load' = [load EXCEPT !.pc = IF ends = {} THEN "done" ELSE "loading", !.off = @ + len + 1]
        /\ UNCHANGED <<file, save, shown, part, whole, used>>

\* The program dies and starts again: text still in the streams is lost, the objects have their first values,
\* and the console's constructor loads the file.
Crash ==
    /\ Spend("crashes", MaxCrashes)
    /\ val' = Default
    /\ save' = [s \in Savers |-> Idle]
    /\ whole' = (whole /\ Quiet)
    /\ load' = [pc |-> "loading", off |-> 0, before |-> Default, quiet |-> TRUE]
    /\ UNCHANGED <<file, shown, part>>

Next ==
    /\ \/ \E i \in PIds : \E v \in params[i].dom :
              \/ params[i].shape # "list" /\ \E e \in 0..(params[i].size - 1) : SetCell(i, e, v)
              \/ params[i].shape = "list" /\ (SetCell(i, 0, v) \/ SubCell(i, v))
       \/ \E s \in Savers : SaveOpen(s) \/ PrintElement(s) \/ SaveClose(s)
       \/ LoadOpen \/ LoadLine \/ Crash
    /\ UNCHANGED params

Spec == Init /\ [][Next]_vars

------------------------------------------------------------------------------
(* What the state file promises. *)

TypeOK ==
    /\ \A i \in PIds : Len(val[i]) <= params[i].size /\ (params[i].shape # "list" => Len(val[i]) = params[i].size)
    /\ \A s \in Savers : save[s].pc \in {"idle", "printing"} /\ save[s].e \in Nat
                         /\ Len(save[s].buf) < Block
    /\ load.pc \in {"idle", "loading", "done"}
    /\ part \subseteq Savers

\* Whether a value survives being printed and read.
Restorable(p, v) ==
    CASE p.kind = "int"    -> p.enum = <<>> \/ Named(p, v)
      [] p.kind = "bool"   -> p.shape = "table" /\ p.enum # <<>> => Named(p, v)
      [] p.kind = "float"  -> TRUE
      [] p.kind = "vec"    -> FALSE
      [] p.kind = "string" -> v = <<Quote>> \/ {Quote, NL} \cap ToSet(v) = {}
      [] p.kind = "array"  -> v # <<>> /\ \A k \in DOMAIN v : v[k] >= 0

\* The elements one expects after a load of these lines.
Expected(before, lines) ==
    LET put(vals, l) ==
            LET p == params[l.p]
                v == IF p.kind = "float" THEN Rounded(l.v) ELSE l.v
            IN  IF ~Restorable(p, l.v) THEN vals
                ELSE IF p.shape = "list" THEN [vals EXCEPT ![l.p] = ListAdd(p, @, v)]
                ELSE [vals EXCEPT ![l.p][l.e + 1] = v]
    IN  FoldLeft(put, before, lines)

Agree == \A s, r \in part : shown[s] = shown[r]
Shown == IF part = {} THEN <<>> ELSE shown[CHOOSE s \in part : TRUE]

\* Saves that overlap and print the same values leave the whole state in the file, although each empties it and
\* writes at its own offset.
OverlappingSavesAgree == Quiet /\ whole /\ Agree => file = TextOf(Shown)

\* The text of a string is printed as it is.  One that holds a newline makes lines of its own, each of which is a
\* command to a load: what these set is the string itself and the parameters it names.
Strays(lines) ==
    LET broken == {l \in ToSet(lines) : params[l.p].kind = "string" /\ NL \in ToSet(l.v)}
    IN  {i \in PIds : \E l \in broken : i = l.p \/ params[i].name \in ToSet(l.v)}

\* A load of a finished save, with nothing else going on, gives every element the value that was saved, except
\* those whose text cannot be read back, which keep the one they had; and a string that holds a newline spoils no
\* parameter but itself and those it names.
Restored ==
    load.pc = "done" /\ load.quiet /\ whole /\ Agree =>
        LET want == Expected(load.before, Shown) IN \A i \in PIds \ Strays(Shown) : val[i] = want[i]

\* A save cut short by a crash leaves the first lines of the state: a load restores those, and of the others
\* disturbs at most the one element whose line was cut, and what a string with a newline spoils.
Full(lines) == CHOOSE k \in 0..Len(lines) :
                   /\ Len(TextOf(SubSeq(lines, 1, k))) <= Len(file)
                   /\ k < Len(lines) => Len(TextOf(SubSeq(lines, 1, k + 1))) > Len(file)
CrashTearsOneLine ==
    load.pc = "done" /\ load.quiet /\ ~whole /\ Cardinality(part) = 1 =>
        LET k == Full(Shown)
            want == Expected(load.before, SubSeq(Shown, 1, k))
        IN  \A i \in PIds \ Strays(Shown) :
                IF k < Len(Shown) /\ Shown[k + 1].p = i /\ params[i].shape = "list"
                THEN IsPrefix(want[i], val[i])
                ELSE \A j \in DOMAIN val[i] \cup DOMAIN want[i] :
                         (k < Len(Shown) => Shown[k + 1].p # i \/ Shown[k + 1].e + 1 # j) => val[i][j] = want[i][j]
==============================================================================
