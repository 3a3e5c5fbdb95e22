----------------------------- MODULE MCRegisterIO -----------------------------
(* A board with two registers of two bits: r1 holds the fields f and g (g needs
   the stored value of f in both equations), r2 is the full-width parameter
   "wide", whose first bit the electronics change by themselves and show as the
   read-only parameter "status". *)
EXTENDS RegisterIO

CONSTANTS s1, s2, r1, r2, b0, b1, nobit

MCParam == {"f", "g", "status", "wide"}
MCName == MCParam \cup {"unknown"}
MCAddress == {r1, r2}
MCBit == {b0, b1}
\* Not a word: it has a bit that no word has.
MCNone == {nobit}
MCaddr == [p \in MCParam |-> IF p \in {"f", "g"} THEN r1 ELSE r2]
MCfield == [f |-> {b0}, g |-> {b1}, status |-> {b0}, wide |-> MCBit]
MCraws == [f |-> {{}, {b0}}, g |-> {{}, {b1}}, status |-> {{}, {b0}}, wide |-> {{}, {b0}, {b1}}]
MCvars == [f |-> {}, g |-> {"f"}, status |-> {}, wide |-> {}]
MCVolatile == [a \in MCAddress |-> IF a = r2 THEN {b0} ELSE {}]

Cmd(p, o, r) == [param |-> p, op |-> o, raw |-> r]

\* Legal and illegal commands, alone and in requests of two lines: two fields of
\* one register, a field named twice, reads and writes mixed, a missing input of
\* an equation, a value out of range.
RequestCommands ==
  {Cmd("f", "READ", {}), Cmd("f", "WRITE", {b0}), Cmd("f", "WRITE", {}),
   Cmd("g", "READ", {}), Cmd("g", "WRITE", {b1}),
   Cmd("status", "READ", {}), Cmd("wide", "WRITE", {b1}), Cmd("wide", "WRITE", MCBit),
   Cmd("unknown", "READ", {})}

\* Single commands of two services that share the board: s1 writes f and "wide",
\* s2 the field next to f, "wide", and a parameter that cannot be written.
SharedCommands ==
  [s \in {s1, s2} |->
     IF s = s1
     THEN {Cmd("f", "WRITE", {b0}), Cmd("wide", "WRITE", {b1})}
     ELSE {Cmd("g", "WRITE_ELECTRONIC", {b1}), Cmd("wide", "WRITE", {}),
           Cmd("status", "WRITE", {b0})}]

MCService == {s1, s2}
MCCommands == RequestCommands \cup SharedCommands[s1] \cup SharedCommands[s2]

VARIABLE mode   \* "lines": requests of one or two lines to s1 alone;
                \* "shared": requests of one line to both services

mcVars == <<vars, mode>>

MCInit == Init /\ mode \in {"lines", "shared"}

MCBuild ==
  \/ /\ mode = "lines"
     /\ \E n \in 1 .. MaxCommands : \E req \in [1 .. n -> RequestCommands] : Build(s1, req)
  \/ /\ mode = "shared"
     /\ \E s \in Service : \E c \in SharedCommands[s] : Build(s, <<c>>)

MCNext ==
  /\ UNCHANGED mode
  /\ \/ MCBuild
     \/ \E s \in Service : \/ ExecuteSequence(s)
                           \/ FailSequence(s)
                           \/ UnpackResponse(s)
                           \/ ReportFailure(s)
     \/ \E a \in Address : ElectronicsChange(a)

MCSpec == MCInit /\ [][MCNext]_mcVars
=============================================================================
