------------------------ MODULE MCConfigurationBroker ------------------------
(* One configuration, a parameter of a board in use and one of a board which is not.  *)
(* Physical values 1 .. 4 are stored as 0, 10, 20, 30, of which 10 and 20 are legal.   *)
(* The equations of the one in use name another parameter.                            *)
EXTENDS ConfigurationBroker

Line(command, configuration, parameter, value) ==
  [command |-> command, configuration |-> configuration, parameter |-> parameter,
   value |-> value]

Writes == {Line(command, "c", p, v) : command \in {"INSERT", "UPDATE"}, p \in {"p"}, v \in {1, 3}}
          \union {Line("UPDATE", "c", "p", 2), Line("INSERT", "c", "p", 4)}
Others ==
  {Line(command, "c", "gone", 3) : command \in {"INSERT", "UPDATE"}}
  \union {Line("DELETE", "c", p, 1) : p \in {"p", "gone"}}
  \union {Line("SELECT", "c", p, 1) : p \in {"p", "*"}}
  \union {Line("SELECT VERSIONS", "*", "p", 1)}
  \union {Line(command, "d", "*", 1) : command \in {"INSERT CONFIGURATION", "SELECT CONFIGURATIONS"}}
  \union {Line(command, "*", "*", 1) : command \in {"garbled", "blank"}}
Lines == Writes \union Others

\* All requests of up to two lines, and some of three that write twice.
McRequests ==
  {<<>>} \union {<<l>> : l \in Lines} \union {<<k, l>> : k, l \in Lines}
         \union {<<Line("INSERT", "c", "p", 3), l, m>> :
                   l \in {k \in Others : k.configuration # "d"}, m \in {k \in Writes : k.value > 2}}

LegacyRows == {[configuration |-> "c", parameter |-> "gone", value |-> 10]}
ToElectronic == [v \in 1 .. 4 |-> 10 * (v - 1)]
NamesOther == [p \in {"p", "other"} |-> IF p = "p" THEN {"other"} ELSE {}]
ToPhysical == [e \in 10 .. 20 |-> (e \div 10) + 1]
==============================================================================
