-------------------------- MODULE ConfigurationStore --------------------------
(* What CONFIGURATION_DB_BROKER promises: a request of several lines changes the   *)
(* tables of configurations by all of its lines or not at all, and its answer says  *)
(* which, and shows what its SELECT lines found on the way.  The tables, and what a  *)
(* line means to them, belong to the database, which is not part of this program.    *)
EXTENDS Sequences, SequencesExt

CONSTANTS
  Requests,              \* the requests considered: sequences of lines
  Legacy,                \* rows that were there before
  calculateElectronic,   \* the equations of the parameters, as functions
  calculatePhysical

VARIABLES
  tables,    \* [configurations, rows, archive]: the archive keeps every committed row
  phase,     \* "idle", "asked", "changed"
  request,   \* the lines asked for
  answer     \* the last answer

storeVars == <<tables, phase, request, answer>>

InitialTables ==
  [configurations |-> {row.configuration : row \in Legacy}, rows |-> Legacy, archive |-> Legacy]
NoAnswer == [kind |-> "none", shown |-> <<>>]
Refusal == [kind |-> "error", shown |-> <<>>]
-------------------------------------------------------------------------------
(* SQL *)

Row(line, value) ==
  [configuration |-> line.configuration, parameter |-> line.parameter, value |-> value]

Matches(line, row) ==
  /\ line.configuration \in {row.configuration, "*"}
  /\ line.parameter \in {row.parameter, "*"}

\* The rows a SELECT reads: those of the transaction, or all there ever were.
Selected(line, t) ==
  {row \in IF line.command = "SELECT VERSIONS" THEN t.archive ELSE t.rows : Matches(line, row)}

\* What the line does to the tables, when the database accepts it.
Effect(line, t) ==
  CASE line.command = "INSERT" -> [t EXCEPT !.rows = @ \union {Row(line, line.value)}]
    [] line.command = "UPDATE" ->
         [t EXCEPT !.rows = {IF Matches(line, row) THEN Row(row, line.value) ELSE row : row \in @}]
    [] line.command = "DELETE" -> [t EXCEPT !.rows = {row \in @ : ~Matches(line, row)}]
    [] line.command = "INSERT CONFIGURATION" ->
         [t EXCEPT !.configurations = @ \union {line.configuration}]
    [] OTHER -> t

\* Keys are unique.
Accepts(line, t) ==
  /\ line.command = "INSERT" => \A row \in t.rows : ~Matches(line, row)
  /\ line.command = "INSERT CONFIGURATION" => line.configuration \notin t.configurations

Committed(t) == [t EXCEPT !.archive = @ \union t.rows]

\* What a SELECT shows, with values in physical units.
Shown(line, t) ==
  CASE line.command \in {"SELECT", "SELECT VERSIONS"} ->
         <<{Row(row, calculatePhysical[row.value]) : row \in Selected(line, t)}>>
    [] line.command = "SELECT CONFIGURATIONS" -> <<t.configurations>>
    [] OTHER -> <<>>
-------------------------------------------------------------------------------
\* A value is given in physical units and stored in electronic ones.
Query(line) ==
  IF line.command \in {"INSERT", "UPDATE"}
    THEN [line EXCEPT !.value = calculateElectronic[@]] ELSE line

\* A request as a whole: the tables after it, and all it shows.
Outcome(lines, t) ==
  FoldLeft(LAMBDA done, line : [tables |-> Effect(Query(line), done.tables),
                                shown |-> done.shown \o Shown(line, done.tables)],
           [tables |-> t, shown |-> <<>>], lines)

Init ==
  /\ tables = InitialTables
  /\ phase = "idle" /\ request = <<>> /\ answer = NoAnswer

Ask ==
  /\ phase = "idle"
  /\ phase' = "asked" /\ request' \in Requests /\ answer' = NoAnswer
  /\ UNCHANGED tables

\* All the lines take effect at once.
Change ==
  /\ phase = "asked" /\ phase' = "changed"
  /\ tables' = Committed(Outcome(request, tables).tables)
  /\ answer' = [kind |-> "success", shown |-> Outcome(request, tables).shown]
  /\ UNCHANGED request

\* The success is told.
Tell ==
  /\ phase = "changed"
  /\ phase' = "idle" /\ request' = <<>>
  /\ UNCHANGED <<tables, answer>>

Refuse ==
  /\ phase = "asked"
  /\ phase' = "idle" /\ request' = <<>> /\ answer' = Refusal
  /\ UNCHANGED tables

\* The program ends, whatever it is doing, and starts anew.
Restart ==
  /\ phase' = "idle" /\ request' = <<>> /\ answer' = NoAnswer
  /\ UNCHANGED tables

Next == Ask \/ Change \/ Tell \/ Refuse \/ Restart

Spec == Init /\ [][Next]_storeVars
===============================================================================
