------------------------------- MODULE FitData --------------------------------
(* What the program reads from its database when it starts: the registers of the  *)
(* two types of boards, the environment variables with their equations, the       *)
(* histograms and the devices.  Anything missing ends the program.  Then the life *)
(* of the environment: BoardStatus of the TCM lets it follow the clock in use.    *)
EXTENDS Electronic, FiniteSets

CONSTANTS
  Databases,   \* the contents it may find: [tcm, pm, environment, histograms, devices]
  Required,    \* the variables checkEnvironment looks for
  MaxSwitches  \* bound: changes of the clock

(* Rows of the tables. A value that may be NULL is a sequence of none or one; the  *)
(* sum of a constant and variables stands for any equation.                        *)
ParameterRows ==
  [name : STRING, base : Nat, first : Nat, last : Nat, size : Nat, min : Seq(Int), max : Seq(Int),
   signed : BOOLEAN, fifo : BOOLEAN, readOnly : BOOLEAN, refresh : Seq(STRING)]
EnvironmentRows == [name : STRING, variables : Seq(STRING), constant : Int]
HistogramRows == [name : STRING, base : Nat, size : Nat, start : Int, negative : BOOLEAN]
DeviceRows ==
  [name : STRING, type : {"TCM", "PM"}, side : {"A", "C"}, digit : 0 .. 9, connected : BOOLEAN]

SYSTEM_CLOCK == "SYSTEM_CLOCK"
Clocks == {"LHC_CLOCK", "INTERNAL_CLOCK"}
Derived == <<"TDC", "BC_INTERVAL">>

ASSUME FitDataAssumption ==
  /\ Clocks \cup {SYSTEM_CLOCK, "TDC"} \subseteq Required
  /\ MaxSwitches \in Nat
  /\ \A d \in Databases :
       /\ d.tcm \in Seq(ParameterRows) /\ d.pm \in Seq(ParameterRows)
       /\ d.environment \in Seq(EnvironmentRows)
       /\ d.histograms \in Seq(HistogramRows) /\ d.devices \in Seq(DeviceRows)

VARIABLES
  db,          \* the database
  garbage,     \* what an uninitialised value happens to be
  fetch,       \* the next step of the constructor, then "ready" or "exit"
  templates,   \* m_templateBoards: [type -> [name -> parameter]]
  environment, \* m_environmentalVariables: [name -> [value, variables, constant]]
  histograms,  \* m_PmHistograms: [name -> [neg, pos]], each of none or one
  boards,      \* m_boards: [name -> board]
  update,      \* BoardStatus of the TCM: how many of Derived it has still to update
  clock,       \* electronics: the clock in use
  switches

fetched == <<templates, histograms, boards>>
fitDataVars == <<db, garbage, fetch, fetched, environment, update, clock, switches>>

NoEntries == [n \in {} |-> 0]

InitFitData ==
  /\ db \in Databases /\ garbage \in {0, 77}
  /\ fetch = "TCM"
  /\ templates = NoEntries /\ environment = NoEntries /\ histograms = NoEntries
  /\ boards = NoEntries
  /\ update = 0 /\ clock \in Clocks /\ switches = 0

\* emplace: the first entry of a name stays.
FirstOf(rows, n) == rows[CHOOSE i \in DOMAIN rows :
  rows[i].name = n /\ \A k \in DOMAIN rows : rows[k].name = n => i <= k]
NamesOf(rows) == {rows[i].name : i \in DOMAIN rows}
With(entries, n, entry) ==
  [x \in DOMAIN entries \cup {n} |-> IF x \in DOMAIN entries THEN entries[x] ELSE entry]

Exit == fetch' = "exit"
Fetch(next) == fetch' = next
-------------------------------------------------------------------------------
(* Registers *)

\* Row: the column that tells of a FIFO is never looked at.
ParametersRow(row) == [row EXCEPT !.fifo = row.readOnly]

\* Column: a value that is NULL has a default.
parse(cell, default) == IF cell = <<>> THEN default ELSE cell[1]

\* Limits that are NULL are those of the field.
DefaultMin(signed, bits) == IF signed THEN -(2 ^ (bits - 1)) ELSE 0
\* Mutant: one value more than the field has.
DefaultMax_OneMore(signed, bits) == IF signed THEN 2 ^ (bits - 1) - 1 ELSE 2 ^ bits

DefaultMax(signed, bits) == IF signed THEN 2 ^ (bits - 1) - 1 ELSE 2 ^ bits - 1

parseParameter(columns) ==
  LET row == ParametersRow(columns)
      bits == row.last - row.first + 1
  IN
  [name |-> row.name, baseAddress |-> row.base, startBit |-> row.first, bitLength |-> bits,
   regBlockSize |-> row.size, signed |-> row.signed,
   minValue |-> parse(row.min, DefaultMin(row.signed, bits)),
   maxValue |-> parse(row.max, DefaultMax(row.signed, bits)),
   isFifo |-> row.fifo, isReadonly |-> row.readOnly, sync |-> row.refresh # <<>>]

parseTemplateBoard(rows) == [n \in NamesOf(rows) |-> parseParameter(FirstOf(rows, n))]

fetchBoardParameters(type, rows, next) ==
  /\ fetch = type
  /\ IF rows = <<>> THEN Exit /\ UNCHANGED templates
     ELSE templates' = With(templates, type, parseTemplateBoard(rows)) /\ Fetch(next)
  /\ UNCHANGED <<db, garbage, environment, histograms, boards, update, clock, switches>>

\* The database cannot be reached.
NoDatabase ==
  /\ fetch = "TCM" /\ Exit
  /\ UNCHANGED <<db, garbage, fetched, environment, update, clock, switches>>
-------------------------------------------------------------------------------
(* Environment *)

\* updateVariable; it throws if an operand does not exist.
Computable(env, n) == \A i \in DOMAIN env[n].variables : env[n].variables[i] \in DOMAIN env
calculate(env, n) ==
  LET sum[i \in 0 .. Len(env[n].variables)] ==
        IF i = 0 THEN env[n].constant ELSE sum[i - 1] + env[env[n].variables[i]].value
  IN  sum[Len(env[n].variables)]
updateVariable(env, n) == [env EXCEPT ![n].value = calculate(env, n)]

\* Mutant: constants are computed with the others, in the order of the rows.
Entered_Empty(rows) == [n \in NamesOf(rows) |->
  LET row == FirstOf(rows, n) IN
  [value |-> garbage,
   variables |-> row.variables, constant |-> row.constant]]

\* parseEnvVariables.  First all variables are entered, and the constants computed; then all
\* are computed in the order of the rows, from whatever their operands are at that time.
Entered(rows) == [n \in NamesOf(rows) |->
  LET row == FirstOf(rows, n) IN
  [value |-> IF row.variables = <<>> THEN row.constant ELSE garbage,
   variables |-> row.variables, constant |-> row.constant]]

Computed(rows, i) ==
  LET env[k \in 0 .. i] == IF k = 0 THEN Entered(rows) ELSE updateVariable(env[k - 1], rows[k].name)
  IN  env[i]

fetchEnvironment ==
  /\ fetch = "environment"
  /\ LET rows == db.environment IN
     IF (\A n \in NamesOf(rows) : Computable(Entered(rows), n)) /\ Required \subseteq NamesOf(rows)
     THEN /\ environment' = With(Computed(rows, Len(rows)), "RESET_SYSTEM",
                                 [value |-> garbage, variables |-> <<>>, constant |-> 0])
          /\ Fetch("histograms")
     ELSE Exit /\ UNCHANGED environment
  /\ UNCHANGED <<db, garbage, fetched, update, clock, switches>>
-------------------------------------------------------------------------------
(* Histograms and devices *)

\* Each histogram has two blocks of bins, told apart by their first bin.  The last row of a
\* kind stays.
LastOf(rows, n, negative) ==
  LET of == {i \in DOMAIN rows : rows[i].name = n /\ (rows[i].start < 0) = negative} IN
  IF of = {} THEN <<>> ELSE <<rows[CHOOSE i \in of : \A k \in of : k <= i]>>

fetchPmHistogramStructure ==
  /\ fetch = "histograms"
  /\ histograms' = [n \in NamesOf(db.histograms) |->
       [neg |-> LastOf(db.histograms, n, TRUE), pos |-> LastOf(db.histograms, n, FALSE)]]
  /\ IF \A n \in DOMAIN histograms' : histograms'[n].neg # <<>> /\ histograms'[n].pos # <<>>
     THEN Fetch("devices") ELSE Exit
  /\ UNCHANGED <<db, garbage, templates, environment, boards, update, clock, switches>>

AddressSpaceSizePM == 512
\* Mutant: side C begins after nine boards of side A.
BaseAddress_Close(side) == IF side = "A" THEN 512 ELSE 5120

BaseAddress(side) == IF side = "A" THEN 512 ELSE 5632
AddressOf(device) ==
  IF device.type = "TCM" THEN 0
  ELSE device.digit * AddressSpaceSizePM + BaseAddress(device.side)

\* The parameters of the template, at addresses of the board.
constructBoardFromTemplate(device) ==
  [address |-> AddressOf(device), connected |-> device.connected,
   side |-> device.side, digit |-> device.digit, type |-> device.type,
   parameters |-> [n \in DOMAIN templates[device.type] |->
     [templates[device.type][n] EXCEPT !.baseAddress = @ + AddressOf(device)]]]

\* TCMs are registered before PMs, each in the order of the rows.
DeviceOf(rows, n) == rows[CHOOSE i \in DOMAIN rows : rows[i].name = n /\ \A k \in DOMAIN rows :
  rows[k].name = n => IF rows[k].type = rows[i].type THEN i <= k ELSE rows[i].type = "TCM"]

\* Every device becomes a board and a variable, which nobody computes.
fetchConnectedDevices ==
  /\ fetch = "devices"
  /\ LET rows == db.devices IN
     IF \E i \in DOMAIN rows : rows[i].type = "TCM"
     THEN /\ boards' = [n \in NamesOf(rows) |-> constructBoardFromTemplate(DeviceOf(rows, n))]
          /\ environment' = [n \in DOMAIN environment \cup NamesOf(rows) |->
               IF n \in DOMAIN environment THEN environment[n]
               ELSE [value |-> garbage, variables |-> <<>>,
                     constant |-> IF DeviceOf(rows, n).connected \/ DeviceOf(rows, n).type = "TCM"
                                  THEN 1 ELSE 0]]
          /\ Fetch("ready")
     ELSE Exit /\ UNCHANGED <<boards, environment>>
  /\ UNCHANGED <<db, garbage, templates, histograms, update, clock, switches>>
-------------------------------------------------------------------------------
(* The environment follows the clock *)

\* The electronics change to the other clock.
SwitchClock ==
  /\ fetch = "ready" /\ switches < MaxSwitches
  /\ switches' = switches + 1
  /\ clock' \in Clocks \ {clock}
  /\ UNCHANGED <<db, garbage, fetch, fetched, environment, update>>

\* updateEnvironment, in every cycle of BoardStatus of the TCM.  It is one of many threads
\* that use the environment: each statement is a step.
SetSystemClock ==
  /\ fetch = "ready" /\ update = 0
  /\ environment' = [environment EXCEPT ![SYSTEM_CLOCK].value = environment[clock].value]
  /\ update' = Len(Derived)
  /\ UNCHANGED <<db, garbage, fetch, fetched, clock, switches>>

\* at() throws for a variable that does not exist, which ends the cycle.
UpdateDerived ==
  /\ update > 0
  /\ LET n == Derived[Len(Derived) + 1 - update] IN
     IF n \in DOMAIN environment
     THEN environment' = updateVariable(environment, n) /\ update' = update - 1
     ELSE update' = 0 /\ UNCHANGED environment
  /\ UNCHANGED <<db, garbage, fetch, fetched, clock, switches>>

FetchStep ==
  \/ NoDatabase
  \/ fetchBoardParameters("TCM", db.tcm, "PM") \/ fetchBoardParameters("PM", db.pm, "environment")
  \/ fetchEnvironment \/ fetchPmHistogramStructure \/ fetchConnectedDevices

EnvironmentStep == SwitchClock \/ SetSystemClock \/ UpdateDerived

FitDataSpec == InitFitData /\ [][FetchStep \/ EnvironmentStep]_fitDataVars
-------------------------------------------------------------------------------
(* Properties *)

\* A program that starts has a TCM, and both blocks of every histogram.
FitDataTypeOK ==
  /\ fetch \in {"TCM", "PM", "environment", "histograms", "devices", "ready", "exit"}
  /\ DOMAIN templates \subseteq {"TCM", "PM"}
  /\ \A n \in DOMAIN environment : environment[n].value \in Int
  /\ \A n \in DOMAIN boards : boards[n].address \in Nat
  /\ fetch = "ready" => \E n \in DOMAIN boards : boards[n].type = "TCM"
  /\ fetch = "ready" => \A n \in DOMAIN histograms : histograms[n].neg # <<>> /\ histograms[n].pos # <<>>
  /\ update \in 0 .. Len(Derived) /\ clock \in Clocks /\ switches \in Nat

\* No register belongs to two PMs, if those of one fit into the space of a PM: not for any
\* digits and sides (FitData.cpp:136, 140).
RegistersApart == \A m, n \in DOMAIN boards :
  LET Here(b) == {boards[b].parameters[p].baseAddress : p \in
                    {q \in DOMAIN boards[b].parameters :
                       templates["PM"][q].baseAddress < AddressSpaceSizePM}}
  IN  /\ boards[m].type = "PM" /\ boards[n].type = "PM"
      /\ <<boards[m].side, boards[m].digit>> # <<boards[n].side, boards[n].digit>>
      => Here(m) \cap Here(n) = {}

\* Every value a parameter without limits of its own allows survives its way into the register
\* and back, and stays inside its bits (FitData.cpp:222, 228).
FieldsHoldTheirRange == \A type \in DOMAIN templates : \A n \in DOMAIN templates[type] :
  LET p == templates[type][n]
      row == FirstOf(IF type = "TCM" THEN db.tcm ELSE db.pm, n)
  IN  row.min = <<>> /\ row.max = <<>> /\ row.first <= row.last => \A v \in p.minValue .. p.maxValue :
        /\ parseElectronic(p, convertElectronicToRaw(p, v)) = v
        /\ convertElectronicToRaw(p, v) \in 0 .. 2 ^ (p.startBit + p.bitLength) - 1

Operands(n) == {environment[n].variables[i] : i \in DOMAIN environment[n].variables}
OperandsFirst(rows) == \A i \in DOMAIN rows : \A v \in DOMAIN rows[i].variables :
  LET operand == rows[i].variables[v] IN
  FirstOf(rows, operand).variables = <<>> \/ \E k \in 1 .. i - 1 : rows[k].name = operand

\* Variables whose operands come before them, or are constants, are what their equations say
\* when the constructor ends; and the derived ones are so again after each cycle of
\* BoardStatus, whatever the clock, since TDC, which is updated first, is not computed from
\* BC_INTERVAL (FitData.cpp:274, BoardStatus.cpp:79).
EnvironmentAgrees ==
  /\ fetch \in {"histograms", "devices", "ready"} /\ update = 0
  /\ OperandsFirst(db.environment) /\ Derived[2] \notin Operands(Derived[1])
  => \A n \in NamesOf(db.environment) \ {SYSTEM_CLOCK} :
      \/ Operands(n) \cap {SYSTEM_CLOCK, Derived[1], Derived[2]} # {} /\ n \notin {Derived[1], Derived[2]}
      \/ environment[n].value = calculate(environment, n)
================================================================================
