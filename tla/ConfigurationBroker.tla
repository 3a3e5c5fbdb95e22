------------------------- MODULE ConfigurationBroker -------------------------
(* CONFIGURATION_DB_BROKER (ConfigurationDatabaseBroker): executes the lines of a   *)
(* request one after the other in one transaction of the database, and commits it or *)
(* rolls it back.  The database may refuse a line, be unreachable or be lost, and     *)
(* the program may end at any time; the database then rolls back by itself.  An       *)
(* equation may name other parameters of the board or of its TCM: it can be evaluated *)
(* when these have a stored value, which they have not before they are read.          *)
EXTENDS Integers, Sequences

CONSTANTS
  Requests,              \* sequences of lines
  Known,                 \* the parameters of the boards in use
  Legacy,                \* rows that were there before, perhaps of other boards
  Smallest, Largest,     \* minValue and maxValue
  calculateElectronic, calculatePhysical,
  electronicToPhysic,    \* [Known -> the other parameters its equation names]
  physicToElectronic,
  LostAtCommit           \* may the connection break when only the commit is left?

ASSUME BrokerAssumption ==
  /\ Smallest \in Int /\ Largest \in Int /\ Smallest <= Largest
  /\ Requests \subseteq Seq([command : STRING, configuration : STRING,
                             parameter : STRING, value : DOMAIN calculateElectronic])
  /\ "*" \notin Known
  /\ DOMAIN electronicToPhysic = Known /\ DOMAIN physicToElectronic = Known
  /\ \A row \in Legacy : row.parameter \in Known => row.value \in Smallest .. Largest
  /\ Smallest .. Largest \subseteq DOMAIN calculatePhysical
  /\ LostAtCommit \in BOOLEAN

VARIABLES
  committed, pending,    \* the tables in the database, and in the open transaction
  connected,
  pc, request,
  at,                    \* the line being processed
  results,               \* queriesResult
  answer,                \* the last one published for the request
  valued,                \* parameters that have a stored physical value
  written                \* history: those given a value by a line since the program started

tables == <<committed, pending>>
storedValues == <<valued, written>>
vars == <<tables, connected, pc, request, at, results, answer, storedValues>>

Store == INSTANCE ConfigurationStore WITH
  tables <- committed,
  phase <- CASE pc \in {"wait", "dead"} -> "idle"
             [] pc \in {"line", "refuse"} -> "asked"
             [] pc = "publish" -> "changed",
  request <- IF pc = "dead" THEN <<>> ELSE request,
  answer <- CASE pc = "publish" -> [kind |-> "success", shown |-> results]
              [] pc \in {"wait", "dead"} -> answer
              [] OTHER -> [kind |-> "none", shown |-> <<>>]

Init ==
  /\ committed = Store!InitialTables /\ pending = committed
  /\ connected \in BOOLEAN
  /\ pc = "wait" /\ request = <<>> /\ at = 1
  /\ results = <<>> /\ answer = Store!NoAnswer
  /\ valued = {} /\ written = {}

\* An exception which nothing catches ends the program, and with it the transaction.
Die == pc' = "dead" /\ pending' = committed /\ answer' = Store!NoAnswer
-------------------------------------------------------------------------------
(* processExecution *)

\* An empty request is refused, and yet processed: the Splitter has nothing to get
\* and throws.  A request without a database is refused, and yet processed as well.
waitForRequest ==
  /\ pc = "wait"
  /\ request' \in Requests
  /\ at' = 1 /\ results' = <<>>
  /\ IF request' = <<>>
       THEN Die
       ELSE /\ pc' = "line"
            /\ answer' = IF connected THEN Store!NoAnswer ELSE Store!Refusal
            /\ UNCHANGED pending
  /\ UNCHANGED <<committed, connected, storedValues>>

\* Can the value be stored?
InRange(value) == value \in Smallest .. Largest

ValueFits_MaximumOnly(line) == calculateElectronic[line.value] <= Largest
ValueFits(line) == InRange(calculateElectronic[line.value])

GivesValue(line) == line.command \in {"INSERT", "UPDATE"}

\* Does a line make a query? The commands that write a value convert it and look at it; what
\* the conversion throws is caught, and an error of the line.
Constructs_AnyOperand(line) ==
  /\ line.command # "garbled"
  /\ GivesValue(line) => line.parameter \in Known /\ ValueFits(line)
Constructs(line) ==
  /\ line.command # "garbled"
  /\ GivesValue(line) => /\ line.parameter \in Known
                         /\ physicToElectronic[line.parameter] \subseteq valued
                         /\ ValueFits(line)

\* The query: values in electronic units.
construct(line) ==
  IF GivesValue(line)
    THEN [line EXCEPT !.value = calculateElectronic[@]] ELSE line

AtLine == pc = "line" /\ at <= Len(request)

\* The line is done.
NextLine == at' = at + 1 /\ UNCHANGED pc

\* The first line that fails ends the loop.
Fails == pc' = "refuse" /\ UNCHANGED <<tables, at, results, storedValues>>

Blank ==
  /\ AtLine /\ request[at].command = "blank"
  /\ NextLine
  /\ UNCHANGED <<tables, connected, request, results, answer, storedValues>>

ConstructFails ==
  /\ AtLine /\ request[at].command # "blank" /\ ~Constructs(request[at])
  /\ Fails
  /\ UNCHANGED <<connected, request, answer>>

\* A query to execute.
Ready == AtLine /\ request[at].command # "blank" /\ Constructs(request[at])

executeUpdate ==
  LET query == construct(request[at])
  IN  /\ Ready /\ connected
      /\ query.command \in {"INSERT", "UPDATE", "DELETE", "INSERT CONFIGURATION"}
      /\ Store!Accepts(query, pending)
      /\ pending' = Store!Effect(query, pending)
      /\ NextLine
      /\ written' = IF GivesValue(query) THEN written \union {query.parameter} ELSE written
      /\ UNCHANGED <<committed, connected, request, results, answer, valued>>

\* The board has to exist, and the other parameters of the equation to have a value.
Converts(row) ==
  row.parameter \in Known /\ electronicToPhysic[row.parameter] \subseteq valued

\* The rows are converted to physical values by the boards; nothing catches what that throws.
executeSelect ==
  LET query == construct(request[at])
  IN  /\ Ready /\ connected
      /\ query.command \in {"SELECT", "SELECT VERSIONS", "SELECT CONFIGURATIONS"}
      /\ IF /\ query.command # "SELECT CONFIGURATIONS"
            /\ \E row \in Store!Selected(query, pending) : ~Converts(row)
           THEN Die /\ UNCHANGED <<committed, at, results>>
           ELSE /\ results' = results \o Store!Shown(query, pending)
                /\ NextLine
                /\ UNCHANGED <<tables, answer>>
      /\ UNCHANGED <<connected, request, storedValues>>

\* The database refuses a query, or is not there.
QueryFails ==
  /\ Ready
  /\ Fails
  /\ UNCHANGED <<connected, request, answer>>

\* commitUpdate(false), and the error.
Rollback_Commit == committed' = Store!Committed(pending) /\ pending' = committed'
Rollback == pending' = committed /\ UNCHANGED committed

Refuse ==
  /\ pc = "refuse"
  /\ Rollback
  /\ pc' = "wait" /\ answer' = Store!Refusal
  /\ request' = <<>> /\ at' = 1 /\ results' = <<>>
  /\ UNCHANGED <<connected, storedValues>>

\* commitUpdate(true), whose result nobody looks at.
Commit ==
  /\ pc = "line" /\ at > Len(request)
  /\ pc' = "publish"
  /\ committed' = IF connected THEN Store!Committed(pending) ELSE committed
  /\ pending' = committed'
  /\ UNCHANGED <<connected, request, at, results, answer, storedValues>>

publishAnswer ==
  /\ pc = "publish"
  /\ pc' = "wait" /\ answer' = [kind |-> "success", shown |-> results]
  /\ request' = <<>> /\ at' = 1 /\ results' = <<>>
  /\ UNCHANGED <<tables, connected, storedValues>>
-------------------------------------------------------------------------------
\* A service reads a parameter that equations name, or writes it: its value is stored, if it
\* can be calculated.
storeValue ==
  /\ pc # "dead"
  /\ \E p \in Known \ valued :
       /\ \E q \in Known : p \in electronicToPhysic[q] \union physicToElectronic[q]
       /\ electronicToPhysic[p] \subseteq valued
       /\ valued' = valued \union {p}
  /\ UNCHANGED <<tables, connected, pc, request, at, results, answer, written>>

\* The program ends; it may be started again, with no values stored.
Crash ==
  /\ pc # "dead"
  /\ Die
  /\ UNCHANGED <<committed, connected, request, at, results, storedValues>>

Start ==
  /\ pc = "dead"
  /\ pc' = "wait" /\ request' = <<>> /\ at' = 1 /\ results' = <<>>
  /\ valued' = {} /\ written' = {}
  /\ UNCHANGED <<tables, connected, answer>>

\* The connection comes and goes between requests; when it goes during one, the
\* database rolls back.
Connect ==
  /\ pc = "wait" /\ ~connected /\ connected' = TRUE
  /\ UNCHANGED <<tables, pc, request, at, results, answer, storedValues>>

OnlyCommitLeft ==
  pc = "line" /\ \A i \in at .. Len(request) : request[i].command = "blank"

Disconnect ==
  /\ connected /\ connected' = FALSE
  /\ OnlyCommitLeft => LostAtCommit
  /\ pending' = committed
  /\ UNCHANGED <<committed, pc, request, at, results, answer, storedValues>>

processExecution ==
  \/ waitForRequest \/ Blank \/ ConstructFails \/ executeUpdate \/ executeSelect
  \/ QueryFails \/ Refuse \/ Commit \/ publishAnswer

Next == processExecution \/ storeValue \/ Crash \/ Start \/ Connect \/ Disconnect

Spec == Init /\ [][Next]_vars
-------------------------------------------------------------------------------
Kinds == {"none", "error", "success"}

\* Types.
TypeOK ==
  /\ \A t \in {committed, pending} :
       /\ t.rows \subseteq t.archive \union pending.rows
       /\ \A row \in t.archive :
            row.parameter \in Known => row.value \in DOMAIN calculatePhysical
  /\ connected \in BOOLEAN
  /\ pc \in {"wait", "line", "refuse", "publish", "dead"}
  /\ request \in Requests \union {<<>>} /\ at \in 1 .. Len(request) + 1
  /\ answer.kind \in Kinds
  /\ valued \subseteq Known /\ written \subseteq Known

\* A value that a request may have written is in the range of its parameter, by
\* whatever sequence of INSERTs and UPDATEs it came about.
StoredValuesFit ==
  \A row \in (committed.rows \union committed.archive \union pending.rows) \ Legacy :
    InRange(row.value)

\* A SELECT ends the program only for a row left over from other boards, or written before
\* the program last started, or whose equation back to physical values names parameters that
\* the one to electronic values does not.  Rows written since then can be converted whatever
\* has happened to the request that wrote them, as the parameters it was converted with keep
\* their values (ConfigurationDatabaseBroker.cpp:293, Board.cpp:161).
SelectsSurvive ==
  [][executeSelect /\ pc' = "dead" =>
       \E row \in Store!Selected(request[at], pending) :
         \/ row \in Legacy
         \/ row.parameter \notin written
         \/ ~(electronicToPhysic[row.parameter] \subseteq physicToElectronic[row.parameter])]_vars

\* The tables change by all the lines of a request, in their order, or not at all,
\* whatever fails and whenever the connection breaks or the program ends; and the
\* answer tells which it was, unless the connection breaks right before the commit.
ImplementsConfigurationStore == Store!Spec
==============================================================================
