-------------------------- MODULE ConfigurationParser --------------------------
(* The tool that turns the configuration files of the Control Server into SQL for *)
(* the database of FRED.  It reads a table of parameters for each type of board,  *)
(* a line at a time; then it takes the files of a directory in any order, reads   *)
(* one, creates its output with the line of the configuration and, when all of    *)
(* its registers are known, adds a line for every parameter.  A write may fail    *)
(* anywhere and leaves what was written before.                                   *)
EXTENDS Electronic, FiniteSets

CONSTANTS
  TableSets,   \* contents the two tables may have: [TCM, PM], sequences of lines
               \*   [address, first, last, sign, name, trigger]
  InputFiles,  \* the files: [stem, extension, sections], sections being a function
               \*   [section -> [number of a register -> none or one value]]
  Sections     \* BOARD_NAMES: the sections a file may have

Types == {"TCM", "PM"}

\* The words of 32 bits.
U32 == {word \in Nat : word \div 2 ^ 16 < 2 ^ 16}

ASSUME ConfigurationParserAssumption ==
  /\ \A t \in TableSets : \A type \in Types :
       t[type] \in Seq([address : Nat, first : Nat, last : Nat, sign : STRING, name : STRING,
                        trigger : BOOLEAN])
  /\ IsFiniteSet(InputFiles)
  /\ \A file \in InputFiles : file.stem # "none" /\ \A s \in DOMAIN file.sections :
       \A number \in DOMAIN file.sections[s] : file.sections[s][number] \in Seq(U32)

VARIABLES
  csv,      \* the two tables
  stage,    \* the table that is read, then "files", "saving", or "panicked"
  line,     \* how many of its lines have been read
  maps,     \* the BoardMap of each type: [address -> set of parameters]
  left,     \* the files of the directory that have not been parsed
  path,     \* the output that is being written
  sql,      \* the outputs: [stem -> set of INSERTs into CONFIGURATION_PARAMETERS]
  inputMap, \* history: the input_map that each output was made of
  cut       \* history: the outputs that could not be written to their end

outputs == <<sql, inputMap, cut>>
parserVars == <<csv, stage, line, maps, left, path, outputs>>

Empty == [x \in {} |-> {}]

InitParser ==
  /\ csv \in TableSets
  /\ stage = "TCM" /\ line = 0
  /\ maps = [type \in Types |-> Empty]
  /\ left = InputFiles /\ path = "none"
  /\ sql = Empty /\ inputMap = Empty /\ cut = {}
-------------------------------------------------------------------------------
(* The tables *)

\* try_from: a line that is not valid makes read_file fail.
Valid(row) == row.first <= row.last /\ row.last <= 31 /\ row.sign \in {"Y", "N"}

\* Ord: parameters by their first bit, and of two that begin together the longer one first.
Before(p, q) == p.first < q.first \/ (p.first = q.first /\ p.last > q.last)
Same(p, q) == p.first = q.first /\ p.last = q.last

\* The parameter next to where p belongs.
Previous(register, p) ==
  {q \in register : Before(q, p) /\ \A r \in register : Before(r, p) => r = q \/ Before(r, q)}

\* Mutant: only parameters inside another one are refused.
Accepts_Overlap(register, p) ==
  /\ \A q \in register : ~Same(q, p)
  /\ \A q \in Previous(register, p) : q.last < p.last

\* insert_parameter: p is neither there, nor does it overlap with the one before it.
Accepts(register, p) ==
  /\ \A q \in register : ~Same(q, p)
  /\ \A q \in Previous(register, p) : q.last < p.first

\* A parameter that is refused is printed and left out.
insert_parameter(map, row) ==
  LET register == IF row.address \in DOMAIN map THEN map[row.address] ELSE {}
      p == [first |-> row.first, last |-> row.last, signed |-> row.sign = "Y",
            name |-> row.name, trigger |-> row.trigger]
  IN  [a \in DOMAIN map \cup {row.address} |->
         IF a # row.address THEN map[a]
         ELSE IF Accepts(register, p) THEN register \cup {p} ELSE register]

ReadLine(type) ==
  /\ stage = type /\ line < Len(csv[type])
  /\ LET row == csv[type][line + 1] IN
     IF Valid(row)
     THEN /\ maps' = [maps EXCEPT ![type] = insert_parameter(@, row)]
          /\ line' = line + 1
          /\ UNCHANGED stage
     ELSE stage' = "panicked" /\ UNCHANGED <<maps, line>>
  /\ UNCHANGED <<csv, left, path, outputs>>

TableRead(type) ==
  /\ stage = type /\ line = Len(csv[type])
  /\ stage' = IF type = "TCM" THEN "PM" ELSE "files"
  /\ line' = 0
  /\ UNCHANGED <<csv, maps, left, path, outputs>>
-------------------------------------------------------------------------------
(* The files *)

parse_board_name(section) == IF section = "TCM" THEN "TCM0" ELSE section
get_board_type(board) == IF board = "TCM0" THEN "TCM" ELSE "PM"

\* A file is refused for one bad section or one missing value.
Readable(file) == \A s \in DOMAIN file.sections :
  s \in Sections /\ \A number \in DOMAIN file.sections[s] : file.sections[s][number] # <<>>

\* Only the last two digits of the number of a register count.  When they name one register
\* twice, the value that comes last stays, in the order of a HashMap.
Address(number) == number % 256
parse_board_config(section) ==
  LET numbers(a) == {n \in DOMAIN section : Address(n) = a}
      addresses == {Address(n) : n \in DOMAIN section}
  IN  {config \in [addresses -> {section[n][1] : n \in DOMAIN section}] :
         \A a \in addresses : \E n \in numbers(a) : config[a] = section[n][1]}

Overwrite(f, x, y) == [z \in DOMAIN f \cup {x} |-> IF z = x THEN y ELSE f[z]]

\* A file that cannot be read, or whose output cannot be created, is printed and passed over.
PassOver(file) ==
  /\ stage = "files" /\ file \in left
  /\ left' = left \ {file}
  /\ UNCHANGED <<csv, stage, line, maps, path, outputs>>

\* One that cannot be loaded, or has a key of a single character, ends the tool.
Panic(file) ==
  /\ stage = "files" /\ file \in left
  /\ stage' = "panicked"
  /\ UNCHANGED <<csv, line, maps, left, path, outputs>>

\* The output bears the name of the file without its extension, and replaces one that is there.
\* Its first line, the INSERT into CONFIGURATIONS, is written before anything is converted.
Create(file) ==
  /\ stage = "files" /\ file \in left
  /\ Readable(file)
  /\ left' = left \ {file}
  /\ path' = file.stem /\ stage' = "saving"
  /\ sql' = Overwrite(sql, file.stem, {}) /\ cut' = cut \ {file.stem}
  /\ LET Boards == {parse_board_name(s) : s \in DOMAIN file.sections}
         Of(b) == file.sections[CHOOSE s \in DOMAIN file.sections : parse_board_name(s) = b]
         Configs == UNION {parse_board_config(Of(b)) : b \in Boards}
     IN  \E map \in [Boards -> Configs] :
           /\ \A b \in Boards : map[b] \in parse_board_config(Of(b))
           /\ inputMap' = Overwrite(inputMap, file.stem, map)
  /\ UNCHANGED <<csv, line, maps>>

\* Mutant: the sign bit is taken for a bit of the value.
get_electronic_value_SignIgnored(p, word) ==
  IF p.trigger THEN word \div 2 ^ 7 ELSE (word \div 2 ^ p.first) % 2 ^ (p.last - p.first + 1)

\* The signatures of the triggers are told by their names and are shifted, not cut.
get_electronic_value(p, word) ==
  LET bits == p.last - p.first + 1 IN
  IF p.trigger THEN word \div 2 ^ 7
  ELSE IF p.signed
  THEN ((word \div 2 ^ p.first) % 2 ^ (bits - 1))
       - ((word \div 2 ^ p.last) % 2) * 2 ^ (bits - 1)
  ELSE (word \div 2 ^ p.first) % 2 ^ bits

parse_register(board, register, word) ==
  {[board |-> board, name |-> p.name, value |-> get_electronic_value(p, word)] : p \in register}

parse_board(board, config, addresses) ==
  UNION {parse_register(board, maps[get_board_type(board)][a], config[a]) : a \in addresses}

\* Mutant: registers that are not known are left out.
convert_Known(map) ==
  UNION {parse_board(b, map[b], DOMAIN map[b] \cap DOMAIN maps[get_board_type(b)]) : b \in DOMAIN map}

\* get_converted: nothing for a file that has a register nobody knows.
AllKnown(map) == \A b \in DOMAIN map : DOMAIN map[b] \subseteq DOMAIN maps[get_board_type(b)]
convert(map) ==
  IF AllKnown(map) THEN UNION {parse_board(b, map[b], DOMAIN map[b]) : b \in DOMAIN map} ELSE {}

\* What is there when the statement for p fails: the boards before b, and of b the registers
\* before a and the parameters before p.
convertedUntil(map, before, b, a, p) ==
  (UNION {parse_board(c, map[c], DOMAIN map[c]) : c \in before})
  \cup parse_board(b, map[b], {d \in DOMAIN map[b] : d < a})
  \cup parse_register(b, {q \in maps[get_board_type(b)][a] : Before(q, p)}, map[b][a])

Saved ==
  /\ stage = "saving" /\ stage' = "files" /\ path' = "none"
  /\ UNCHANGED <<csv, line, maps, left, inputMap>>

Save ==
  /\ Saved
  /\ sql' = [sql EXCEPT ![path] = convert(inputMap[path])]
  /\ UNCHANGED cut

\* A write fails, which is an error of the file, or the last one does, which nobody notices.
SaveFails ==
  /\ Saved
  /\ AllKnown(inputMap[path])
  /\ \E b \in DOMAIN inputMap[path] : \E before \in SUBSET (DOMAIN inputMap[path] \ {b}) :
       \E a \in DOMAIN inputMap[path][b] : \E p \in maps[get_board_type(b)][a] :
         sql' = [sql EXCEPT ![path] = convertedUntil(inputMap[path], before, b, a, p)]
  /\ cut' = cut \cup {path}

NextParser ==
  \/ \E type \in Types : ReadLine(type) \/ TableRead(type)
  \/ \E file \in InputFiles : PassOver(file) \/ Panic(file) \/ Create(file)
  \/ Save \/ SaveFails

ParserSpec == InitParser /\ [][NextParser]_parserVars
-------------------------------------------------------------------------------
(* Properties *)

ParserTypeOK ==
  /\ stage \in Types \cup {"files", "saving", "panicked"}
  /\ line \in Nat
  /\ DOMAIN maps = Types
  /\ left \subseteq InputFiles
  /\ DOMAIN sql = DOMAIN inputMap /\ cut \subseteq DOMAIN sql
  /\ stage = "saving" <=> path \in DOMAIN sql

\* The lines of a register come in the order of insert_parameter.
InOrderOf(rows, address) == \A i, k \in DOMAIN rows :
  i < k /\ rows[i].address = address /\ rows[k].address = address => ~Before(rows[k], rows[i])

\* No two parameters of a register share a bit, if the lines of the table come in their order,
\* as in the tables kept with the tool: each is compared with the one before it alone
\* (register.rs:36).
FieldsDisjoint == \A type \in Types : \A a \in DOMAIN maps[type] :
  InOrderOf(csv[type], a) =>
    \A p, q \in maps[type][a] : p = q \/ p.last < q.first \/ q.last < p.first

NamedOnce(rows, name) == \A i, k \in DOMAIN rows : rows[i].name = name /\ rows[k].name = name => i = k

\* The bits of the word that the tool stores: the field, or for the signature of a trigger
\* everything from the seventh bit on.
FieldOf(p) ==
  IF p.trigger THEN [signed |-> FALSE, bitLength |-> 25, startBit |-> 7]
  ELSE [signed |-> p.signed, bitLength |-> p.last - p.first + 1, startBit |-> p.first]

\* The value of a parameter is the one that FRED reads from a register with the word of the
\* Control Server, and when FRED writes it the bits of the field are those of that word: the
\* reading of the tool (parameter_info.rs:53) agrees with both codes of FRED (Board.cpp:133,
\* 213), for signed and unsigned fields at any place of the word.  The signature of a trigger is
\* the field that begins with bit 7, whatever bits its line names (parameter_info.rs:48).
\* (Nothing is claimed of a name that two lines of the table have: then two values are stored
\* for it.)
RegistersReproduced == \A s \in DOMAIN sql : \A b \in DOMAIN inputMap[s] :
  \A a \in DOMAIN inputMap[s][b] \cap DOMAIN maps[get_board_type(b)] :
    \A p \in maps[get_board_type(b)][a] : \A e \in sql[s] :
      LET field == FieldOf(p)
          word == inputMap[s][b][a]
      IN  e.board = b /\ e.name = p.name /\ NamedOnce(csv[get_board_type(b)], p.name) =>
            /\ e.value = parseElectronic(field, word)
            /\ convertElectronicToRaw(field, e.value)
                 = ((word \div 2 ^ field.startBit) % 2 ^ field.bitLength) * 2 ^ field.startBit

\* An output has the parameters of every register of its file, or of none, and of none when
\* there is one register that nobody knows (configuration.rs:117); unless a write failed, which
\* leaves what was written before it (configuration.rs:166).  (The INSERT of the configuration
\* itself is there in any case, configuration.rs:138.)
SqlIsWhole == \A s \in DOMAIN sql : sql[s] # {} =>
  \A b \in DOMAIN inputMap[s] : \A a \in DOMAIN inputMap[s][b] :
    /\ a \in DOMAIN maps[get_board_type(b)]
    /\ s \notin cut =>
         \A p \in maps[get_board_type(b)][a] : \E e \in sql[s] : e.board = b /\ e.name = p.name
================================================================================
