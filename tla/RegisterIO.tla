------------------------------- MODULE RegisterIO -------------------------------
(*****************************************************************************)
(* How the services of FIT FRED read and write the registers of one board:   *)
(* BoardCommunicationHandler turns a request of WinCC lines into one SWT     *)
(* sequence, ALF executes the sequence on the electronics, and the handler   *)
(* turns ALF's response into an answer, storing every value it parsed in the *)
(* Board object that all services of the board share.                        *)
(*                                                                           *)
(* A register word is the set of its bits that are 1, so that AND is \cap,   *)
(* OR is \cup and the complement of a mask is Bit \ mask.  Every service     *)
(* owns one handler and goes through the phases of                           *)
(* BasicFitIndefiniteMapi::processSequenceThroughHandler (the Parameters     *)
(* service has the same phases, split over two callbacks of FRED):           *)
(*     idle --Build--> built --Execute--> executed --ProcessResponse--> idle *)
(* ALF and the electronics are external: a sequence is executed as a whole,  *)
(* it may fail after any of its frames, also between the AND frame and the   *)
(* OR frame of one masked write, and the electronics change the bits in      *)
(* Volatile by themselves (status bits, self-clearing bits, refused writes). *)
(*****************************************************************************)
EXTENDS Integers, Sequences, FiniteSets

CONSTANTS
  Service,      \* the services that share the board, one handler each
  Name,         \* the parameter names clients may send
  Param,        \* the parameters of the board
  Address,      \* the addresses of its registers
  Bit,          \* the bit positions of a word (0 .. 31 in the electronics)
  addr,         \* addr[p]: baseAddress of parameter p
  field,        \* field[p]: the bits startBit .. startBit + bitLength - 1
  raws,         \* raws[p]: raw words of the values in [minValue, maxValue]
  ReadOnly,     \* parameters with isReadonly
  Block,        \* parameters with regBlockSize # 1
  toRawVars,    \* toRawVars[p]: parameters in p's equation physical -> electronic
  toPhysVars,   \* toPhysVars[p]: parameters in p's equation electronic -> physical
  Volatile,     \* Volatile[a]: the bits the electronics change by themselves
  Commands,     \* the commands clients send
  MaxCommands,  \* bound on the lines of a request
  None          \* no stored value

Word == SUBSET Bit

Operation == {"READ", "WRITE", "WRITE_ELECTRONIC"}

\* WinCCRequest::Command.  raw is the word convertElectronicToRaw yields for the
\* commanded value; a value outside [minValue, maxValue] is a raw not in raws[param].
Command == [param : Name, op : Operation, raw : Word]

ASSUME ConstantsAssumption ==
  /\ Param \subseteq Name
  /\ addr \in [Param -> Address]
  /\ field \in [Param -> SUBSET Bit]
  /\ raws \in [Param -> SUBSET Word]
  /\ ReadOnly \subseteq Param
  /\ Block \subseteq Param
  /\ toRawVars \in [Param -> SUBSET Param]
  /\ toPhysVars \in [Param -> SUBSET Param]
  /\ Volatile \in [Address -> SUBSET Bit]
  /\ Commands \subseteq Command
  /\ MaxCommands \in Nat
  /\ None \notin Word
  /\ Param \cap {"BOARD", "SEQUENCE"} = {}  \* the names of the other error reports

\* The configuration data of the electronics give every parameter a range that
\* fits its bits.  The code relies on it: an unsigned raw value is not masked.
ASSUME RangeFitsField == \A p \in Param : \A r \in raws[p] : r \subseteq field[p]

VARIABLES
  regs,     \* regs[a]: the register at address a
  stored,   \* stored[p]: the value storeValue kept in the Board, or None
  phase,    \* phase[s]: where service s is in processing its request
  request,  \* request[s]: the commands it is processing or answered last, <<>> if rejected
  tasks,    \* tasks[s]: m_registerTasks, the set of tasks of each address
  ops,      \* ops[s]: the sequence, the operation of each address
  reads,    \* reads[s]: the sequence ends with (or consists of) Read operations
  alf,      \* alf[s]: ALF's response, [ok, words]
  answer    \* answer[s]: the answer to the latest request

vars == <<regs, stored, phase, request, tasks, ops, reads, alf, answer>>
handlerVars == <<request, tasks, ops, reads>>

-----------------------------------------------------------------------------
(* Building the sequence. *)

IsWrite(c) == c.op # "READ"

Request == UNION {[1 .. n -> Commands] : n \in 1 .. MaxCommands}

\* The addresses a list of commands names, and the commands naming address a.
Named(req) == {addr[req[i].param] : i \in DOMAIN req}
At(req, a) == {i \in DOMAIN req : addr[req[i].param] = a}

\* bitLength == 32: the parameter is the whole register and is written with Write.
IsWide(p) == field[p] = Bit

\* Mutant: the complement is forgotten.
ANDMask_NotInverted(p) == field[p]

\* createANDMask.
ANDMask(p) == Bit \ field[p]

\* The stored values the equations of p need and the Board does not have:
\* getPhysicalValue throws, and with it calculateElectronic and calculatePhysical.
MissingToRaw(p) == {q \in toRawVars[p] \ {p} : stored[q] = None}
MissingToPhys(p) == {q \in toPhysVars[p] \ {p} : stored[q] = None}

\* The checks of createSwtOperation.
CommandIsLegal(c) ==
  /\ c.param \in Param \ Block
  /\ IsWrite(c) => /\ c.param \notin ReadOnly
                   /\ c.raw \in raws[c.param]
  /\ c.op = "WRITE" => MissingToRaw(c.param) = {}

\* WinCCRequest: a request does not mix reads and writes.
IsUniform(req) == \A i, j \in DOMAIN req : IsWrite(req[i]) = IsWrite(req[j])

\* mergeOperation: two writes of one register merge only if both are RMWbits.
IsMergeable(req) ==
  \A i, j \in DOMAIN req :
    (i # j /\ addr[req[i].param] = addr[req[j].param] /\ IsWrite(req[i]))
      => ~IsWide(req[i].param)

\* processMessageFromWinCC does not throw.
IsAccepted(req) ==
  /\ IsUniform(req)
  /\ \A i \in DOMAIN req : CommandIsLegal(req[i])
  /\ IsMergeable(req)

\* SwtSequence::Operation of the commands naming address a.
TypeAt(req, a) ==
  IF \A i \in At(req, a) : ~IsWrite(req[i]) THEN "Read"
  ELSE IF \E i \in At(req, a) : IsWide(req[i].param) THEN "Write" ELSE "RMWbits"

SwtOperation == [type : {"Read", "Write", "RMWbits"}, and : Word, or : Word]

\* Mutant: the AND masks are merged with |= instead of &=.
MergedOperation_OrOfMasks(req, a) ==
  [type |-> TypeAt(req, a),
   and  |-> UNION {ANDMask(req[i].param) : i \in At(req, a)},
   or   |-> UNION {req[i].raw : i \in At(req, a)}]

\* The operation of address a after createSwtOperation and mergeOperation of all
\* its commands: data[0] is the conjunction of the AND masks (empty for Write,
\* which keeps no bit), data[1] the disjunction of the raw words.
MergedOperation(req, a) ==
  [type |-> TypeAt(req, a),
   and  |-> {b \in Bit : \A i \in At(req, a) : b \in ANDMask(req[i].param)},
   or   |-> UNION {req[i].raw : i \in At(req, a)}]

\* The task of a command: compare the field read back with the raw word written.
Task(c) == [param |-> c.param, compare |-> IsWrite(c), raw |-> c.raw]

TasksAt(req, a) == {Task(req[i]) : i \in At(req, a)}

NoResponse == [ok |-> FALSE, words |-> <<>>]
NoAnswer == [values |-> <<>>, errors |-> {}]

\* processMessageFromWinCC throws: the handler is reset and the request is
\* answered with an error in the board's name.
Reject(s, req) ==
  /\ ~IsAccepted(req)
  /\ request' = [request EXCEPT ![s] = <<>>]
  /\ tasks' = [tasks EXCEPT ![s] = <<>>]
  /\ ops' = [ops EXCEPT ![s] = <<>>]
  /\ reads' = [reads EXCEPT ![s] = FALSE]
  /\ answer' = [answer EXCEPT ![s] = [values |-> <<>>, errors |-> {"BOARD"}]]
  /\ UNCHANGED <<regs, stored, phase, alf>>

\* Mutant: m_registerTasks is not reset before a request is built.
Prepare_NoReset(s, req, readAfterWrite) ==
  /\ IsAccepted(req)
  /\ phase' = [phase EXCEPT ![s] = "built"]
  /\ request' = [request EXCEPT ![s] = req]
  /\ tasks' = [tasks EXCEPT ![s] =
                 [a \in Named(req) |->
                    TasksAt(req, a) \cup IF a \in DOMAIN tasks[s] THEN tasks[s][a] ELSE {}]]
  /\ ops' = [ops EXCEPT ![s] = [a \in Named(req) |-> MergedOperation(req, a)]]
  /\ reads' = [reads EXCEPT ![s] = ~IsWrite(req[1]) \/ readAfterWrite]
  /\ answer' = [answer EXCEPT ![s] = NoAnswer]
  /\ UNCHANGED <<regs, stored, alf>>

\* processMessageFromWinCC yields a sequence.
Prepare(s, req, readAfterWrite) ==
  /\ IsAccepted(req)
  /\ phase' = [phase EXCEPT ![s] = "built"]
  /\ request' = [request EXCEPT ![s] = req]
  /\ tasks' = [tasks EXCEPT ![s] = [a \in Named(req) |-> TasksAt(req, a)]]
  /\ ops' = [ops EXCEPT ![s] = [a \in Named(req) |-> MergedOperation(req, a)]]
  /\ reads' = [reads EXCEPT ![s] = ~IsWrite(req[1]) \/ readAfterWrite]
  /\ answer' = [answer EXCEPT ![s] = NoAnswer]
  /\ UNCHANGED <<regs, stored, alf>>

Build(s, req) ==
  /\ phase[s] = "idle"
  /\ \/ Reject(s, req)
     \/ \E readAfterWrite \in BOOLEAN : Prepare(s, req, readAfterWrite)

-----------------------------------------------------------------------------
(* Executing it: ALF and the electronics. *)

\* All the frames of an operation: the one Write frame (data[0] is the word and no
\* bit is kept), or RMWbits' AND frame and then its OR frame.
Applied(op, w) == IF op.type # "Read" THEN (w \cap op.and) \cup op.or ELSE w

\* The AND frame of an RMWbits operation without its OR frame.
Begun(op, w) == w \cap op.and

\* w is what register a may hold once op has been executed on it.
MayHold(a, op, w) == w \ Volatile[a] = Applied(op, regs[a]) \ Volatile[a]

\* The whole sequence is executed; the Read frames return the words as they are
\* after all the writes of the sequence.
ExecuteSequence(s) ==
  /\ phase[s] = "built"
  /\ \E w \in [DOMAIN ops[s] -> Word] :
       /\ \A a \in DOMAIN ops[s] : MayHold(a, ops[s][a], w[a])
       /\ regs' = [a \in Address |-> IF a \in DOMAIN ops[s] THEN w[a] ELSE regs[a]]
       /\ alf' = [alf EXCEPT ![s] = [ok |-> TRUE, words |-> IF reads[s] THEN w ELSE <<>>]]
  /\ phase' = [phase EXCEPT ![s] = "executed"]
  /\ UNCHANGED <<stored, handlerVars, answer>>

\* The communication fails after some of the frames: some operations are executed
\* and at most one of the others is begun.
FailSequence(s) ==
  /\ phase[s] = "built"
  /\ \E done \in SUBSET DOMAIN ops[s] :
       \E begun \in {{}} \cup {{a} : a \in {x \in DOMAIN ops[s] \ done : ops[s][x].type = "RMWbits"}} :
         regs' = [a \in Address |-> IF a \in done THEN Applied(ops[s][a], regs[a])
                                    ELSE IF a \in begun THEN Begun(ops[s][a], regs[a])
                                    ELSE regs[a]]
  /\ alf' = [alf EXCEPT ![s] = NoResponse]
  /\ phase' = [phase EXCEPT ![s] = "executed"]
  /\ UNCHANGED <<stored, handlerVars, answer>>

\* The electronics change bits by themselves.
ElectronicsChange(a) ==
  /\ \E w \in Word : /\ w \ Volatile[a] = regs[a] \ Volatile[a]
                     /\ regs' = [regs EXCEPT ![a] = w]
  /\ UNCHANGED <<stored, phase, handlerVars, alf, answer>>

-----------------------------------------------------------------------------
(* Processing the response. *)

\* The tasks of the registers the response holds.
Handled(s) == UNION {tasks[s][a] : a \in DOMAIN alf[s].words}

Names(ts) == {t.param : t \in ts}

\* parseElectronic: the bits of p in the word read from its register.
FieldRead(s, p) == alf[s].words[addr[p]] \cap field[p]

\* The parameters whose value cannot be calculated because a stored value the
\* equation needs is missing.  A value stored while this very response is being
\* processed counts or not, depending on the order of the registers in the
\* response, which is that of an unordered_map.
CannotCalculate(s, failing) ==
  LET handled == Names(Handled(s))
  IN /\ \A p \in failing : MissingToPhys(p) # {}
     /\ \A p \in handled : MissingToPhys(p) \ (handled \ failing) # {} => p \in failing

\* Mutant: only the bits that should be set are compared.
Mismatch_SetBitsOnly(s, t) == t.compare /\ ~(t.raw \subseteq FieldRead(s, t.param))

\* The write of a task is not confirmed by the word read back.
Mismatch(s, t) == t.compare /\ FieldRead(s, t.param) # t.raw

\* processMessageFromALF on a successful response: unpackReadResponse for every
\* Read frame.  A mismatch is reported, and the value is answered and stored all
\* the same.
UnpackResponse(s) ==
  /\ phase[s] = "executed"
  /\ alf[s].ok
  /\ \E failing \in SUBSET Names(Handled(s)) :
       LET good       == Names(Handled(s)) \ failing
           mismatched == {t.param : t \in {u \in Handled(s) : u.param \in good /\ Mismatch(s, u)}}
       IN /\ CannotCalculate(s, failing)
          /\ answer' = [answer EXCEPT ![s] = [values |-> [p \in good |-> FieldRead(s, p)],
                                              errors |-> failing \cup mismatched]]
          /\ stored' = [p \in Param |-> IF p \in good THEN FieldRead(s, p) ELSE stored[p]]
  /\ phase' = [phase EXCEPT ![s] = "idle"]
  /\ UNCHANGED <<regs, handlerVars, alf>>

\* processMessageFromALF on a failure response.
ReportFailure(s) ==
  /\ phase[s] = "executed"
  /\ ~alf[s].ok
  /\ answer' = [answer EXCEPT ![s] = [values |-> <<>>, errors |-> {"SEQUENCE"}]]
  /\ phase' = [phase EXCEPT ![s] = "idle"]
  /\ UNCHANGED <<regs, stored, handlerVars, alf>>

-----------------------------------------------------------------------------
Init ==
  /\ regs \in [Address -> Word]
  /\ stored = [p \in Param |-> None]
  /\ phase = [s \in Service |-> "idle"]
  /\ request = [s \in Service |-> <<>>]
  /\ tasks = [s \in Service |-> <<>>]
  /\ ops = [s \in Service |-> <<>>]
  /\ reads = [s \in Service |-> FALSE]
  /\ alf = [s \in Service |-> NoResponse]
  /\ answer = [s \in Service |-> NoAnswer]

Next ==
  \/ \E s \in Service : \/ \E req \in Request : Build(s, req)
                        \/ ExecuteSequence(s)
                        \/ FailSequence(s)
                        \/ UnpackResponse(s)
                        \/ ReportFailure(s)
  \/ \E a \in Address : ElectronicsChange(a)

Spec == Init /\ [][Next]_vars

-----------------------------------------------------------------------------
(* What the register path promises. *)

\* The types of the variables.  A stored or answered value never has a bit
\* outside its parameter's field.
TypeOK ==
  /\ regs \in [Address -> Word]
  /\ stored \in [Param -> Word \cup {None}]
  /\ \A p \in Param : stored[p] # None => stored[p] \subseteq field[p]
  /\ phase \in [Service -> {"idle", "built", "executed"}]
  /\ reads \in [Service -> BOOLEAN]
  /\ request \in [Service -> Request \cup {<<>>}]
  /\ DOMAIN tasks = Service
  /\ DOMAIN ops = Service
  /\ DOMAIN alf = Service
  /\ DOMAIN answer = Service
  /\ \A s \in Service :
       /\ DOMAIN ops[s] \subseteq Address
       /\ \A a \in DOMAIN ops[s] :
            ops[s][a] \in SwtOperation
       /\ alf[s].ok \in BOOLEAN
       /\ \A a \in DOMAIN alf[s].words : alf[s].words[a] \in Word
       /\ DOMAIN answer[s].values \subseteq Param
       /\ \A p \in DOMAIN answer[s].values : answer[s].values[p] \subseteq field[p]
       /\ answer[s].errors \subseteq Param \cup {"BOARD", "SEQUENCE"}

\* The service has answered a request that reached ALF and was executed.
Answered(s) ==
  /\ phase[s] = "idle"
  /\ request[s] # <<>>
  /\ answer[s].errors \cap {"BOARD", "SEQUENCE"} = {}

NamedParams(req) == {req[i].param : i \in DOMAIN req}

\* An answer without errors to a write that is read back means that every
\* commanded field was in its register when the sequence was executed, however
\* many commands of the request shared the register (processMessageFromALF is
\* all that tells the client whether its write took effect).
WriteConfirmed ==
  \A s \in Service :
    Answered(s) /\ reads[s] /\ answer[s].errors = {} =>
      \A i \in DOMAIN request[s] :
        IsWrite(request[s][i]) =>
          FieldRead(s, request[s][i].param) = request[s][i].raw

\* Two commands of one request ask for different values of a bit they share.
Conflict(c, d) ==
  /\ addr[c.param] = addr[d.param]
  /\ c.raw \cap field[d.param] # d.raw \cap field[c.param]

\* A parameter is reported as failed only if the electronics changed its bits,
\* if the request contradicts itself on them, or if its value cannot be
\* calculated: building one sequence for several commands of one register loses
\* none of them (mergeOperation).
NoSpuriousFailure ==
  \A s \in Service :
    Answered(s) =>
      \A p \in answer[s].errors :
        \/ field[p] \cap Volatile[addr[p]] # {}
        \/ toPhysVars[p] # {}
        \/ \E i, j \in DOMAIN request[s] :
             request[s][i].param = p /\ Conflict(request[s][i], request[s][j])

\* An answer is about the parameters of its own request, all of them and no
\* others, whatever the handler served before (m_registerTasks is kept between
\* the two halves of a request and reset at the next one).
AnswerMatchesRequest ==
  \A s \in Service :
    Answered(s) =>
      DOMAIN answer[s].values \cup answer[s].errors
        = IF reads[s] THEN NamedParams(request[s]) ELSE {}

\* A bit that the electronics do not change by themselves changes only when a
\* sequence is executed whose request commands that bit through a writable
\* parameter, in its range, and it takes the commanded value; or it is left at 0
\* by a sequence that failed between the two frames of its write, which clears
\* the whole field first.  Requests of several services on one register never
\* lose each other's writes, a bit no line of the request names is not touched
\* even by a sequence that fails, and a request with one illegal command
\* changes nothing.
LegalChange ==
  \A a \in Address :
    \A b \in ((regs[a] \cup regs'[a]) \ (regs[a] \cap regs'[a])) \ Volatile[a] :
      \E s \in Service :
        /\ phase[s] = "built" /\ phase'[s] = "executed"
        /\ \E i \in DOMAIN request[s] :
             LET c == request[s][i]
             IN /\ IsWrite(c)
                /\ c.param \in Param \ (ReadOnly \cup Block)
                /\ addr[c.param] = a
                /\ c.raw \in raws[c.param]
                /\ b \in field[c.param]
                /\ \/ b \in regs'[a] <=> b \in c.raw
                   \/ ~alf'[s].ok /\ b \notin regs'[a]

LegalChangesOnly == [][LegalChange]_vars
=============================================================================
