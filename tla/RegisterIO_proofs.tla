--------------------------- MODULE RegisterIO_proofs ---------------------------
(*****************************************************************************)
(* Proofs, for any board, any number of services and any requests, of what   *)
(* RegisterIO promises.  The inductive invariant is IInv: what a handler     *)
(* keeps (tasks, ops) is the image of the request it was built from, and     *)
(* ALF's response, once there, is what executing those operations can yield. *)
(*****************************************************************************)
EXTENDS RegisterIO, TLAPS

\* What processMessageFromWinCC checked of an accepted request, apart from the
\* stored values, which other services change afterwards.
Legal(req) ==
  /\ req \in Request
  /\ IsUniform(req)
  /\ \A i \in DOMAIN req :
       /\ req[i].param \in Param \ Block
       /\ IsWrite(req[i]) => /\ req[i].param \notin ReadOnly
                             /\ req[i].raw \in raws[req[i].param]

\* The handler of s holds the tasks and the operations of its request.
Coherent(s) ==
  request[s] # <<>> =>
    /\ Legal(request[s])
    /\ ops[s] = [a \in Named(request[s]) |-> MergedOperation(request[s], a)]
    /\ tasks[s] = [a \in Named(request[s]) |-> TasksAt(request[s], a)]

\* Word w of register a is compatible with operation op: the bits the electronics
\* leave alone are those the operation writes.
Compatible(a, op, w) ==
  op.type # "Read" => /\ (op.or \ Volatile[a]) \subseteq w
                       /\ \A b \in w \ Volatile[a] : b \in op.and \/ b \in op.or

\* The response of an executed sequence.
ResponseOf(s) ==
  /\ DOMAIN alf[s].words = IF reads[s] THEN Named(request[s]) ELSE {}
  /\ \A a \in DOMAIN alf[s].words : Compatible(a, ops[s][a], alf[s].words[a])

HandlerInv ==
  \A s \in Service :
    /\ phase[s] # "idle" => request[s] # <<>>
    /\ Coherent(s)
    /\ phase[s] = "executed" /\ alf[s].ok => ResponseOf(s)

AnswerInv == WriteConfirmed /\ NoSpuriousFailure /\ AnswerMatchesRequest

IInv == TypeOK /\ HandlerInv /\ AnswerInv

-----------------------------------------------------------------------------
(* Types. *)

\* The named addresses of commands on existing parameters are addresses.
LEMMA NamedAddresses ==
  ASSUME NEW req \in Request, \A i \in DOMAIN req : req[i].param \in Param
  PROVE  Named(req) \subseteq Address
BY ConstantsAssumption DEF Named

LEMMA RequestCommands ==
  ASSUME NEW req \in Request
  PROVE  /\ req # <<>>
         /\ 1 \in DOMAIN req
         /\ \A i \in DOMAIN req : req[i] \in Command
BY ConstantsAssumption DEF Request

LEMMA MergedOperationType ==
  ASSUME NEW req \in Request, NEW a
  PROVE  MergedOperation(req, a) \in SwtOperation
<1>1. \A i \in At(req, a) : req[i].raw \subseteq Bit
  BY RequestCommands DEF At, Command, Word
<1>2. UNION {req[i].raw : i \in At(req, a)} \in Word
  BY <1>1 DEF Word
<1>3. {b \in Bit : \A i \in At(req, a) : b \in ANDMask(req[i].param)} \in Word
  BY DEF Word
<1>4. TypeAt(req, a) \in {"Read", "Write", "RMWbits"}
  BY DEF TypeAt
<1>. QED BY <1>2, <1>3, <1>4 DEF MergedOperation, SwtOperation

LEMMA AppliedType ==
  ASSUME NEW op \in SwtOperation, NEW w \in Word
  PROVE  Applied(op, w) \in Word
BY DEF Applied, Word, SwtOperation

LEMMA InitType == Init => TypeOK
<1>. SUFFICES ASSUME Init PROVE TypeOK
  OBVIOUS
<1>1. stored \in [Param -> Word \cup {None}] /\ \A p \in Param : stored[p] = None
  BY DEF Init
<1>2. \A s \in Service : /\ DOMAIN ops[s] = {}
                         /\ DOMAIN alf[s].words = {}
                         /\ DOMAIN answer[s].values = {}
                         /\ alf[s].ok = FALSE
                         /\ answer[s].errors = {}
                         /\ request[s] = <<>>
  BY DEF Init, NoResponse, NoAnswer
<1>. QED BY <1>1, <1>2 DEF Init, TypeOK

\* Every step of a service, and the electronics' own changes, keep the types.
LEMMA RejectType ==
  ASSUME TypeOK, NEW s \in Service, NEW req \in Request, Reject(s, req)
  PROVE  TypeOK'
<1>1. \A t \in Service : /\ request'[t] \in {request[t], <<>>}
                         /\ ops'[t] = ops[t] \/ DOMAIN ops'[t] = {}
                         /\ \/ answer'[t] = answer[t]
                            \/ /\ DOMAIN answer'[t].values = {}
                               /\ answer'[t].errors = {"BOARD"}
  BY DEF TypeOK, Reject
<1>2. reads' \in [Service -> BOOLEAN]
  BY DEF TypeOK, Reject
<1>. QED BY <1>1, <1>2 DEF TypeOK, Reject

LEMMA AcceptedIsLegal ==
  ASSUME NEW req \in Request, IsAccepted(req)
  PROVE  Legal(req)
BY DEF IsAccepted, Legal, CommandIsLegal

LEMMA PrepareType ==
  ASSUME TypeOK, NEW s \in Service, NEW req \in Request, NEW r \in BOOLEAN,
         Prepare(s, req, r)
  PROVE  TypeOK'
<1>1. Named(req) \subseteq Address
  BY AcceptedIsLegal, NamedAddresses DEF Prepare, Legal
<1>2. \A a \in Named(req) :
        MergedOperation(req, a) \in SwtOperation
  BY MergedOperationType
<1>3. \A t \in Service :
        \/ ops'[t] = ops[t]
        \/ /\ DOMAIN ops'[t] = Named(req)
           /\ \A a \in Named(req) : ops'[t][a] = MergedOperation(req, a)
  <2>. SUFFICES ASSUME NEW t \in Service, ops'[t] # ops[t]
                PROVE  /\ DOMAIN ops'[t] = Named(req)
                       /\ \A a \in Named(req) : ops'[t][a] = MergedOperation(req, a)
    OBVIOUS
  <2>1. ops'[t] = [a \in Named(req) |-> MergedOperation(req, a)]
    BY DEF Prepare
  <2>. QED BY <2>1
<1>4. \A t \in Service : /\ request'[t] \in {request[t], req}
                         /\ \/ answer'[t] = answer[t]
                            \/ /\ DOMAIN answer'[t].values = {}
                               /\ answer'[t].errors = {}
  BY DEF Prepare, NoAnswer
<1>5. /\ phase' \in [Service -> {"idle", "built", "executed"}]
      /\ reads' \in [Service -> BOOLEAN]
  BY DEF TypeOK, Prepare, IsWrite
<1>6. UNCHANGED <<regs, stored, alf>>
  BY DEF Prepare
<1>7. \A t \in Service : /\ DOMAIN ops'[t] \subseteq Address
                         /\ \A a \in DOMAIN ops'[t] :
                              ops'[t][a] \in SwtOperation
  BY <1>1, <1>2, <1>3 DEF TypeOK
<1>8. /\ request' \in [Service -> Request \cup {<<>>}]
      /\ DOMAIN tasks' = Service /\ DOMAIN ops' = Service /\ DOMAIN answer' = Service
  BY DEF TypeOK, Prepare
<1>. QED BY <1>4, <1>5, <1>6, <1>7, <1>8 DEF TypeOK

LEMMA ExecuteType ==
  ASSUME TypeOK, NEW s \in Service, ExecuteSequence(s)
  PROVE  TypeOK'
<1>1. PICK w \in [DOMAIN ops[s] -> Word] :
        /\ regs' = [a \in Address |-> IF a \in DOMAIN ops[s] THEN w[a] ELSE regs[a]]
        /\ alf' = [alf EXCEPT ![s] = [ok |-> TRUE, words |-> IF reads[s] THEN w ELSE <<>>]]
  BY DEF ExecuteSequence
<1>2. regs' \in [Address -> Word]
  BY <1>1 DEF TypeOK
<1>3. \A t \in Service :
        \/ alf'[t] = alf[t]
        \/ /\ alf'[t].ok = TRUE
           /\ alf'[t].words = w \/ DOMAIN alf'[t].words = {}
  BY <1>1 DEF TypeOK
<1>4. /\ DOMAIN alf' = Service
      /\ phase' \in [Service -> {"idle", "built", "executed"}]
  BY <1>1 DEF TypeOK, ExecuteSequence
<1>5. UNCHANGED <<stored, request, tasks, ops, reads, answer>>
  BY DEF ExecuteSequence, handlerVars
<1>. QED BY <1>2, <1>3, <1>4, <1>5 DEF TypeOK

LEMMA FailType ==
  ASSUME TypeOK, NEW s \in Service, FailSequence(s)
  PROVE  TypeOK'
<1>1. PICK done \in SUBSET DOMAIN ops[s], begun \in SUBSET DOMAIN ops[s] :
        regs' = [a \in Address |-> IF a \in done THEN Applied(ops[s][a], regs[a])
                                   ELSE IF a \in begun THEN Begun(ops[s][a], regs[a])
                                   ELSE regs[a]]
  BY DEF FailSequence
<1>2. /\ \A a \in done : Applied(ops[s][a], regs[a]) \in Word
      /\ \A a \in Address : Begun(ops[s][a], regs[a]) \in Word
  BY AppliedType DEF TypeOK, Begun, Word
<1>3. regs' \in [Address -> Word]
  BY <1>1, <1>2 DEF TypeOK
<1>4. /\ DOMAIN alf' = Service
      /\ phase' \in [Service -> {"idle", "built", "executed"}]
      /\ \A t \in Service :
           alf'[t] = alf[t] \/ (alf'[t].ok = FALSE /\ DOMAIN alf'[t].words = {})
  BY DEF TypeOK, FailSequence, NoResponse
<1>5. UNCHANGED <<stored, request, tasks, ops, reads, answer>>
  BY DEF FailSequence, handlerVars
<1>. QED BY <1>3, <1>4, <1>5 DEF TypeOK

LEMMA ElectronicsType ==
  ASSUME TypeOK, NEW a \in Address, ElectronicsChange(a)
  PROVE  TypeOK'
<1>1. regs' \in [Address -> Word]
  BY DEF TypeOK, ElectronicsChange
<1>2. UNCHANGED <<stored, phase, request, tasks, ops, reads, alf, answer>>
  BY DEF ElectronicsChange, handlerVars
<1>. QED BY <1>1, <1>2 DEF TypeOK

LEMMA ReportFailureType ==
  ASSUME TypeOK, NEW s \in Service, ReportFailure(s)
  PROVE  TypeOK'
<1>1. /\ DOMAIN answer' = Service
      /\ phase' \in [Service -> {"idle", "built", "executed"}]
      /\ \A t \in Service :
           \/ answer'[t] = answer[t]
           \/ DOMAIN answer'[t].values = {} /\ answer'[t].errors = {"SEQUENCE"}
  BY DEF TypeOK, ReportFailure
<1>2. UNCHANGED <<regs, stored, request, tasks, ops, reads, alf>>
  BY DEF ReportFailure, handlerVars
<1>. QED BY <1>1, <1>2 DEF TypeOK

\* The parameters of a response are those of the request.
LEMMA HandledNames ==
  ASSUME TypeOK, HandlerInv, NEW s \in Service, phase[s] = "executed", alf[s].ok
  PROVE  /\ request[s] \in Request /\ Legal(request[s])
         /\ Handled(s) = IF reads[s] THEN {Task(request[s][i]) : i \in DOMAIN request[s]} ELSE {}
         /\ Names(Handled(s)) = IF reads[s] THEN NamedParams(request[s]) ELSE {}
         /\ Names(Handled(s)) \subseteq Param
<1> DEFINE req == request[s]
<1>1. /\ Legal(req)
      /\ tasks[s] = [a \in Named(req) |-> TasksAt(req, a)]
      /\ DOMAIN alf[s].words = IF reads[s] THEN Named(req) ELSE {}
  BY DEF HandlerInv, Coherent, ResponseOf
<1>2. CASE ~reads[s]
  BY <1>1, <1>2 DEF Handled, Names, Legal
<1>3. CASE reads[s]
  <2>1. Handled(s) = UNION {TasksAt(req, a) : a \in Named(req)}
    BY <1>1, <1>3 DEF Handled
  <2>2. \A i \in DOMAIN req : /\ addr[req[i].param] \in Named(req)
                              /\ i \in At(req, addr[req[i].param])
    BY DEF Named, At
  <2>3. Handled(s) = {Task(req[i]) : i \in DOMAIN req}
    <3>1. \A t \in Handled(s) : t \in {Task(req[i]) : i \in DOMAIN req}
      BY <2>1 DEF TasksAt, At
    <3>2. \A i \in DOMAIN req : Task(req[i]) \in Handled(s)
      BY <2>1, <2>2 DEF TasksAt
    <3>. QED BY <3>1, <3>2
  <2>4. Names(Handled(s)) = NamedParams(req)
    <3>1. Names(Handled(s)) = {Task(req[i]).param : i \in DOMAIN req}
      BY <2>3 DEF Names
    <3>. QED BY <3>1 DEF Task, NamedParams
  <2>. QED BY <1>1, <1>3, <2>3, <2>4 DEF NamedParams, Legal
<1>. QED BY <1>2, <1>3 DEF TypeOK

LEMMA UnpackType ==
  ASSUME TypeOK, HandlerInv, NEW s \in Service, UnpackResponse(s)
  PROVE  TypeOK'
<1>1. PICK failing \in SUBSET Names(Handled(s)) :
        LET good       == Names(Handled(s)) \ failing
            mismatched == {t.param : t \in {u \in Handled(s) : u.param \in good /\ Mismatch(s, u)}}
        IN /\ answer' = [answer EXCEPT ![s] = [values |-> [p \in good |-> FieldRead(s, p)],
                                               errors |-> failing \cup mismatched]]
           /\ stored' = [p \in Param |-> IF p \in good THEN FieldRead(s, p) ELSE stored[p]]
  BY DEF UnpackResponse
<1> DEFINE good == Names(Handled(s)) \ failing
           mismatched == {t.param : t \in {u \in Handled(s) : u.param \in good /\ Mismatch(s, u)}}
<1>2. Names(Handled(s)) \subseteq Param
  BY HandledNames DEF UnpackResponse
<1>3. \A p \in Param : FieldRead(s, p) \subseteq field[p] /\ FieldRead(s, p) \in Word
  BY ConstantsAssumption DEF FieldRead, Word
<1>4. /\ stored' \in [Param -> Word \cup {None}]
      /\ \A p \in Param : stored'[p] # None => stored'[p] \subseteq field[p]
  BY <1>1, <1>3 DEF TypeOK
<1>5. mismatched \subseteq Param
  BY <1>2
<1>6. \A t \in Service :
        \/ answer'[t] = answer[t]
        \/ /\ DOMAIN answer'[t].values = good
           /\ \A p \in good : answer'[t].values[p] = FieldRead(s, p)
           /\ answer'[t].errors = failing \cup mismatched
  BY <1>1 DEF TypeOK
<1>7. /\ DOMAIN answer' = Service
      /\ phase' \in [Service -> {"idle", "built", "executed"}]
  BY <1>1 DEF TypeOK, UnpackResponse
<1>8. UNCHANGED <<regs, request, tasks, ops, reads, alf>>
  BY DEF UnpackResponse, handlerVars
<1>. QED
  <2>. HIDE DEF good, mismatched
  <2>1. good \subseteq Param /\ failing \subseteq Param
    BY <1>2 DEF good
  <2>. QED BY <1>3, <1>4, <1>5, <1>6, <1>7, <1>8, <2>1 DEF TypeOK

-----------------------------------------------------------------------------
(* The handler keeps the image of its request. *)

LEMMA InitHandler == Init => HandlerInv
BY DEF Init, HandlerInv, Coherent

\* A service that keeps its phase, its request, its handler and its response
\* keeps its part of HandlerInv.
LEMMA HandlerFrame ==
  ASSUME HandlerInv, NEW t \in Service,
         phase'[t] = phase[t], request'[t] = request[t], tasks'[t] = tasks[t],
         ops'[t] = ops[t], reads'[t] = reads[t], alf'[t] = alf[t]
  PROVE  /\ phase'[t] # "idle" => request'[t] # <<>>
         /\ Coherent(t)'
         /\ phase'[t] = "executed" /\ alf'[t].ok => ResponseOf(t)'
BY DEF HandlerInv, Coherent, ResponseOf

LEMMA RejectHandler ==
  ASSUME TypeOK, HandlerInv, NEW s \in Service, phase[s] = "idle",
         NEW req \in Request, Reject(s, req)
  PROVE  HandlerInv'
<1>1. request'[s] = <<>> /\ phase'[s] = "idle"
  BY DEF TypeOK, Reject
<1>2. \A t \in Service \ {s} :
        /\ phase'[t] = phase[t] /\ request'[t] = request[t] /\ tasks'[t] = tasks[t]
        /\ ops'[t] = ops[t] /\ reads'[t] = reads[t] /\ alf'[t] = alf[t]
  BY DEF TypeOK, Reject
<1>3. Coherent(s)'
  BY <1>1 DEF Coherent
<1>. QED BY <1>1, <1>2, <1>3, HandlerFrame DEF HandlerInv

LEMMA PrepareHandler ==
  ASSUME TypeOK, HandlerInv, NEW s \in Service,
         NEW req \in Request, NEW r \in BOOLEAN, Prepare(s, req, r)
  PROVE  HandlerInv'
<1>1. /\ request'[s] = req /\ phase'[s] = "built"
      /\ ops'[s] = [a \in Named(req) |-> MergedOperation(req, a)]
      /\ tasks'[s] = [a \in Named(req) |-> TasksAt(req, a)]
  BY DEF TypeOK, Prepare
<1>2. Coherent(s)'
  BY <1>1, AcceptedIsLegal DEF Coherent, Prepare
<1>3. request'[s] # <<>>
  BY <1>1, RequestCommands
<1>4. \A t \in Service \ {s} :
        /\ phase'[t] = phase[t] /\ request'[t] = request[t] /\ tasks'[t] = tasks[t]
        /\ ops'[t] = ops[t] /\ reads'[t] = reads[t] /\ alf'[t] = alf[t]
  BY DEF TypeOK, Prepare
<1>. QED BY <1>1, <1>2, <1>3, <1>4, HandlerFrame DEF HandlerInv

LEMMA ExecuteHandler ==
  ASSUME TypeOK, HandlerInv, NEW s \in Service, ExecuteSequence(s)
  PROVE  HandlerInv'
<1>1. PICK w \in [DOMAIN ops[s] -> Word] :
        /\ \A a \in DOMAIN ops[s] : MayHold(a, ops[s][a], w[a])
        /\ alf' = [alf EXCEPT ![s] = [ok |-> TRUE, words |-> IF reads[s] THEN w ELSE <<>>]]
  BY DEF ExecuteSequence
<1>2. /\ request[s] # <<>> /\ Coherent(s)
      /\ UNCHANGED <<request, tasks, ops, reads>>
  BY DEF HandlerInv, ExecuteSequence, handlerVars
<1>3. DOMAIN ops[s] = Named(request[s])
  BY <1>2 DEF Coherent
<1>4. \A a \in DOMAIN ops[s] : Compatible(a, ops[s][a], w[a])
  <2>. SUFFICES ASSUME NEW a \in DOMAIN ops[s], ops[s][a].type # "Read"
                PROVE  /\ (ops[s][a].or \ Volatile[a]) \subseteq w[a]
                       /\ \A b \in w[a] \ Volatile[a] : b \in ops[s][a].and \/ b \in ops[s][a].or
    BY DEF Compatible
  <2>1. w[a] \ Volatile[a] = ((regs[a] \cap ops[s][a].and) \cup ops[s][a].or) \ Volatile[a]
    BY <1>1 DEF MayHold, Applied
  <2>. QED BY <2>1
<1>5. /\ DOMAIN alf'[s].words = IF reads[s] THEN Named(request[s]) ELSE {}
      /\ \A a \in DOMAIN alf'[s].words : alf'[s].words[a] = w[a] /\ a \in DOMAIN ops[s]
  BY <1>1, <1>3 DEF TypeOK
<1>6. ResponseOf(s)'
  BY <1>2, <1>4, <1>5 DEF ResponseOf, Compatible
<1>7. Coherent(s)' /\ request'[s] # <<>>
  BY <1>2 DEF Coherent
<1>8. \A t \in Service \ {s} :
        /\ phase'[t] = phase[t] /\ request'[t] = request[t] /\ tasks'[t] = tasks[t]
        /\ ops'[t] = ops[t] /\ reads'[t] = reads[t] /\ alf'[t] = alf[t]
  BY <1>1, <1>2 DEF TypeOK, ExecuteSequence
<1>. QED BY <1>6, <1>7, <1>8, HandlerFrame DEF HandlerInv

LEMMA FailHandler ==
  ASSUME TypeOK, HandlerInv, NEW s \in Service, FailSequence(s)
  PROVE  HandlerInv'
<1>1. ~alf'[s].ok
  BY DEF TypeOK, FailSequence, NoResponse
<1>2. UNCHANGED <<request, tasks, ops, reads>>
  BY DEF FailSequence, handlerVars
<1>3. \A t \in Service \ {s} : phase'[t] = phase[t] /\ alf'[t] = alf[t]
  BY DEF TypeOK, FailSequence
<1>4. Coherent(s)' /\ request'[s] # <<>>
  BY <1>2 DEF HandlerInv, Coherent, FailSequence
<1>. QED BY <1>1, <1>2, <1>3, <1>4, HandlerFrame DEF HandlerInv

\* The steps that end the processing of a response, and those of the electronics.
LEMMA OtherHandler ==
  ASSUME TypeOK, HandlerInv, UNCHANGED <<request, tasks, ops, reads, alf>>,
         \A t \in Service : phase'[t] = phase[t] \/ phase'[t] = "idle"
  PROVE  HandlerInv'
BY HandlerFrame DEF HandlerInv, Coherent, ResponseOf

-----------------------------------------------------------------------------
(* The answers. *)

\* A step after which every service has not answered yet, or has the answer it
\* had before, keeps AnswerInv.
LEMMA AnswerFrame ==
  ASSUME AnswerInv,
         \A t \in Service :
           \/ ~Answered(t)'
           \/ /\ phase'[t] = phase[t] /\ request'[t] = request[t] /\ reads'[t] = reads[t]
              /\ alf'[t] = alf[t] /\ answer'[t] = answer[t]
  PROVE  AnswerInv'
<1>1. \A t \in Service : Answered(t)' =>
        /\ Answered(t) /\ request'[t] = request[t] /\ reads'[t] = reads[t]
        /\ alf'[t] = alf[t] /\ answer'[t] = answer[t]
  BY DEF Answered
<1>2. WriteConfirmed'
  BY <1>1 DEF AnswerInv, WriteConfirmed, FieldRead
<1>3. NoSpuriousFailure'
  BY <1>1 DEF AnswerInv, NoSpuriousFailure
<1>4. AnswerMatchesRequest'
  BY <1>1 DEF AnswerInv, AnswerMatchesRequest
<1>. QED BY <1>2, <1>3, <1>4 DEF AnswerInv

\* A field that reads back other than it was commanded: the electronics changed
\* it, or another command of the request wrote it.
LEMMA MismatchHasCause ==
  ASSUME TypeOK, HandlerInv, NEW s \in Service, phase[s] = "executed", alf[s].ok, reads[s],
         NEW i \in DOMAIN request[s], IsWrite(request[s][i]),
         FieldRead(s, request[s][i].param) # request[s][i].raw,
         field[request[s][i].param] \cap Volatile[addr[request[s][i].param]] = {}
  PROVE  \E j \in DOMAIN request[s] : Conflict(request[s][i], request[s][j])
<1> DEFINE req == request[s]
           p == req[i].param
           a == addr[p]
           op == MergedOperation(req, a)
           w == alf[s].words[a]
<1>1. /\ req \in Request /\ Legal(req) /\ i \in At(req, a) /\ a \in Named(req) /\ p \in Param
      /\ ops[s][a] = op /\ Compatible(a, op, w) /\ w \in Word
  <2>1. Legal(req) /\ ops[s] = [x \in Named(req) |-> MergedOperation(req, x)]
    BY DEF HandlerInv, Coherent
  <2>2. i \in At(req, a) /\ a \in Named(req)
    BY DEF At, Named
  <2>3. a \in DOMAIN alf[s].words /\ Compatible(a, ops[s][a], w)
    BY <2>2 DEF HandlerInv, ResponseOf
  <2>4. ops[s][a] = op
    <3>. HIDE DEF op, a
    <3>. QED BY <2>1, <2>2 DEF op
  <2>5. w \in Word
    BY <2>3 DEF TypeOK
  <2>6. req \in Request /\ p \in Param
    BY <2>1 DEF Legal
  <2>. HIDE DEF op, a, p, w
  <2>. QED BY <2>1, <2>2, <2>3, <2>4, <2>5, <2>6
<1>2. req[i].raw \subseteq field[p]
  BY <1>1, RangeFitsField DEF Legal
<1>3. op.type # "Read"
  BY <1>1 DEF MergedOperation, TypeAt
<1>4. req[i].raw \subseteq w
  <2>1. req[i].raw \subseteq op.or
    BY <1>1 DEF MergedOperation
  <2>. QED BY <1>1, <1>2, <1>3, <2>1 DEF Compatible
<1>5. PICK b \in (w \cap field[p]) : b \notin req[i].raw
  BY <1>2, <1>4 DEF FieldRead
<1>6. b \notin op.and
  BY <1>1, <1>5 DEF MergedOperation, ANDMask
<1>7. b \in op.or
  BY <1>1, <1>3, <1>5, <1>6 DEF Compatible
<1>8. PICK j \in At(req, a) : b \in req[j].raw
  BY <1>7 DEF MergedOperation
<1>9. Conflict(req[i], req[j])
  <2>1. addr[req[j].param] = a
    BY DEF At
  <2>. QED BY <1>5, <1>8, <2>1 DEF Conflict
<1>. QED BY <1>9 DEF At

LEMMA UnpackAnswer ==
  ASSUME TypeOK, HandlerInv, AnswerInv, NEW s \in Service, UnpackResponse(s)
  PROVE  AnswerInv'
<1>1. PICK failing \in SUBSET Names(Handled(s)) :
        LET good       == Names(Handled(s)) \ failing
            mismatched == {t.param : t \in {u \in Handled(s) : u.param \in good /\ Mismatch(s, u)}}
        IN /\ CannotCalculate(s, failing)
           /\ answer' = [answer EXCEPT ![s] = [values |-> [p \in good |-> FieldRead(s, p)],
                                               errors |-> failing \cup mismatched]]
  BY DEF UnpackResponse
<1> DEFINE good == Names(Handled(s)) \ failing
           mismatched == {t.param : t \in {u \in Handled(s) : u.param \in good /\ Mismatch(s, u)}}
           req == request[s]
<1>2. /\ phase[s] = "executed" /\ alf[s].ok /\ phase'[s] = "idle"
      /\ UNCHANGED <<request, tasks, ops, reads, alf>>
  BY DEF TypeOK, UnpackResponse, handlerVars
<1>3. /\ req \in Request /\ Legal(req)
      /\ Handled(s) = IF reads[s] THEN {Task(req[i]) : i \in DOMAIN req} ELSE {}
      /\ Names(Handled(s)) = IF reads[s] THEN NamedParams(req) ELSE {}
      /\ Names(Handled(s)) \subseteq Param
  BY <1>2, HandledNames
<1>4. /\ DOMAIN answer'[s].values = good
      /\ answer'[s].errors = failing \cup mismatched
  BY <1>1 DEF TypeOK
<1>5. \A t \in Service \ {s} :
        /\ phase'[t] = phase[t] /\ request'[t] = request[t] /\ reads'[t] = reads[t]
        /\ alf'[t] = alf[t] /\ answer'[t] = answer[t]
  BY <1>1, <1>2 DEF TypeOK, UnpackResponse
<1>6. \A t \in Service \ {s} : Answered(t)' => Answered(t)
  BY <1>5 DEF Answered
<1>7. mismatched \subseteq good
  OBVIOUS
<1>8. WriteConfirmed'
  <2>1. ASSUME reads[s], failing \cup mismatched = {}, NEW i \in DOMAIN req, IsWrite(req[i])
        PROVE  FieldRead(s, req[i].param) = req[i].raw
    <3>1. Task(req[i]) \in Handled(s)
      BY <1>3, <2>1
    <3>2. Task(req[i]).param \in good
      BY <3>1, <2>1 DEF Names
    <3>3. ~Mismatch(s, Task(req[i]))
      BY <3>1, <3>2, <2>1
    <3>. QED BY <3>3, <2>1 DEF Mismatch, Task
  <2>2. \A p : FieldRead(s, p)' = FieldRead(s, p)
    BY <1>2 DEF FieldRead
  <2>3. \A t \in Service \ {s} : \A p : FieldRead(t, p)' = FieldRead(t, p)
    BY <1>2 DEF FieldRead
  <2>. HIDE DEF good, mismatched
  <2>. QED BY <1>2, <1>4, <1>5, <1>6, <2>1, <2>2, <2>3 DEF AnswerInv, WriteConfirmed
<1>9. NoSpuriousFailure'
  <2>1. ASSUME NEW p \in failing
        PROVE  toPhysVars[p] # {}
    BY <1>1 DEF CannotCalculate, MissingToPhys
  <2>2. ASSUME NEW p \in mismatched, field[p] \cap Volatile[addr[p]] = {}
        PROVE  \E i, j \in DOMAIN req : req[i].param = p /\ Conflict(req[i], req[j])
    <3>1. PICK u \in Handled(s) : u.param = p /\ Mismatch(s, u)
      BY <2>2
    <3>2. reads[s]
      BY <1>3, <3>1
    <3>3. PICK i \in DOMAIN req : u = Task(req[i])
      BY <1>3, <3>1, <3>2
    <3>4. req[i].param = p /\ IsWrite(req[i]) /\ FieldRead(s, req[i].param) # req[i].raw
      BY <3>1, <3>3 DEF Task, Mismatch
    <3>5. \E j \in DOMAIN req : Conflict(req[i], req[j])
      BY <1>2, <2>2, <3>2, <3>4, MismatchHasCause
    <3>. QED BY <3>4, <3>5
  <2>. HIDE DEF good, mismatched
  <2>. QED BY <1>2, <1>4, <1>5, <1>6, <2>1, <2>2 DEF AnswerInv, NoSpuriousFailure
<1>10. AnswerMatchesRequest'
  <2>1. good \cup (failing \cup mismatched) = IF reads[s] THEN NamedParams(req) ELSE {}
    BY <1>3, <1>7
  <2>. HIDE DEF good, mismatched
  <2>. QED BY <1>2, <1>4, <1>5, <1>6, <2>1 DEF AnswerInv, AnswerMatchesRequest
<1>. QED BY <1>8, <1>9, <1>10 DEF AnswerInv

-----------------------------------------------------------------------------
(* The inductive invariant. *)

LEMMA InitIInv == Init => IInv
<1>. SUFFICES ASSUME Init PROVE AnswerInv
  BY InitType, InitHandler DEF IInv
<1>1. \A s \in Service : ~Answered(s)
  BY DEF Init, Answered
<1>. QED BY <1>1 DEF AnswerInv, WriteConfirmed, NoSpuriousFailure, AnswerMatchesRequest

LEMMA NextIInv == IInv /\ [Next]_vars => IInv'
<1>. SUFFICES ASSUME IInv, [Next]_vars PROVE IInv'
  OBVIOUS
<1>. USE DEF IInv
<1>1. ASSUME NEW s \in Service, NEW req \in Request, Build(s, req) PROVE IInv'
  <2>1. phase[s] = "idle"
    BY <1>1 DEF Build
  <2>2. Reject(s, req) \/ \E r \in BOOLEAN : Prepare(s, req, r)
    BY <1>1 DEF Build
  <2>3. CASE Reject(s, req)
    <3>1. \A t \in Service :
            \/ ~Answered(t)'
            \/ /\ phase'[t] = phase[t] /\ request'[t] = request[t] /\ reads'[t] = reads[t]
               /\ alf'[t] = alf[t] /\ answer'[t] = answer[t]
      BY <2>3 DEF Reject, Answered, TypeOK
    <3>. QED BY <2>1, <2>3, <3>1, RejectType, RejectHandler, AnswerFrame
  <2>4. ASSUME NEW r \in BOOLEAN, Prepare(s, req, r) PROVE IInv'
    <3>1. \A t \in Service :
            \/ ~Answered(t)'
            \/ /\ phase'[t] = phase[t] /\ request'[t] = request[t] /\ reads'[t] = reads[t]
               /\ alf'[t] = alf[t] /\ answer'[t] = answer[t]
      BY <2>4 DEF Prepare, Answered, TypeOK
    <3>. QED BY <2>4, <3>1, PrepareType, PrepareHandler, AnswerFrame
  <2>. QED BY <2>2, <2>3, <2>4
<1>2. ASSUME NEW s \in Service, ExecuteSequence(s) PROVE IInv'
  <2>1. \A t \in Service :
          \/ ~Answered(t)'
          \/ /\ phase'[t] = phase[t] /\ request'[t] = request[t] /\ reads'[t] = reads[t]
             /\ alf'[t] = alf[t] /\ answer'[t] = answer[t]
    BY <1>2 DEF ExecuteSequence, Answered, TypeOK, handlerVars
  <2>. QED BY <1>2, <2>1, ExecuteType, ExecuteHandler, AnswerFrame
<1>3. ASSUME NEW s \in Service, FailSequence(s) PROVE IInv'
  <2>1. \A t \in Service :
          \/ ~Answered(t)'
          \/ /\ phase'[t] = phase[t] /\ request'[t] = request[t] /\ reads'[t] = reads[t]
             /\ alf'[t] = alf[t] /\ answer'[t] = answer[t]
    BY <1>3 DEF FailSequence, Answered, TypeOK, handlerVars
  <2>. QED BY <1>3, <2>1, FailType, FailHandler, AnswerFrame
<1>4. ASSUME NEW s \in Service, UnpackResponse(s) PROVE IInv'
  <2>1. /\ UNCHANGED <<request, tasks, ops, reads, alf>>
        /\ \A t \in Service : phase'[t] = phase[t] \/ phase'[t] = "idle"
    BY <1>4 DEF UnpackResponse, handlerVars, TypeOK
  <2>. QED BY <1>4, <2>1, UnpackType, OtherHandler, UnpackAnswer
<1>5. ASSUME NEW s \in Service, ReportFailure(s) PROVE IInv'
  <2>1. /\ UNCHANGED <<request, tasks, ops, reads, alf>>
        /\ \A t \in Service : phase'[t] = phase[t] \/ phase'[t] = "idle"
    BY <1>5 DEF ReportFailure, handlerVars, TypeOK
  <2>2. \A t \in Service :
          \/ ~Answered(t)'
          \/ /\ phase'[t] = phase[t] /\ request'[t] = request[t] /\ reads'[t] = reads[t]
             /\ alf'[t] = alf[t] /\ answer'[t] = answer[t]
    BY <1>5, <2>1 DEF ReportFailure, Answered, TypeOK
  <2>. QED BY <1>5, <2>1, <2>2, ReportFailureType, OtherHandler, AnswerFrame
<1>6. ASSUME NEW a \in Address, ElectronicsChange(a) PROVE IInv'
  <2>1. UNCHANGED <<stored, phase, request, tasks, ops, reads, alf, answer>>
    BY <1>6 DEF ElectronicsChange, handlerVars
  <2>. QED BY <1>6, <2>1, ElectronicsType, OtherHandler, AnswerFrame
<1>7. CASE UNCHANGED vars
  <2>1. UNCHANGED <<regs, stored, phase, request, tasks, ops, reads, alf, answer>>
    BY <1>7 DEF vars
  <2>2. TypeOK'
    BY <2>1 DEF TypeOK
  <2>. QED BY <2>1, <2>2, OtherHandler, AnswerFrame
<1>. QED BY <1>1, <1>2, <1>3, <1>4, <1>5, <1>6, <1>7 DEF Next

LEMMA SpecIInv == Spec => []IInv
BY InitIInv, NextIInv, PTL DEF Spec

\* Type correctness of the register path: in particular no stored or answered
\* value has a bit outside its parameter's field.
THEOREM TypeCorrect == Spec => []TypeOK
BY SpecIInv, PTL DEF IInv

\* A write answered without an error was in its register, for every board,
\* every request and any interleaving of services.
THEOREM WritesAreConfirmed == Spec => []WriteConfirmed
BY SpecIInv, PTL DEF IInv, AnswerInv

\* Merging the commands of a request by register loses none of them.
THEOREM FailuresHaveCauses == Spec => []NoSpuriousFailure
BY SpecIInv, PTL DEF IInv, AnswerInv

\* Every answer is about the parameters of its own request.
THEOREM AnswersMatchRequests == Spec => []AnswerMatchesRequest
BY SpecIInv, PTL DEF IInv, AnswerInv

-----------------------------------------------------------------------------
(* Which bits of the board a step may change. *)


\* Command c of register a sets bit b to TRUE or FALSE, legally.
CommandsBit(c, a, b, value) ==
  /\ IsWrite(c)
  /\ c.param \in Param \ (ReadOnly \cup Block)
  /\ addr[c.param] = a
  /\ c.raw \in raws[c.param]
  /\ b \in field[c.param]
  /\ value <=> b \in c.raw

\* Command c legally writes a field that bit b of register a is in.
NamesBit(c, a, b) ==
  /\ IsWrite(c)
  /\ c.param \in Param \ (ReadOnly \cup Block)
  /\ addr[c.param] = a
  /\ c.raw \in raws[c.param]
  /\ b \in field[c.param]

\* The commands that make up an operation that writes.
LEMMA WriteCommands ==
  ASSUME HandlerInv, NEW s \in Service, phase[s] = "built",
         NEW a \in DOMAIN ops[s], ops[s][a].type # "Read"
  PROVE  /\ ops[s][a] = MergedOperation(request[s], a)
         /\ \A i \in At(request[s], a) : /\ i \in DOMAIN request[s]
                                        /\ IsWrite(request[s][i])
                                        /\ request[s][i].param \in Param \ (ReadOnly \cup Block)
                                        /\ addr[request[s][i].param] = a
                                        /\ request[s][i].raw \in raws[request[s][i].param]
                                        /\ request[s][i].raw \subseteq field[request[s][i].param]
<1> DEFINE req == request[s]
<1>1. Legal(req) /\ ops[s] = [x \in Named(req) |-> MergedOperation(req, x)]
  BY DEF HandlerInv, Coherent
<1>2. ops[s][a] = MergedOperation(req, a)
  BY <1>1
<1>3. TypeAt(req, a) # "Read"
  BY <1>2 DEF MergedOperation
<1>4. PICK k \in At(req, a) : IsWrite(req[k])
  BY <1>3 DEF TypeAt
<1>5. \A i \in At(req, a) : i \in DOMAIN req /\ IsWrite(req[i])
  BY <1>1, <1>4 DEF Legal, IsUniform, At
<1>. QED BY <1>1, <1>2, <1>5, RangeFitsField DEF Legal, At

\* A bit that the AND mask clears is in the field of a command.
LEMMA ClearedBit ==
  ASSUME TypeOK, HandlerInv, NEW s \in Service, phase[s] = "built",
         NEW a \in DOMAIN ops[s], ops[s][a].type # "Read",
         NEW b \in Bit, b \notin ops[s][a].and
  PROVE  \E i \in At(request[s], a) : b \in field[request[s][i].param]
<1>1. ops[s][a] = MergedOperation(request[s], a)
  BY WriteCommands
<1>2. PICK j \in At(request[s], a) : b \notin ANDMask(request[s][j].param)
  BY <1>1 DEF MergedOperation
<1>. QED BY <1>2 DEF ANDMask

\* A bit that the merged operation of register a changes is commanded so by one
\* of the commands of the request.
LEMMA MergedBit ==
  ASSUME TypeOK, HandlerInv, NEW s \in Service, phase[s] = "built",
         NEW a \in DOMAIN ops[s], NEW b, NEW value \in BOOLEAN,
         value <=> b \in Applied(ops[s][a], regs[a]),
         value <=> b \notin regs[a]
  PROVE  \E i \in DOMAIN request[s] : CommandsBit(request[s][i], a, b, value)
<1>1. ops[s][a].type # "Read"
  BY DEF Applied
<1>2. ops[s][a] = MergedOperation(request[s], a)
  BY <1>1, WriteCommands
<1>3. CASE value
  <2>1. b \in ops[s][a].or \/ b \in regs[a]
    BY <1>1, <1>3 DEF Applied
  <2>2. PICK j \in At(request[s], a) : b \in request[s][j].raw
    BY <1>2, <1>3, <2>1 DEF MergedOperation
  <2>. QED BY <1>1, <1>3, <2>2, WriteCommands DEF CommandsBit
<1>4. CASE ~value
  <2>1. a \in Address /\ regs[a] \in Word
    BY DEF TypeOK
  <2>2. b \in Bit /\ b \notin ops[s][a].and /\ b \notin ops[s][a].or
    BY <1>1, <1>4, <2>1 DEF Applied, Word
  <2>3. PICK j \in At(request[s], a) : b \in field[request[s][j].param]
    BY <1>1, <2>2, ClearedBit
  <2>4. b \notin request[s][j].raw
    BY <1>2, <2>2 DEF MergedOperation
  <2>. QED BY <1>1, <1>4, <2>3, <2>4, WriteCommands DEF CommandsBit
<1>. QED BY <1>3, <1>4

\* A bit that the AND frame alone clears is in the field of a command of the request.
LEMMA BegunBit ==
  ASSUME TypeOK, HandlerInv, NEW s \in Service, phase[s] = "built",
         NEW a \in DOMAIN ops[s], ops[s][a].type = "RMWbits", NEW b,
         b \in regs[a], b \notin Begun(ops[s][a], regs[a])
  PROVE  \E i \in DOMAIN request[s] : NamesBit(request[s][i], a, b)
<1>1. a \in Address /\ regs[a] \in Word
  BY DEF TypeOK
<1>2. b \in Bit /\ b \notin ops[s][a].and
  BY <1>1 DEF Begun, Word
<1>3. ops[s][a].type # "Read"
  OBVIOUS
<1>4. PICK j \in At(request[s], a) : b \in field[request[s][j].param]
  BY <1>2, <1>3, ClearedBit
<1>. QED BY <1>3, <1>4, WriteCommands DEF NamesBit

\* The step executes the operations of s at the addresses done and, if the sequence
\* fails, the AND frames alone of those at the addresses begun.
Executes(s, done, begun) ==
  /\ phase[s] = "built" /\ phase'[s] = "executed"
  /\ done \subseteq DOMAIN ops[s] /\ begun \subseteq DOMAIN ops[s]
  /\ begun # {} => ~alf'[s].ok
  /\ \A a \in begun : ops[s][a].type = "RMWbits"
  /\ \A a \in Address :
       IF a \in done
       THEN regs'[a] \ Volatile[a] = Applied(ops[s][a], regs[a]) \ Volatile[a]
       ELSE IF a \in begun THEN regs'[a] = Begun(ops[s][a], regs[a])
       ELSE regs'[a] = regs[a]

\* Such a step changes bits as commanded.
LEMMA ExecutedBits ==
  ASSUME TypeOK, HandlerInv, NEW s \in Service, NEW done, NEW begun, Executes(s, done, begun)
  PROVE  LegalChange
<1>. SUFFICES ASSUME NEW a \in Address,
                     NEW b \in ((regs[a] \cup regs'[a]) \ (regs[a] \cap regs'[a])) \ Volatile[a]
              PROVE  \E i \in DOMAIN request[s] :
                       \/ CommandsBit(request[s][i], a, b, b \in regs'[a])
                       \/ NamesBit(request[s][i], a, b) /\ ~alf'[s].ok /\ b \notin regs'[a]
  BY DEF LegalChange, CommandsBit, NamesBit, Executes
<1>1. b \in regs'[a] <=> b \notin regs[a]
  OBVIOUS
<1>2. CASE a \in done
  <2>1. b \in regs'[a] <=> b \in Applied(ops[s][a], regs[a])
    BY <1>2 DEF Executes
  <2>2. CASE b \in regs'[a]
    <3>1. \E i \in DOMAIN request[s] : CommandsBit(request[s][i], a, b, TRUE)
      BY <1>1, <1>2, <2>1, <2>2, MergedBit DEF Executes
    <3>. QED BY <2>2, <3>1 DEF CommandsBit
  <2>3. CASE b \notin regs'[a]
    <3>1. \E i \in DOMAIN request[s] : CommandsBit(request[s][i], a, b, FALSE)
      BY <1>1, <1>2, <2>1, <2>3, MergedBit DEF Executes
    <3>. QED BY <2>3, <3>1 DEF CommandsBit
  <2>. QED BY <2>2, <2>3
<1>3. CASE a \notin done
  <2>1. a \in begun /\ regs'[a] = Begun(ops[s][a], regs[a])
    BY <1>3 DEF Executes
  <2>2. b \in regs[a] /\ b \notin regs'[a]
    BY <1>1, <2>1 DEF Begun
  <2>3. \E i \in DOMAIN request[s] : NamesBit(request[s][i], a, b)
    BY <2>1, <2>2, BegunBit DEF Executes
  <2>4. ~alf'[s].ok
    BY <2>1 DEF Executes
  <2>. QED BY <2>2, <2>3, <2>4
<1>. QED BY <1>2, <1>3

LEMMA NextLegalChange == IInv /\ [Next]_vars => [LegalChange]_vars
<1>. SUFFICES ASSUME IInv, Next PROVE LegalChange
  OBVIOUS
<1>1. CASE UNCHANGED regs
  BY <1>1 DEF LegalChange
<1>2. ASSUME NEW s \in Service, ExecuteSequence(s) PROVE LegalChange
  <2>1. PICK w \in [DOMAIN ops[s] -> Word] :
          /\ \A a \in DOMAIN ops[s] : MayHold(a, ops[s][a], w[a])
          /\ regs' = [a \in Address |-> IF a \in DOMAIN ops[s] THEN w[a] ELSE regs[a]]
    BY <1>2 DEF ExecuteSequence
  <2>2. phase[s] = "built" /\ phase'[s] = "executed"
    BY <1>2 DEF ExecuteSequence, IInv, TypeOK
  <2>3. Executes(s, DOMAIN ops[s], {})
    BY <2>1, <2>2 DEF Executes, MayHold
  <2>. QED BY <2>3, ExecutedBits DEF IInv
<1>3. ASSUME NEW s \in Service, FailSequence(s) PROVE LegalChange
  <2>1. PICK done \in SUBSET DOMAIN ops[s] :
          \E begun \in {{}} \cup {{a} : a \in {x \in DOMAIN ops[s] \ done : ops[s][x].type = "RMWbits"}} :
            regs' = [a \in Address |-> IF a \in done THEN Applied(ops[s][a], regs[a])
                                       ELSE IF a \in begun THEN Begun(ops[s][a], regs[a])
                                       ELSE regs[a]]
    BY <1>3 DEF FailSequence
  <2>2. PICK begun \in {{}} \cup {{a} : a \in {x \in DOMAIN ops[s] \ done : ops[s][x].type = "RMWbits"}} :
          regs' = [a \in Address |-> IF a \in done THEN Applied(ops[s][a], regs[a])
                                     ELSE IF a \in begun THEN Begun(ops[s][a], regs[a])
                                     ELSE regs[a]]
    BY <2>1
  <2>3. phase[s] = "built" /\ phase'[s] = "executed" /\ ~alf'[s].ok
    BY <1>3 DEF FailSequence, IInv, TypeOK, NoResponse
  <2>4. Executes(s, done, begun)
    BY <2>2, <2>3 DEF Executes
  <2>. QED BY <2>4, ExecutedBits DEF IInv
<1>4. ASSUME NEW a \in Address, ElectronicsChange(a) PROVE LegalChange
  <2>1. PICK w \in Word : /\ w \ Volatile[a] = regs[a] \ Volatile[a]
                          /\ regs' = [regs EXCEPT ![a] = w]
    BY <1>4 DEF ElectronicsChange
  <2>2. \A x \in Address : regs'[x] \ Volatile[x] = regs[x] \ Volatile[x]
    BY <2>1 DEF IInv, TypeOK
  <2>. QED BY <2>2 DEF LegalChange
<1>5. ASSUME NEW s \in Service, UnpackResponse(s) \/ ReportFailure(s)
      PROVE UNCHANGED regs
  BY <1>5 DEF UnpackResponse, ReportFailure
<1>6. ASSUME NEW s \in Service, NEW req \in Request, Build(s, req)
      PROVE UNCHANGED regs
  BY <1>6 DEF Build, Reject, Prepare
<1>. QED BY <1>1, <1>2, <1>3, <1>4, <1>5, <1>6 DEF Next

\* Every bit of the board that the electronics leave alone changes only as a
\* legal command of the executed request says, or is cleared with the field of
\* such a command by a sequence that fails between the two frames of its write.
THEOREM ChangesAreLegal == Spec => LegalChangesOnly
BY SpecIInv, NextLegalChange, PTL DEF Spec, LegalChangesOnly
=============================================================================
