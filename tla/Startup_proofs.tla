---------------------------- MODULE Startup_proofs ----------------------------
(* What the flags that the manager polls tell it, for any number of PMs, commands *)
(* and requests of other clients, and any configurations.                         *)
EXTENDS Startup, TLAPS

Resets == RequestsOf({"REINITIALIZE_SPI_MASK", "RESET"})
Configs == RequestsOf(Configurations)
-------------------------------------------------------------------------------
(* Queues *)

LEMMA Appended ==
  ASSUME NEW S, NEW q \in Seq(S), NEW r \in S
  PROVE  /\ Append(q, r) \in Seq(S) /\ Append(q, r) # <<>>
         /\ Len(Append(q, r)) = Len(q) + 1
         /\ \A i \in 1 .. Len(q) : Append(q, r)[i] = q[i]
         /\ Append(q, r)[Len(q) + 1] = r
OBVIOUS

LEMMA Taken ==
  ASSUME NEW S, NEW q \in Seq(S), q # <<>>
  PROVE  /\ Head(q) \in S /\ Head(q) = q[1] /\ Tail(q) \in Seq(S)
         /\ Len(q) \in Nat \ {0} /\ Len(Tail(q)) = Len(q) - 1
         /\ \A i \in 1 .. Len(q) - 1 : Tail(q)[i] = q[i + 1]
OBVIOUS

\* Nobody can have sent a request for a command that has not been given.
Past(q, c) == \A i \in 1 .. Len(q) : q[i].from <= c

Mine(r, c) == r.from # 0 /\ r.from = c

\* If the command waits for this service, its request is the first of the queue; and there is
\* no other request of the command.
Waits(q, service, waited, c) ==
  /\ service \in waited => q # <<>> /\ Mine(q[1], c)
  /\ \A i \in 1 .. Len(q) : Mine(q[i], c) => service \in waited /\ i = 1

LEMMA PastAppend ==
  ASSUME NEW S, NEW q \in Seq(S), NEW r \in S, NEW c, Past(q, c), r.from <= c
  PROVE  Past(Append(q, r), c)
<1>. SUFFICES ASSUME NEW i \in 1 .. Len(q) + 1 PROVE Append(q, r)[i].from <= c
  BY Appended DEF Past
<1>1. CASE i = Len(q) + 1
  BY <1>1, Appended
<1>2. CASE i \in 1 .. Len(q)
  BY <1>2, Appended DEF Past
<1>. QED BY <1>1, <1>2

LEMMA PastTail ==
  ASSUME NEW S, NEW q \in Seq(S), q # <<>>, NEW c, Past(q, c)
  PROVE  Past(Tail(q), c)
BY Taken DEF Past

LEMMA PastLater ==
  ASSUME NEW K, NEW q \in Seq(RequestsOf(K)), NEW c \in Nat, Past(q, c)
  PROVE  Past(q, c + 1) /\ \A service : Waits(q, service, {}, c + 1)
<1>1. ASSUME NEW i \in 1 .. Len(q) PROVE q[i].from \in 0 .. MaxCommands
  <2>1. q[i] \in RequestsOf(K)
    OBVIOUS
  <2>. QED BY <2>1 DEF RequestsOf
<1>. QED BY <1>1, StartupAssumption DEF Past, Waits, Mine

LEMMA WaitsEmpty ==
  ASSUME NEW service, NEW waited, NEW c, service \notin waited
  PROVE  Waits(<<>>, service, waited, c)
BY DEF Waits

LEMMA WaitsSame ==
  ASSUME NEW q, NEW service, NEW waited, NEW after, NEW c, Waits(q, service, waited, c),
         service \in waited <=> service \in after
  PROVE  Waits(q, service, after, c)
BY DEF Waits

LEMMA WaitsOther ==
  ASSUME NEW S, NEW q \in Seq(S), NEW r \in S, NEW service, NEW waited, NEW c,
         Waits(q, service, waited, c), ~Mine(r, c)
  PROVE  Waits(Append(q, r), service, waited, c)
<1>1. ASSUME NEW i \in 1 .. Len(q) + 1, Mine(Append(q, r)[i], c)
      PROVE  service \in waited /\ i = 1
  <2>1. i # Len(q) + 1
    BY <1>1, Appended
  <2>. QED BY <1>1, <2>1, Appended DEF Waits
<1>2. ASSUME service \in waited PROVE Append(q, r) # <<>> /\ Mine(Append(q, r)[1], c)
  <2>1. 1 \in 1 .. Len(q)
    BY <1>2 DEF Waits
  <2>. QED BY <1>2, <2>1, Appended DEF Waits
<1>. QED BY <1>1, <1>2, Appended DEF Waits

LEMMA WaitsMine ==
  ASSUME NEW S, NEW q \in Seq(S), q = <<>>, NEW r \in S, NEW c, Mine(r, c),
         NEW service, NEW waited, service \in waited
  PROVE  Waits(Append(q, r), service, waited, c)
<1>1. Len(Append(q, r)) = 1 /\ Append(q, r)[1] = r /\ Append(q, r) # <<>>
  BY Appended
<1>. QED BY <1>1 DEF Waits

LEMMA WaitsTail ==
  ASSUME NEW S, NEW q \in Seq(S), NEW c, NEW service, NEW waited, Waits(q, service, waited, c),
         q # <<>>
  PROVE  /\ \A after : service \notin after => Waits(Tail(q), service, after, c)
         /\ service \in waited <=> Mine(Head(q), c)
<1>1. ASSUME NEW i \in 1 .. Len(q) - 1 PROVE ~Mine(Tail(q)[i], c)
  <2>1. i + 1 \in 1 .. Len(q) /\ i + 1 # 1 /\ Tail(q)[i] = q[i + 1]
    BY Taken
  <2>. QED BY <2>1 DEF Waits
<1>2. 1 \in 1 .. Len(q) /\ Head(q) = q[1]
  BY Taken
<1>. QED BY <1>1, <1>2, Taken DEF Waits
-------------------------------------------------------------------------------
(* Types, and what the flags say about the threads *)

IType ==
  /\ TypeOK
  /\ pc \in {"configure", "pollConfigurations"} => command # NoConfiguration
  /\ Past(resetQueue, commands) /\ Past(configQueue, commands) /\ Past(tcmQueue, commands)
  /\ \A p \in PMs : Past(pmQueue[p], commands)
  /\ resetPhase = "serving" => resetFlag = 1
  /\ tcmPhase = "serving" => tcmFlag = 1
  /\ resetPhase \in {"waiting", "serving"} => initialized
  /\ resetPhase = "preparing" => ~initialized

LEMMA InitType == Init => IType
<1>. SUFFICES ASSUME Init PROVE IType
  OBVIOUS
<1>1. 0 \in 0 .. MaxCommands /\ 0 \in 0 .. MaxOthers
  BY StartupAssumption
<1>2. \A S : <<>> \in Seq(S)
  OBVIOUS
<1>3. \A c : Past(<<>>, c)
  BY DEF Past
<1>4. pmQueue \in [PMs -> Seq(Configs)] /\ pmFlag \in [PMs -> {0, 1}]
  BY <1>2 DEF Init
<1>5. /\ resetFlag = 0 /\ resetPhase = "returned" /\ tcmFlag = 0 /\ tcmPhase = "returned"
      /\ \A p \in PMs : pmFlag[p] = 0 /\ pmQueue[p] = <<>>
  BY DEF Init, ResetService!Init, TcmService!Init
<1>6. TypeOK
  <2>1. /\ resetQueue \in Seq(Resets) /\ configQueue \in Seq(Configs)
        /\ tcmQueue \in Seq(Configs)
    BY <1>2 DEF Init
  <2>2. resetPhase \in ResetService!Phases /\ tcmPhase \in TcmService!Phases
    BY <1>5 DEF ResetService!Phases, TcmService!Phases
  <2>3. /\ pc \in {"idle", "reinitialize", "pollReset", "configure", "pollConfigurations", "start"}
        /\ command \in Configurations \cup {NoConfiguration}
        /\ seen \subseteq Boards /\ looping \in {"START", "STOP"}
        /\ masks \in Configurations \cup {"users", "found"}
        /\ pending \subseteq Boards \cup {"reset", "configuration"}
        /\ clean \in BOOLEAN /\ applied \in BOOLEAN /\ meddled \in BOOLEAN
        /\ initialized \in BOOLEAN
    BY DEF Init
  <2>4. commands \in 0 .. MaxCommands /\ others \in 0 .. MaxOthers
    BY <1>1 DEF Init
  <2>5. /\ resetFlag \in {0, 1} /\ tcmFlag \in {0, 1}
        /\ resetPhase # "serving" /\ tcmPhase # "serving"
        /\ \A p \in PMs : pmFlag[p] # 1
    BY <1>5
  <2>. QED BY <1>4, <2>1, <2>2, <2>3, <2>4, <2>5 DEF TypeOK, Resets, Configs
<1>. QED BY <1>3, <1>5, <1>6 DEF Init, IType

LEMMA ManagerType ==
  ASSUME IType,
         \/ \E c \in Configurations \cup {NoConfiguration} : StartCommand(c)
         \/ StopCommand \/ ManagerStep
  PROVE  IType'
<1>. USE DEF TypeOK, IType, resetVars, tcmVars, pmVars, history
<1>0. commands \in Nat /\ (commands < MaxCommands => commands + 1 \in 0 .. MaxCommands)
  BY StartupAssumption
<1>a. ASSUME commands' = commands + 1, UNCHANGED <<resetQueue, configQueue, tcmQueue, pmQueue>>
      PROVE  /\ Past(resetQueue', commands') /\ Past(configQueue', commands')
             /\ Past(tcmQueue', commands') /\ \A p \in PMs : Past(pmQueue'[p], commands')
  <2>1. Past(resetQueue, commands + 1) /\ Past(configQueue, commands + 1)
        /\ Past(tcmQueue, commands + 1)
    BY <1>0, PastLater
  <2>2. ASSUME NEW p \in PMs PROVE Past(pmQueue[p], commands + 1)
    BY <1>0, PastLater
  <2>. QED BY <1>a, <2>1, <2>2
<1>1. ASSUME NEW c \in Configurations \cup {NoConfiguration}, StartCommand(c) PROVE IType'
  BY <1>0, <1>1, <1>a DEF StartCommand
<1>2. CASE StopCommand
  BY <1>0, <1>2, <1>a DEF StopCommand
<1>3. CASE RequestReset
  <2>1. Request("REINITIALIZE_SPI_MASK", commands) \in Resets
        /\ Request("REINITIALIZE_SPI_MASK", commands).from <= commands
    BY <1>0 DEF Request, Resets, RequestsOf
  <2>2. resetQueue' \in Seq(Resets) /\ resetQueue' # <<>> /\ Past(resetQueue', commands)
    BY <1>3, <2>1, Appended, PastAppend DEF RequestReset, Resets
  <2>. QED BY <1>3, <2>2 DEF RequestReset, Resets
<1>4. CASE ResetPolled
  <2>1. clean' \in BOOLEAN
    BY <1>4 DEF ResetPolled, Poll
  <2>. QED BY <1>4, <2>1 DEF ResetPolled, Poll
<1>5. CASE RequestConfiguration
  <2>1. Request(command, commands) \in Configs /\ Request(command, commands).from <= commands
    BY <1>0, <1>5 DEF RequestConfiguration, Request, Configs, RequestsOf
  <2>2. configQueue' \in Seq(Configs) /\ Past(configQueue', commands)
    BY <1>5, <2>1, Appended, PastAppend DEF RequestConfiguration, Configs
  <2>3. clean' \in BOOLEAN
    BY <1>5 DEF RequestConfiguration
  <2>. QED BY <1>5, <2>2, <2>3 DEF RequestConfiguration, Configs
<1>6. ASSUME NEW b \in Boards, PollConfiguration(b) PROVE IType'
  <2>1. clean' \in BOOLEAN
    BY <1>6 DEF PollConfiguration, Poll
  <2>. QED BY <1>6, <2>1 DEF PollConfiguration, Poll
<1>7. CASE ConfigurationsPolled \/ StartLooping
  BY <1>7 DEF ConfigurationsPolled, StartLooping
<1>. QED BY <1>1, <1>2, <1>3, <1>4, <1>5, <1>6, <1>7 DEF ManagerStep

LEMMA ResetServiceType ==
  ASSUME IType, ResetBegins \/ ResetReady \/ ResetTakes \/ ResetReturns
  PROVE  IType'
<1>. USE DEF TypeOK, IType, manager, tcmVars, pmVars, history, ResetService!Phases
<1>1. CASE ResetBegins
  BY <1>1 DEF ResetBegins, ResetService!Begin
<1>2. CASE ResetReady
  BY <1>2 DEF ResetReady, ResetService!Ready
<1>3. CASE ResetTakes
  BY <1>3 DEF ResetTakes, ResetService!Take
<1>4. CASE ResetReturns
  <2>1. resetQueue' \in Seq(Resets) /\ Past(resetQueue', commands)
    BY <1>4, Taken, PastTail DEF ResetReturns, ResetService!Return, Resets
  <2>2. initialized' = TRUE
    BY <1>4 DEF ResetReturns, InitializedAfter
  <2>3. masks' \in Configurations \cup {"users", "found"}
        /\ pending' \subseteq Boards \cup {"reset", "configuration"}
    BY <1>4 DEF ResetReturns
  <2>. QED BY <1>4, <2>1, <2>2, <2>3 DEF ResetReturns, ResetService!Return, Resets
<1>. QED BY <1>1, <1>2, <1>3, <1>4

LEMMA DispatchType == IType /\ Dispatch => IType'
<1>. SUFFICES ASSUME IType, Dispatch PROVE IType'
  OBVIOUS
<1>. USE DEF TypeOK, IType
<1>0. commands \in Nat /\ Past(tcmQueue, commands)
  OBVIOUS
<1>. DEFINE request == Head(configQueue)
            boards == IF IsApplicable(request.kind) THEN BoardsOf[request.kind] ELSE {}
<1>1. /\ request \in Configs /\ request.from <= commands
      /\ Tail(configQueue) \in Seq(Configs) /\ Past(Tail(configQueue), commands)
  <2>1. /\ request = configQueue[1] /\ 1 \in 1 .. Len(configQueue) /\ request \in Configs
        /\ Tail(configQueue) \in Seq(Configs)
    BY Taken DEF Dispatch, Configs
  <2>. QED BY <2>1, PastTail DEF Dispatch, Past, Configs
<1>2. boards \subseteq Boards
  BY DEF IsApplicable
<1>. HIDE DEF request, boards
<1>3. tcmQueue' \in Seq(Configs) /\ Past(tcmQueue', commands)
      /\ (tcmPhase = "serving" => tcmQueue' # <<>>)
  <2>1. Append(tcmQueue, request) \in Seq(Configs) /\ Append(tcmQueue, request) # <<>>
        /\ Past(Append(tcmQueue, request), commands)
    BY <1>0, <1>1, Appended, PastAppend DEF Configs
  <2>2. tcmQueue' = tcmQueue \/ tcmQueue' = Append(tcmQueue, request)
    BY DEF Dispatch, request
  <2>. QED BY <1>0, <2>1, <2>2 DEF Configs
<1>4. /\ pmQueue' = [p \in PMs |-> IF p \in boards THEN Append(pmQueue[p], request)
                                                    ELSE pmQueue[p]]
      /\ pmFlag' = pmFlag
  BY DEF Dispatch, boards, request
<1>5. ASSUME NEW p \in PMs
      PROVE  /\ pmQueue'[p] \in Seq(Configs) /\ Past(pmQueue'[p], commands)
             /\ pmFlag[p] = 1 => pmQueue'[p] # <<>>
  <2>1. pmQueue[p] \in Seq(Configs) /\ Past(pmQueue[p], commands)
    BY DEF Configs
  <2>2. Append(pmQueue[p], request) \in Seq(Configs) /\ Append(pmQueue[p], request) # <<>>
        /\ Past(Append(pmQueue[p], request), commands)
    BY <1>1, <2>1, Appended, PastAppend
  <2>. QED BY <1>4, <2>1, <2>2
<1>6. pmQueue' \in [PMs -> Seq(Configs)]
  BY <1>4, <1>5
<1>7. pending' \subseteq Boards \cup {"reset", "configuration"} /\ clean' \in BOOLEAN
  BY <1>2 DEF Dispatch, boards, request
<1>8. configQueue' = Tail(configQueue)
      /\ UNCHANGED <<manager, resetVars, tcmFlag, tcmPhase, pmFlag, masks, applied, commands,
                     others, meddled>>
  BY DEF Dispatch
<1>9. TypeOK'
  <2>1. pmFlag' = pmFlag /\ \A p \in PMs : pmFlag[p] = 1 => pmQueue'[p] # <<>>
    BY <1>5, <1>8
  <2>2. /\ configQueue' \in Seq(Configs) /\ tcmQueue' \in Seq(Configs)
        /\ tcmFlag' = tcmFlag /\ tcmPhase' = tcmPhase
    BY <1>1, <1>3, <1>8
  <2>3. UNCHANGED <<pc, command, seen, looping, resetQueue, resetFlag, resetPhase, initialized,
                    masks, applied, commands, others, meddled>>
    BY <1>8 DEF manager, resetVars
  <2>. QED BY <1>3, <1>6, <1>7, <2>1, <2>2, <2>3 DEF Configs
<1>10. /\ commands' = commands /\ resetQueue' = resetQueue
       /\ Past(configQueue', commands) /\ Past(tcmQueue', commands)
       /\ \A p \in PMs : Past(pmQueue'[p], commands)
  BY <1>1, <1>3, <1>5, <1>8 DEF resetVars
<1>. QED BY <1>8, <1>9, <1>10 DEF manager, resetVars

LEMMA TcmServiceType == IType /\ (TcmBegins \/ TcmTakes \/ TcmReturns) => IType'
<1>. SUFFICES ASSUME IType, TcmBegins \/ TcmTakes \/ TcmReturns PROVE IType'
  OBVIOUS
<1>. USE DEF TypeOK, IType, manager, resetVars, pmVars, history, TcmService!Phases
<1>1. CASE TcmBegins
  BY <1>1 DEF TcmBegins, TcmService!Begin
<1>2. CASE TcmTakes
  BY <1>2 DEF TcmTakes, TcmService!Take
<1>3. CASE TcmReturns
  <2>1. tcmQueue' \in Seq(Configs) /\ Past(tcmQueue', commands)
        /\ Head(tcmQueue) \in Configs
    BY <1>3, Taken, PastTail DEF TcmReturns, TcmService!Return, Configs
  <2>2. masks' \in Configurations \cup {"users", "found"} /\ applied' \in BOOLEAN
        /\ pending' \subseteq Boards \cup {"reset", "configuration"}
    BY <1>3, <2>1 DEF TcmReturns, Configs, RequestsOf, IsMine
  <2>. QED BY <1>3, <2>1, <2>2 DEF TcmReturns, TcmService!Return, Configs
<1>. QED BY <1>1, <1>2, <1>3

LEMMA PmType ==
  ASSUME IType, NEW p \in PMs, PmInput(p) \/ PmOutput(p)
  PROVE  IType'
<1>. USE DEF TypeOK, IType
<1>1. /\ pmQueue[p] # <<>>
      /\ UNCHANGED <<manager, resetVars, configQueue, tcmVars, masks, applied, commands, others,
                     clean, meddled>>
      /\ pending' \subseteq Boards \cup {"reset", "configuration"}
  BY DEF PmInput, PmOutput
<1>2. Tail(pmQueue[p]) \in Seq(Configs) /\ Past(Tail(pmQueue[p]), commands)
  BY <1>1, Taken, PastTail DEF Configs
<1>3. pmQueue' \in [PMs -> Seq(Configs)] /\ pmFlag' \in [PMs -> {0, 1}]
  <2>1. pmQueue' = pmQueue \/ pmQueue' = [pmQueue EXCEPT ![p] = Tail(@)]
    BY DEF PmInput, PmOutput
  <2>2. pmFlag' = pmFlag \/ \E f \in {0, 1} : pmFlag' = [pmFlag EXCEPT ![p] = f]
    BY DEF PmInput, PmOutput
  <2>. QED BY <1>2, <2>1, <2>2 DEF Configs
<1>4. ASSUME NEW o \in PMs
      PROVE  Past(pmQueue'[o], commands) /\ (pmFlag'[o] = 1 => pmQueue'[o] # <<>>)
  <2>1. CASE o # p
    BY <2>1 DEF PmInput, PmOutput
  <2>2. CASE o = p /\ pmFlag' = [pmFlag EXCEPT ![p] = 1] /\ pmQueue' = pmQueue
    BY <1>1, <2>2
  <2>3. CASE o = p /\ pmQueue' = [pmQueue EXCEPT ![p] = Tail(@)] /\ pmFlag'[p] = 0
    BY <1>2, <2>3
  <2>4. \/ pmFlag' = [pmFlag EXCEPT ![p] = 1] /\ pmQueue' = pmQueue
        \/ pmQueue' = [pmQueue EXCEPT ![p] = Tail(@)] /\ pmFlag'[p] = 0
    BY DEF PmInput, PmOutput
  <2>. QED BY <2>1, <2>2, <2>3, <2>4
<1>. QED BY <1>1, <1>3, <1>4 DEF Configs, manager, resetVars, tcmVars

LEMMA OthersType ==
  ASSUME IType,
         \/ \E kind \in {"REINITIALIZE_SPI_MASK", "RESET"} : OtherReset(kind)
         \/ \E c \in Configurations : OtherConfiguration(c)
  PROVE  IType'
<1>. USE DEF TypeOK, IType, manager, tcmVars, pmVars
<1>0. commands \in Nat /\ (others < MaxOthers => others + 1 \in 0 .. MaxOthers)
  BY StartupAssumption
<1>1. ASSUME NEW kind \in {"REINITIALIZE_SPI_MASK", "RESET"}, OtherReset(kind) PROVE IType'
  <2>1. Request(kind, 0) \in Resets /\ Request(kind, 0).from <= commands
    BY <1>0, StartupAssumption DEF Request, Resets, RequestsOf
  <2>2. resetQueue' \in Seq(Resets) /\ resetQueue' # <<>> /\ Past(resetQueue', commands)
    BY <1>1, <2>1, Appended, PastAppend DEF OtherReset, Resets
  <2>. QED BY <1>0, <1>1, <2>2 DEF OtherReset, Resets
<1>2. ASSUME NEW c \in Configurations, OtherConfiguration(c) PROVE IType'
  <2>1. Request(c, 0) \in Configs /\ Request(c, 0).from <= commands
    BY <1>0, StartupAssumption DEF Request, Configs, RequestsOf
  <2>2. configQueue' \in Seq(Configs) /\ Past(configQueue', commands)
    BY <1>2, <2>1, Appended, PastAppend DEF OtherConfiguration, Configs
  <2>. QED BY <1>0, <1>2, <2>2 DEF OtherConfiguration, Configs, resetVars
<1>. QED BY <1>1, <1>2

LEMMA NextType == IType /\ [Next]_vars => IType'
<1>. SUFFICES ASSUME IType, [Next]_vars PROVE IType'
  OBVIOUS
<1>1. CASE UNCHANGED vars
  BY <1>1 DEF IType, TypeOK, vars, manager, resetVars, tcmVars, pmVars, history
<1>2. CASE ServiceStep
  BY <1>2, ResetServiceType, DispatchType, TcmServiceType, PmType DEF ServiceStep
<1>. QED BY <1>1, <1>2, ManagerType, OthersType DEF Next
-------------------------------------------------------------------------------
(* What the command waits for *)

Awaited ==
  /\ Waits(resetQueue, "reset", pending, commands)
  /\ Waits(configQueue, "configuration", pending, commands)
  /\ Waits(tcmQueue, TCM, pending, commands)
  /\ \A p \in PMs : Waits(pmQueue[p], p, pending, commands)

Progress ==
  /\ "reset" \in pending => resetPhase \in {"waiting", "serving"}
  /\ TCM \in pending => tcmPhase \in {"waiting", "serving"}
  /\ pc \in {"idle", "reinitialize", "configure", "start"} => pending = {}
  /\ pc = "pollReset" => pending \subseteq {"reset"}
  /\ pc = "pollConfigurations" =>
       /\ "reset" \notin pending
       /\ seen # {} => "configuration" \notin pending
       /\ seen \cap pending = {}

IWork ==
  /\ pc = "reinitialize" => clean
  /\ pc # "idle" => commands > 0
  /\ clean => Awaited /\ Progress

LEMMA Names ==
  /\ TCM # "reset" /\ TCM # "configuration" /\ "reset" # "configuration"
  /\ \A p \in PMs : p # TCM /\ p # "reset" /\ p # "configuration"
  /\ TCM \in Boards /\ PMs \subseteq Boards
BY StartupAssumption DEF TCM, Boards

LEMMA InitWork == Init => IWork
BY WaitsEmpty DEF Init, IWork, Awaited, Progress

LEMMA ManagerWork ==
  ASSUME IType, IWork,
         \/ \E c \in Configurations \cup {NoConfiguration} : StartCommand(c)
         \/ StopCommand \/ ManagerStep
  PROVE  IWork'
<1>0. /\ resetQueue \in Seq(Resets) /\ configQueue \in Seq(Configs) /\ tcmQueue \in Seq(Configs)
      /\ \A p \in PMs : pmQueue[p] \in Seq(Configs)
      /\ commands \in Nat /\ seen \subseteq Boards /\ pmFlag \in [PMs -> {0, 1}]
      /\ pending \subseteq Boards \cup {"reset", "configuration"}
      /\ resetPhase = "serving" => resetFlag = 1
      /\ tcmPhase = "serving" => tcmFlag = 1
      /\ \A p \in PMs : pmFlag[p] # 0 => pmFlag[p] = 1
  BY DEF IType, TypeOK, Resets, Configs
<1>a. ASSUME UNCHANGED <<resetQueue, configQueue, tcmQueue, pmQueue>>,
             commands' = commands + 1, pending' = {}
      PROVE  Awaited'
  <2>1. Past(resetQueue, commands) /\ Past(configQueue, commands) /\ Past(tcmQueue, commands)
        /\ \A p \in PMs : Past(pmQueue[p], commands)
    BY DEF IType
  <2>2. \A service : Waits(resetQueue, service, {}, commands + 1)
    BY <1>0, <2>1, PastLater DEF Resets
  <2>3. \A service : Waits(configQueue, service, {}, commands + 1)
    BY <1>0, <2>1, PastLater DEF Configs
  <2>4. \A service : Waits(tcmQueue, service, {}, commands + 1)
    BY <1>0, <2>1, PastLater DEF Configs
  <2>5. ASSUME NEW p \in PMs PROVE \A service : Waits(pmQueue[p], service, {}, commands + 1)
    BY <1>0, <2>1, PastLater DEF Configs
  <2>. QED BY <1>a, <2>2, <2>3, <2>4, <2>5 DEF Awaited
<1>b. ASSUME UNCHANGED <<resetQueue, configQueue, tcmQueue, pmQueue, commands, pending>>, Awaited
      PROVE  Awaited'
  BY <1>b DEF Awaited
<1>1. ASSUME NEW c \in Configurations \cup {NoConfiguration}, StartCommand(c) PROVE IWork'
  <2>1. Awaited'
    BY <1>1, <1>a DEF StartCommand, resetVars, tcmVars, pmVars
  <2>. QED BY <1>0, <1>1, <2>1 DEF StartCommand, IWork, Progress
<1>2. CASE StopCommand
  <2>1. ASSUME clean' PROVE Awaited' /\ Progress'
    <3>1. pc = "idle" /\ pc' = "idle" /\ clean /\ pending = {} /\ pending' = {}
      BY <1>2, <2>1 DEF StopCommand, IWork, Progress
    <3>2. Awaited'
      BY <1>2, <1>a, <3>1 DEF StopCommand, resetVars, tcmVars, pmVars
    <3>. QED BY <3>1, <3>2 DEF Progress
  <2>. QED BY <1>2, <2>1 DEF StopCommand, IWork
<1>3. CASE RequestReset
  <2>. DEFINE r == Request("REINITIALIZE_SPI_MASK", commands)
  <2>1. clean /\ commands > 0 /\ Awaited /\ pending = {}
    BY <1>3 DEF RequestReset, IWork, Progress
  <2>2. r \in Resets /\ Mine(r, commands)
    BY <1>0, <2>1 DEF IType, TypeOK, Request, Resets, RequestsOf, Mine
  <2>3. ASSUME clean' PROVE Awaited' /\ Progress'
    <3>1. resetQueue = <<>> /\ resetPhase' = "waiting" /\ pending' = {"reset"}
      BY <1>3, <2>3 DEF RequestReset
    <3>2. Waits(resetQueue', "reset", pending', commands')
      BY <1>0, <1>3, <2>2, <3>1, WaitsMine DEF RequestReset
    <3>3. /\ Waits(configQueue', "configuration", pending', commands')
          /\ Waits(tcmQueue', TCM, pending', commands')
          /\ \A p \in PMs : Waits(pmQueue'[p], p, pending', commands')
      BY <1>3, <2>1, <3>1, WaitsSame, Names DEF RequestReset, Awaited, tcmVars, pmVars
    <3>. QED BY <1>3, <3>1, <3>2, <3>3, Names DEF RequestReset, Awaited, Progress
  <2>. QED BY <1>3, <2>1, <2>3 DEF RequestReset, IWork
<1>4. CASE ResetPolled
  <2>1. ASSUME clean' PROVE Awaited' /\ Progress'
    <3>1. clean /\ Awaited /\ Progress /\ SleptLongEnough
      BY <1>4, <2>1 DEF ResetPolled, Poll, IWork
    <3>2. "reset" \notin pending
      BY <1>0, <1>4, <3>1 DEF ResetPolled, SleptLongEnough, Awaited, Progress, Waits
    <3>3. pending = {}
      BY <1>4, <3>1, <3>2 DEF ResetPolled, Progress
    <3>. QED BY <1>4, <1>b, <3>1, <3>3 DEF ResetPolled, Poll, Progress, resetVars, tcmVars, pmVars
  <2>. QED BY <1>4, <2>1 DEF ResetPolled, Poll, IWork
<1>5. CASE RequestConfiguration
  <2>1. commands > 0
    BY <1>5 DEF RequestConfiguration, IWork
  <2>2. Request(command, commands) \in Configs /\ Mine(Request(command, commands), commands)
    BY <1>0, <1>5, <2>1
       DEF RequestConfiguration, IType, TypeOK, Request, Configs, RequestsOf, Mine
  <2>3. ASSUME clean' PROVE Awaited' /\ Progress'
    <3>1. clean /\ Awaited /\ configQueue = <<>> /\ pending = {} /\ pending' = {"configuration"}
      BY <1>5, <2>3 DEF RequestConfiguration, IWork, Progress
    <3>2. Waits(configQueue', "configuration", pending', commands')
      BY <1>0, <1>5, <2>2, <3>1, WaitsMine DEF RequestConfiguration
    <3>3. /\ Waits(resetQueue', "reset", pending', commands')
          /\ Waits(tcmQueue', TCM, pending', commands')
          /\ \A p \in PMs : Waits(pmQueue'[p], p, pending', commands')
      BY <1>5, <3>1, WaitsSame, Names
         DEF RequestConfiguration, Awaited, resetVars, tcmVars, pmVars
    <3>. QED BY <1>5, <3>1, <3>2, <3>3, Names DEF RequestConfiguration, Awaited, Progress
  <2>. QED BY <1>5, <2>1, <2>3 DEF RequestConfiguration, IWork
<1>6. ASSUME NEW b \in Boards, PollConfiguration(b) PROVE IWork'
  <2>1. ASSUME clean' PROVE Awaited' /\ Progress'
    <3>1. clean /\ Awaited /\ Progress /\ SleptLongEnough
      BY <1>6, <2>1 DEF PollConfiguration, Poll, IWork
    <3>2. "configuration" \notin pending
      BY <3>1 DEF SleptLongEnough, Awaited, Waits
    <3>3. ASSUME IsDown(b) PROVE b \notin pending
      <4>1. CASE b = TCM
        BY <1>0, <3>1, <3>3, <4>1 DEF IsDown, SleptLongEnough, Awaited, Progress, Waits
      <4>2. CASE b # TCM
        BY <3>1, <3>3, <4>2 DEF IsDown, SleptLongEnough, Awaited, Waits, Boards
      <4>. QED BY <4>1, <4>2
    <3>4. Awaited'
      BY <1>6, <1>b, <3>1 DEF PollConfiguration, Poll, resetVars, tcmVars, pmVars
    <3>. QED BY <1>6, <3>1, <3>2, <3>3, <3>4
             DEF PollConfiguration, Poll, Progress, resetVars, tcmVars
  <2>. QED BY <1>6, <2>1 DEF PollConfiguration, Poll, IWork
<1>7. CASE ConfigurationsPolled
  <2>1. ASSUME clean' PROVE Awaited' /\ Progress'
    <3>1. clean /\ Awaited /\ Progress
      BY <1>7, <2>1 DEF ConfigurationsPolled, IWork, history
    <3>2. pending = {}
      <4>1. "configuration" \notin pending /\ "reset" \notin pending /\ seen \cap pending = {}
        <5>1. pc = "pollConfigurations" /\ seen # {}
          BY <1>7, Names DEF ConfigurationsPolled
        <5>. QED BY <3>1, <5>1 DEF Progress
      <4>2. pending \subseteq seen
        BY <1>0, <1>7, <4>1 DEF ConfigurationsPolled
      <4>. QED BY <4>1, <4>2
    <3>. QED BY <1>7, <1>b, <3>1, <3>2
             DEF ConfigurationsPolled, Progress, resetVars, tcmVars, pmVars, history
  <2>. QED BY <1>7, <2>1 DEF ConfigurationsPolled, IWork, history
<1>8. CASE StartLooping
  <2>1. ASSUME clean' PROVE Awaited' /\ Progress'
    BY <1>8, <1>b, <2>1 DEF StartLooping, IWork, Progress, resetVars, tcmVars, pmVars, history
  <2>. QED BY <1>8, <2>1 DEF StartLooping, IWork, history
<1>. QED BY <1>1, <1>2, <1>3, <1>4, <1>5, <1>6, <1>7, <1>8 DEF ManagerStep

LEMMA ResetServiceWork ==
  ASSUME IType, IWork, ResetBegins \/ ResetReady \/ ResetTakes \/ ResetReturns
  PROVE  IWork'
<1>1. UNCHANGED <<pc, seen, clean, commands, configQueue, tcmQueue, tcmPhase, pmQueue>>
  BY DEF ResetBegins, ResetReady, ResetTakes, ResetReturns, manager, history, tcmVars, pmVars
<1>2. ASSUME clean' PROVE Awaited' /\ Progress'
  <2>1. clean /\ Awaited /\ Progress
    BY <1>1, <1>2 DEF IWork
  <2>2. CASE ResetBegins \/ ResetReady \/ ResetTakes
    <3>1. UNCHANGED <<resetQueue, pending>>
          /\ (resetPhase \in {"waiting", "serving"} => resetPhase' \in {"waiting", "serving"})
      BY <2>2 DEF ResetBegins, ResetReady, ResetTakes, history, ResetService!Begin,
                 ResetService!Ready, ResetService!Take
    <3>. QED BY <1>1, <2>1, <3>1 DEF Awaited, Progress
  <2>3. CASE ResetReturns
    <3>1. resetQueue \in Seq(Resets) /\ resetQueue # <<>> /\ resetQueue' = Tail(resetQueue)
          /\ pending' = IF IsMine(Head(resetQueue)) THEN pending \ {"reset"} ELSE pending
      BY <2>3 DEF IType, TypeOK, Resets, ResetReturns, ResetService!Return
    <3>2. Waits(resetQueue, "reset", pending, commands)
      BY <2>1 DEF Awaited
    <3>3. ("reset" \in pending) <=> IsMine(Head(resetQueue))
      BY <3>1, <3>2, WaitsTail DEF IsMine, Mine
    <3>4. "reset" \notin pending' /\ pending' = pending \ {"reset"}
      BY <3>1, <3>3
    <3>5. Waits(resetQueue', "reset", pending', commands')
      BY <1>1, <3>1, <3>2, <3>4, WaitsTail
    <3>6. /\ Waits(configQueue', "configuration", pending', commands')
          /\ Waits(tcmQueue', TCM, pending', commands')
          /\ \A p \in PMs : Waits(pmQueue'[p], p, pending', commands')
      BY <1>1, <2>1, <3>4, WaitsSame, Names DEF Awaited
    <3>7. Progress'
      BY <1>1, <2>1, <3>4 DEF Progress
    <3>. QED BY <1>1, <2>1, <3>5, <3>6, <3>7 DEF Awaited
  <2>. QED BY <2>2, <2>3
<1>. QED BY <1>1, <1>2 DEF IWork

LEMMA DispatchWork == IType /\ IWork /\ Dispatch => IWork'
<1>. SUFFICES ASSUME IType, IWork, Dispatch PROVE IWork'
  OBVIOUS
<1>. DEFINE request == Head(configQueue)
            boards == IF IsApplicable(request.kind) THEN BoardsOf[request.kind] ELSE {}
<1>1. UNCHANGED <<pc, seen, commands, resetQueue, resetPhase, tcmPhase>>
  BY DEF Dispatch, manager, resetVars
<1>2. /\ configQueue \in Seq(Configs) /\ configQueue # <<>> /\ configQueue' = Tail(configQueue)
      /\ tcmQueue \in Seq(Configs) /\ \A p \in PMs : pmQueue[p] \in Seq(Configs)
      /\ commands \in Nat
      /\ request \in Configs
  <2>1. configQueue \in Seq(Configs) /\ configQueue # <<>>
    BY DEF IType, TypeOK, Configs, Dispatch
  <2>2. request \in Configs
    BY <2>1, Taken
  <2>. QED BY <2>1, <2>2 DEF IType, TypeOK, Configs, Dispatch
<1>3. boards \subseteq Boards
  BY DEF IsApplicable
<1>4. /\ tcmQueue' = IF TCM \in boards THEN Append(tcmQueue, request) ELSE tcmQueue
      /\ \A p \in PMs : pmQueue'[p] = IF p \in boards THEN Append(pmQueue[p], request)
                                                       ELSE pmQueue[p]
  BY DEF Dispatch
<1>5. IF IsMine(request)
        THEN /\ pending' = (pending \ {"configuration"}) \cup boards
             /\ clean' = /\ clean
                         /\ TCM \notin boards \/ (tcmPhase = "waiting" /\ tcmQueue = <<>>)
                         /\ \A p \in PMs \cap boards : pmQueue[p] = <<>>
        ELSE UNCHANGED <<pending, clean>>
  BY DEF Dispatch
<1>. HIDE DEF request, boards
<1>6. ASSUME clean, Awaited
      PROVE  /\ ("configuration" \in pending) <=> IsMine(request)
             /\ \A after : "configuration" \notin after =>
                           Waits(configQueue', "configuration", after, commands)
  <2>1. Waits(configQueue, "configuration", pending, commands)
    BY <1>6 DEF Awaited
  <2>. QED BY <1>2, <2>1, WaitsTail DEF IsMine, Mine, request
<1>7. ASSUME clean' PROVE Awaited' /\ Progress'
  <2>1. clean /\ Awaited /\ Progress
    BY <1>5, <1>7 DEF IWork
  <2>2. CASE ~IsMine(request)
    <3>1. "configuration" \notin pending /\ pending' = pending
      BY <1>5, <1>6, <2>1, <2>2
    <3>2. Waits(configQueue', "configuration", pending', commands')
      BY <1>1, <1>6, <2>1, <3>1
    <3>3. Waits(tcmQueue', TCM, pending', commands')
      BY <1>1, <1>2, <1>4, <2>1, <2>2, <3>1, WaitsOther DEF Awaited, IsMine, Mine
    <3>4. ASSUME NEW p \in PMs PROVE Waits(pmQueue'[p], p, pending', commands')
      <4>1. Waits(pmQueue[p], p, pending, commands) /\ ~Mine(request, commands)
        BY <2>1, <2>2 DEF Awaited, IsMine, Mine
      <4>2. Waits(Append(pmQueue[p], request), p, pending, commands)
        BY <1>2, <4>1, WaitsOther
      <4>. QED BY <1>1, <1>4, <3>1, <4>1, <4>2
    <3>. QED BY <1>1, <2>1, <3>1, <3>2, <3>3, <3>4 DEF Awaited, Progress
  <2>3. CASE IsMine(request)
    <3>1. /\ pending' = (pending \ {"configuration"}) \cup boards
          /\ TCM \in boards => tcmPhase = "waiting" /\ tcmQueue = <<>>
          /\ \A p \in PMs \cap boards : pmQueue[p] = <<>>
          /\ "configuration" \in pending
      BY <1>5, <1>6, <1>7, <2>1, <2>3
    <3>2. pc = "pollConfigurations" /\ seen = {} /\ "reset" \notin pending
      <4>1. pc \in {"idle", "reinitialize", "pollReset", "configure", "pollConfigurations", "start"}
        BY DEF IType, TypeOK
      <4>2. "configuration" \in pending /\ pending # {} /\ ~(pending \subseteq {"reset"})
        BY <3>1, Names
      <4>. QED BY <2>1, <4>1, <4>2 DEF Progress
    <3>3. "configuration" \notin pending' /\ "reset" \notin pending'
      BY <1>3, <3>1, <3>2, Names DEF Boards
    <3>4. Mine(request, commands)
      BY <2>3 DEF IsMine, Mine
    <3>5. Waits(configQueue', "configuration", pending', commands')
      BY <1>1, <1>6, <2>1, <3>3
    <3>6. Waits(tcmQueue', TCM, pending', commands')
      <4>1. CASE TCM \in boards
        BY <1>1, <1>2, <1>4, <3>1, <3>4, <4>1, WaitsMine
      <4>2. CASE TCM \notin boards
        BY <1>1, <1>4, <2>1, <3>1, <4>2, WaitsSame, Names DEF Awaited
      <4>. QED BY <4>1, <4>2
    <3>7. ASSUME NEW p \in PMs PROVE Waits(pmQueue'[p], p, pending', commands')
      <4>1. CASE p \in boards
        BY <1>1, <1>2, <1>4, <3>1, <3>4, <4>1, WaitsMine
      <4>2. CASE p \notin boards
        <5>1. Waits(pmQueue[p], p, pending, commands) /\ (p \in pending <=> p \in pending')
          BY <2>1, <3>1, <4>2, Names DEF Awaited
        <5>. QED BY <1>1, <1>4, <4>2, <5>1, WaitsSame
      <4>. QED BY <4>1, <4>2
    <3>8. Waits(resetQueue', "reset", pending', commands')
      BY <1>1, <2>1, <3>2, <3>3, WaitsSame DEF Awaited
    <3>9. TCM \in pending' => tcmPhase' \in {"waiting", "serving"}
      BY <1>1, <2>1, <3>1, Names DEF Progress
    <3>. QED BY <1>1, <3>2, <3>3, <3>5, <3>6, <3>7, <3>8, <3>9 DEF Awaited, Progress
  <2>. QED BY <2>2, <2>3
<1>8. pc = "reinitialize" => clean'
  <2>1. ASSUME pc = "reinitialize" PROVE ~IsMine(request) /\ clean
    BY <1>6, <2>1 DEF IWork, Progress
  <2>. QED BY <1>5, <2>1
<1>. QED BY <1>1, <1>7, <1>8 DEF IWork

LEMMA TcmServiceWork == IType /\ IWork /\ (TcmBegins \/ TcmTakes \/ TcmReturns) => IWork'
<1>. SUFFICES ASSUME IType, IWork, TcmBegins \/ TcmTakes \/ TcmReturns PROVE IWork'
  OBVIOUS
<1>1. UNCHANGED <<pc, seen, clean, commands, configQueue, resetQueue, resetPhase, pmQueue>>
  BY DEF TcmBegins, TcmTakes, TcmReturns, manager, history, resetVars, pmVars
<1>2. ASSUME clean' PROVE Awaited' /\ Progress'
  <2>1. clean /\ Awaited /\ Progress
    BY <1>1, <1>2 DEF IWork
  <2>2. CASE TcmBegins \/ TcmTakes
    <3>1. UNCHANGED <<tcmQueue, pending>>
          /\ (tcmPhase \in {"waiting", "serving"} => tcmPhase' \in {"waiting", "serving"})
      BY <2>2 DEF TcmBegins, TcmTakes, history, TcmService!Begin, TcmService!Take
    <3>. QED BY <1>1, <2>1, <3>1 DEF Awaited, Progress
  <2>3. CASE TcmReturns
    <3>1. tcmQueue \in Seq(Configs) /\ tcmQueue # <<>> /\ tcmQueue' = Tail(tcmQueue)
          /\ pending' = IF IsMine(Head(tcmQueue)) THEN pending \ {TCM} ELSE pending
      BY <2>3 DEF IType, TypeOK, Configs, TcmReturns, TcmService!Return
    <3>2. Waits(tcmQueue, TCM, pending, commands)
      BY <2>1 DEF Awaited
    <3>3. (TCM \in pending) <=> IsMine(Head(tcmQueue))
      BY <3>1, <3>2, WaitsTail DEF IsMine, Mine
    <3>4. TCM \notin pending' /\ pending' = pending \ {TCM}
      BY <3>1, <3>3
    <3>5. Waits(tcmQueue', TCM, pending', commands')
      BY <1>1, <3>1, <3>2, <3>4, WaitsTail
    <3>6. /\ Waits(configQueue', "configuration", pending', commands')
          /\ Waits(resetQueue', "reset", pending', commands')
          /\ \A p \in PMs : Waits(pmQueue'[p], p, pending', commands')
      BY <1>1, <2>1, <3>4, WaitsSame, Names DEF Awaited
    <3>7. Progress'
      BY <1>1, <2>1, <3>4 DEF Progress
    <3>. QED BY <1>1, <2>1, <3>5, <3>6, <3>7 DEF Awaited
  <2>. QED BY <2>2, <2>3
<1>. QED BY <1>1, <1>2 DEF IWork

LEMMA PmWork ==
  ASSUME IType, IWork, NEW p \in PMs, PmInput(p) \/ PmOutput(p)
  PROVE  IWork'
<1>1. UNCHANGED <<pc, seen, clean, commands, configQueue, resetQueue, resetPhase, tcmQueue, tcmPhase>>
  BY DEF PmInput, PmOutput, manager, resetVars, tcmVars
<1>2. ASSUME clean' PROVE Awaited' /\ Progress'
  <2>1. clean /\ Awaited /\ Progress
    BY <1>1, <1>2 DEF IWork
  <2>2. CASE UNCHANGED <<pmQueue, pending>>
    BY <1>1, <2>1, <2>2 DEF Awaited, Progress
  <2>3. CASE /\ pmQueue' = [pmQueue EXCEPT ![p] = Tail(@)]
             /\ pending' = IF IsMine(Head(pmQueue[p])) THEN pending \ {p} ELSE pending
    <3>1. pmQueue \in [PMs -> Seq(Configs)] /\ pmQueue[p] # <<>>
      BY DEF IType, TypeOK, Configs, PmInput, PmOutput
    <3>2. Waits(pmQueue[p], p, pending, commands) /\ pmQueue[p] \in Seq(Configs)
      BY <2>1, <3>1 DEF Awaited
    <3>3. (p \in pending) <=> IsMine(Head(pmQueue[p]))
      BY <3>1, <3>2, WaitsTail DEF IsMine, Mine
    <3>4. p \notin pending' /\ pending' = pending \ {p}
      BY <2>3, <3>3
    <3>5. Waits(Tail(pmQueue[p]), p, pending', commands')
      BY <1>1, <3>1, <3>2, <3>4, WaitsTail
    <3>6. ASSUME NEW o \in PMs PROVE Waits(pmQueue'[o], o, pending', commands')
      <4>1. CASE o = p
        BY <2>3, <3>1, <3>5, <4>1
      <4>2. CASE o # p
        <5>1. Waits(pmQueue[o], o, pending, commands) /\ (o \in pending <=> o \in pending')
          BY <2>1, <3>4, <4>2 DEF Awaited
        <5>. QED BY <1>1, <2>3, <3>1, <4>2, <5>1, WaitsSame
      <4>. QED BY <4>1, <4>2
    <3>7. /\ Waits(configQueue', "configuration", pending', commands')
          /\ Waits(resetQueue', "reset", pending', commands')
          /\ Waits(tcmQueue', TCM, pending', commands')
      BY <1>1, <2>1, <3>4, WaitsSame, Names DEF Awaited
    <3>8. Progress'
      BY <1>1, <2>1, <3>4 DEF Progress
    <3>. QED BY <1>1, <2>1, <3>6, <3>7, <3>8 DEF Awaited
  <2>4. \/ UNCHANGED <<pmQueue, pending>>
        \/ /\ pmQueue' = [pmQueue EXCEPT ![p] = Tail(@)]
           /\ pending' = IF IsMine(Head(pmQueue[p])) THEN pending \ {p} ELSE pending
    BY DEF PmInput, PmOutput
  <2>. QED BY <2>2, <2>3, <2>4
<1>. QED BY <1>1, <1>2 DEF IWork

LEMMA OthersWork ==
  ASSUME IType, IWork,
         \/ \E kind \in {"REINITIALIZE_SPI_MASK", "RESET"} : OtherReset(kind)
         \/ \E c \in Configurations : OtherConfiguration(c)
  PROVE  IWork'
<1>1. UNCHANGED <<pc, seen, clean, commands, pending, resetPhase, tcmQueue, tcmPhase, pmQueue>>
  BY DEF OtherReset, OtherConfiguration, manager, resetVars, tcmVars, pmVars
<1>2. ASSUME NEW kind \in {"REINITIALIZE_SPI_MASK", "RESET"}, OtherReset(kind), Awaited
      PROVE  Waits(resetQueue', "reset", pending, commands)
             /\ configQueue' = configQueue
  <2>1. Request(kind, 0) \in Resets /\ ~Mine(Request(kind, 0), commands)
    BY StartupAssumption DEF Request, Resets, RequestsOf, Mine
  <2>2. resetQueue \in Seq(Resets)
    BY DEF IType, TypeOK, Resets
  <2>. QED BY <1>2, <2>1, <2>2, WaitsOther DEF OtherReset, Awaited
<1>3. ASSUME NEW c \in Configurations, OtherConfiguration(c), Awaited
      PROVE  Waits(configQueue', "configuration", pending, commands)
             /\ resetQueue' = resetQueue
  <2>1. Request(c, 0) \in Configs /\ ~Mine(Request(c, 0), commands)
    BY StartupAssumption DEF Request, Configs, RequestsOf, Mine
  <2>2. configQueue \in Seq(Configs)
    BY DEF IType, TypeOK, Configs
  <2>. QED BY <1>3, <2>1, <2>2, WaitsOther DEF OtherConfiguration, Awaited, resetVars
<1>4. ASSUME clean' PROVE Awaited' /\ Progress'
  BY <1>1, <1>2, <1>3, <1>4 DEF IWork, Awaited, Progress
<1>. QED BY <1>1, <1>4 DEF IWork

LEMMA NextWork == IType /\ IWork /\ [Next]_vars => IWork'
<1>. SUFFICES ASSUME IType, IWork, [Next]_vars PROVE IWork'
  OBVIOUS
<1>1. CASE UNCHANGED vars
  BY <1>1 DEF IWork, Awaited, Progress, vars, manager, resetVars, tcmVars, pmVars, history
<1>2. CASE ServiceStep
  BY <1>2, ResetServiceWork, DispatchWork, TcmServiceWork, PmWork DEF ServiceStep
<1>. QED BY <1>1, <1>2, ManagerWork, OthersWork DEF Next
-------------------------------------------------------------------------------
(* Whose masks the TCM holds *)

ResetOver ==
  pc \in {"pollReset", "configure", "pollConfigurations", "start"} =>
    /\ initialized
    /\ "reset" \in pending => Tail(resetQueue) = <<>>
    /\ "reset" \notin pending => resetQueue = <<>>

ConfigurationAlone ==
  (pc = "pollConfigurations" \/ (pc = "start" /\ command # NoConfiguration)) =>
    /\ "configuration" \in pending => configQueue = <<Request(command, commands)>>
    /\ "configuration" \notin pending => configQueue = <<>>

TcmAlone == TCM \in pending =>
  tcmQueue = <<Request(command, commands)>> /\ "configuration" \notin pending

AppliedLast == (applied /\ pc # "idle") =>
  /\ pc \in {"pollConfigurations", "start"} /\ command # NoConfiguration
  /\ tcmQueue = <<>> /\ masks = command
  /\ TCM \notin pending /\ "configuration" \notin pending

IMasks == (clean /\ ~meddled) => ResetOver /\ ConfigurationAlone /\ TcmAlone /\ AppliedLast

LEMMA One ==
  ASSUME NEW S, NEW r \in S
  PROVE  /\ Append(<<>>, r) = <<r>> /\ Head(<<r>>) = r /\ Tail(<<r>>) = <<>> /\ <<r>> # <<>>
         /\ Tail(Append(<<>>, r)) = <<>>
OBVIOUS

LEMMA InitMasks == Init => IMasks
BY DEF Init, IMasks, ResetOver, ConfigurationAlone, TcmAlone, AppliedLast

LEMMA ManagerMasks ==
  ASSUME IType, IWork, IWork', IMasks,
         \/ \E c \in Configurations \cup {NoConfiguration} : StartCommand(c)
         \/ StopCommand \/ ManagerStep
  PROVE  IMasks'
<1>. SUFFICES ASSUME clean', ~meddled' PROVE (ResetOver /\ ConfigurationAlone /\ TcmAlone /\ AppliedLast)'
  BY DEF IMasks
<1>. USE DEF resetVars, tcmVars, history
<1>1. ASSUME NEW c \in Configurations \cup {NoConfiguration}, StartCommand(c)
      PROVE (ResetOver /\ ConfigurationAlone /\ TcmAlone /\ AppliedLast)'
  BY <1>1 DEF StartCommand, ResetOver, ConfigurationAlone, TcmAlone, AppliedLast
<1>2. CASE StopCommand
  <2>1. pc' = "idle" /\ pending' = {}
    BY <1>2 DEF StopCommand, IWork, Progress
  <2>. QED BY <2>1 DEF ResetOver, ConfigurationAlone, TcmAlone, AppliedLast
<1>3. CASE RequestReset
  <2>1. pc = "reinitialize" /\ pc' = "pollReset" /\ clean /\ ~meddled /\ resetQueue = <<>>
        /\ initialized /\ initialized' /\ pending' = {"reset"} /\ applied' = applied
    BY <1>3 DEF RequestReset, IType, IWork
  <2>2. Tail(resetQueue') = <<>>
    BY <1>3, <2>1, One DEF RequestReset
  <2>3. ~applied
    BY <2>1 DEF IMasks, AppliedLast
  <2>. QED BY <2>1, <2>2, <2>3, Names DEF ResetOver, ConfigurationAlone, TcmAlone, AppliedLast
<1>4. CASE ResetPolled
  <2>1. pc = "pollReset" /\ clean /\ ~meddled
        /\ UNCHANGED <<command, commands, resetQueue, initialized, pending, applied>>
    BY <1>4 DEF ResetPolled, Poll
  <2>2. ~applied
    BY <2>1 DEF IMasks, AppliedLast
  <2>3. pc' \in {"configure", "start"} /\ (pc' = "start" => command = NoConfiguration)
    BY <1>4 DEF ResetPolled
  <2>4. pending' = {}
    BY <2>3 DEF IWork, Progress
  <2>. QED BY <2>1, <2>2, <2>3, <2>4
           DEF IMasks, ResetOver, ConfigurationAlone, TcmAlone, AppliedLast
<1>5. CASE RequestConfiguration
  <2>1. pc = "configure" /\ pc' = "pollConfigurations" /\ clean /\ ~meddled
        /\ configQueue = <<>> /\ pending = {} /\ pending' = {"configuration"}
        /\ configQueue' = Append(configQueue, Request(command, commands))
        /\ UNCHANGED <<command, commands, resetQueue, initialized, applied>>
    BY <1>5 DEF RequestConfiguration, IWork, Progress
  <2>2. ~applied
    BY <2>1 DEF IMasks, AppliedLast
  <2>3. configQueue' = <<Request(command', commands')>>
    BY <2>1, One
  <2>. QED BY <2>1, <2>2, <2>3, Names
           DEF IMasks, ResetOver, ConfigurationAlone, TcmAlone, AppliedLast
<1>6. ASSUME NEW b \in Boards, PollConfiguration(b)
      PROVE (ResetOver /\ ConfigurationAlone /\ TcmAlone /\ AppliedLast)'
  BY <1>6 DEF PollConfiguration, Poll, IMasks, ResetOver, ConfigurationAlone, TcmAlone,
              AppliedLast
<1>7. CASE ConfigurationsPolled
  BY <1>7 DEF ConfigurationsPolled, IMasks, ResetOver, ConfigurationAlone, TcmAlone, AppliedLast
<1>8. CASE StartLooping
  <2>1. pc' = "idle" /\ pending' = {}
    BY <1>8 DEF StartLooping, IWork, Progress
  <2>. QED BY <2>1 DEF ResetOver, ConfigurationAlone, TcmAlone, AppliedLast
<1>. QED BY <1>1, <1>2, <1>3, <1>4, <1>5, <1>6, <1>7, <1>8 DEF ManagerStep

LEMMA ResetServiceMasks ==
  ASSUME IType, IWork, IMasks, ResetBegins \/ ResetReady \/ ResetTakes \/ ResetReturns
  PROVE  IMasks'
<1>. SUFFICES ASSUME clean', ~meddled' PROVE (ResetOver /\ ConfigurationAlone /\ TcmAlone /\ AppliedLast)'
  BY DEF IMasks
<1>1. /\ UNCHANGED <<pc, command, clean, commands, applied, meddled, configQueue, tcmQueue>>
      /\ pending' \subseteq pending /\ pending \ {"reset"} \subseteq pending'
  BY DEF ResetBegins, ResetReady, ResetTakes, ResetReturns, manager, history, tcmVars
<1>2. clean /\ ~meddled /\ ResetOver /\ ConfigurationAlone /\ TcmAlone /\ AppliedLast
      /\ Awaited /\ Progress
  BY <1>1 DEF IMasks, IWork
<1>3. ResetOver'
  <2>1. CASE ResetReturns
    <3>1. resetQueue \in Seq(Resets) /\ resetQueue # <<>> /\ resetQueue' = Tail(resetQueue)
          /\ initialized' = TRUE
          /\ pending' = IF IsMine(Head(resetQueue)) THEN pending \ {"reset"} ELSE pending
      BY <2>1 DEF IType, TypeOK, Resets, ResetReturns, ResetService!Return, InitializedAfter
    <3>2. ("reset" \in pending) <=> IsMine(Head(resetQueue))
      BY <1>2, <3>1, WaitsTail DEF IsMine, Mine, Awaited
    <3>3. "reset" \notin pending'
      BY <3>1, <3>2
    <3>. QED BY <1>1, <1>2, <3>1, <3>3 DEF ResetOver
  <2>2. CASE ResetBegins \/ ResetReady \/ ResetTakes
    <3>1. UNCHANGED <<resetQueue, pending>> /\ (initialized' = initialized \/ initialized' = TRUE)
      BY <2>2 DEF ResetBegins, ResetReady, ResetTakes, history
    <3>. QED BY <1>1, <1>2, <3>1 DEF ResetOver
  <2>. QED BY <2>1, <2>2
<1>4. ASSUME applied, pc # "idle" PROVE masks' = masks
  <2>1. pc \in {"pollConfigurations", "start"} /\ "reset" \notin pending
    BY <1>2, <1>4 DEF AppliedLast, Progress
  <2>2. initialized /\ resetQueue = <<>>
    BY <1>2, <2>1 DEF ResetOver
  <2>3. ~ResetReady /\ ~ResetReturns
    BY <2>2 DEF ResetReady, ResetReturns, ResetService!Ready, ResetService!Return, IType, TypeOK
  <2>. QED BY <2>3 DEF ResetBegins, ResetTakes
<1>5. ConfigurationAlone' /\ TcmAlone'
  BY <1>1, <1>2, Names DEF ConfigurationAlone, TcmAlone
<1>6. AppliedLast'
  BY <1>1, <1>2, <1>4 DEF AppliedLast
<1>. QED BY <1>3, <1>5, <1>6

LEMMA DispatchMasks == IType /\ IWork /\ IMasks /\ Dispatch => IMasks'
<1>. SUFFICES ASSUME IType, IWork, IMasks, Dispatch, clean', ~meddled'
              PROVE (ResetOver /\ ConfigurationAlone /\ TcmAlone /\ AppliedLast)'
  BY DEF IMasks
<1>. DEFINE request == Head(configQueue)
            boards == IF IsApplicable(request.kind) THEN BoardsOf[request.kind] ELSE {}
<1>1. UNCHANGED <<pc, command, commands, resetQueue, initialized, applied, meddled, masks>>
  BY DEF Dispatch, manager, resetVars
<1>2. /\ configQueue \in Seq(Configs) /\ configQueue # <<>> /\ configQueue' = Tail(configQueue)
      /\ tcmQueue' = IF TCM \in boards THEN Append(tcmQueue, request) ELSE tcmQueue
      /\ IF IsMine(request)
           THEN /\ pending' = (pending \ {"configuration"}) \cup boards
                /\ clean /\ (TCM \notin boards \/ (tcmPhase = "waiting" /\ tcmQueue = <<>>))
           ELSE UNCHANGED <<pending, clean>>
      /\ boards \subseteq Boards
  BY DEF Dispatch, IType, TypeOK, Configs, IsApplicable
<1>. HIDE DEF boards
<1>3. clean /\ ~meddled /\ ResetOver /\ ConfigurationAlone /\ TcmAlone /\ AppliedLast
      /\ Awaited /\ Progress
  BY <1>1, <1>2 DEF IMasks, IWork
<1>4. ("configuration" \in pending) <=> IsMine(request)
  BY <1>2, <1>3, WaitsTail DEF IsMine, Mine, Awaited
<1>. HIDE DEF request
<1>5. CASE ~IsMine(request)
  <2>1. "configuration" \notin pending /\ pending' = pending
    BY <1>2, <1>4, <1>5
  <2>2. pc # "pollConfigurations" /\ ~(pc = "start" /\ command # NoConfiguration)
    BY <1>2, <1>3, <2>1 DEF ConfigurationAlone
  <2>3. TCM \notin pending
    <3>1. pc \in {"idle", "reinitialize", "pollReset", "configure", "start"}
      BY <2>2 DEF IType, TypeOK
    <3>. QED BY <1>3, <3>1, Names DEF Progress
  <2>. QED BY <1>1, <1>3, <2>1, <2>2, <2>3
           DEF ResetOver, ConfigurationAlone, TcmAlone, AppliedLast
<1>6. CASE IsMine(request)
  <2>1. "configuration" \in pending /\ pending' = (pending \ {"configuration"}) \cup boards
        /\ (TCM \in boards => tcmQueue = <<>>)
    BY <1>2, <1>4, <1>6
  <2>2. pc = "pollConfigurations" /\ "reset" \notin pending
    <3>1. pc \in {"idle", "reinitialize", "pollReset", "configure", "pollConfigurations", "start"}
      BY DEF IType, TypeOK
    <3>2. pending # {} /\ ~(pending \subseteq {"reset"})
      BY <2>1, Names
    <3>. QED BY <1>3, <3>1, <3>2 DEF Progress
  <2>3. configQueue = <<Request(command, commands)>>
    BY <1>3, <2>1, <2>2 DEF ConfigurationAlone
  <2>4. request = Request(command, commands) /\ configQueue' = <<>>
    BY <1>2, <2>3, One DEF request
  <2>5. "configuration" \notin pending' /\ "reset" \notin pending'
    BY <1>2, <2>1, <2>2, Names DEF Boards
  <2>6. TcmAlone'
    <3>1. TCM \notin pending
      BY <1>3, <2>1 DEF TcmAlone
    <3>2. TCM \in pending' => TCM \in boards
      BY <2>1, <3>1
    <3>3. TCM \in boards => tcmQueue' = <<Request(command, commands)>>
      BY <1>2, <2>1, <2>4, One
    <3>. QED BY <1>1, <2>5, <3>2, <3>3 DEF TcmAlone
  <2>7. ~applied
    BY <1>3, <2>1, <2>2 DEF AppliedLast
  <2>. QED BY <1>1, <1>3, <2>2, <2>4, <2>5, <2>6, <2>7
           DEF ResetOver, ConfigurationAlone, AppliedLast
<1>. QED BY <1>5, <1>6

LEMMA TcmServiceMasks == IType /\ IWork /\ IMasks /\ (TcmBegins \/ TcmTakes \/ TcmReturns) => IMasks'
<1>. SUFFICES ASSUME IType, IWork, IMasks, TcmBegins \/ TcmTakes \/ TcmReturns, clean', ~meddled'
              PROVE (ResetOver /\ ConfigurationAlone /\ TcmAlone /\ AppliedLast)'
  BY DEF IMasks
<1>1. UNCHANGED <<pc, command, clean, commands, meddled, configQueue, resetQueue, initialized>>
  BY DEF TcmBegins, TcmTakes, TcmReturns, manager, history, resetVars
<1>2. clean /\ ~meddled /\ ResetOver /\ ConfigurationAlone /\ TcmAlone /\ AppliedLast
      /\ Awaited /\ Progress
  BY <1>1 DEF IMasks, IWork
<1>3. CASE TcmBegins \/ TcmTakes
  <2>1. UNCHANGED <<tcmQueue, pending, applied, masks>>
    BY <1>3 DEF TcmBegins, TcmTakes, history
  <2>. QED BY <1>1, <1>2, <2>1 DEF ResetOver, ConfigurationAlone, TcmAlone, AppliedLast
<1>4. CASE TcmReturns
  <2>1. /\ tcmQueue \in Seq(Configs) /\ tcmQueue # <<>> /\ tcmQueue' = Tail(tcmQueue)
        /\ \/ masks' = Head(tcmQueue).kind /\ applied' = (applied \/ IsMine(Head(tcmQueue)))
           \/ UNCHANGED <<masks, applied>>
        /\ pending' = IF IsMine(Head(tcmQueue)) THEN pending \ {TCM} ELSE pending
    BY <1>4 DEF IType, TypeOK, Configs, TcmReturns, TcmService!Return
  <2>2. (TCM \in pending) <=> IsMine(Head(tcmQueue))
    BY <1>2, <2>1, WaitsTail DEF IsMine, Mine, Awaited
  <2>3. TCM \notin pending' /\ pending' = pending \ {TCM}
    BY <2>1, <2>2
  <2>4. ResetOver' /\ ConfigurationAlone' /\ TcmAlone'
    BY <1>1, <1>2, <2>3, Names DEF ResetOver, ConfigurationAlone, TcmAlone
  <2>5. ASSUME applied', pc # "idle" PROVE AppliedLast'
    <3>1. ~applied
      BY <1>2, <2>1, <2>5 DEF AppliedLast
    <3>2. masks' = Head(tcmQueue).kind /\ TCM \in pending
      BY <2>1, <2>2, <2>5, <3>1
    <3>3. tcmQueue = <<Request(command, commands)>> /\ "configuration" \notin pending
      BY <1>2, <3>2 DEF TcmAlone
    <3>4. tcmQueue' = <<>> /\ masks' = command
      BY <2>1, <3>2, <3>3, One DEF Request
    <3>5. pc = "pollConfigurations"
      <4>1. pc \in {"idle", "reinitialize", "pollReset", "configure", "pollConfigurations", "start"}
        BY DEF IType, TypeOK
      <4>2. pending # {} /\ ~(pending \subseteq {"reset"})
        BY <3>2, Names
      <4>. QED BY <1>2, <4>1, <4>2 DEF Progress
    <3>. QED BY <1>1, <2>3, <3>3, <3>4, <3>5 DEF AppliedLast, IType
  <2>. QED BY <1>1, <2>4, <2>5 DEF AppliedLast
<1>. QED BY <1>3, <1>4

LEMMA PmMasks ==
  ASSUME IMasks, NEW p \in PMs, PmInput(p) \/ PmOutput(p)
  PROVE  IMasks'
<1>1. /\ UNCHANGED <<pc, command, clean, commands, applied, meddled, masks, configQueue,
                     resetQueue, initialized, tcmQueue>>
      /\ pending' \subseteq pending /\ pending \ {p} \subseteq pending'
  BY DEF PmInput, PmOutput, manager, resetVars, tcmVars
<1>2. ("configuration" \in pending <=> "configuration" \in pending')
      /\ ("reset" \in pending <=> "reset" \in pending') /\ (TCM \in pending <=> TCM \in pending')
  BY <1>1, Names
<1>. QED BY <1>1, <1>2 DEF IMasks, ResetOver, ConfigurationAlone, TcmAlone, AppliedLast

LEMMA NextMasks == IType /\ IWork /\ IMasks /\ [Next]_vars => IMasks'
<1>. SUFFICES ASSUME IType, IWork, IMasks, [Next]_vars PROVE IMasks'
  OBVIOUS
<1>1. CASE UNCHANGED vars
  BY <1>1 DEF IMasks, ResetOver, ConfigurationAlone, TcmAlone, AppliedLast, vars, manager,
              resetVars, tcmVars, history
<1>2. CASE ServiceStep
  BY <1>2, ResetServiceMasks, DispatchMasks, TcmServiceMasks, PmMasks DEF ServiceStep
<1>3. ASSUME \/ \E kind \in {"REINITIALIZE_SPI_MASK", "RESET"} : OtherReset(kind)
             \/ \E c \in Configurations : OtherConfiguration(c)
      PROVE  IMasks'
  BY <1>3 DEF OtherReset, OtherConfiguration, IMasks
<1>. QED BY <1>1, <1>2, <1>3, NextWork, ManagerMasks DEF Next
-------------------------------------------------------------------------------
(* Theorems *)

IInv == IType /\ IWork /\ IMasks

LEMMA SpecIInv == Spec => []IInv
<1>1. IInv /\ [Next]_vars => IInv'
  BY NextType, NextWork, NextMasks DEF IInv
<1>. QED BY <1>1, InitType, InitWork, InitMasks, PTL DEF Spec, IInv

\* The types of the variables, and a service that works on a request has one.
THEOREM TypeCorrect == Spec => []TypeOK
BY SpecIInv, PTL DEF IInv, IType

\* The manager goes on only when the work it asked for is over, for any number of boards and
\* of requests of other clients, if its requests were taken before it looked.
THEOREM WorkIsAlwaysOver == Spec => []WorkIsOver
<1>1. IInv => WorkIsOver
  BY DEF IInv, IWork, Progress, WorkIsOver
<1>. QED BY <1>1, SpecIInv, PTL

\* And then the TCM holds the channel masks of the configuration that was applied.
THEOREM MasksAlwaysSurvive == Spec => []ConfiguredMasksSurvive
<1>1. IInv => ConfiguredMasksSurvive
  BY DEF IInv, IMasks, AppliedLast, ConfiguredMasksSurvive
<1>. QED BY <1>1, SpecIInv, PTL
===============================================================================
