-------------------------------- MODULE Startup --------------------------------
(* How the manager starts and stops the looping services: FredManager asks        *)
(* RESET_SYSTEM to reinitialise the masks and, if a configuration was named, asks  *)
(* CONFIGURATIONS to apply it; each time it polls the flags of the services until  *)
(* they are down, and only then has the looping services started.  CONFIGURATIONS  *)
(* passes the request on to the configuration service of every board concerned.    *)
(* Requests travel through FRED's queues; a request may still be on its way when   *)
(* the manager looks at a flag for the first time.  ResetFEE and the configuration *)
(* service of the TCM are flagged services; the one of a PM is a callback that     *)
(* raises its flag when it builds its sequence and lowers it with the response.    *)
EXTENDS Integers, Sequences, FiniteSets

CONSTANTS
  PMs,             \* connected PMs
  Configurations,  \* names of configurations
  BoardsOf,        \* the boards a configuration in the database has values for
  MaxCommands,     \* bound: commands to the manager
  MaxOthers        \* bound: requests of other clients

TCM == "TCM"
Boards == PMs \cup {TCM}
NoConfiguration == "none"

ASSUME StartupAssumption ==
  /\ {TCM, "reset", "configuration"} \cap PMs = {}
  /\ NoConfiguration \notin Configurations
  /\ BoardsOf \in [Configurations -> SUBSET (Boards \cup {"absent"})]
  /\ MaxCommands \in Nat
  /\ MaxOthers \in Nat

VARIABLES
  \* FredManager
  pc,             \* the step of startServices or stopServices
  command,        \* the configuration of START, if any
  seen,           \* flags found down in this round of polling
  looping,        \* the last request sent to the looping services
  \* RESET_SYSTEM
  resetQueue, resetFlag, resetPhase,
  initialized,    \* m_initialized
  \* CONFIGURATIONS
  configQueue,
  \* the configuration services of the TCM and the PMs
  tcmQueue, tcmFlag, tcmPhase,
  pmQueue, pmFlag,
  masks,          \* whose channel masks the TCM holds
  \* history
  commands, others,   \* how many there were
  pending,        \* what the command waits for: the reset, boards to be configured
  clean,          \* every request of the command found its service waiting, and was
                  \* taken before the manager looked
  applied,        \* its configuration was applied to the TCM
  meddled         \* others touched the masks since the command began

resetVars == <<resetQueue, resetFlag, resetPhase, initialized>>
tcmVars == <<tcmQueue, tcmFlag, tcmPhase>>
pmVars == <<pmQueue, pmFlag>>
manager == <<pc, command, seen, looping>>
history == <<commands, others, pending, clean, applied, meddled>>
vars == <<manager, resetVars, configQueue, tcmVars, pmVars, masks, history>>

ResetService == INSTANCE FlaggedService WITH flag <- resetFlag, phase <- resetPhase
TcmService == INSTANCE FlaggedService WITH flag <- tcmFlag, phase <- tcmPhase

Init ==
  /\ pc = "idle" /\ command = NoConfiguration /\ seen = {} /\ looping = "STOP"
  /\ ResetService!Init /\ resetQueue = <<>> /\ initialized = FALSE
  /\ TcmService!Init /\ tcmQueue = <<>>
  /\ configQueue = <<>>
  /\ pmQueue = [p \in PMs |-> <<>>] /\ pmFlag = [p \in PMs |-> 0]
  /\ masks = "users"
  /\ commands = 0 /\ others = 0 /\ pending = {} /\ clean = TRUE
  /\ applied = FALSE /\ meddled = FALSE

\* Requests carry who sent them: a command of the manager, or another client (0).
Request(kind, from) == [kind |-> kind, from |-> from]

\* Does a request belong to the command in progress?
IsMine(request) == request.from # 0 /\ request.from = commands
-------------------------------------------------------------------------------
(* FredManager *)

\* START, with or without a configuration.
StartCommand(configuration) ==
  /\ pc = "idle"
  /\ commands < MaxCommands
  /\ commands' = commands + 1
  /\ command' = configuration
  /\ pending' = {} /\ clean' = TRUE /\ applied' = FALSE /\ meddled' = FALSE
  /\ pc' = "reinitialize"
  /\ UNCHANGED <<seen, looping, resetVars, configQueue, tcmVars, pmVars, masks, others>>

\* STOP: the looping services are told at once.
StopCommand ==
  /\ pc = "idle"
  /\ commands < MaxCommands
  /\ commands' = commands + 1
  /\ looping' = "STOP"
  /\ UNCHANGED <<pc, command, seen, resetVars, configQueue, tcmVars, pmVars, masks,
                 others, pending, clean, applied, meddled>>

\* REINITIALIZE_SPI_MASK is requested.
RequestReset ==
  /\ pc = "reinitialize"
  /\ resetQueue' = Append(resetQueue, Request("REINITIALIZE_SPI_MASK", commands))
  /\ pending' = {"reset"}
  /\ clean' = (resetPhase = "waiting" /\ resetQueue = <<>>)
  /\ pc' = "pollReset"
  /\ UNCHANGED <<command, seen, looping, resetFlag, resetPhase, initialized, configQueue,
                 tcmVars, pmVars, masks, applied, commands, others, meddled>>

\* What the 10 ms of sleep before a poll should buy: no service is waiting that has a
\* request queued.  The manager polls anyway.
SleptLongEnough ==
  /\ resetPhase = "waiting" => resetQueue = <<>>
  /\ configQueue = <<>>
  /\ tcmPhase = "waiting" => tcmQueue = <<>>
  /\ \A p \in PMs : pmFlag[p] = 0 => pmQueue[p] = <<>>

Poll ==
  /\ clean' = (clean /\ SleptLongEnough)
  /\ UNCHANGED <<command, looping, resetVars, configQueue, tcmVars, pmVars, masks, pending,
                 applied, commands, others, meddled>>

\* RESET_SYSTEM is down.
ResetPolled ==
  /\ pc = "pollReset"
  /\ resetFlag = 0
  /\ pc' = IF command = NoConfiguration THEN "start" ELSE "configure"
  /\ Poll
  /\ UNCHANGED seen

\* The configuration is requested.
RequestConfiguration ==
  /\ pc = "configure"
  /\ configQueue' = Append(configQueue, Request(command, commands))
  /\ pending' = pending \cup {"configuration"}
  /\ clean' = (clean /\ configQueue = <<>>)
  /\ seen' = {}
  /\ pc' = "pollConfigurations"
  /\ UNCHANGED <<command, looping, resetVars, tcmVars, pmVars, masks, applied, commands,
                 others, meddled>>

IsDown_TcmOnly(board) == tcmFlag = 0
IsDown(board) == IF board = TCM THEN tcmFlag = 0 ELSE pmFlag[board] = 0

\* The flag of one more board is read: a flag that is up spoils this round, and the
\* next round begins.
PollConfiguration(board) ==
  /\ pc = "pollConfigurations"
  /\ board \notin seen
  /\ seen' = IF IsDown(board) THEN seen \cup {board} ELSE {}
  /\ Poll
  /\ UNCHANGED pc

\* All were down in one round: errors are reset and the looping services started.
ConfigurationsPolled ==
  /\ pc = "pollConfigurations"
  /\ seen = Boards
  /\ pc' = "start"
  /\ UNCHANGED <<command, seen, looping, resetVars, configQueue, tcmVars, pmVars, masks,
                 history>>

\* The looping services are told to start, and the manager publishes its answer.
StartLooping ==
  /\ pc = "start"
  /\ looping' = "START"
  /\ seen' = {}
  /\ pc' = "idle"
  /\ UNCHANGED <<command, resetVars, configQueue, tcmVars, pmVars, masks, history>>

ManagerStep ==
  \/ RequestReset \/ ResetPolled \/ RequestConfiguration
  \/ \E b \in Boards : PollConfiguration(b)
  \/ ConfigurationsPolled \/ StartLooping
-------------------------------------------------------------------------------
(* RESET_SYSTEM *)

\* processExecution is called again.
ResetBegins ==
  /\ ResetService!Begin
  /\ resetPhase' = IF initialized THEN "waiting" ELSE "preparing"
  /\ UNCHANGED <<resetQueue, initialized, manager, configQueue, tcmVars, pmVars, masks, history>>

\* The masks are updated when FRED starts, with the flag down.
ResetReady ==
  /\ ResetService!Ready
  /\ initialized' = TRUE
  /\ masks' \in {masks, "found"}
  /\ UNCHANGED <<resetQueue, manager, configQueue, tcmVars, pmVars, history>>

ResetTakes ==
  /\ resetQueue # <<>>
  /\ ResetService!Take
  /\ UNCHANGED <<resetQueue, initialized, manager, configQueue, tcmVars, pmVars, masks, history>>

\* Is the service initialised after a request of this kind?
InitializedAfter_NotAgain(kind) == kind # "REINITIALIZE_SPI_MASK"
InitializedAfter(kind) == TRUE

\* The request that was taken is answered: a reinitialisation has written the masks
\* of the PMs that were found, unless it failed.
ResetReturns ==
  /\ ResetService!Return
  /\ resetQueue' = Tail(resetQueue)
  /\ initialized' = InitializedAfter(Head(resetQueue).kind)
  /\ masks' \in {masks, IF Head(resetQueue).kind = "REINITIALIZE_SPI_MASK"
                          THEN "found" ELSE masks}
  /\ pending' = IF IsMine(Head(resetQueue)) THEN pending \ {"reset"} ELSE pending
  /\ UNCHANGED <<manager, configQueue, tcmVars, pmVars, applied, commands, others, clean,
                 meddled>>
-------------------------------------------------------------------------------
(* CONFIGURATIONS *)

\* May a request be passed on?  Not if the database does not know the configuration
\* or if it names a board that is not connected.
IsApplicable(configuration) ==
  BoardsOf[configuration] # {} /\ BoardsOf[configuration] \subseteq Boards

\* The boards of the configuration are fetched, and each of them gets a request.
Dispatch ==
  /\ configQueue # <<>>
  /\ configQueue' = Tail(configQueue)
  /\ LET request == Head(configQueue)
         boards == IF IsApplicable(request.kind) THEN BoardsOf[request.kind] ELSE {}
     IN /\ tcmQueue' = IF TCM \in boards THEN Append(tcmQueue, request) ELSE tcmQueue
        /\ pmQueue' = [p \in PMs |-> IF p \in boards THEN Append(pmQueue[p], request)
                                                     ELSE pmQueue[p]]
        /\ IF IsMine(request)
             THEN /\ pending' = (pending \ {"configuration"}) \cup boards
                  /\ clean' = /\ clean
                              /\ TCM \notin boards \/ (tcmPhase = "waiting" /\ tcmQueue = <<>>)
                              /\ \A p \in PMs \cap boards : pmQueue[p] = <<>>
             ELSE UNCHANGED <<pending, clean>>
  /\ UNCHANGED <<manager, resetVars, tcmFlag, tcmPhase, pmFlag, masks, applied, commands,
                 others, meddled>>
-------------------------------------------------------------------------------
(* The configuration services of the boards *)

TcmBegins_FlagKept ==
  /\ tcmPhase = "returned"
  /\ tcmPhase' = "waiting"
  /\ UNCHANGED <<tcmFlag, tcmQueue, manager, resetVars, configQueue, pmVars, masks, history>>

TcmBegins ==
  /\ TcmService!Begin
  /\ tcmPhase' = "waiting"
  /\ UNCHANGED <<tcmQueue, manager, resetVars, configQueue, pmVars, masks, history>>

TcmTakes ==
  /\ tcmQueue # <<>>
  /\ TcmService!Take
  /\ UNCHANGED <<tcmQueue, manager, resetVars, configQueue, pmVars, masks, history>>

\* The TCM is configured, its channel masks included, or the configuration failed.
TcmReturns ==
  /\ TcmService!Return
  /\ tcmQueue' = Tail(tcmQueue)
  /\ \/ /\ masks' = Head(tcmQueue).kind
        /\ applied' = (applied \/ IsMine(Head(tcmQueue)))
     \/ UNCHANGED <<masks, applied>>
  /\ pending' = IF IsMine(Head(tcmQueue)) THEN pending \ {TCM} ELSE pending
  /\ UNCHANGED <<manager, resetVars, configQueue, pmVars, commands, others, clean, meddled>>

\* processInputMessage of a PM: the flag is raised and the sequence built; an
\* exception lowers it again and ends the request.
PmInput(p) ==
  /\ pmFlag[p] = 0
  /\ pmQueue[p] # <<>>
  /\ \/ /\ pmFlag' = [pmFlag EXCEPT ![p] = 1]
        /\ UNCHANGED <<pmQueue, pending>>
     \/ /\ pmQueue' = [pmQueue EXCEPT ![p] = Tail(@)]
        /\ pending' = IF IsMine(Head(pmQueue[p])) THEN pending \ {p} ELSE pending
        /\ UNCHANGED pmFlag
  /\ UNCHANGED <<manager, resetVars, configQueue, tcmVars, masks, applied, commands, others,
                 clean, meddled>>

\* processOutputMessage of a PM.
PmOutput(p) ==
  /\ pmFlag[p] = 1
  /\ pmFlag' = [pmFlag EXCEPT ![p] = 0]
  /\ pmQueue' = [pmQueue EXCEPT ![p] = Tail(@)]
  /\ pending' = IF IsMine(Head(pmQueue[p])) THEN pending \ {p} ELSE pending
  /\ UNCHANGED <<manager, resetVars, configQueue, tcmVars, masks, applied, commands, others,
                 clean, meddled>>

ServiceStep ==
  \/ ResetBegins \/ ResetReady \/ ResetTakes \/ ResetReturns
  \/ Dispatch
  \/ TcmBegins \/ TcmTakes \/ TcmReturns
  \/ \E p \in PMs : PmInput(p) \/ PmOutput(p)
-------------------------------------------------------------------------------
(* Other clients use the same services *)

OtherReset(kind) ==
  /\ others < MaxOthers /\ others' = others + 1
  /\ resetQueue' = Append(resetQueue, Request(kind, 0))
  /\ meddled' = TRUE
  /\ UNCHANGED <<manager, resetFlag, resetPhase, initialized, configQueue, tcmVars, pmVars, masks,
                 applied, commands, pending, clean>>

OtherConfiguration(configuration) ==
  /\ others < MaxOthers /\ others' = others + 1
  /\ configQueue' = Append(configQueue, Request(configuration, 0))
  /\ meddled' = TRUE
  /\ UNCHANGED <<manager, resetVars, tcmVars, pmVars, masks, applied, commands, pending, clean>>

Next ==
  \/ \E c \in Configurations \cup {NoConfiguration} : StartCommand(c)
  \/ StopCommand
  \/ ManagerStep
  \/ ServiceStep
  \/ \E kind \in {"REINITIALIZE_SPI_MASK", "RESET"} : OtherReset(kind)
  \/ \E c \in Configurations : OtherConfiguration(c)

Spec == Init /\ [][Next]_vars

\* Every service has a thread of its own, or is called back by FRED, and every request
\* to ALF is answered.  The manager polls for ever.
FairSpec ==
  /\ Spec
  /\ WF_vars(RequestReset) /\ WF_vars(ResetPolled) /\ WF_vars(RequestConfiguration)
  /\ \A b \in Boards : WF_vars(PollConfiguration(b))
  /\ WF_vars(ConfigurationsPolled) /\ WF_vars(StartLooping)
  /\ WF_vars(ResetBegins) /\ WF_vars(ResetReady) /\ WF_vars(ResetTakes) /\ WF_vars(ResetReturns)
  /\ WF_vars(Dispatch)
  /\ WF_vars(TcmBegins) /\ WF_vars(TcmTakes) /\ WF_vars(TcmReturns)
  /\ \A p \in PMs : WF_vars(PmInput(p)) /\ WF_vars(PmOutput(p))
-------------------------------------------------------------------------------
(* Properties *)

RequestsOf(kinds) == [kind : kinds, from : 0 .. MaxCommands]

\* The types of the variables; a service that works on a request has it at the head
\* of its queue.
TypeOK ==
  /\ pc \in {"idle", "reinitialize", "pollReset", "configure", "pollConfigurations", "start"}
  /\ command \in Configurations \cup {NoConfiguration}
  /\ seen \subseteq Boards /\ looping \in {"START", "STOP"}
  /\ resetQueue \in Seq(RequestsOf({"REINITIALIZE_SPI_MASK", "RESET"}))
  /\ resetFlag \in {0, 1} /\ resetPhase \in ResetService!Phases /\ initialized \in BOOLEAN
  /\ resetPhase = "serving" => resetQueue # <<>>
  /\ configQueue \in Seq(RequestsOf(Configurations))
  /\ tcmQueue \in Seq(RequestsOf(Configurations))
  /\ tcmFlag \in {0, 1} /\ tcmPhase \in TcmService!Phases
  /\ tcmPhase = "serving" => tcmQueue # <<>>
  /\ pmQueue \in [PMs -> Seq(RequestsOf(Configurations))]
  /\ pmFlag \in [PMs -> {0, 1}]
  /\ \A p \in PMs : pmFlag[p] = 1 => pmQueue[p] # <<>>
  /\ masks \in Configurations \cup {"users", "found"}
  /\ commands \in 0 .. MaxCommands /\ others \in 0 .. MaxOthers
  /\ pending \subseteq Boards \cup {"reset", "configuration"}
  /\ clean \in BOOLEAN /\ applied \in BOOLEAN /\ meddled \in BOOLEAN

\* If the 10 ms were enough and every request found its service waiting, the looping
\* services are started, and the configuration is requested, only after all the work
\* requested before has ended, although the manager reads the flags one by one while
\* other clients keep the same services busy.
WorkIsOver == (clean /\ pc \in {"configure", "start"}) => pending = {}

\* And then a configuration that was applied to the TCM has the last word on its channel
\* masks: the reinitialisation of the same START does not come after it.
ConfiguredMasksSurvive ==
  (clean /\ ~meddled /\ pc = "start" /\ applied) => masks = command

\* The command of a manager ends, whatever the others request (they stop some time).
CommandEnds == pc # "idle" ~> pc = "idle"
===============================================================================
