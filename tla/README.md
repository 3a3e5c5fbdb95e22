# Verification of FIT FRED in TLA+

FIT FRED (`src/mapi`) is the control program of the front-end electronics (FEE) of
ALICE's FIT detector.  Operators (WinCC) and the manager send it requests as text; it
turns them into sequences of register accesses (SWT), which ALF executes on one TCM and
up to twenty PM boards, and publishes answers.  This directory holds TLA+ specifications
of that program and of the tool that fills its database, the TLC configurations that check
them on small instances, and proofs checked by TLAPS.  `PROJECT.json` maps every definition to the lines it is translated
from, and lists runs, mutants (plausible bugs each property detects), findings, hazards
and theorems.

    tlc -workers 2 -config MCRegisterIO_requests.cfg MCRegisterIO    # a run
    tlapm RegisterIO_proofs.tla                                      # a module of proofs

Contents: 1 inventory, 2 plan, 3 the modules and the code, 4 runs and bounds, 5 fairness,
6 proofs, 7 findings, 8 assumptions, 9 what is not modelled.

## 1. Inventory

FRED's core (a git submodule, not in the repository) owns DIM, ALF's channels, the
database connection and the threads.  `mapifactory.cpp` builds the boards from the database
and registers one object per service with it.  There are two kinds of service:
*callbacks* (`Mapi`: `processInputMessage` builds a sequence, `processOutputMessage` gets
the response) and *threads* (`IndefiniteMapi`: FRED calls `processExecution` over and
over; it sleeps, waits for requests and executes sequences synchronously).  All services of
a board share its `Board` object (parameters with their last values) and all boards share
one set of environment variables.  There are no locks in `src/mapi`.

| Component | State | Operations | Talks to | Hard behaviours | What makes it correct |
|---|---|---|---|---|---|
| Register I/O (`WinCCRequest`, `BoardCommunicationHandler`, `Parameters`) | tasks per register of the request in progress; stored values of the Board | build a sequence, execute it, process the response | ALF, Board | several fields in one register, several services on one register, failure in the middle | writes confirmed or reported, nothing else is changed, answers are of their request |
| Looping services (`LoopingFitIndefiniteMapi`; `BoardStatus`, `CounterRates`, `BoardHistograms`) | `m_stopped`, FRED's queue, the list being executed | START, STOP, RESET, READ, rest, readout | clients, the manager, FRED ending them | requests at any time, merged or skipped requests, termination while waiting | order, no request lost silently, STOP stops, every request is settled |
| Counter rates (`CounterRates`) | `m_counters`, `m_readInterval`, the FIFO of the electronics | read the interval, look at the FIFO, read or clear it, compute rates, reset | electronics that count and load meanwhile, the TCM's Board | wrap-around, full FIFO, partial loads, resets between loads, changes of the interval | a rate is the rate of the electronics over the interval it divides by |
| Reset of the FEE (`ResetFEE`) | `m_initialized`, `m_enforceDefGbtConfig`, the flag `RESET_SYSTEM`, masks | RESET, REINITIALIZE_SPI_MASK, ENFORCE_DEFAULT_GBT_CONFIG | TCM, all PMs, database, other writers of the masks | PMs that come and go, failures half-way, masks cached and written back | masks follow the PMs that answer, users' settings survive a reset |
| Manager (`FredManager`) and dispatch (`Configurations`, `PmConfigurations`) | flags in the environment variables, queues | START, STOP, polling | RESET_SYSTEM, configuration services, looping services | a request not yet visible when its flag is polled, others using the same services | the looping services start when the work is over, configuration last |
| Delays (`DelayChange`, `SetPhaseDelay`, `TcmConfigurations`) | stored delays | compute the difference, write, sleep, clear the report of a restart | TCM | electronics move in real time, two services change delays | the sleep is long enough, no report is left |
| Configuration broker (`ConfigurationDatabaseBroker`) | an open transaction | INSERT, UPDATE, SELECT, DELETE lines | database | failure, loss of connection or end of the program between lines | all or nothing, only legal values, answers tell the truth |
| `Reset`, `ResetErrors` | reset bits of every board, the locks of the links | set and clear bits board by board | boards | concurrent use of the same bits, failure in between | bits come down, success means it happened, the report of a restart goes last |
| Histograms (`PmHistograms`, `TcmHistograms`, `PmHistogramData`, `BinBlock`) and block transfers (`BasicFitIndefiniteMapi`, `parseFifo`) | selected histograms, bins | read blocks in packets, distribute words to bins | boards | seams of packets and blocks, incomplete responses, merged blocks, a pointer others move | every word in its bin, answers about filters and counters are true |
| Boards and the database views (`FitData`, `DatabaseViews`, `Columns`, `EnvironmentVariables`) | parameters, addresses, variables | parse rows, emplace | database | an incomplete database, the order of rows, a clock that changes | a program that starts finds what it needs, no two boards share a register, values fit their fields |
| GBT monitoring (`GbtRate`, `GbtErrorReport`, in `gbtInterfaceUtils`) | last counts, last time | update rate, parse error reports | boards | counters that wrap or are reset | rates of what was counted, reports that were made |
| Encodings (`SwtSequence`, `AlfResponseParser`, bit fields in `Board`) | - | encode and decode words | ALF | width and sign | decode inverts encode |
| `configuration-parser` (Rust tool) | - | parse registers, check overlaps, print SQL | files | order of input, a register in the middle that is unknown | no two fields overlap, registers are reproduced, whole files or nothing |
| `Equation`, `sql.h` | - | strings | - | - | - |
| FRED core, ALF, DIM, Oracle, electronics | external | | | | what `src/mapi` relies on is part of the models |

The hazards of this code, each at its line and with the properties that would catch it,
are in `PROJECT.json`.

## 2. Plan

The modules, in the order in which they were written.  The most used part of the system comes
first, since everything else goes through it.

| Module | Composes | Abstract specification | Theorems in |
|---|---|---|---|
| `RegisterIO` | | | `RegisterIO_proofs` |
| `LoopingService` | | `RequestLedger` | `LoopingService_proofs` |
| `CounterRates` | | | `CounterRates_proofs` |
| `ResetFEE` | | `FlaggedService` | `ResetFEE_proofs` |
| `Startup` | two `FlaggedService`s, the manager | `FlaggedService` is used as the services | `Startup_proofs` |
| `DelayChange` | | | `DelayChange_proofs` |
| `ConfigurationBroker` | | `ConfigurationStore` | `Database_proofs` |
| `GbtServices` | `BoardResets`, `GbtMonitor` | | `GbtServices_proofs` |
| `BoardData` | `FitData`, `ConfigurationParser` (both over `Electronic`), `PmHistograms`, `TcmHistograms` (both over `BlockRead`) | | `Database_proofs` |

`RequestLedger`, `FlaggedService` and `ConfigurationStore` say what a client may rely on; each
is checked as a property of the detailed module under a refinement mapping, and the first two
refinements are proved as well.  What could still be added is a model of the text of
responses (section 9) and a proof of the third refinement (section 6).

## 3. The modules and the code

**RegisterIO.** One action per half of a request, for every service that shares a board:
`Build` is `processMessageFromWinCC` and what it calls (`createReadRequest`,
`createWriteRequest`, `mergeOperation`) with every early return; `ExecuteSequence` and `FailSequence`
are ALF executing the sequence, all of it or a part; a masked write is two frames, AND and then OR
(`SwtSequence.cpp:44`), and a sequence that fails may end between them, which leaves the field of the write
at 0; `UnpackResponse` and `ReportFailure` are
`processMessageFromALF` with `unpackReadResponse` and `storeValue`.  A word is the set of its 1 bits, so that AND and OR masks are set
operations and the proofs hold for every width.  `regs` is the electronics, `stored` the
values in the Board, `tasks` is `m_registerTasks`.  `Volatile` bits are changed by the
electronics at any time (action `ElectronicsChange`).

**LoopingService.** One of three cycles (`FirstStep`, `AfterRest`, `AfterRequests`), built from the
statements of `LoopingFitIndefiniteMapi`: `Collect`/`Collected` is the loop of
`executeQueuedRequests` that drains FRED's queue and merges repetitions, `Execute*` the loop
that executes it, `Wait*` the loop in `handleSleepAndWake`.  A request is a number; its `fate`
says what became of it, and is the refinement mapping to **RequestLedger**, which says what may.

**CounterRates.** Electronics: `count`, `fifo`, `loading`, `torn`, `code`.  Service: `interval`
(`m_readInterval`), `counters` (`m_counters`), `readout`; `cached` is the value in the TCM's Board.
The steps are those of `processExecution`, `readRates`, `handleFifoReadout` and
`resetCounters`.  One counter stands for all; a set in the FIFO carries, besides its
value, what that value means (how many events, of which era, over which interval), so that
`rates` can be compared with the truth.  `evaluateFifoState` is translated with its five states.

**FlaggedService, ResetFEE.** FlaggedService is what the manager believes: the flag is lowered
whenever processExecution begins and raised when it has a request.  ResetFEE is
`ResetFEE.cpp` sequence by sequence (`pc` names the next one): updatePmSpiMask visits the
PMs, disables those that do not answer, and writes the masks; applyResetFEE saves and
disables the read interval, resets, waits, restores; applyGbtConfiguration visits the boards.
Others write the same registers (`WriteChannels`, `WriteInterval`, `ReadInterval`) and store what they
were told in a step of their own (`StoreChannels`, `StoreInterval`, the responses in `lateChannels` and
`lateInterval`); so does the service where somebody may come in between (`ReadMasks` and `StoreMasks`, the
restored interval).  PMs appear and disappear (`SwitchPm`).  A sequence that fails has executed some of its
frames: the SPI mask and the channel masks of the two sides are three masked writes of one sequence, of which
each may be done, begun (cleared) or not reached (`Held`, `BegunAfter`).

**Startup.** `FredManager::processExecution` step by step (reinitialize, poll, configure,
poll, start), with the services it makes work as FlaggedServices, requests in queues, and
CONFIGURATIONS' dispatch with its exceptions.  `masks` says who last wrote the channel masks.
Nothing in the code makes the 10 ms before a poll long enough for a request to be taken, so the
manager polls in any state; `clean` remembers whether the requests of this command found their
services waiting and were taken in time, and the properties of the order are stated for that case.

**DelayChange.** Two services that compute from `stored` what to write and how long to sleep;
`Write` is the electronics executing the sequence, `Store` the handler processing its response,
`Tick` a millisecond: sleeps get shorter and each delay moves one unit to its register.

**BoardResets, GbtMonitor, GbtServices.** BoardResets has one action per sequence of Reset and
ResetErrors: raise and clear of a bit, lock, errors, unlock, the clearing of the report of a restart.
A sequence is an AND and an OR frame, and one that fails may have done none of them, the first or
both, for FORCE_IDLE as well.  The report of a restart is taken back by others too, for reasons of their own
(`OthersClearReport`: `ResetFEE.cpp:120`, `316`, `TcmConfigurations.cpp:51`, `DelayChange.cpp:97`).
`pulse` and `cleaned` remember what was done to each board for the request in work, `left` the
boards a reported failure has left in an unknown state.  GbtMonitor is a cycle of BoardStatus:
`StatusRead` (the sequence, whose response stores the count and whether a report waits), the
report, the rates (`updateRate`: `oldCount`, `m_timeInterval` as a number of cycles).  GbtServices puts
them together: the bits RESET and RESET_ERRORS raise hold the counter and the FIFO that
BoardStatus reads (`HeldInReset`), while the electronics count and report.

**BlockRead, PmHistograms, TcmHistograms.** `Packets` cuts a block as `blockRead` does: a frame for
each full packet and one for the rest, even if that is empty.  A word is not a number but where
and when it was read, so that a published bin can be compared with its address.  PmHistograms has the
selection (`SELECT`, merging of contiguous blocks into operations in `updateOperations`), the
readout (set the pointer, read the FIFO, distribute the words, next operation), RESET and the BCID
filter.  A write of the filter is a step in which ALF executes it (`WriteFilterOn`) and one in which the service
stores what was read back (`StoreFilterOn`).  `PmClients`, of which PARAMETERS is one, may move the pointer at any time
(`disturbed`), and write or read the filter (`OtherUsesFilter`) and store the answer later
(`OtherStoresFilter`, as `unpackReadResponse` does for reads too): several answers may be on their way, and the
stored filter becomes what is stored last.  `doubt` has the fields of which nobody can be sure what is stored: a
change had no answer, or was executed while an older answer was still to be stored.  A masked write that fails
may have cleared its field.  `blocks` is `m_channelBlocks`, sorted by address; `view` is the
order in which `createBlockView` publishes them, by their first bins, and `parseResponse` puts the numbers
together.  TcmHistograms reads one block of memory, with or without
its first histogram, depending on the counter that was stored as selected when the readout began
(`BeginTcmRead`; the counter may change before `readAndStoreHistograms`).  What is stored of the counter is treated
like the filter: `SelectCounter` and `StoreCounter`, `OtherExecutes` and `OtherStores`, `tcmDoubt`.

**FitData, BoardData.** FitData is its constructor, a step per table (`FetchStep`) with each way to
`exit`: rows to parameters, boards with addresses from their side and number (`AddressOf`),
environment variables evaluated in the order of their rows, histograms with their
negative and positive halves.  `EnvironmentStep` is BoardStatus of the TCM telling
the environment of another clock.  An uninitialised value is `garbage`, chosen freely.  BoardData starts
the histogram services from what FitData has found.  The services share no variable, and none with the
tool that fills the database, so a behaviour follows one of them (`subject`), which keeps the state space
a sum and not a product.

**Electronic, ConfigurationParser.** Electronic is the encoding of fields in `Board.cpp`
(`parseElectronic`, `convertElectronicToRaw`).  ConfigurationParser is the Rust tool: `ReadLine` is
`BoardMap` taking a line of a table, with the checks of `insert_parameter`, and a panic for a bad line;
`PassOver`, `Panic` (a file that cannot be loaded, a key of one character) and `Create` take any file of the
directory; `Save` adds to its output the parameters of all its registers, or none if one is unknown, and
`SaveFails` those before the statement that could not be written (`convertedUntil`), with an error or, when it
is the buffer's last flush, without one.  FieldsDisjoint and RegistersReproduced relate it to FRED.

**ConfigurationStore, ConfigurationBroker.** The store takes a request as a whole: `Change`
folds the effects of its lines over the tables.  The broker has the loop over the lines:
`Blank`, `ConstructFails`, `executeUpdate`, `executeSelect`, `QueryFails`, then `Refuse`
(rollback) or `Commit` and `publishAnswer`.  Values are converted by the equations of a board, which throw when
they name another parameter that has no stored value: `valued` has those with one (`storeValue`; none after a
start), `electronicToPhysic` and `physicToElectronic` the parameters an equation names.  In INSERT and UPDATE the exception
is caught and refuses the line (`Constructs`), in a SELECT it ends the program (`Converts`).  The values of these
operands are not modelled, only that there are some.  `pending` is what the open transaction sees.  The
program may end (`Crash`, or `Die`, an exception that nothing catches) and start again; the
connection may break.  Rows of boards that are not in use any more (`Legacy`) are in the tables
from the beginning, as SELECT has to convert what it finds.

## 4. Runs and bounds

Every run is exhaustive for its instance.  Each property has a mutant of a mapped definition
that violates it under the same configuration.

| Run | Instance | Why it is enough |
|---|---|---|
| `register` | two registers of two bits, four parameters (two in one register, one with an input of its equation, one full-width, one read-only), one volatile bit; either one service with requests of 1 or 2 lines, or two services with single commands (`mode`) | two commands meet in one register in every way; three would merge like two merged twice; every interleaving of two sequences on one register |
| `looping_requests` | all kinds of service, 3 requests of 5 prefixes, readouts counted to 2 | START, STOP, START and a failing request in front, behind and in between, the end ordered at any time |
| `counter_rates_counting` | counters modulo 2, FIFO of 3 sets, 1 reset, 1 set loaded during a readout, failures | two sets and an overflow; wrap-around at every event; a second reset starts a new era like the first |
| `counter_rates_interval` | two valid codes, disabled and invalid, FIFO of 2, failures, no counting | every order of changes between two looks; what was counted does not matter here |
| `counter_rates_reset` (violation) | counters modulo 4, no failures | see section 7 |
| `reset_system` | two PMs on different sides, two bits a side, failures; either 1 request while PMs come and go and 2 channel masks are written, or 2 requests while the read interval is read and written once (`changing`) | a PM lost, one found, a mask written by others between any two sequences; a failed reset, a change, a successful reset; the answers of the others are stored at any time later (one interval that was read and one that was written at most) |
| `reset_identifiers` (violation) | three PMs on two links a side, no failures | see section 7 |
| `startup` | TCM and one PM, one complete and one impossible configuration, 2 commands, 1 request of others to any service | all interleavings of a command with another's request, and a command after another |
| `delay_changes` | two delays of 3 values, margins of 1 ms, 2 requests, failures | distances 0 to 2 in both directions, unknown delays, a second request at any time |
| `broker` | all requests of up to 2 of 17 kinds of line, and some of 3 that write twice; a parameter whose equations name another one; the connection and the program may fail anywhere | a line before and after each other kind, a transaction with something to lose at each line |
| `gbt_services` | TCM and one PM, two reset bits, a counter of one bit, one report, 2 requests, 3 requests, words and reports together, failures | RESET of both boards beside RESET_ERRORS, a half-done sequence of each; a count that wraps, is reset, and both, between two cycles |
| `board_data` | databases that differ from a complete one in one table each, 2 changes of the clock; 2 channels of 5 registers, packets of 2 words, two filters, another service at them, 4 actions; a TCM of three histograms and two other services; three tables of parameters and five files | blocks shorter than, equal to and longer than packets, blocks that touch the next channel and ones that do not; every way out of the constructor; boards at the ends of the address space; tables in and out of order, files that share a stem, name an unknown register or have no value; two answers stored in another order than they were executed, for the counter also those of two others |

Some runs are the union of two instances (`mode` and `changing` in the MC modules, `subject` in
BoardData): parts that share no state are explored one after the other.  For the same reason the requests for
the filter are explored for one structure of histograms only (`Next0` in MCBoardData), as they do not look at it.  `board_data`
is the largest run: 282814 distinct states.

What the runs show is said with each property: the comment in front of it names the code it is
about.  Bounds named `Max...` are constants; where a counter stops, so do the requests of the clients,
never a step of the program.  Deadlock is not checked where clients may stop asking
(`Startup`, `ResetFEE`, `GbtServices`), where the service may return for good (`LoopingService`) and
where a program without its data, or a tool out of files, ends (`BoardData`).

## 5. Fairness

* `LoopingService`: weak fairness of the service's own steps, since FRED calls processExecution
  again and again from a thread of its own and every sleep ends.  Strong fairness of a readout
  that gets past the gate of CounterRates: a FIFO that is loaded periodically is found loaded
  some time.  `RequestsSettle` says nothing of BoardHistograms, which branches on an
  uninitialised variable.
* `ResetFEE`: weak fairness of its steps: ALF answers every sequence, be it with an error.
* `Startup`: weak fairness of each step of the manager and of each service (separate threads).
  Requests of others are bounded: a manager that polls one flag after another can be kept from
  finding them all down by clients that never stop.
* `CounterRates`, `DelayChange`, `ConfigurationBroker`, `GbtServices`, `BoardData`, `RegisterIO`: none.  Their
  properties are about safety: each loop in them is over a finite list, and a sequence ends in an answer or
  an error.

## 6. Proofs

Eight modules hold proofs.  Each proves the type invariant (`TypeOK`, which the runs therefore need not
check; that of `board_data` they do) and every safety property that the runs check of its
component, but for ImplementsConfigurationStore.  All are for arbitrary constants under the named assumptions of the modules.

`RegisterIO_proofs` proves for every board (any number of registers, widths, parameters and
equations), any number of services and requests of any length: `TypeCorrect`,
`WritesAreConfirmed`, `FailuresHaveCauses`, `AnswersMatchRequests`, `ChangesAreLegal`.  The
inductive invariant relates the three phases of each service.  While a sequence is built, each
of its operations has masks that make exactly the commanded bits what was commanded (and an AND mask that
keeps every other bit, so that also a write that was only begun clears no bit but those of the request), and its
tasks name the parameters of the request; once it is executed, the words ALF read are those masks
applied, up to volatile bits.  Without the first part a response says nothing about the request,
and without the tasks an answer could be of an earlier request.  The assumption
`RangeFitsField` (a legal value fits its field) is needed because an unsigned raw value is not
masked by the code; TLC evaluates it, like `ConstantsAssumption`, for its instance.

`LoopingService_proofs` proves, for any number of requests and every kind: `TypeCorrect`,
`StoppedServicesAreQuiet`, `RequestsWaitOnce` and `LedgerImplemented` (the refinement of
RequestLedger).  The invariant is `TypeOK /\ QueueInv /\ StopInv /\ WaitInv`: the queue holds the
newest requests, and what executeQueuedRequests holds are the next ones (so that what it settles
is the oldest); a stopped service is not on its way to a readout, except for BoardHistograms in
the cycle it was stopped in; nobody who queues has waited, except between a readout and the next
executeQueuedRequests.

`CounterRates_proofs` is for counters of any width, a FIFO of any depth, any codes and number of resets.
The invariant has four parts, of which each needs only the types beside itself.
* `IType`.
* `IOffsets`: there is a constant K for each era such that a set's value and total differ by K modulo the
  width, for the sets in the FIFO, the one being loaded and `m_counters`.  A reset adds a new K, and
  the subtraction in resetCounters moves `m_counters` to it.  RatesCountEvents follows by the lemmas on
  subtraction modulo the width.
* `IInterval`: while the service has adapted to the interval, of all sets ahead only the first can be of
  another one, and it makes no rate.  A readout that empties the FIFO needs this for the sets after those
  it looked at (`FreshAfter(Looked)`), which arrive meanwhile.
* `ISuccessive`: the same with lost sets, and that a set is only lost beside a FIFO which the next look will find
  full.  It needs `MaxLate <= 1`, which the theorem assumes: with two sets on their way during one
  readout TLC finds a rate over a lost one.

`ResetFEE_proofs`, for any setup of PMs, intervals and channel masks: `ResetRestores`,
`LinksFollowAnswers`, `ChannelMasksKept` and the refinement of FlaggedService.  The invariant says of each step what
it has established.  `MaskFollows`: of the PMs visited so far, those in the stored mask are
the ones that answered or could not be disabled.  `ChannelsFollow`: the channel masks held, in the
response that was read, in the Board or about to be written, and those others have yet to store, are those of the
electronics unless somebody wrote where the service could not see it (`channelsRaced`).  `IntervalFollows`: the interval
kept is the one the users want, from the step that saves it to the one that restores it.

`Startup_proofs`, for any number of PMs, commands, requests of others and configurations: `WorkIsOver` and
`ConfiguredMasksSurvive`.  `IWork`: while the command is clean, the request of each service
it still waits for is in that service's queue or being served (`Awaited`), and the manager has passed no flag of such a
service (`Progress`).  `IMasks` adds who is left to write the masks at each step of the manager (`ResetOver`,
`ConfigurationAlone`, `TcmAlone`, `AppliedLast`).  Liveness of the command is model-checked.

`DelayChange_proofs`, for any range of delays, margin and time of the PMs, any set of sides: `UndisturbedChangeArrives`,
`ReportStaysCleared`.  `ChangesArrive`: at each step of an undisturbed change, how far the electronics are
from the delays asked for is bounded by the sleep that is left.  Termination of no loop is involved, but the
largest of the differences has to exist, hence the lemma on the least number of a set.

`Database_proofs` is about the database and all that is built from it.

* The broker, for any requests, tables and equations: `StoredValuesFit`, `SelectsSurvive`.  The invariant is over the
  committed rows, those of the open transaction, and the archive, which keeps every row ever committed; and a
  parameter that was given a value since the program started has stored values for its equation (`ConvertedInv`).
* The tool (`ParserInv`), for tables and files of any length: each parameter kept comes from a line that was
  read (`Seen`), the fields of a register are disjoint as long as its lines come in their order
  (`FieldsDisjoint`, from `InsertKeepsDisjoint`: comparing with the one before is then enough), an
  output has all registers or none unless a write to it failed, and then a part of them (`SqlIsWhole`), and its values give the word of the file again
  (`RegistersReproduced`, from `ReadingsAgree` on the two readings of a sign bit, for a field at any place;
  the signature of a trigger is the field that begins with bit 7).  Of a name that
  two lines have, nothing is claimed.
* FitData (`FitDataInv`), for any rows: the templates, boards and histograms are those of the rows, and the environment
  is what the equations make of its rows in their order (`ComputedRows`).  From that follow `RegistersApart`
  (for registers inside of the space of a PM), `FieldsHoldTheirRange` and `EnvironmentAgrees`, also while the
  clock changes: after a cycle of BoardStatus every derived variable is up to date, provided TDC is not computed from
  BC_INTERVAL, which is updated after it.
* The TCM (`TcmInv`), for any memory whose histograms follow each other and packets of any size:
  `TcmAnswersAreTrue`, with `CounterInv` for the counter.
* The filter of a PM (`FilterInv`), for any number of other services that write or read it and store late:
  `FilterAnswersAreTrue`.  `FieldInv` says of a field nobody doubts that everything that is stored of it, or waits to be,
  is what the board has, and `RequestInv` at each step of a request which fields have what it wants.  The stored value
  alone would not be inductive: an answer that is still to be stored decides what will be.  `CounterInv` is the
  same for the counter of the TCM.
* The readout of a PM (`PmInv`): `ReadoutsAreTrue`, for any number of channels, any size of packets and any structure of
  histograms whose blocks are apart, as the code assumes (`BlocksApart`, `PmHistogramData.cpp:46`).  `ChoiceInv` says that
  every block selected is inside of an operation, and that an operation begins with a block and has no address that
  is not of a block inside of it; `ReadInv` that after n operations
  every block inside of them has the words of its own addresses, read at the time of this readout.  Its
  steps are the merging of blocks (`OperationFacts`), the distribution of the words of one operation
  (`StoreReadout`: the words of an operation inside of a channel are all stored, each in the block it belongs to), and
  the order of what is published (`ParsedInOrder`).  That every selected block is inside of an operation is what
  makes a published readout complete; without the order of `blocks` it would not hold, as the distribution passes over
  them once.
* `TypesAlwaysCorrect` puts the types together, and with them that a program which starts has a TCM and both blocks of
  every histogram.

The recursive functions of these modules (packets, operations, blocks, the concatenation of what is published) are
proved about with a lemma of this module, `Iteration`: a chain of steps over 1 .. n exists and is a function, which
rests on the least number of a set of naturals; so no induction theorem with an operator as its parameter is
needed.

`GbtServices_proofs`, for any boards, bits and width of the counter.  The resets are first proved about by
themselves (`ResetsByThemselves`: GbtServices implements them, as the electronics and BoardStatus
leave their variables alone), with an invariant on what each step of RESET has published and done to its board, and what
RESET_ERRORS has done to the boards before, at and after the current one: `BitsComeDown`,
`SuccessMeansPulse`, `SuccessMeansCleaned`, `ReportComesLast`.  The monitor has an invariant of its own, on the
order of the looks at the counter and on a report that was there when the status was read: `RatesAreTrue`,
`ReportsAreTrue`.

Only model-checked:
* liveness and everything under fairness (`RequestsSettle`, `TerminationIsPrompt`, `FlagFalls`,
  `CommandEnds`), which is out of the prover's reach;
* the effect of a whole request of the broker (`ImplementsConfigurationStore`): the abstract store takes the
  request in one step, with a fold of the community modules over its lines, whose definition by recursion on an operator the provers
  cannot unfold.

## 7. Findings

Each is a run that must find a violation of what a comment or a test of the repository says.

1. `RatesSurviveReset`: a RESET of a stopped CounterRates leaves sets in the FIFO; the first rate
   after START wraps around, against the comment in resetCounters.
2. `ConnectedPmsIdentified`: checkSPIMask ignores the side of a PM, so that a PM of side C may
   be left without identifiers.

Seen while modelling, and part of the models as behaviour, without a run of their own:

* A parameter whose write failed is reported as an error and still answered as a value
  (`BoardCommunicationHandler.cpp:164`), where the test of the former handler
  (`test/BasicRequestHandler`) left it out.
* An unexpected request in front of a START or STOP in one batch makes BoardStatus skip it,
  against its comment that both are always successful.
* Clearing the FIFO while a set is being loaded takes that set's first words; the rest stays in
  the FIFO, and from then on a load is partial though nothing is about to arrive (`torn`).
* A delay changed by a second service during a shift is not waited for: the sleep is for the
  difference to the stored delay, not to where the electronics are.
* Blocks are merged across channels when a channel is filled to its end, although each operation belongs to one
  channel (comment at `PmHistogramData.cpp:69`): such a readout is refused every time.

Observations that no document contradicts, by component:

* **ResetFEE, manager**: `m_initialized` becomes true although the first update failed; a START in the first
  second of FRED is not held back by RESET_SYSTEM, which prepares with its flag down; the flag falls
  between two requests, and no 10 ms guarantee that a service has raised it when the manager looks;
  a reset before the read interval is known restores 0.
* **Counter rates**: the successive sets of a rate are only guaranteed while at most one set is
  loaded during a readout.
* **Broker**: an empty request ends it with an exception, and so does a SELECT of a row of an
  unknown board, or of one whose equation names a parameter that has no stored value yet, as after a restart
  (`Board.cpp:161`, outside of any try at `ConfigurationDatabaseBroker.cpp:293`); the result of a commit is ignored.
* **Masked writes**: one that fails between its two frames leaves its field at 0.  So a failing update can disable
  all channels of a side, or all links.
* **Reset, ResetErrors**: Reset has no return after "Unexpected request" (`Reset.cpp:28`): it goes on, and
  answers SUCCESS after the error.  ResetErrors failing between raising and
  clearing leaves the bits up; if the clearing of the report fails, an ERROR is published and no SUCCESS, though all
  boards were reset (`ResetErrors.cpp:62`).
* **GBT monitoring**: the first interval counts from the start of the program; a cycle whose status was lost
  makes the next rate span two cycles and divide by one; a report flushed between the two sequences is
  published as GBT_ERR_UNKNOWN.
* **Histograms**: a block that is an exact multiple of a packet gets a frame for 0 words.  BCID_FILTER reads its first argument
  even if there is none.  What is stored decides about "already set", so that it is wrong after a write that was
  lost, and when two services store their answers in another order than their sequences were executed.
* **Boards and database**: the flag of a FIFO is parsed from the column IS_READ_ONLY (`DatabaseViews.cpp:56`), and
  never used; any refresh type that is not NULL means SYNC (`FitData.cpp:214`); BC_INTERVAL is not among
  the variables checked, though `BoardStatus.cpp:80` throws without it; variables are evaluated in the order
  of the rows, which nothing guarantees; a TCM that is not connected leaves `tcm` null in `mapifactory.cpp`.
* **configuration-parser**: a parameter is compared with the one before it only (`register.rs:36`), so that tables out
  of order admit overlaps (those kept are in order); the INSERT of a configuration is written before its
  registers are looked up, and an unknown one leaves it without parameters; files of one stem overwrite each
  other's output; only the last two digits of a register's number count, and the order of a HashMap decides between
  two that agree in them.  A write that fails
  leaves a part of an output, without a message if it is the last flush; `ini!` and a key of one character end the tool
  with a panic.  The signature of a trigger is stored as the word from bit 7 on, whatever bits its line names (0 to 13 in
  `tcm.csv`); the table of parameters FRED itself reads it with is not in the repository.

## 8. Assumptions

* ALF executes a sequence as a whole, and no other in between; one that fails has executed a number of its
  frames, where an RMWbits is an AND and an OR frame; FRED calls processInputMessage of a
  callback service again only after processOutputMessage.
* `waitForRequest` and `isRequestAvailable` set `running` to whether FRED is not terminating the
  service, and requests of a service are taken in the order in which they were sent.
* An exception that leaves `processExecution` ends the program.
* At most `MaxLate` sets are loaded while the FIFO is being read; reading is faster than loading.
* Nobody but RESET_SYSTEM writes the SPI mask.
* A board does not restart by itself in the models of its registers; for the stored filter and counter a restart of it
  would be like a write of which the answer was lost.
* Each of the other services at the filter or the counter has one sequence under way at a time.
* Reset bits are levels: what they reset is held for as long as they are up.  The reports of the GBT FIFO are
  whole: a report is one element.
* The FIFO of the histograms yields the words from CURRENT_ADDRESS_IN_HISTOGRAM_DATA on and moves it; the memory
  of the TCM is addressed directly.
* DatabaseInterface: one transaction per commit, rolled back with the connection; the connection
  does not come back by itself within a request; keys of rows are unique.  The answer is only
  claimed to be right (`ImplementsConfigurationStore`) if the connection does not break after the
  last line and before the commit (`LostAtCommit` = FALSE): the result of the commit is ignored.

## 9. Not modelled

* The FRED core, ALF, DIM, Oracle, the electronics, docker and build files: external, and modelled only as
  far as `src/mapi` relies on them.
* The text of sequences and responses (`SwtSequence`, `AlfResponseParser`): digits, prefixes and lines.  What they mean is in
  RegisterIO (masks), Electronic (fields) and BlockRead (packets and counts of words); that the digits of a word
  are printed and parsed alike is a matter of a unit test.
* `sql.h`: concatenates strings, without state or decisions.  What the queries do is in
  ConfigurationStore and FitData.
* `Equation`: evaluated by a calculator of the FRED core.  The models take equations as functions
  (ConfigurationBroker), as a sum (FitData) or as the set of their inputs (RegisterIO).
* Histograms with other than two bins per register; the lines a GBT report gets in a file; the wording of
  messages and logging.
* Values of the parameters that an equation names beside its own (ConfigurationBroker has whether they have one).
* RESET, RESET_ERRORS and RESET_SYSTEM all write FIFO_REPORT_RESET of the TCM (`ResetErrors.cpp:28`, `ResetFEE.cpp:305`),
  and each module has only its own writers: ResetFEE calls it `reports`, and that a reset leaves them on
  (ResetRestores) is for one without RESET or RESET_ERRORS beside it; BoardResets leaves out that RESET_SYSTEM
  raises the bit for a while.
* Times, except for the milliseconds of DelayChange, the intervals of CounterRates and the cycles of
  GbtMonitor.
* Memory safety and data races of single words: the Board is shared without locks, and a
  read or write of one stored value is taken to be a step.
