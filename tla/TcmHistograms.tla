---------------------------- MODULE TcmHistograms -----------------------------
(* The HISTOGRAMS service of the TCM: three histograms in the memory of the board *)
(* are read as one block.  The first one belongs to a counter that a client       *)
(* selects, and is left out of the block when none is.  What is selected is       *)
(* stored in the Board with each answer that tells it, after ALF has executed the *)
(* sequence, by the service that sent it.                                         *)
EXTENDS BlockRead

CONSTANTS
  Memory,       \* the histograms, a sequence of [base, count] in order of their addresses
  Counters,     \* what can be selected, "0" for none
  TcmClients,   \* the other services of the board that write or read the counter
  MaxTcmActions \* bound: requests, readouts and what the others do

ASSUME TcmHistogramsAssumption ==
  /\ Memory \in Seq([base : Nat, count : Nat \ {0}]) /\ Len(Memory) > 1
  /\ \A h \in 2 .. Len(Memory) : Memory[h].base >= Memory[h - 1].base + Memory[h - 1].count
  /\ "0" \in Counters /\ {"unknown", "none"} \cap Counters = {}
  /\ MaxTcmActions \in Nat

VARIABLES
  tcmPc,          \* the next step of the service: "idle", "select", "store" or "block"
  tcmData,        \* what is stored for each histogram
  tcmAnswer,      \* published: "none", "read", "selected", "OK" or "lost"
  firstRead,      \* the first histogram of the block that is read
  storedCounter,  \* MODE_CORRELATION_COUNTER_SELECT as stored in the Board
  tcmAnswers,     \* what each of the others was told of the counter and has yet to store
  counter,        \* electronics: what is selected
  tcmRequest,     \* the last counter asked for
  tcmDoubt,       \* history: may what is stored, or will be, not be what is selected?
  tcmUnsure,      \* history: may that be so of what the last request found?
  tcmTime,        \* history: number of readouts and resets
  tcmActions

selection == <<storedCounter, tcmAnswers, counter, tcmRequest, tcmDoubt, tcmUnsure>>
tcmVars == <<selection, tcmPc, tcmData, tcmAnswer, firstRead, tcmTime, tcmActions>>

InitTcm ==
  /\ tcmPc = "idle" /\ tcmData = [h \in DOMAIN Memory |-> <<>>] /\ tcmAnswer = "none"
  /\ firstRead = 1
  /\ storedCounter = "unknown" /\ tcmAnswers = [k \in TcmClients |-> "none"]
  /\ counter \in Counters /\ tcmRequest = "0" /\ tcmDoubt = FALSE /\ tcmUnsure = FALSE
  /\ tcmTime = 0 /\ tcmActions = 0

ActTcm == tcmActions < MaxTcmActions /\ tcmActions' = tcmActions + 1
-------------------------------------------------------------------------------
\* RESET: one write that is not read back.
ResetTcm ==
  /\ tcmPc = "idle" /\ ActTcm
  /\ \/ tcmAnswer' = "OK" /\ tcmTime' = tcmTime + 1
     \/ tcmAnswer' = "lost" /\ tcmTime' \in {tcmTime, tcmTime + 1}
  /\ UNCHANGED <<tcmPc, tcmData, firstRead, selection>>

\* Somebody was told of the counter and has yet to store it.
CounterAwaited == tcmPc = "store" \/ \E k \in TcmClients : tcmAnswers[k] # "none"

\* ALF executes a sequence with the counter, after which it is c.  Nobody can be sure of what
\* is stored when a change has no answer, or while an older one is still to be stored.
ExecuteCounter(c, answered) ==
  /\ counter' = c
  /\ tcmDoubt' = IF answered /\ ~CounterAwaited THEN FALSE ELSE tcmDoubt \/ c # counter

\* COUNTER: nothing is written if the counter is stored as selected.
setCounterId(c) ==
  /\ tcmPc = "idle" /\ ActTcm
  /\ tcmRequest' = c /\ tcmUnsure' = (tcmDoubt \/ CounterAwaited)
  /\ IF storedCounter = c THEN tcmAnswer' = "selected" /\ UNCHANGED tcmPc
                          ELSE tcmAnswer' = "none" /\ tcmPc' = "select"
  /\ UNCHANGED <<tcmData, firstRead, storedCounter, tcmAnswers, counter, tcmDoubt, tcmTime>>

\* The write is executed and read back.
SelectCounter ==
  /\ tcmPc = "select" /\ tcmPc' = "store"
  /\ ExecuteCounter(tcmRequest, TRUE) /\ tcmUnsure' = FALSE
  /\ UNCHANGED <<tcmData, tcmAnswer, firstRead, storedCounter, tcmAnswers, tcmRequest, tcmTime,
                 tcmActions>>

\* It fails, done or not, or with the bits of the counter cleared only; nothing is stored.
SelectCounterFails ==
  /\ tcmPc = "select" /\ tcmPc' = "idle" /\ tcmAnswer' = "lost"
  /\ \E c \in {counter, tcmRequest, "0"} : ExecuteCounter(c, FALSE)
  /\ UNCHANGED <<tcmData, firstRead, storedCounter, tcmAnswers, tcmRequest, tcmUnsure, tcmTime,
                 tcmActions>>

\* The service stores what was read back, and answers.
StoreCounter ==
  /\ tcmPc = "store" /\ tcmPc' = "idle" /\ tcmAnswer' = "selected"
  /\ storedCounter' = tcmRequest
  /\ UNCHANGED <<tcmData, firstRead, tcmAnswers, counter, tcmRequest, tcmDoubt, tcmUnsure,
                 tcmTime, tcmActions>>

\* A readout begins: the stored counter decides where the block does.
BeginTcmRead ==
  /\ tcmPc = "idle" /\ ActTcm
  /\ tcmPc' = "block" /\ tcmAnswer' = "none" /\ tcmTime' = tcmTime + 1
  /\ firstRead' = IF storedCounter \in {"0", "unknown"} THEN 2 ELSE 1
  /\ UNCHANGED <<tcmData, selection>>

\* parseHistogramData: the words of each histogram in the block, none for one before it.
parseHistogramData(words, start) ==
  [h \in DOMAIN Memory |->
    LET from == Memory[h].base - start IN
    IF from < 0 THEN <<>> ELSE SubSeq(words, from + 1, from + Memory[h].count)]

readAndStoreHistograms ==
  /\ tcmPc = "block" /\ tcmPc' = "idle"
  /\ LET start == Memory[firstRead].base
         size == Last(Memory).base + Last(Memory).count - start
         words == MemoryAnswer(Packets(start, TRUE, size), tcmTime)
     IN  IF Complete(words, size)
         THEN tcmData' = parseHistogramData(words, start) /\ tcmAnswer' = "read"
         ELSE tcmAnswer' = "lost" /\ UNCHANGED tcmData
  /\ UNCHANGED <<firstRead, selection, tcmTime, tcmActions>>

\* The sequence fails, or its answer is not complete.
ReadTcmFails ==
  /\ tcmPc = "block" /\ tcmPc' = "idle" /\ tcmAnswer' = "lost"
  /\ UNCHANGED <<tcmData, firstRead, selection, tcmTime, tcmActions>>
-------------------------------------------------------------------------------
(* PARAMETERS and other services of the board: one sequence of each at a time *)

\* A sequence writes or reads the counter; its answer comes back or is lost.
OtherExecutes(k) ==
  /\ tcmAnswers[k] = "none" /\ ActTcm
  /\ \E c \in Counters, answered \in BOOLEAN :
       /\ ExecuteCounter(c, answered)
       /\ tcmUnsure' = (tcmUnsure \/ c # counter)
       /\ tcmAnswers' = IF answered THEN [tcmAnswers EXCEPT ![k] = c] ELSE tcmAnswers
  /\ UNCHANGED <<tcmPc, tcmData, tcmAnswer, firstRead, storedCounter, tcmRequest, tcmTime>>

OtherStores(k) ==
  /\ tcmAnswers[k] # "none"
  /\ storedCounter' = tcmAnswers[k] /\ tcmAnswers' = [tcmAnswers EXCEPT ![k] = "none"]
  /\ UNCHANGED <<tcmPc, tcmData, tcmAnswer, firstRead, counter, tcmRequest, tcmDoubt, tcmUnsure,
                 tcmTime, tcmActions>>

NextTcm ==
  \/ ResetTcm \/ (\E c \in Counters : setCounterId(c))
  \/ SelectCounter \/ SelectCounterFails \/ StoreCounter
  \/ BeginTcmRead \/ readAndStoreHistograms \/ ReadTcmFails
  \/ \E k \in TcmClients : OtherExecutes(k) \/ OtherStores(k)
-------------------------------------------------------------------------------
(* Properties *)

TcmTypeOK ==
  /\ tcmPc \in {"idle", "select", "store", "block"}
  /\ tcmData \in [DOMAIN Memory -> Seq([at : Nat, time : Nat])]
  /\ \A h \in DOMAIN Memory : Len(tcmData[h]) \in {0, Memory[h].count}
  /\ tcmAnswer \in {"none", "read", "selected", "OK", "lost"} /\ firstRead \in 1 .. 2
  /\ storedCounter \in Counters \cup {"unknown"} /\ counter \in Counters
  /\ tcmAnswers \in [TcmClients -> Counters \cup {"none"}]
  /\ tcmRequest \in Counters /\ tcmDoubt \in BOOLEAN /\ tcmUnsure \in BOOLEAN
  /\ tcmTime \in Nat /\ tcmActions \in Nat

\* Every histogram that is published holds the words of its own addresses, of this readout,
\* however the block was cut into packets, and whatever became of the counter since the readout
\* looked at it.  The first one is not published without a counter then (TcmHistograms.cpp:85,
\* BasicFitIndefiniteMapi.cpp:44).
TcmWordsInPlace == tcmAnswer = "read" => \A h \in DOMAIN Memory :
  IF h < firstRead THEN tcmData[h] = <<>>
  ELSE tcmData[h] = [k \in 1 .. Memory[h].count |-> Word(Memory[h].base + k - 1, tcmTime)]

\* What is stored is what is selected once all answers are stored, unless an answer to a write
\* was lost, or a write overtook an answer that was still to be stored, and no sequence with
\* the counter was executed alone since (TcmHistograms.cpp:70, Parameters.cpp:16).
StoredCounterIsTrue ==
  ~tcmDoubt /\ ~CounterAwaited => storedCounter \in {"unknown", counter}

\* "Already selected" and "selected" are true until another service changes the counter, unless
\* the request found a counter stored of which nobody could be sure (TcmHistograms.cpp:66).
SelectionsAreTrue == tcmAnswer = "selected" /\ ~tcmUnsure => counter = tcmRequest

\* The histograms, the stored counter and the answers of the TCM are true.
TcmAnswersAreTrue == TcmWordsInPlace /\ StoredCounterIsTrue /\ SelectionsAreTrue
================================================================================
