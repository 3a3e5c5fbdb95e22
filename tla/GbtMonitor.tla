------------------------------ MODULE GbtMonitor ------------------------------
(* What BoardStatus makes of the GBT link of its board in every cycle: the rates  *)
(* of the words and events the electronics count (GbtRate; one counter stands for *)
(* both), and the report of an error that waits in a FIFO of the electronics.     *)
(* The value of the counter, and whether the FIFO is empty, are stored in the     *)
(* Board by the response of the status request, and taken from there some         *)
(* statements later; PARAMETERS of the same board may store a newer count.        *)
EXTENDS Naturals

CONSTANTS
  Wrap,        \* the counter counts modulo this (2^32)
  ErrorCodes,  \* the first words of the reports parseFifoData knows
  MaxWords,    \* bound: words counted
  MaxReports,  \* bound: errors reported by the electronics
  StatusFails  \* may the communication of this service fail?

ASSUME GbtMonitorAssumption ==
  /\ Wrap \in Nat \ {0}
  /\ MaxWords \in Nat /\ MaxReports \in Nat
  /\ {"EMPTY", "OTHER", "UNKNOWN"} \cap ErrorCodes = {}
  /\ StatusFails \in BOOLEAN

NoRate == [n |-> 0, divisor |-> 0, counted |-> 0, cycles |-> 0, steady |-> FALSE]

VARIABLES
  \* electronics
  count,       \* GBT_WORDS_COUNT
  fifo,        \* the report that waits, or "EMPTY"
  \* stored in the Board
  stored,      \* the last count read: [value, words, era], with what it means
  emptyStored, \* GBT_FIFO_EMPTY_ERROR_REPORT
  \* BoardStatus
  step,        \* the next step of its cycle
  oldCount,    \* oldCount of GbtRate
  age,         \* cycles since m_lastTimePoint
  interval,    \* m_timeInterval, in cycles
  rate, report,\* what it publishes in this cycle
  \* history
  words,       \* words counted since the beginning
  era,         \* resets of the counter that took something from it
  oldWords, oldEra, \* what they were when oldCount was read
  cycles,      \* cycles since the last rate (2: two or more)
  taken,       \* the report that left the FIFO by being read
  flushed,     \* was the FIFO emptied by somebody else since the status was read?
  reports      \* errors reported

counters == <<count, words, era>>
errors == <<fifo, flushed, reports>>
old == <<oldCount, oldWords, oldEra>>
ofRates == <<old, age, interval, cycles>>
monitorVars == <<counters, errors, ofRates, stored, emptyStored, step, rate, report, taken>>

InitMonitor ==
  /\ count = 0 /\ words = 0 /\ era = 0
  /\ fifo = "EMPTY" /\ flushed = FALSE /\ reports = 0
  /\ stored = [value |-> 0, words |-> 0, era |-> 0] /\ emptyStored = TRUE
  /\ step = "status" /\ rate = NoRate /\ report = "none" /\ taken = "none"
  /\ oldCount = 0 /\ oldWords = 0 /\ oldEra = 0
  /\ age = 1 /\ interval = 0
  /\ cycles = 2  \* m_lastTimePoint is 0: the first interval begins when the computer did
-------------------------------------------------------------------------------
(* Electronics *)

CountWord ==
  /\ words < MaxWords
  /\ words' = words + 1 /\ count' = (count + 1) % Wrap
  /\ UNCHANGED <<era, errors, ofRates, stored, emptyStored, step, rate, report, taken>>

ReportError(code) ==
  /\ fifo = "EMPTY" /\ reports < MaxReports
  /\ fifo' = code /\ reports' = reports + 1
  /\ UNCHANGED <<counters, flushed, ofRates, stored, emptyStored, step, rate, report, taken>>

\* While a reset bit is up the counter stays 0 and the FIFO of the reports empty.
HeldInReset(counterHeld, reportsHeld) ==
  /\ count' = IF counterHeld THEN 0 ELSE count
  /\ era' = IF counterHeld /\ count # 0 THEN era + 1 ELSE era
  /\ fifo' = IF reportsHeld THEN "EMPTY" ELSE fifo
  /\ flushed' = (flushed \/ reportsHeld)
  /\ UNCHANGED <<words, reports, ofRates, stored, emptyStored, step, rate, report, taken>>
-------------------------------------------------------------------------------
(* The cycle of BoardStatus, after requests and rest *)

CountNow == [value |-> count, words |-> words, era |-> era]

\* updateTimePoint
TimePoint == interval' = age /\ age' = 0

\* The status sequence succeeds: its response is stored, the time is taken.
StatusRead ==
  /\ step = "status"
  /\ TimePoint
  /\ stored' = CountNow /\ emptyStored' = (fifo = "EMPTY") /\ flushed' = FALSE
  /\ step' = "errors"
  /\ UNCHANGED <<counters, fifo, reports, old, cycles, rate, report, taken>>

\* It fails: the time is taken all the same, but no rates are computed.
StatusLost ==
  /\ StatusFails /\ step = "status"
  /\ TimePoint
  /\ step' = "rest"
  /\ UNCHANGED <<counters, errors, old, cycles, stored, emptyStored, rate,
                 report, taken>>

\* parseFifoData: the first word tells the kind.  An empty FIFO reads as zeros.
parseFifoData(word) == IF word \in ErrorCodes THEN word ELSE "UNKNOWN"

\* checkGbtErrors: nothing to do.
NoErrors ==
  /\ step = "errors" /\ emptyStored
  /\ step' = "rates"
  /\ UNCHANGED <<counters, errors, ofRates, stored, emptyStored, rate, report, taken>>

\* Mutant: the report is read in every cycle.
ReadReport_Always ==
  /\ step = "errors"
  /\ report' = parseFifoData(fifo)
  /\ taken' = fifo /\ fifo' = "EMPTY"
  /\ step' = "rates"
  /\ UNCHANGED <<counters, flushed, reports, ofRates, stored, emptyStored, rate>>

\* checkGbtErrors: the report is read, which empties the FIFO.
ReadReport ==
  /\ step = "errors" /\ ~emptyStored
  /\ report' = parseFifoData(fifo)
  /\ taken' = fifo /\ fifo' = "EMPTY"
  /\ step' = "rates"
  /\ UNCHANGED <<counters, flushed, reports, ofRates, stored, emptyStored, rate>>

\* The read fails, and the report may be gone with it.  The cycle goes on.
ReportLost ==
  /\ StatusFails /\ step = "errors" /\ ~emptyStored
  /\ fifo' \in {fifo, "EMPTY"}
  /\ step' = "rates"
  /\ UNCHANGED <<counters, flushed, reports, ofRates, stored, emptyStored, rate, report, taken>>

\* Mutant: the difference of unsigned numbers.
updateRate_Unsigned(new) == [n |-> (new - oldCount) % Wrap, divisor |-> interval]

\* GbtRate::updateRate.  A smaller count is taken for one that was reset, and is the rate
\* as it is, whatever the interval.
updateRate(new) ==
  IF new >= oldCount THEN [n |-> new - oldCount, divisor |-> interval]
                     ELSE [n |-> new, divisor |-> 1]

UpdateRates ==
  /\ step = "rates"
  /\ rate' = LET r == updateRate(stored.value) IN
       [n |-> r.n, divisor |-> r.divisor, counted |-> stored.words - oldWords,
        cycles |-> cycles,
        steady |-> stored.era = oldEra /\ oldCount + stored.words - oldWords < Wrap]
  /\ oldCount' = stored.value /\ oldWords' = stored.words /\ oldEra' = stored.era
  /\ cycles' = 0
  /\ step' = "rest"
  /\ UNCHANGED <<counters, errors, age, interval, stored, emptyStored, report, taken>>

\* What was published is gone; a second passes.
Rest ==
  /\ step = "rest"
  /\ age' = age + 1
  /\ cycles' = IF cycles < 2 THEN cycles + 1 ELSE cycles
  /\ rate' = NoRate /\ report' = "none" /\ taken' = "none"
  /\ step' = "status"
  /\ UNCHANGED <<counters, errors, old, interval, stored, emptyStored>>

BoardStatusStep ==
  StatusRead \/ StatusLost \/ NoErrors \/ ReadReport \/ ReportLost \/ UpdateRates \/ Rest

\* PARAMETERS reads the count between two steps of BoardStatus.
OtherReads ==
  /\ stored # CountNow
  /\ stored' = CountNow
  /\ UNCHANGED <<counters, errors, ofRates, emptyStored, step, rate, report, taken>>
-------------------------------------------------------------------------------
(* Properties *)

MonitorTypeOK ==
  /\ count \in 0 .. Wrap - 1 /\ words \in Nat /\ era \in Nat
  /\ fifo \in ErrorCodes \cup {"EMPTY", "OTHER"} /\ flushed \in BOOLEAN /\ reports \in Nat
  /\ stored \in [value : 0 .. Wrap - 1, words : Nat, era : Nat] /\ emptyStored \in BOOLEAN
  /\ step \in {"status", "errors", "rates", "rest"}
  /\ oldCount \in 0 .. Wrap - 1 /\ oldWords \in Nat /\ oldEra \in Nat
  /\ age \in Nat /\ interval \in Nat /\ cycles \in 0 .. 2
  /\ rate \in [n : Nat, divisor : Nat, counted : Nat, cycles : Nat, steady : BOOLEAN]
  /\ report \in ErrorCodes \cup {"none", "UNKNOWN"}
  /\ taken \in ErrorCodes \cup {"none", "EMPTY", "OTHER"}

\* A rate never tells of more words than were counted since the last rate, however often the
\* counter wrapped or was reset (a difference of unsigned numbers would).  It tells of all of
\* them if the counter did neither, and divides them by the time they took, provided no cycle
\* without a rate came in between (gbtInterfaceUtils.cpp:205, BoardStatus.cpp:30).
RatesAreTrue ==
  /\ rate.n <= rate.counted
  /\ rate.steady => rate.n = rate.counted
  /\ rate.steady /\ rate.cycles = 1 => rate.divisor = 1

\* A report that is published is the one the electronics made; an unknown one is published
\* only for a code nobody knows or if somebody emptied the FIFO after the status was read,
\* never because of the order of the two sequences alone (BoardStatus.cpp:83).
ReportsAreTrue == report # "none" =>
  \/ report \in ErrorCodes /\ report = taken
  \/ report = "UNKNOWN" /\ (taken = "OTHER" \/ (taken = "EMPTY" /\ flushed))
================================================================================
