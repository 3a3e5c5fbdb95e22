------------------------------- MODULE CounterRates -------------------------------
(*****************************************************************************)
(* The CounterRates service of a board.  The electronics count events and,   *)
(* every read interval, load the values of all counters into a FIFO; the     *)
(* service polls the FIFO and publishes rates: the difference of the last    *)
(* two sets of values over the interval.  Clients change the read interval   *)
(* and reset the counters at any time.                                       *)
(*                                                                           *)
(* One counter stands for all of them.  A set is a record of its value, as   *)
(* the FIFO holds it, and of what the value means:                           *)
(*   total    the events counted so far, all resets aside                    *)
(*   era      how many resets came before                                    *)
(*   code     the read interval at the end of which the set was loaded       *)
(*   whole    that interval was not changed while it lasted                  *)
(*   follows  no set was lost between this one and the one before            *)
(* Values are taken modulo 2^32 in the code, modulo Modulus here, and so are *)
(* totals: a rate is right if it is right modulo the width of a counter.     *)
(*****************************************************************************)
EXTENDS Integers, Sequences

CONSTANTS
  Modulus,    \* counters hold 0 .. Modulus - 1 (Modulus is 2^32 in the electronics)
  Codes,      \* the read interval codes clients write
  MaxSets,    \* sets that fit: m_maxFifoWords / m_numberOfCounters (33 or 20)
  MaxResets,  \* bound on the number of resets
  MaxLate,    \* bound on the sets loaded during one readout
  CommFails,  \* communication with the board may fail
  None        \* no value

ASSUME ConstantsAssumption ==
  /\ Modulus \in Nat \ {0}
  /\ Codes \subseteq Nat
  /\ MaxSets \in Nat \ {0, 1}
  /\ MaxResets \in Nat
  /\ MaxLate \in Nat
  /\ CommFails \in BOOLEAN
  /\ None \notin Nat

VARIABLES
  \* the electronics
  count,     \* the counter
  total,     \* the events counted, all resets aside
  era,       \* the number of resets
  fifo,      \* the sets in the FIFO, oldest first
  torn,      \* the FIFO begins with the rest of a set whose first words are gone
  loading,   \* the set being loaded, or None
  lost,      \* a set was lost since the last one that was loaded
  code,      \* COUNTER_READ_INTERVAL
  changed,   \* it was changed during the current interval
  \* the service
  pc,        \* where processExecution is
  stopped,   \* m_stopped
  cached,    \* the value of COUNTER_READ_INTERVAL stored in the TCM's Board, or None
  interval,  \* m_readInterval, as its code; 0 for 0.0
  readout,   \* the readout in progress: [state, sets, partial]
  counters,  \* m_counters, a value or None
  base,      \* the set m_counters was taken from: [total, era, junk, behind]
  rates,     \* what is wrong with m_rates: [off, ...], or None if there are none
  direct,    \* directCounters of the reset in progress, or None
  late,      \* sets on their way since the readout in progress looked at the FIFO
  unseen     \* the interval was written since the service last adapted to it, or the
             \* FIFO could not be cleared then

electronics == <<count, total, era, fifo, torn, loading, lost, code, changed>>
values == <<counters, base, rates>>
control == <<stopped, cached, interval, late, unseen>>
vars == <<electronics, pc, readout, values, direct, control>>

Minus(a, b) == (a - b + Modulus) % Modulus
Plus(a, b) == (a + b) % Modulus

-----------------------------------------------------------------------------
(* The electronics. *)

Event ==
  /\ count' = Plus(count, 1)
  /\ total' = Plus(total, 1)
  /\ UNCHANGED <<era, fifo, torn, loading, lost, code, changed>>
  /\ UNCHANGED <<pc, readout, values, direct, control>>

\* The interval is over.  Reading is faster than loading: at most MaxLate sets are
\* on their way into the FIFO between a readout's look at it and its end.
BeginLoad ==
  /\ code \in 1 .. 7
  /\ loading = None
  /\ pc \in {"fifo", "requests"} => late < MaxLate
  /\ late' = IF pc \in {"fifo", "requests"} THEN late + 1 ELSE late
  /\ loading' = [value |-> count, total |-> total, era |-> era, code |-> code,
                 whole |-> ~changed, follows |-> ~lost]
  /\ lost' = FALSE
  /\ changed' = FALSE
  /\ UNCHANGED <<count, total, era, fifo, torn, code>>
  /\ UNCHANGED <<pc, readout, values, direct, stopped, cached, interval, unseen>>

\* The last word is in the FIFO; a set that does not fit is lost.
EndLoad ==
  /\ loading # None
  /\ IF Len(fifo) < MaxSets
       THEN fifo' = Append(fifo, loading) /\ UNCHANGED lost
       ELSE lost' = TRUE /\ UNCHANGED fifo
  /\ loading' = None
  /\ UNCHANGED <<count, total, era, torn, code, changed>>
  /\ UNCHANGED <<pc, readout, values, direct, control>>

\* Any client of the TCM writes COUNTER_READ_INTERVAL ...
WriteInterval(c) ==
  /\ c # code
  /\ code' = c
  /\ changed' = TRUE
  /\ unseen' = TRUE
  /\ UNCHANGED <<count, total, era, fifo, torn, loading, lost>>
  /\ UNCHANGED <<pc, readout, values, direct, stopped, cached, interval, late>>

\* ... and the TCM's Board stores the value read back; or somebody, possibly this
\* service, reads it for the first time.
StoreInterval ==
  /\ cached # code
  /\ cached' = code
  /\ UNCHANGED <<electronics, pc, readout, values, direct, stopped, interval, late, unseen>>

-----------------------------------------------------------------------------
(* The read interval. *)

NoBase == [total |-> 0, era |-> None, junk |-> FALSE, behind |-> FALSE]
NoReadout == [state |-> "Ok", sets |-> 0, partial |-> FALSE]

\* Mutant: the counters and the rates are kept.
resetService_Nothing == UNCHANGED values

resetService == counters' = None /\ rates' = None /\ base' = NoBase

\* handleSleepAndWake lets a service that is not stopped pass.
Wake ==
  /\ pc = "rest"
  /\ ~stopped /\ direct = None
  /\ pc' = "interval"
  /\ UNCHANGED <<electronics, readout, values, direct, control>>

\* handleReadInterval finds no value (nobody has read it yet, and the attempt to
\* do so failed) or an invalid one.
IntervalUnusable ==
  /\ pc = "interval"
  /\ \/ cached = None /\ CommFails
     \/ cached # None /\ cached \notin 0 .. 7
  /\ pc' = "requests"
  /\ UNCHANGED <<electronics, readout, values, direct, control>>

IntervalDisabled ==
  /\ pc = "interval"
  /\ cached = 0
  /\ interval' = 0
  /\ pc' = "requests"
  /\ UNCHANGED <<electronics, readout, values, direct, stopped, cached, late, unseen>>

IntervalOk ==
  /\ pc = "interval"
  /\ cached \in 1 .. 7
  /\ cached = interval
  /\ readout' = [readout EXCEPT !.state = "Ok"]
  /\ pc' = "load"
  /\ UNCHANGED <<electronics, values, direct, control>>

IntervalChanged ==
  /\ pc = "interval"
  /\ cached \in 1 .. 7
  /\ cached # interval
  /\ interval' = cached
  /\ resetService
  /\ readout' = [readout EXCEPT !.state = "Changed"]
  /\ unseen' = (cached # code)
  /\ pc' = "load"
  /\ UNCHANGED <<electronics, direct, stopped, cached, late>>

-----------------------------------------------------------------------------
(* Reading the FIFO. *)

\* Mutant: a full FIFO counts as one with several sets.
evaluateFifoState_NeverOutdated ==
  CASE torn \/ loading # None -> "Partial"
    [] OTHER -> IF fifo = <<>> THEN "Empty" ELSE IF Len(fifo) = 1 THEN "Single" ELSE "Multiple"

\* evaluateFifoState of the number of words in the FIFO: a set that is being
\* loaded, or was torn, leaves it between two multiples of m_numberOfCounters.
evaluateFifoState ==
  CASE Len(fifo) >= MaxSets -> "Outdated"
    [] Len(fifo) < MaxSets /\ (torn \/ loading # None) -> "Partial"
    [] OTHER -> IF fifo = <<>> THEN "Empty" ELSE IF Len(fifo) = 1 THEN "Single" ELSE "Multiple"

\* getFifoLoad fails, or yields 0xFFFFFFFF.
LoadFails ==
  /\ pc = "load"
  /\ CommFails
  /\ unseen' = (unseen \/ readout.state = "Changed")
  /\ readout' = NoReadout
  /\ pc' = "requests"
  /\ UNCHANGED <<electronics, values, direct, stopped, cached, interval, late>>

\* A FIFO with nothing in it is not read; requests have to wait.
FifoEmpty ==
  /\ pc = "load"
  /\ readout.state = "Ok"
  /\ evaluateFifoState = "Empty"
  /\ pc' = "rest"
  /\ UNCHANGED <<electronics, readout, values, direct, control>>

\* The number of sets to read: a partial load is rounded up to whole sets.
FifoFilled ==
  /\ pc = "load"
  /\ LET state == IF readout.state = "Changed" THEN "Outdated" ELSE evaluateFifoState
     IN /\ state # "Empty"
        /\ readout' = [state   |-> state,
                       sets    |-> Len(fifo) + IF state = "Partial" THEN 1 ELSE 0,
                       partial |-> loading # None]
  /\ late' = IF loading # None THEN 1 ELSE 0
  /\ pc' = "fifo"
  /\ UNCHANGED <<electronics, values, direct, stopped, cached, interval, unseen>>

\* readFifo takes the words it asks for.  To clear the FIFO it asks for the words
\* that were there, which may include the first words of a set being loaded; of a
\* FIFO that begins in the middle of a set it asks for more than there is.
TakeWords ==
  LET left == SubSeq(fifo, readout.sets + 1, Len(fifo))
  IN \/ /\ readout.state = "Outdated" /\ readout.partial
        /\ fifo' = IF left = <<>> THEN <<>> ELSE Tail(left)
        /\ loading' = IF left = <<>> THEN None ELSE loading
        /\ torn' = TRUE
        /\ lost' = TRUE
     \/ /\ readout.state = "Outdated" /\ ~readout.partial
        /\ fifo' = left
        /\ torn' = FALSE
        /\ UNCHANGED <<loading, lost>>
     \/ /\ readout.state # "Outdated" /\ ~torn
        /\ Len(fifo) >= readout.sets
        /\ fifo' = left
        /\ UNCHANGED <<torn, loading, lost>>
     \/ /\ readout.state # "Outdated" /\ torn
        /\ fifo' = <<>>
        /\ loading' = None
        /\ torn' = (loading # None)
        /\ lost' = TRUE

\* The communication fails, before or after the words were taken from the FIFO.
ReadFails ==
  /\ pc = "fifo"
  /\ CommFails
  /\ \/ UNCHANGED <<fifo, torn, loading, lost, base>>
     \/ TakeWords /\ base' = [base EXCEPT !.behind = TRUE]
  /\ unseen' = (unseen \/ readout.state = "Outdated")
  /\ pc' = "requests"
  /\ UNCHANGED <<count, total, era, code, changed>>
  /\ readout' = NoReadout
  /\ UNCHANGED <<counters, rates, direct, stopped, cached, interval, late>>

ClearFifo ==
  /\ pc = "fifo"
  /\ readout.state = "Outdated"
  /\ TakeWords
  /\ resetService
  /\ pc' = "requests"
  /\ readout' = NoReadout
  /\ UNCHANGED <<count, total, era, code, changed, direct, control>>

\* What is wrong with a rate made out of two sets: off is how much the difference of
\* their values is off that of their totals.  It is junk if m_counters was read from a
\* torn FIFO, and behind if sets were taken from the FIFO in between without an answer.
Rate(new, oldValue, old) ==
  [off |-> Minus(Minus(new.value, oldValue), Minus(new.total, old.total)),
   sameEra |-> new.era = old.era, junk |-> old.junk, behind |-> old.behind,
   follows |-> new.follows,
   ownInterval |-> new.whole /\ new.code = interval, unseen |-> unseen]

Base(set) == [total |-> set.total, era |-> set.era, junk |-> FALSE, behind |-> FALSE]

\* handleCounterValues: two sets, or one set and m_counters, make a rate.
ReadFifo ==
  /\ pc = "fifo"
  /\ readout.state # "Outdated"
  /\ ~torn
  /\ TakeWords
  /\ LET n   == readout.sets
         new == fifo[n]
     IN /\ counters' = new.value
        /\ base' = Base(new)
        /\ rates' = IF n > 1 THEN Rate(new, fifo[n - 1].value, Base(fifo[n - 1]))
                    ELSE IF counters # None THEN Rate(new, counters, base)
                    ELSE rates
  /\ pc' = "requests"
  /\ readout' = NoReadout
  /\ UNCHANGED <<count, total, era, code, changed, direct, control>>

\* The FIFO begins in the middle of a set: what is taken for sets are parts of several.
ReadTornFifo ==
  /\ pc = "fifo"
  /\ readout.state # "Outdated"
  /\ torn
  /\ TakeWords
  /\ counters' \in 0 .. Modulus - 1
  /\ base' = [total |-> 0, era |-> None, junk |-> TRUE, behind |-> FALSE]
  /\ rates' = IF readout.sets > 1 \/ counters # None
                THEN [off |-> counters', sameEra |-> FALSE, junk |-> TRUE,
                      behind |-> FALSE, follows |-> FALSE, ownInterval |-> FALSE, unseen |-> TRUE]
                ELSE rates
  /\ pc' = "requests"
  /\ readout' = NoReadout
  /\ UNCHANGED <<count, total, era, code, changed, direct, control>>

-----------------------------------------------------------------------------
(* Requests. *)

\* Where requests are executed: after a readout, or while the service is stopped.
TakesRequests == direct = None /\ (pc = "requests" \/ (pc = "rest" /\ stopped))

Publish ==
  /\ pc = "requests" /\ direct = None
  /\ pc' = "rest"
  /\ late' = 0
  /\ UNCHANGED <<electronics, readout, values, direct, stopped, cached, interval, unseen>>

StartStop ==
  /\ TakesRequests
  /\ stopped' = ~stopped
  /\ UNCHANGED <<electronics, pc, readout, values, direct, cached, interval, late, unseen>>

\* resetCounters: readDirectly ...
ReadDirectly ==
  /\ TakesRequests
  /\ era < MaxResets
  /\ direct' = count
  /\ UNCHANGED <<electronics, pc, readout, values, control>>

\* Mutant: m_counters is zeroed, as the counters are.
Compensated_Zeroed == 0

\* ... underflow generated on purpose ...
Compensated == Minus(counters, direct)

\* ... and the write of the reset flag.  The events since readDirectly are not
\* counted anywhere.  The correction of m_counters fits the next set only if it
\* was taken after the reset.
ResetCounters ==
  /\ direct # None
  /\ count' = 0
  /\ total' = Minus(total, Minus(count, direct))
  /\ era' = era + 1
  /\ counters' = IF counters = None THEN None ELSE Compensated
  /\ base' = [base EXCEPT !.era = IF @ = era /\ fifo = <<>> /\ loading = None /\ ~torn
                                    THEN era + 1 ELSE None]
  /\ direct' = None
  /\ UNCHANGED <<fifo, torn, loading, lost, code, changed, pc, readout, rates, control>>

\* The write is reported as failed, but may have been executed.
ResetFails ==
  /\ direct # None
  /\ CommFails
  /\ \/ UNCHANGED <<count, total, era>>
     \/ /\ count' = 0
        /\ total' = Minus(total, Minus(count, direct))
        /\ era' = era + 1
  /\ direct' = None
  /\ UNCHANGED <<fifo, torn, loading, lost, code, changed>>
  /\ UNCHANGED <<pc, readout, values, control>>

-----------------------------------------------------------------------------
\* m_readInterval is not initialised.
Init ==
  /\ count = 0 /\ total = 0 /\ era = 0
  /\ fifo = <<>> /\ torn = FALSE /\ loading = None /\ lost = FALSE
  /\ code \in Codes
  /\ changed = TRUE
  /\ pc = "rest"
  /\ stopped = FALSE
  /\ cached = None
  /\ interval \in Codes \cup {0}
  /\ readout = NoReadout
  /\ counters = None
  /\ base = NoBase
  /\ rates = None
  /\ direct = None
  /\ late = 0
  /\ unseen = TRUE

Electronics == Event \/ BeginLoad \/ EndLoad
Clients == (\E c \in Codes : WriteInterval(c)) \/ StoreInterval
Readout ==
  \/ Wake
  \/ IntervalUnusable \/ IntervalDisabled \/ IntervalOk \/ IntervalChanged
  \/ LoadFails \/ FifoEmpty \/ FifoFilled
  \/ ReadFails \/ ClearFifo \/ ReadFifo \/ ReadTornFifo
Requests == Publish \/ StartStop \/ ReadDirectly \/ ResetCounters \/ ResetFails

Next == Electronics \/ Clients \/ Readout \/ Requests

Spec == Init /\ [][Next]_vars

-----------------------------------------------------------------------------
(* What the service promises. *)

Set == [value : 0 .. Modulus - 1, total : 0 .. Modulus - 1, era : 0 .. MaxResets,
        code : Codes, whole : BOOLEAN, follows : BOOLEAN]

\* The types of the variables.  The FIFO never holds more than fits.
TypeOK ==
  /\ count \in 0 .. Modulus - 1
  /\ total \in 0 .. Modulus - 1
  /\ era \in 0 .. MaxResets
  /\ \A i \in DOMAIN fifo : fifo[i] \in Set
  /\ Len(fifo) <= MaxSets
  /\ torn \in BOOLEAN
  /\ loading \in Set \cup {None}
  /\ lost \in BOOLEAN
  /\ code \in Codes
  /\ changed \in BOOLEAN
  /\ pc \in {"rest", "interval", "load", "fifo", "requests"}
  /\ stopped \in BOOLEAN
  /\ cached \in Codes \cup {None}
  /\ interval \in Codes \cup {0}
  /\ readout.sets \in Nat
  /\ counters \in 0 .. Modulus - 1 \cup {None}
  /\ rates # None => counters # None
  /\ direct \in 0 .. Modulus - 1 \cup {None}
  /\ late \in Nat
  /\ unseen \in BOOLEAN

\* A rate is the number of events counted between two sets, whatever wraps around,
\* and the reset in between, if there is one, makes no difference when it follows
\* the last read of the FIFO (resetCounters corrects m_counters): all that is ever
\* missed are the events between readDirectly and the write of the reset flag.
RatesCountEvents ==
  (rates # None /\ ~rates.junk /\ rates.sameEra) => rates.off = 0

\* A rate is never computed over a set that was lost because the FIFO was full: the
\* service notices a full FIFO before it can read it, and starts afresh.  Only if
\* reading the FIFO failed does it go on with the values it has.
RatesUseSuccessiveSets ==
  (rates # None /\ ~rates.junk /\ ~rates.behind) => rates.follows

\* A rate divides what was counted in one interval by the length of that interval,
\* unless the interval was written after the service last adapted to it, provided
\* that the service could clear the FIFO when it did.
RatesUseTheirInterval ==
  (rates # None /\ ~rates.junk /\ ~rates.unseen) => rates.ownInterval

\* The comment in resetCounters: the subtraction compensates for the fact that
\* zeroing can occur anywhere between FIFO loads, because the reset request is
\* handled directly after the last read from the FIFO.
RatesSurviveReset == (rates # None /\ ~rates.junk) => rates.off = 0
=============================================================================
