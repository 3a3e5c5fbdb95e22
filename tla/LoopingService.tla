----------------------------- MODULE LoopingService -----------------------------
(*****************************************************************************)
(* A looping service of FIT FRED: LoopingFitIndefiniteMapi and the three     *)
(* kinds of service built on it, which FRED calls over and over:             *)
(*   BoardStatus      requests, rest, readout                                *)
(*   CounterRates     rest, readout, requests if the counter FIFO was read   *)
(*   BoardHistograms  rest, requests, readout                                *)
(* A rest sleeps for the readout interval; a stopped service waits in it,    *)
(* executing requests one by one, until it is started.  Clients (WinCC and   *)
(* the Manager) send requests at any time; FRED may end the service at any   *)
(* time.  Requests are numbered in the order they are sent, so FRED's queue  *)
(* is the set of numbers that are still "queued", and the list that          *)
(* executeQueuedRequests builds is the set of numbers that are "taken".      *)
(*****************************************************************************)
EXTENDS Integers, Sequences

CONSTANTS
  Kinds,        \* the kinds of service
  Prefix,       \* the prefixes of the requests clients send
  MaxRequests,  \* bound on the number of requests
  MaxCount      \* bound up to which readouts are counted

Kind == {"BoardStatus", "CounterRates", "BoardHistograms"}

ASSUME ConstantsAssumption ==
  /\ Kinds \subseteq Kind
  /\ MaxRequests \in Nat
  /\ MaxCount \in Nat \ {0, 1}

VARIABLES
  kind,         \* the kind of this service
  stopped,      \* m_stopped
  sent,         \* sent[i]: the prefix of the i-th request
  fate,         \* fate[i]: queued, taken, merged, done, failed or skipped
  pc,           \* where processExecution is
  running,      \* its local variable running
  terminating,  \* FRED is ending the service
  late,         \* readouts since the service was stopped
  waited        \* waited[i]: readouts that request i was queued for

vars == <<kind, stopped, sent, fate, pc, running, terminating, late, waited>>

-----------------------------------------------------------------------------
(* The cycles. *)

FirstStep == IF kind = "BoardStatus" THEN "collect" ELSE "rest"
AfterRest == IF kind = "BoardHistograms" THEN "collect" ELSE "readout"
AfterRequests == CASE kind = "BoardStatus" -> "rest"
                   [] kind = "CounterRates" -> "begin"
                   [] kind = "BoardHistograms" -> "readout"

\* The prefixes the constructors of the services add handlers for.
Handled ==
  {"START", "STOP"}
    \cup (IF kind = "BoardStatus" THEN {} ELSE {"RESET"})
    \cup (IF kind = "BoardHistograms" THEN {"READ"} ELSE {})

\* RESET and READ talk to the electronics, so they can fail whatever the service
\* does; READ fails unless the service is stopped.
CanSucceed(p) == p \in Handled /\ (p = "READ" => stopped)
CanFail(p) == p \notin {"START", "STOP"}

StoppedAfter(p) == CASE p = "STOP" -> TRUE [] p = "START" -> FALSE [] OTHER -> stopped

-----------------------------------------------------------------------------
(* Requests. *)

Id == DOMAIN sent
Queued == {i \in Id : fate[i] = "queued"}
Taken == {i \in Id : fate[i] = "taken"}

IsFirst(i, S) == i \in S /\ \A j \in S : i <= j
IsLast(i, S) == i \in S /\ \A j \in S : j <= i

Send(p) ==
  /\ Len(sent) < MaxRequests
  /\ sent' = Append(sent, p)
  /\ fate' = Append(fate, "queued")
  /\ waited' = Append(waited, 0)
  /\ UNCHANGED <<kind, stopped, pc, running, terminating, late>>

\* executeSingleRequest of request i succeeds.
Succeed(i) ==
  /\ CanSucceed(sent[i])
  /\ fate' = [fate EXCEPT ![i] = "done"]
  /\ stopped' = StoppedAfter(sent[i])
  /\ late' = IF stopped' /\ ~stopped THEN 0 ELSE late

\* Mutant: a request equal to any request of the list is dropped.
IsRepeat_OfAny(i) == \E j \in Taken : sent[j] = sent[i]

\* requests.back() == currRequest
IsRepeat(i) == \E j \in Taken : IsLast(j, Taken) /\ sent[j] = sent[i]

\* executeQueuedRequests, first loop: isRequestAvailable and getRequest.
Collect ==
  /\ pc = "collect"
  /\ ~terminating
  /\ \E i \in Queued :
       /\ IsFirst(i, Queued)
       /\ fate' = [fate EXCEPT ![i] = IF IsRepeat(i) THEN "merged" ELSE "taken"]
  /\ running' = TRUE
  /\ UNCHANGED <<kind, stopped, sent, pc, terminating, late, waited>>

\* A request is available, but the service is ending: none is executed.
CollectEnding ==
  /\ pc = "collect"
  /\ terminating
  /\ Queued # {}
  /\ fate' = [i \in Id |-> IF i \in Taken THEN "skipped" ELSE fate[i]]
  /\ running' = FALSE
  /\ pc' = AfterRequests
  /\ UNCHANGED <<kind, stopped, sent, terminating, late, waited>>

Collected ==
  /\ pc = "collect"
  /\ Queued = {}
  /\ running' = ~terminating
  /\ pc' = "execute"
  /\ UNCHANGED <<kind, stopped, sent, fate, terminating, late, waited>>

\* Second loop: a request of the list succeeds ...
ExecuteOk ==
  /\ pc = "execute"
  /\ \E i \in Taken : IsFirst(i, Taken) /\ Succeed(i)
  /\ UNCHANGED <<kind, sent, pc, running, terminating, waited>>

\* ... or fails, and the rest of the list is skipped.
ExecuteError ==
  /\ pc = "execute"
  /\ \E i \in Taken :
       /\ IsFirst(i, Taken)
       /\ CanFail(sent[i])
       /\ fate' = [j \in Id |-> IF j = i THEN "failed"
                                ELSE IF j \in Taken THEN "skipped" ELSE fate[j]]
  /\ pc' = AfterRequests
  /\ UNCHANGED <<kind, stopped, sent, running, terminating, late, waited>>

Executed ==
  /\ pc = "execute"
  /\ Taken = {}
  /\ pc' = AfterRequests
  /\ UNCHANGED <<kind, stopped, sent, fate, running, terminating, late, waited>>

-----------------------------------------------------------------------------
(* The rest: handleSleepAndWake. *)

\* Mutant: the state is not looked at before the readout.
Rest_AlsoStopped ==
  /\ pc = "rest"
  /\ LET goesOn == IF kind = "CounterRates" THEN ~terminating ELSE running
     IN /\ running' = goesOn
        /\ pc' = IF goesOn THEN AfterRest ELSE "begin"
  /\ UNCHANGED <<kind, stopped, sent, fate, terminating, late, waited>>

\* The service is not, or no longer, stopped.  CounterRates asks FRED once more
\* whether it is still running.
Rest ==
  /\ pc = "rest"
  /\ ~stopped
  /\ LET goesOn == IF kind = "CounterRates" THEN ~terminating ELSE running
     IN /\ running' = goesOn
        /\ pc' = IF goesOn THEN AfterRest ELSE "begin"
  /\ UNCHANGED <<kind, stopped, sent, fate, terminating, late, waited>>

\* A stopped service executes requests one by one as they come.
WaitOk ==
  /\ pc = "rest" /\ stopped
  /\ ~terminating
  /\ \E i \in Queued : IsFirst(i, Queued) /\ Succeed(i)
  /\ running' = TRUE
  /\ UNCHANGED <<kind, sent, pc, terminating, waited>>

\* Mutant: the request that failed stays at the head of the queue.
WaitError_Retried ==
  /\ pc = "rest" /\ stopped
  /\ ~terminating
  /\ \E i \in Queued : IsFirst(i, Queued) /\ CanFail(sent[i])
  /\ running' = TRUE
  /\ UNCHANGED <<kind, stopped, sent, fate, pc, terminating, late, waited>>

WaitError ==
  /\ pc = "rest" /\ stopped
  /\ ~terminating
  /\ \E i \in Queued : /\ IsFirst(i, Queued)
                       /\ CanFail(sent[i])
                       /\ fate' = [fate EXCEPT ![i] = "failed"]
  /\ running' = TRUE
  /\ UNCHANGED <<kind, stopped, sent, pc, terminating, late, waited>>

\* Mutant: running is not looked at after waitForRequest.
WaitEnding_KeepWaiting ==
  /\ pc = "rest" /\ stopped
  /\ terminating
  /\ running' = FALSE
  /\ UNCHANGED <<kind, stopped, sent, fate, pc, terminating, late, waited>>

\* waitForRequest returns because the service is ending.
WaitEnding ==
  /\ pc = "rest" /\ stopped
  /\ terminating
  /\ running' = FALSE
  /\ pc' = "begin"
  /\ UNCHANGED <<kind, stopped, sent, fate, terminating, late, waited>>

-----------------------------------------------------------------------------
(* The readout. *)

\* BoardStatus and BoardHistograms communicate with the board (and may fail);
\* CounterRates reads or clears the FIFO ("performed"), finds it empty
\* ("notPerformed"), or reads nothing because of an error or because the readout
\* is disabled ("none").
Outcome == IF kind = "CounterRates" THEN {"none", "notPerformed", "performed"}
                                    ELSE {"none", "performed"}

\* Mutant: a condition of the gate is forgotten.
GateIsOpen_OnlyAfterRead(o) == o = "performed"

\* CounterRates allows requests only when it has nothing to fear from them.
GateIsOpen(o) == o # "notPerformed"

Counted(n) == IF n < MaxCount THEN n + 1 ELSE n

Readout(o) ==
  /\ pc = "readout"
  /\ late' = IF stopped THEN Counted(late) ELSE 0
  /\ waited' = [i \in Id |-> IF i \in Queued /\ o # "notPerformed"
                             THEN Counted(waited[i]) ELSE waited[i]]
  /\ pc' = IF kind = "CounterRates" /\ GateIsOpen(o) THEN "collect" ELSE "begin"
  /\ UNCHANGED <<kind, stopped, sent, fate, running, terminating>>

-----------------------------------------------------------------------------
(* FRED. *)

\* FRED calls processExecution again.  BoardHistograms does not initialise its
\* local variable running.
Begin ==
  /\ pc = "begin"
  /\ ~terminating
  /\ running' \in IF kind = "BoardHistograms" THEN BOOLEAN ELSE {TRUE}
  /\ pc' = FirstStep
  /\ UNCHANGED <<kind, stopped, sent, fate, terminating, late, waited>>

Exit ==
  /\ pc = "begin"
  /\ terminating
  /\ pc' = "exited"
  /\ UNCHANGED <<kind, stopped, sent, fate, running, terminating, late, waited>>

Terminate ==
  /\ ~terminating
  /\ terminating' = TRUE
  /\ UNCHANGED <<kind, stopped, sent, fate, pc, running, late, waited>>

Init ==
  /\ kind \in Kinds
  /\ stopped = (kind = "BoardHistograms")
  /\ sent = <<>>
  /\ fate = <<>>
  /\ pc = "begin"
  /\ running = TRUE
  /\ terminating = FALSE
  /\ late = 0
  /\ waited = <<>>

ServiceStep ==
  \/ Begin
  \/ Exit
  \/ Collect
  \/ CollectEnding
  \/ Collected
  \/ ExecuteOk
  \/ ExecuteError
  \/ Executed
  \/ Rest
  \/ WaitOk
  \/ WaitError
  \/ WaitEnding
  \/ \E o \in Outcome : Readout(o)

Next ==
  \/ ServiceStep
  \/ \E p \in Prefix : Send(p)
  \/ Terminate

Spec == Init /\ [][Next]_vars

\* The thread of the service keeps being scheduled and communication with a board
\* ends (in a response or in a failure).  The counter FIFO is filled periodically,
\* half as often as it is polled: a service that keeps polling it cannot find it
\* empty for ever.  Clients need not send anything and FRED need not end.
FairSpec ==
  /\ Spec
  /\ WF_vars(ServiceStep)
  /\ SF_vars(\E o \in Outcome \ {"notPerformed"} : Readout(o))

-----------------------------------------------------------------------------
(* What the service promises. *)

Settled == {"merged", "done", "failed", "skipped"}

\* The types of the variables; a request is in the hands of executeQueuedRequests
\* only while that function runs.
TypeOK ==
  /\ kind \in Kinds
  /\ stopped \in BOOLEAN
  /\ sent \in Seq(Prefix)
  /\ fate \in [Id -> {"queued", "taken"} \cup Settled]
  /\ pc \in {"begin", "rest", "collect", "execute", "readout", "exited"}
  /\ running \in BOOLEAN
  /\ terminating \in BOOLEAN
  /\ late \in 0 .. MaxCount
  /\ waited \in [Id -> 0 .. MaxCount]
  /\ Taken # {} => pc \in {"collect", "execute"}

\* Once stopped, a service reads nothing out any more; only BoardHistograms, which
\* reads out after executing its requests, finishes the cycle in which it was
\* stopped.  Every path of handleSleepAndWake that leads to a readout must have
\* found the service not stopped after the last request it executed.
NoReadoutWhenStopped == late <= IF kind = "BoardHistograms" THEN 1 ELSE 0

\* A request never waits for more than one readout of data: the requests sent
\* during a readout are executed before the next one (CounterRates does not count
\* the attempts that found the FIFO empty, after which its gate stays closed).  A
\* service that is being ended executes no more requests.
OneReadoutPerRequest == ~terminating => \A i \in Queued : waited[i] <= 1

LedgerFate == [i \in Id |-> IF fate[i] \in {"queued", "taken"} THEN "pending" ELSE fate[i]]

Ledger == INSTANCE RequestLedger WITH fate <- LedgerFate, ending <- terminating

\* Requests are settled in the order they were sent, each at most once: the cycle,
\* whatever its kind, implements the ledger.
ImplementsLedger == Ledger!Spec

IsPending(i) == i \in Id /\ fate[i] \notin Settled
IsSettled(i) == i \in Id /\ fate[i] \in Settled

\* A request that was sent is settled, unless FRED ends the service.
\* BoardHistograms is left out: while it is not stopped, it may return without
\* executing requests every time, because it branches on an uninitialised variable.
RequestsSettle ==
  kind # "BoardHistograms" =>
    \A i \in 1 .. MaxRequests :
      IsPending(i) ~> (IsSettled(i) \/ terminating)

\* A service that FRED ends returns from processExecution, stopped or not, whatever
\* is queued.
TerminationIsPrompt == terminating ~> pc = "exited"
=============================================================================
