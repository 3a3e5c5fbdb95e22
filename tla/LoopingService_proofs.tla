------------------------- MODULE LoopingService_proofs -------------------------
(*****************************************************************************)
(* Proofs, for every kind of service and any number of requests, of the      *)
(* safety of LoopingService and of its refinement of RequestLedger.          *)
(*****************************************************************************)
EXTENDS LoopingService, SequenceTheorems, TLAPS

\* The requests in FRED's queue are the latest ones.
QueueIsLatest == \A i \in Queued, k \in Id : i < k => fate[k] = "queued"

\* The requests taken from FRED's queue precede those still in it, and those sent
\* after a taken one are pending or were merged into a pending one.
TakenAreNext ==
  \A i \in Taken, k \in Id :
    /\ k \in Queued => i < k
    /\ i < k => fate[k] \in {"queued", "taken", "merged"}

QueueInv == QueueIsLatest /\ TakenAreNext

\* A readout of a stopped service is only that of the cycle it was stopped in.
StopInv ==
  /\ NoReadoutWhenStopped
  /\ stopped /\ pc \in {"collect", "execute", "readout"} /\ kind = "BoardHistograms" => late = 0
  /\ stopped /\ kind # "BoardHistograms" => pc # "readout"

\* Between executeQueuedRequests and the readout nobody has waited yet.
MayHaveWaited ==
  \/ pc = "collect"
  \/ pc = "begin" /\ kind # "CounterRates"
  \/ pc = "rest" /\ kind = "BoardHistograms"

WaitInv == ~terminating => \A i \in Queued : waited[i] <= (IF MayHaveWaited THEN 1 ELSE 0)

IInv == TypeOK /\ QueueInv /\ StopInv /\ WaitInv

-----------------------------------------------------------------------------
(* Types. *)

Fates == {"queued", "taken"} \cup Settled

LEMMA FunctionIsSeq ==
  ASSUME NEW S, NEW n \in Nat, NEW f \in [1 .. n -> S]
  PROVE  f \in Seq(S) /\ Len(f) = n
<1>1. f \in Seq(S)
  BY SeqDef
<1>. QED BY <1>1, LenProperties

LEMMA Lengths ==
  ASSUME TypeOK
  PROVE  /\ Id = 1 .. Len(sent)
         /\ Len(sent) \in Nat
         /\ fate \in Seq(Fates) /\ Len(fate) = Len(sent)
         /\ waited \in Seq(0 .. MaxCount) /\ Len(waited) = Len(sent)
<1>1. Id = 1 .. Len(sent) /\ Len(sent) \in Nat
  BY LenProperties DEF TypeOK, Id
<1>2. fate \in [1 .. Len(sent) -> Fates] /\ waited \in [1 .. Len(sent) -> 0 .. MaxCount]
  BY <1>1 DEF TypeOK, Fates
<1>3. fate \in Seq(Fates) /\ Len(fate) = Len(sent)
  BY <1>1, <1>2, FunctionIsSeq
<1>4. waited \in Seq(0 .. MaxCount) /\ Len(waited) = Len(sent)
  BY <1>1, <1>2, FunctionIsSeq
<1>. QED BY <1>1, <1>3, <1>4

\* What sending a request does to the requests sent before.
LEMMA Sending ==
  ASSUME TypeOK, NEW p \in Prefix, Send(p)
  PROVE  /\ sent' \in Seq(Prefix)
         /\ Id' = 1 .. Len(sent) + 1
         /\ Id = 1 .. Len(sent)
         /\ Len(sent) \in Nat
         /\ fate' \in [Id' -> Fates]
         /\ waited' \in [Id' -> 0 .. MaxCount]
         /\ \A i \in Id : fate'[i] = fate[i] /\ waited'[i] = waited[i]
         /\ fate'[Len(sent) + 1] = "queued"
         /\ waited'[Len(sent) + 1] = 0
<1>1. /\ fate \in Seq(Fates) /\ Len(fate) = Len(sent)
      /\ waited \in Seq(0 .. MaxCount) /\ Len(waited) = Len(sent)
      /\ Id = 1 .. Len(sent) /\ Len(sent) \in Nat
  BY Lengths
<1>2. sent' \in Seq(Prefix) /\ Len(sent') = Len(sent) + 1
  BY DEF Send, TypeOK
<1>3. /\ fate' \in Seq(Fates) /\ Len(fate') = Len(sent) + 1
      /\ \A i \in 1 .. Len(sent) : fate'[i] = fate[i]
      /\ fate'[Len(sent) + 1] = "queued"
  BY <1>1 DEF Send, Fates
<1>4. 0 \in 0 .. MaxCount
  BY ConstantsAssumption
<1>5. /\ waited' \in Seq(0 .. MaxCount) /\ Len(waited') = Len(sent) + 1
      /\ \A i \in 1 .. Len(sent) : waited'[i] = waited[i]
      /\ waited'[Len(sent) + 1] = 0
  BY <1>1, <1>4 DEF Send
<1>6. Id' = 1 .. Len(sent) + 1
  BY <1>2 DEF Id
<1>7. fate' \in [Id' -> Fates] /\ waited' \in [Id' -> 0 .. MaxCount]
  BY <1>1, <1>3, <1>5, <1>6, LenProperties
<1>. QED BY <1>1, <1>2, <1>3, <1>5, <1>6, <1>7

LEMMA InitType == Init => TypeOK
<1>. SUFFICES ASSUME Init PROVE TypeOK
  OBVIOUS
<1>1. Id = {} /\ sent \in Seq(Prefix)
  BY DEF Init, Id
<1>2. fate \in [Id -> Fates] /\ waited \in [Id -> 0 .. MaxCount]
  BY <1>1 DEF Init
<1>3. stopped \in BOOLEAN
  BY Zenon DEF Init
<1>4. Taken = {}
  BY <1>1 DEF Taken
<1>5. /\ kind \in Kinds
      /\ pc \in {"begin", "rest", "collect", "execute", "readout", "exited"}
      /\ running \in BOOLEAN
      /\ terminating \in BOOLEAN
  BY DEF Init
<1>6. late \in 0 .. MaxCount
  <2>1. 0 \in 0 .. MaxCount
    BY ConstantsAssumption
  <2>. QED BY <2>1 DEF Init
<1>. QED BY <1>1, <1>2, <1>3, <1>4, <1>5, <1>6 DEF TypeOK, Fates

LEMMA SendType ==
  ASSUME TypeOK, NEW p \in Prefix, Send(p)
  PROVE  TypeOK'
<1>1. Taken' \subseteq Taken
  BY Sending DEF Taken
<1>2. /\ sent' \in Seq(Prefix)
      /\ fate' \in [Id' -> Fates]
      /\ waited' \in [Id' -> 0 .. MaxCount]
  BY Sending
<1>. QED BY <1>1, <1>2 DEF TypeOK, Send, Fates

LEMMA SucceedType ==
  ASSUME TypeOK, NEW i \in Id, Succeed(i), UNCHANGED <<kind, sent>>
  PROVE  /\ fate' \in [Id' -> Fates]
         /\ stopped' \in BOOLEAN
         /\ late' \in 0 .. MaxCount
         /\ Taken' \subseteq Taken
<1>1. stopped' \in BOOLEAN
  BY DEF Succeed, StoppedAfter, TypeOK
<1>2. late' \in 0 .. MaxCount
  BY ConstantsAssumption DEF Succeed, TypeOK
<1>. QED BY <1>1, <1>2 DEF Succeed, TypeOK, Taken, Id, Fates, Settled

LEMMA StepType == ASSUME TypeOK, ServiceStep PROVE TypeOK'
<1>. USE DEF TypeOK, Id, Taken, Queued
<1>1. CASE Begin
  BY <1>1 DEF Begin, FirstStep
<1>2. CASE Exit
  BY <1>2 DEF Exit
<1>3. CASE Collect
  BY <1>3 DEF Collect, Settled
<1>4. CASE CollectEnding
  BY <1>4, ConstantsAssumption DEF CollectEnding, AfterRequests, Kind, Settled
<1>5. CASE Collected
  BY <1>5 DEF Collected
<1>6. CASE ExecuteOk
  <2>1. PICK i \in Taken : Succeed(i)
    BY <1>6 DEF ExecuteOk
  <2>. QED BY <1>6, <2>1, SucceedType DEF ExecuteOk, Fates
<1>7. CASE ExecuteError
  BY <1>7, ConstantsAssumption DEF ExecuteError, AfterRequests, Kind, Settled
<1>8. CASE Executed
  BY <1>8, ConstantsAssumption DEF Executed, AfterRequests, Kind
<1>9. CASE Rest
  BY <1>9 DEF Rest, AfterRest
<1>10. CASE WaitOk
  <2>1. PICK i \in Queued : Succeed(i)
    BY <1>10 DEF WaitOk
  <2>. QED BY <1>10, <2>1, SucceedType DEF WaitOk, Fates
<1>11. CASE WaitError
  BY <1>11 DEF WaitError, Settled
<1>12. CASE WaitEnding
  BY <1>12 DEF WaitEnding
<1>13. ASSUME NEW o \in Outcome, Readout(o) PROVE TypeOK'
  <2>1. \A n \in 0 .. MaxCount : Counted(n) \in 0 .. MaxCount
    BY ConstantsAssumption DEF Counted
  <2>2. late' \in 0 .. MaxCount
    BY <1>13, <2>1, ConstantsAssumption DEF Readout
  <2>3. waited' \in [Id -> 0 .. MaxCount]
    BY <1>13, <2>1 DEF Readout
  <2>. QED BY <1>13, <2>2, <2>3 DEF Readout
<1>. QED
  BY <1>1, <1>2, <1>3, <1>4, <1>5, <1>6, <1>7, <1>8, <1>9, <1>10, <1>11, <1>12, <1>13
     DEF ServiceStep

LEMMA NextType == TypeOK /\ [Next]_vars => TypeOK'
<1>. SUFFICES ASSUME TypeOK, [Next]_vars PROVE TypeOK'
  OBVIOUS
<1>1. CASE ServiceStep
  BY <1>1, StepType
<1>2. ASSUME NEW p \in Prefix, Send(p) PROVE TypeOK'
  BY <1>2, SendType
<1>3. CASE Terminate
  BY <1>3 DEF Terminate, TypeOK, Id, Taken
<1>4. CASE UNCHANGED vars
  BY <1>4 DEF vars, TypeOK, Id, Taken
<1>. QED BY <1>1, <1>2, <1>3, <1>4 DEF Next

\* The variables keep their types, and no request is left in the hands of
\* executeQueuedRequests when it returns.
THEOREM TypeCorrect == Spec => []TypeOK
<1>. QED BY InitType, NextType, PTL DEF Spec

-----------------------------------------------------------------------------
(* The order of requests. *)

\* A step that settles some of the taken requests, from the first one on.
LEMMA TakenSettled ==
  ASSUME TypeOK, QueueInv, Id' = Id,
         \A k \in Id \ Taken : fate'[k] = fate[k],
         \A k \in Taken : fate'[k] # "queued",
         \A i \in Taken' : \A k \in Id : i < k => fate'[k] = fate[k]
  PROVE  QueueInv'
<1>1. \A k \in Queued' : k \in Queued
  BY DEF Queued
<1>2. \A k \in Queued : k \in Queued' /\ fate'[k] = "queued"
  BY DEF Queued, Taken
<1>3. QueueIsLatest'
  BY <1>1, <1>2 DEF QueueInv, QueueIsLatest, Queued
<1>4. Taken' \subseteq Taken
  BY DEF Taken
<1>5. TakenAreNext'
  BY <1>1, <1>4 DEF QueueInv, TakenAreNext
<1>. QED BY <1>3, <1>5 DEF QueueInv

\* A step that removes the first request from FRED's queue when none is taken.
LEMMA FirstRemoved ==
  ASSUME TypeOK, QueueInv, Id' = Id,
         NEW i \in Queued, IsFirst(i, Queued), fate'[i] # "queued",
         \A k \in Id : k # i => fate'[k] = fate[k]
  PROVE  QueueIsLatest'
<1>1. \A k \in Queued' : k \in Queued /\ k # i
  BY DEF Queued
<1>2. \A k \in Queued : k # i => i < k
  BY Lengths DEF IsFirst, Queued
<1>3. \A j \in Queued', k \in Id : j < k => k # i /\ fate[k] = "queued"
  BY <1>1, <1>2, Lengths DEF QueueInv, QueueIsLatest, Queued
<1>. QED BY <1>3 DEF QueueIsLatest

LEMMA StepQueue == ASSUME IInv, ServiceStep PROVE QueueInv'
<1>. USE DEF IInv
<1>. TypeOK /\ QueueInv /\ Id \subseteq Int
  BY Lengths
<1>1. CASE UNCHANGED <<sent, fate>>
  BY <1>1 DEF QueueInv, QueueIsLatest, TakenAreNext, Id, Taken, Queued
<1>2. CASE Collect
  <2>1. PICK i \in Queued : /\ IsFirst(i, Queued)
                            /\ fate' = [fate EXCEPT ![i] = IF IsRepeat(i) THEN "merged" ELSE "taken"]
    BY <1>2 DEF Collect
  <2>2. i \in Id /\ Id' = Id
    BY <1>2 DEF Collect, Queued, Id
  <2>3. \A k \in Id : fate'[k] = IF k = i THEN IF IsRepeat(i) THEN "merged" ELSE "taken" ELSE fate[k]
    BY <2>1, <2>2 DEF TypeOK
  <2>4. QueueIsLatest'
    BY <2>1, <2>2, <2>3, FirstRemoved
  <2>5. \A k \in Queued' : k \in Queued /\ k # i
    BY <2>2, <2>3 DEF Queued
  <2>6. \A j \in Taken' : j \in Taken \/ j = i
    BY <2>2, <2>3 DEF Taken
  <2>7. ASSUME NEW j \in Taken', NEW k \in Id'
        PROVE  /\ k \in Queued' => j < k
               /\ j < k => fate'[k] \in {"queued", "taken", "merged"}
    <3>1. CASE j \in Taken
      BY <3>1, <2>1, <2>2, <2>3, <2>5 DEF QueueInv, TakenAreNext
    <3>2. CASE j = i
      BY <3>2, <2>1, <2>2, <2>3, <2>5 DEF IsFirst, QueueInv, QueueIsLatest
    <3>. QED BY <2>6, <3>1, <3>2
  <2>8. TakenAreNext'
    BY <2>7 DEF TakenAreNext
  <2>. QED BY <2>4, <2>8 DEF QueueInv
<1>3. CASE CollectEnding
  <2>1. /\ Id' = Id
        /\ \A k \in Id : fate'[k] = IF k \in Taken THEN "skipped" ELSE fate[k]
    BY <1>3 DEF CollectEnding, Id
  <2>2. Taken' = {}
    BY <2>1 DEF Taken
  <2>3. /\ \A k \in Id \ Taken : fate'[k] = fate[k]
        /\ \A k \in Taken : fate'[k] # "queued"
    BY <2>1 DEF Taken
  <2>. QED BY <2>1, <2>2, <2>3, TakenSettled
<1>4. CASE ExecuteOk
  <2>1. PICK i \in Taken : IsFirst(i, Taken) /\ Succeed(i)
    BY <1>4 DEF ExecuteOk
  <2>2. \A k \in Id : fate'[k] = IF k = i THEN "done" ELSE fate[k]
    BY <2>1 DEF Succeed, TypeOK
  <2>3. Id' = Id
    BY <1>4 DEF ExecuteOk, Id
  <2>4. \A j \in Taken' : j \in Taken /\ i < j
    BY <2>1, <2>2, <2>3 DEF Taken, IsFirst
  <2>5. \A j \in Taken', k \in Id : j < k => fate'[k] = fate[k]
    BY <2>2, <2>3, <2>4 DEF Taken
  <2>6. /\ \A k \in Id \ Taken : fate'[k] = fate[k]
        /\ \A k \in Taken : fate'[k] # "queued"
    BY <2>2 DEF Taken
  <2>. QED BY <2>3, <2>5, <2>6, TakenSettled
<1>5. CASE ExecuteError
  <2>1. PICK i \in Taken : fate' = [j \in Id |-> IF j = i THEN "failed"
                                   ELSE IF j \in Taken THEN "skipped" ELSE fate[j]]
    BY <1>5 DEF ExecuteError
  <2>2. Id' = Id
    BY <1>5 DEF ExecuteError, Id
  <2>3. Taken' = {}
    BY <2>1, <2>2 DEF Taken
  <2>4. /\ \A k \in Id \ Taken : fate'[k] = fate[k]
        /\ \A k \in Taken : fate'[k] # "queued"
    BY <2>1 DEF Taken
  <2>. QED BY <2>2, <2>3, <2>4, TakenSettled
<1>6. CASE WaitOk \/ WaitError
  <2>1. Taken = {}
    BY <1>6 DEF TypeOK, WaitOk, WaitError
  <2>2. PICK i \in Queued, x \in {"done", "failed"} :
               IsFirst(i, Queued) /\ fate' = [fate EXCEPT ![i] = x]
    BY <1>6 DEF WaitOk, WaitError, Succeed
  <2>3. \A k \in Id : fate'[k] = IF k = i THEN x ELSE fate[k]
    BY <2>2 DEF TypeOK
  <2>4. Id' = Id
    BY <1>6 DEF WaitOk, WaitError, Id
  <2>5. Taken' = {}
    BY <2>1, <2>3, <2>4 DEF Taken
  <2>6. QueueIsLatest'
    BY <2>2, <2>3, <2>4, FirstRemoved DEF Queued
  <2>. QED BY <2>5, <2>6 DEF QueueInv, TakenAreNext
<1>7. Begin \/ Exit \/ Collected \/ Executed \/ Rest \/ WaitEnding \/ (\E o \in Outcome : Readout(o))
        => UNCHANGED <<sent, fate>>
  BY DEF Begin, Exit, Collected, Executed, Rest, WaitEnding, Readout
<1>. QED BY <1>1, <1>2, <1>3, <1>4, <1>5, <1>6, <1>7 DEF ServiceStep

LEMMA NextQueue == ASSUME IInv, [Next]_vars PROVE QueueInv'
<1>. TypeOK /\ QueueInv
  BY DEF IInv
<1>1. CASE ServiceStep
  BY <1>1, StepQueue
<1>2. ASSUME NEW p \in Prefix, Send(p) PROVE QueueInv'
  <2>1. /\ Id' = 1 .. Len(sent) + 1 /\ Id = 1 .. Len(sent) /\ Len(sent) \in Nat
        /\ \A i \in Id : fate'[i] = fate[i]
        /\ fate'[Len(sent) + 1] = "queued"
    BY <1>2, Sending
  <2>2. \A k \in Id' : k \in Id \/ k = Len(sent) + 1
    BY <2>1
  <2>3. \A i \in Taken' : i \in Taken /\ i \in Id /\ i < Len(sent) + 1
    BY <2>1, <2>2 DEF Taken
  <2>4. QueueIsLatest'
    BY <2>1, <2>2 DEF QueueInv, QueueIsLatest, Queued
  <2>5. TakenAreNext'
    BY <2>1, <2>2, <2>3 DEF QueueInv, TakenAreNext, Queued
  <2>. QED BY <2>4, <2>5 DEF QueueInv
<1>3. CASE UNCHANGED <<sent, fate>>
  BY <1>3 DEF QueueInv, QueueIsLatest, TakenAreNext, Id, Taken, Queued
<1>. QED BY <1>1, <1>2, <1>3 DEF Next, Terminate, vars

-----------------------------------------------------------------------------
(* Stopping. *)

\* A step of the service changes neither its kind nor what was sent.
LEMMA StepKeeps == ServiceStep => UNCHANGED <<kind, sent, terminating>>
<1>1. Begin \/ Exit \/ Collect \/ CollectEnding \/ Collected => UNCHANGED <<kind, sent, terminating>>
  BY DEF Begin, Exit, Collect, CollectEnding, Collected
<1>2. ExecuteOk \/ ExecuteError \/ Executed \/ Rest => UNCHANGED <<kind, sent, terminating>>
  BY DEF ExecuteOk, ExecuteError, Executed, Rest
<1>3. WaitOk \/ WaitError \/ WaitEnding => UNCHANGED <<kind, sent, terminating>>
  BY DEF WaitOk, WaitError, WaitEnding
<1>4. \A o \in Outcome : Readout(o) => UNCHANGED <<kind, sent, terminating>>
  BY DEF Readout
<1>. QED BY <1>1, <1>2, <1>3, <1>4 DEF ServiceStep

LEMMA StepStop == ASSUME IInv, ServiceStep PROVE StopInv'
<1>. USE DEF IInv, StopInv, NoReadoutWhenStopped
<1>. TypeOK /\ kind \in Kind /\ MaxCount \in Nat /\ late \in Nat
  BY ConstantsAssumption DEF TypeOK
<1>. kind' = kind
  BY StepKeeps
<1>1. ASSUME stopped' = stopped, late' = late,
             pc' \in {"collect", "execute", "readout"} =>
               ~stopped \/ (pc \in {"collect", "execute"} /\ (pc' = "readout" => kind = "BoardHistograms"))
      PROVE  StopInv'
  BY <1>1
<1>2. Begin => /\ UNCHANGED <<stopped, late>>
               /\ pc' \in {"rest", "collect"}
               /\ kind = "BoardHistograms" => pc' = "rest"
  BY DEF Begin, FirstStep
<1>3. CASE Begin
  BY <1>2, <1>3
<1>4. CASE Exit \/ WaitEnding \/ WaitError
  BY <1>4 DEF Exit, WaitEnding, WaitError
<1>5. CASE Collect
  BY <1>1, <1>5 DEF Collect
<1>6. CASE Collected
  BY <1>1, <1>6 DEF Collected
<1>7. CASE CollectEnding \/ ExecuteError \/ Executed
  BY <1>1, <1>7 DEF CollectEnding, ExecuteError, Executed, AfterRequests, Kind
<1>8. CASE Rest
  BY <1>8 DEF Rest
<1>9. ASSUME NEW i, Succeed(i), pc' = pc, pc # "readout" PROVE StopInv'
  BY <1>9 DEF Succeed, TypeOK
<1>10. CASE ExecuteOk \/ WaitOk
  BY <1>9, <1>10 DEF ExecuteOk, WaitOk
<1>11. ASSUME NEW o \in Outcome, Readout(o) PROVE StopInv'
  <2>1. late' = (IF stopped THEN Counted(late) ELSE 0) /\ stopped' = stopped
    BY <1>11 DEF Readout
  <2>2. /\ pc = "readout" /\ pc' \in {"begin", "collect"}
        /\ kind = "BoardHistograms" => pc' = "begin"
    BY <1>11 DEF Readout
  <2>. QED BY <2>1, <2>2 DEF Counted
<1>. QED BY <1>3, <1>4, <1>5, <1>6, <1>7, <1>8, <1>10, <1>11 DEF ServiceStep

LEMMA NextStop == ASSUME IInv, [Next]_vars PROVE StopInv'
<1>1. CASE ServiceStep
  BY <1>1, StepStop
<1>2. CASE UNCHANGED <<kind, stopped, late, pc>>
  BY <1>2 DEF IInv, StopInv, NoReadoutWhenStopped
<1>. QED BY <1>1, <1>2 DEF Next, Send, Terminate, vars

-----------------------------------------------------------------------------
(* Waiting. *)

LEMMA StepWait == ASSUME IInv, ServiceStep PROVE WaitInv'
<1>. WaitInv
  BY DEF IInv
<1>. TypeOK /\ kind \in Kind
  BY ConstantsAssumption DEF IInv, TypeOK
<1>. kind' = kind /\ Id' = Id /\ terminating' = terminating
  BY StepKeeps DEF Id
<1>1. \A i \in Queued : waited[i] \in Nat
  BY ConstantsAssumption DEF TypeOK, Queued
<1>2. ASSUME waited' = waited, Queued' \subseteq Queued,
             MayHaveWaited => MayHaveWaited' \/ terminating \/ Queued' = {}
      PROVE  WaitInv'
  BY <1>1, <1>2 DEF WaitInv
<1>3. CASE Begin
  BY <1>2, <1>3 DEF MayHaveWaited, Begin, FirstStep, Queued, Kind
<1>4. CASE Exit \/ WaitEnding \/ CollectEnding  \* only when the service is ending
  BY <1>4 DEF WaitInv, Exit, WaitEnding, CollectEnding
<1>5. CASE Collect
  <2>1. Queued' \subseteq Queued
    BY <1>5 DEF Collect, Queued, TypeOK
  <2>. QED BY <1>2, <1>5, <2>1 DEF MayHaveWaited, Collect
<1>6. CASE Collected
  BY <1>2, <1>6 DEF Collected, Queued
<1>7. CASE ExecuteOk \/ WaitOk \/ WaitError
  <2>1. Queued' \subseteq Queued
    BY <1>7 DEF ExecuteOk, WaitOk, WaitError, Succeed, Queued, Taken, TypeOK
  <2>. QED BY <1>2, <1>7, <2>1 DEF MayHaveWaited, ExecuteOk, WaitOk, WaitError
<1>8. CASE ExecuteError
  <2>1. Queued' \subseteq Queued
    BY <1>8 DEF ExecuteError, Queued
  <2>. QED BY <1>2, <1>8, <2>1 DEF MayHaveWaited, ExecuteError, Kind
<1>9. CASE Executed
  BY <1>2, <1>9 DEF MayHaveWaited, Executed, Queued, Kind
<1>10. CASE Rest
  BY <1>2, <1>10 DEF MayHaveWaited, Rest, AfterRest, Queued, Kind
<1>11. ASSUME NEW o \in Outcome, Readout(o) PROVE WaitInv'
  <2>1. Queued' = Queued /\ pc = "readout"
    BY <1>11 DEF Readout, Queued
  <2>2. ~terminating => \A i \in Queued : waited[i] = 0
    BY <1>1, <2>1 DEF WaitInv, MayHaveWaited, Kind
  <2>3. ASSUME NEW i \in Queued, ~terminating
        PROVE  waited'[i] = IF o = "notPerformed" THEN 0 ELSE 1
    BY <1>11, <2>2, <2>3, ConstantsAssumption DEF Readout, Counted, Queued
  <2>4. o # "notPerformed" => MayHaveWaited'
    BY <1>11 DEF MayHaveWaited, Readout, GateIsOpen, Kind
  <2>5. CASE MayHaveWaited'
    BY <2>1, <2>3, <2>5 DEF WaitInv
  <2>6. CASE o = "notPerformed"
    BY <2>1, <2>3, <2>6 DEF WaitInv
  <2>. QED BY <2>4, <2>5, <2>6
<1>. QED BY <1>3, <1>4, <1>5, <1>6, <1>7, <1>8, <1>9, <1>10, <1>11 DEF ServiceStep

LEMMA NextWait == ASSUME IInv, [Next]_vars PROVE WaitInv'
<1>1. CASE ServiceStep
  BY <1>1, StepWait
<1>2. ASSUME NEW p \in Prefix, Send(p) PROVE WaitInv'
  <2>. TypeOK
    BY DEF IInv
  <2>1. /\ \A k \in Queued' : k \in Queued \/ k = Len(sent) + 1
        /\ \A k \in Queued : waited'[k] = waited[k]
        /\ waited'[Len(sent) + 1] = 0
    BY <1>2, Sending DEF Queued
  <2>2. MayHaveWaited' = MayHaveWaited /\ terminating' = terminating
    BY <1>2 DEF MayHaveWaited, Send
  <2>3. ~terminating => \A k \in Queued : waited'[k] <= (IF MayHaveWaited THEN 1 ELSE 0)
    BY <2>1 DEF IInv, WaitInv
  <2>4. ~terminating => \A k \in Queued' : waited'[k] <= (IF MayHaveWaited THEN 1 ELSE 0)
    BY <2>1, <2>3
  <2>. QED BY <2>2, <2>4 DEF WaitInv
<1>3. CASE UNCHANGED <<sent, fate, waited, kind, pc>> /\ (terminating => terminating')
  BY <1>3 DEF IInv, WaitInv, MayHaveWaited, Queued, Id
<1>. QED BY <1>1, <1>2, <1>3 DEF Next, Terminate, vars

-----------------------------------------------------------------------------
(* The invariant and what follows from it. *)

LEMMA InitInv == Init => IInv
<1>. SUFFICES ASSUME Init PROVE IInv
  OBVIOUS
<1>1. Id = {} /\ Taken = {} /\ Queued = {}
  BY DEF Init, Id, Taken, Queued
<1>2. QueueInv /\ WaitInv
  BY <1>1 DEF QueueInv, QueueIsLatest, TakenAreNext, WaitInv
<1>3. StopInv
  BY DEF Init, StopInv, NoReadoutWhenStopped
<1>. QED BY <1>2, <1>3, InitType DEF IInv

LEMMA NextInv == IInv /\ [Next]_vars => IInv'
BY NextType, NextQueue, NextStop, NextWait DEF IInv

LEMMA Invariance == Spec => []IInv
BY InitInv, NextInv, PTL DEF Spec

\* A stopped service does not read out its board, whatever its kind and whenever
\* it was stopped; BoardHistograms completes its current cycle at most.
THEOREM StoppedServicesAreQuiet == Spec => []NoReadoutWhenStopped
<1>1. IInv => NoReadoutWhenStopped
  BY DEF IInv, StopInv
<1>. QED BY <1>1, Invariance, PTL

\* However many requests are sent, none waits for more than one readout of data.
THEOREM RequestsWaitOnce == Spec => []OneReadoutPerRequest
<1>1. IInv => OneReadoutPerRequest
  <2>. SUFFICES ASSUME IInv, ~terminating, NEW i \in Queued PROVE waited[i] <= 1
    BY DEF OneReadoutPerRequest
  <2>1. TypeOK /\ WaitInv
    BY DEF IInv
  <2>2. waited[i] \in Nat
    BY <2>1, ConstantsAssumption DEF TypeOK, Queued
  <2>. QED BY <2>1, <2>2 DEF WaitInv
<1>. QED BY <1>1, Invariance, PTL

-----------------------------------------------------------------------------
(* The refinement. *)

LEMMA PendingIs ==
  ASSUME TypeOK
  PROVE  /\ Ledger!Id = Id
         /\ Ledger!Pending = Taken \cup Queued
         /\ \A i \in Id : fate[i] \notin {"queued", "taken"} => LedgerFate[i] = fate[i]
         /\ \A i \in Id : fate[i] \in {"queued", "taken"} => LedgerFate[i] = "pending"
BY DEF TypeOK, Ledger!Id, Ledger!Pending, Id, Taken, Queued, LedgerFate, Settled

\* A step that leaves no request but i behind changes the fate of i only.
LEMMA FateExcept ==
  ASSUME TypeOK, sent' = sent, NEW i \in Id, NEW x \in Settled,
         fate' = [fate EXCEPT ![i] = x]
  PROVE  LedgerFate' = [LedgerFate EXCEPT ![i] = x]
BY DEF TypeOK, LedgerFate, Id, Settled

\* The oldest taken request, or the oldest queued one when none is taken, is the
\* oldest pending one.
LEMMA OldestPending ==
  ASSUME IInv, NEW i \in Id,
         IsFirst(i, Taken) \/ (Taken = {} /\ IsFirst(i, Queued))
  PROVE  Ledger!IsNext(i)
<1>1. TypeOK /\ TakenAreNext /\ Id \subseteq Int
  BY Lengths DEF IInv, QueueInv
<1>2. Ledger!Pending = Taken \cup Queued
  BY <1>1, PendingIs
<1>3. \A j \in Taken, k \in Queued : j \in Int /\ k \in Int /\ j < k
  BY <1>1 DEF TakenAreNext, Queued, Taken
<1>4. i \in Taken \cup Queued /\ \A j \in Taken \cup Queued : i <= j
  BY <1>3 DEF IsFirst
<1>. QED BY <1>2, <1>4 DEF Ledger!IsNext

\* The taken requests are the oldest pending ones.
LEMMA TakenOldest == ASSUME IInv PROVE Taken \subseteq Ledger!Pending /\ Ledger!IsOldest(Taken)
<1>1. TypeOK /\ TakenAreNext /\ Id \subseteq Int
  BY Lengths DEF IInv, QueueInv
<1>2. Ledger!Pending = Taken \cup Queued
  BY <1>1, PendingIs
<1>3. \A i \in Taken, j \in Queued : i < j /\ i \in Int /\ j \in Int
  BY <1>1 DEF TakenAreNext, Queued, Taken
<1>. QED BY <1>1, <1>2, <1>3 DEF Ledger!IsOldest

LEMMA SucceedPerforms ==
  ASSUME IInv, NEW i \in Id, Succeed(i), sent' = sent, terminating' = terminating,
         IsFirst(i, Taken) \/ (Taken = {} /\ IsFirst(i, Queued))
  PROVE  Ledger!Next
<1>1. LedgerFate' = [LedgerFate EXCEPT ![i] = "done"]
  BY FateExcept DEF IInv, Succeed, Settled
<1>2. Ledger!Perform(i)
  BY <1>1, OldestPending DEF Ledger!Perform
<1>. QED BY <1>2 DEF Ledger!Next, Ledger!Id, Id

LEMMA CollectRefines == ASSUME IInv, Collect PROVE [Ledger!Next]_(Ledger!ledger)
<1>. TypeOK /\ QueueInv /\ Id \subseteq Int /\ sent' = sent /\ terminating' = terminating
  BY Lengths DEF IInv, Collect
<1>1. PICK i \in Queued : /\ IsFirst(i, Queued)
                          /\ fate' = [fate EXCEPT ![i] = IF IsRepeat(i) THEN "merged" ELSE "taken"]
  BY DEF Collect
<1>2. i \in Id /\ fate[i] = "queued"
  BY DEF Queued
<1>3. CASE ~IsRepeat(i)
  <2>1. LedgerFate' = LedgerFate
    BY <1>1, <1>2, <1>3 DEF TypeOK, LedgerFate, Id
  <2>. QED BY <2>1 DEF Ledger!ledger
<1>4. CASE IsRepeat(i)
  <2>1. LedgerFate' = [LedgerFate EXCEPT ![i] = "merged"]
    BY <1>1, <1>2, <1>4, FateExcept DEF Settled
  <2>2. PICK j \in Taken : IsLast(j, Taken) /\ sent[j] = sent[i]
    BY <1>4 DEF IsRepeat
  <2>3. j \in Id /\ j < i
    BY <1>2, <2>2 DEF QueueInv, TakenAreNext, Taken
  <2>4. ASSUME NEW k \in j + 1 .. i - 1 PROVE LedgerFate[k] = "merged"
    <3>1. k \in Id /\ j < k /\ k < i
      BY <1>2, <2>3, Lengths
    <3>2. k \notin Taken /\ k \notin Queued
      <4>1. i \in Int /\ j \in Int /\ k \in Int
        BY <1>2, <2>3, <3>1
      <4>2. (k \in Taken => k <= j) /\ (k \in Queued => i <= k)
        BY <1>1, <2>2 DEF IsFirst, IsLast
      <4>. QED BY <3>1, <4>1, <4>2
    <3>3. fate[k] = "merged"
      BY <2>2, <3>1, <3>2 DEF QueueInv, TakenAreNext, Taken, Queued
    <3>. QED BY <3>1, <3>3, PendingIs
  <2>5. Ledger!Absorb(i)
    BY <1>2, <2>1, <2>2, <2>3, <2>4, PendingIs DEF Ledger!Absorb
  <2>. QED BY <1>2, <2>5 DEF Ledger!Next, Ledger!Id, Id
<1>. QED BY <1>3, <1>4

LEMMA StepRefines == ASSUME IInv, ServiceStep PROVE [Ledger!Next]_(Ledger!ledger)
<1>. TypeOK /\ sent' = sent /\ terminating' = terminating /\ Ledger!Id = Id
  BY StepKeeps, PendingIs DEF IInv
<1>. Id' = Id
  BY DEF Id
<1>1. CASE fate' = fate
  BY <1>1 DEF Ledger!ledger, LedgerFate, Id
<1>2. CASE Collect
  BY <1>2, CollectRefines
<1>3. CASE CollectEnding
  <2>1. LedgerFate' = [j \in Id |-> IF j \in Taken THEN "skipped" ELSE LedgerFate[j]]
    BY <1>3 DEF CollectEnding, LedgerFate, TypeOK, Taken
  <2>2. Ledger!Abandon
    BY <1>3, <2>1, TakenOldest DEF Ledger!Abandon, CollectEnding
  <2>. QED BY <2>2 DEF Ledger!Next
<1>4. CASE ExecuteOk
  <2>1. PICK i \in Taken : IsFirst(i, Taken) /\ Succeed(i)
    BY <1>4 DEF ExecuteOk
  <2>. QED BY <2>1, SucceedPerforms DEF Taken
<1>5. CASE ExecuteError
  <2>1. PICK i \in Taken :
          /\ IsFirst(i, Taken)
          /\ fate' = [j \in Id |-> IF j = i THEN "failed"
                                   ELSE IF j \in Taken THEN "skipped" ELSE fate[j]]
    BY <1>5 DEF ExecuteError
  <2>2. LedgerFate' = [j \in Id |-> IF j = i THEN "failed"
                                    ELSE IF j \in Taken THEN "skipped" ELSE LedgerFate[j]]
    BY <2>1 DEF LedgerFate, TypeOK
  <2>3. Ledger!Fail(i)
    BY <2>1, <2>2, TakenOldest, OldestPending DEF Ledger!Fail, Taken
  <2>. QED BY <2>3 DEF Ledger!Next, Taken
<1>6. CASE WaitOk
  <2>1. PICK i \in Queued : IsFirst(i, Queued) /\ Succeed(i)
    BY <1>6 DEF WaitOk
  <2>2. Taken = {}
    BY <1>6 DEF WaitOk, TypeOK
  <2>. QED BY <2>1, <2>2, SucceedPerforms DEF Queued
<1>7. CASE WaitError
  <2>1. PICK i \in Queued : IsFirst(i, Queued) /\ fate' = [fate EXCEPT ![i] = "failed"]
    BY <1>7 DEF WaitError
  <2>2. Taken = {} /\ i \in Id
    BY <1>7 DEF WaitError, TypeOK, Queued
  <2>3. LedgerFate' = [LedgerFate EXCEPT ![i] = "failed"]
    BY <2>1, <2>2, FateExcept DEF Settled
  <2>4. Ledger!IsNext(i)
    BY <2>1, <2>2, OldestPending
  <2>5. {i} \in SUBSET Ledger!Pending /\ Ledger!IsOldest({i})
    <3>1. Ledger!Pending \subseteq Int
      BY Lengths DEF Ledger!Pending
    <3>. QED BY <2>4, <3>1 DEF Ledger!IsNext, Ledger!IsOldest
  <2>6. LedgerFate' = [j \in Id |-> IF j = i THEN "failed"
                                    ELSE IF j \in {i} THEN "skipped" ELSE LedgerFate[j]]
    BY <2>3 DEF LedgerFate
  <2>7. Ledger!Fail(i)
    BY <2>4, <2>5, <2>6 DEF Ledger!Fail
  <2>. QED BY <2>2, <2>7 DEF Ledger!Next
<1>8. Begin \/ Exit \/ Collected \/ Executed \/ Rest \/ WaitEnding \/ (\E o \in Outcome : Readout(o))
        => fate' = fate
  BY DEF Begin, Exit, Collected, Executed, Rest, WaitEnding, Readout
<1>. QED BY <1>1, <1>2, <1>3, <1>4, <1>5, <1>6, <1>7, <1>8 DEF ServiceStep

LEMMA SendRefines == ASSUME IInv, NEW p \in Prefix, Send(p) PROVE Ledger!Submit(p)
<1>. TypeOK
  BY DEF IInv
<1>1. /\ Id' = 1 .. Len(sent) + 1 /\ Id = 1 .. Len(sent) /\ Len(sent) \in Nat
      /\ \A i \in Id : fate'[i] = fate[i]
      /\ fate'[Len(sent) + 1] = "queued"
  BY Sending
<1>2. LedgerFate \in [1 .. Len(sent) -> Fates \cup {"pending"}]
  BY <1>1 DEF TypeOK, LedgerFate, Fates
<1>3. LedgerFate \in Seq(Fates \cup {"pending"}) /\ Len(LedgerFate) = Len(sent)
  BY <1>1, <1>2, FunctionIsSeq
<1>4. PICK longer : longer = Append(LedgerFate, "pending")
  OBVIOUS
<1>5. longer = [i \in 1 .. Len(sent) + 1 |-> IF i = Len(sent) + 1 THEN "pending" ELSE LedgerFate[i]]
  <2>1. /\ longer \in Seq(Fates \cup {"pending"})
        /\ Len(longer) = Len(sent) + 1
        /\ \A i \in 1 .. Len(sent) : longer[i] = LedgerFate[i]
        /\ longer[Len(sent) + 1] = "pending"
    BY <1>1, <1>3, <1>4
  <2>2. longer \in [1 .. Len(sent) + 1 -> Fates \cup {"pending"}]
    BY <2>1, LenProperties
  <2>3. \A i \in 1 .. Len(sent) + 1 : i = Len(sent) + 1 \/ i \in 1 .. Len(sent)
    BY <1>1
  <2>. QED BY <1>1, <2>1, <2>2, <2>3
<1>6. LedgerFate' =
        [i \in 1 .. Len(sent) + 1 |-> IF i = Len(sent) + 1 THEN "pending" ELSE LedgerFate[i]]
  BY <1>1 DEF LedgerFate
<1>. QED BY <1>4, <1>5, <1>6 DEF Ledger!Submit, Send

LEMMA NextRefines == ASSUME IInv, [Next]_vars PROVE [Ledger!Next]_(Ledger!ledger)
<1>1. CASE ServiceStep
  BY <1>1, StepRefines
<1>2. ASSUME NEW p \in Prefix, Send(p) PROVE Ledger!Next
  BY <1>2, SendRefines DEF Ledger!Next
<1>3. CASE Terminate
  <2>1. LedgerFate' = LedgerFate
    BY <1>3 DEF Terminate, LedgerFate, Id
  <2>. QED BY <1>3, <2>1 DEF Terminate, Ledger!Next, Ledger!End
<1>4. CASE UNCHANGED vars
  BY <1>4 DEF vars, Ledger!ledger, LedgerFate, Id
<1>. QED BY <1>1, <1>2, <1>3, <1>4 DEF Next

LEMMA InitRefines == Init => Ledger!Init
BY DEF Init, Ledger!Init, LedgerFate, Id

\* Whatever its cycle, a looping service settles its requests in the order they
\* were sent, each at most once, and skips none without a failure before it.
THEOREM LedgerImplemented == Spec => ImplementsLedger
<1>1. IInv /\ [Next]_vars => [Ledger!Next]_(Ledger!ledger)
  BY NextRefines
<1>. QED BY <1>1, InitRefines, Invariance, PTL DEF Spec, ImplementsLedger, Ledger!Spec
=============================================================================
