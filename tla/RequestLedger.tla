----------------------------- MODULE RequestLedger -----------------------------
(*****************************************************************************)
(* What a looping service promises about the requests it is sent, whatever   *)
(* its cycle: it settles them in the order they were sent and each at most   *)
(* once.  A request repeated directly after an identical one that is still   *)
(* pending may count as that one; after a request that fails, the ones       *)
(* waiting behind it may be skipped; nothing else gets lost before the       *)
(* service is told to end.                                                   *)
(*****************************************************************************)
EXTENDS Integers, Sequences

CONSTANTS
  Prefix,       \* the requests clients may send
  MaxRequests   \* bound on the number of requests sent

VARIABLES
  sent,     \* sent[i]: the i-th request
  fate,     \* fate[i]: what became of it
  ending    \* the service has been told to end

ledger == <<sent, fate, ending>>

Id == DOMAIN sent
Pending == {i \in Id : fate[i] = "pending"}

\* i is the oldest pending request.
IsNext(i) == i \in Pending /\ \A j \in Pending : i <= j

\* S holds the oldest pending requests.
IsOldest(S) == S \subseteq Pending /\ \A i \in S, j \in Pending : j < i => j \in S

Submit(p) ==
  /\ Len(sent) < MaxRequests
  /\ sent' = Append(sent, p)
  /\ fate' = Append(fate, "pending")
  /\ UNCHANGED ending

Perform(i) ==
  /\ IsNext(i)
  /\ fate' = [fate EXCEPT ![i] = "done"]
  /\ UNCHANGED <<sent, ending>>

Fail(i) ==
  /\ IsNext(i)
  /\ \E S \in SUBSET Pending :
       /\ IsOldest(S)
       /\ i \in S
       /\ fate' = [j \in Id |-> IF j = i THEN "failed"
                                ELSE IF j \in S THEN "skipped" ELSE fate[j]]
  /\ UNCHANGED <<sent, ending>>

\* i repeats j: only requests that repeat j were sent between them.
Absorb(i) ==
  /\ i \in Pending
  /\ \E j \in Pending : /\ j < i
                        /\ sent[j] = sent[i]
                        /\ \A k \in j + 1 .. i - 1 : fate[k] = "merged"
  /\ fate' = [fate EXCEPT ![i] = "merged"]
  /\ UNCHANGED <<sent, ending>>

End ==
  /\ ending' = TRUE
  /\ UNCHANGED <<sent, fate>>

Abandon ==
  /\ ending
  /\ \E S \in SUBSET Pending :
       /\ IsOldest(S)
       /\ fate' = [j \in Id |-> IF j \in S THEN "skipped" ELSE fate[j]]
  /\ UNCHANGED <<sent, ending>>

Init ==
  /\ sent = <<>>
  /\ fate = <<>>
  /\ ending = FALSE

Next ==
  \/ \E p \in Prefix : Submit(p)
  \/ \E i \in Id : Perform(i) \/ Fail(i) \/ Absorb(i)
  \/ End
  \/ Abandon

Spec == Init /\ [][Next]_ledger
=============================================================================
