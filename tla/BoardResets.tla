----------------------------- MODULE BoardResets ------------------------------
(* The reset bits of the GBT register of every board, and the two kinds of        *)
(* service that use them: RESET of a board (class Reset), which raises one of     *)
(* them, and RESET_ERRORS (class ResetErrors), which works through all boards.    *)
(* Each runs on a thread of its own.  A step is one sequence executed by ALF and  *)
(* the processing of its response.  A write of a bit is an AND and an OR frame:   *)
(* a sequence that fails may have done none, the first or both of them.           *)
EXTENDS FiniteSets, Naturals

CONSTANTS
  TCM,          \* the board RESET_ERRORS begins with
  PMs,          \* the other connected boards
  ResetBits,    \* the bits RESET knows, all of them in one register
  ErrorBits,    \* those RESET_ERRORS raises
  CommFails,    \* may communication fail?
  MaxRequests   \* bound: requests to all services, and restarts of the electronics

Boards == PMs \cup {TCM}
Requests == ResetBits \cup {"FORCE_IDLE", "UNKNOWN"}

ASSUME BoardResetsAssumption ==
  /\ TCM \notin PMs
  /\ ErrorBits \subseteq ResetBits
  /\ "FORCE_IDLE" \notin ResetBits /\ "UNKNOWN" \notin ResetBits
  /\ CommFails \in BOOLEAN
  /\ MaxRequests \in Nat

VARIABLES
  bits,        \* [board -> reset bits that are 1]
  locked,      \* [board -> GBT_FORCE_IDLE]
  restarted,   \* the TCM reports a restart of the system
  \* RESET of each board
  pc, request, success, published,
  \* RESET_ERRORS
  pcErr, at, todo, publishedErr,
  \* history
  requests,    \* how many there were
  pulse,       \* [board -> what RESET has done to it for the last request]
  cleaned,     \* [board -> what RESET_ERRORS has done to it for the last request]
  left         \* boards left with their bits up, or in an unknown state, by a failure

electronics == <<bits, locked, restarted>>
reset == <<pc, request, success, published, pulse>>
resetErrors == <<pcErr, at, todo, publishedErr, cleaned>>
resetVars == <<electronics, reset, resetErrors, requests, left>>

InitResets ==
  /\ bits = [b \in Boards |-> {}]
  /\ locked = [b \in Boards |-> FALSE]
  /\ restarted = FALSE
  /\ pc = [b \in Boards |-> "idle"]
  /\ request = [b \in Boards |-> "UNKNOWN"]
  /\ success = [b \in Boards |-> FALSE] /\ published = [b \in Boards |-> {}]
  /\ pcErr = "idle" /\ at = TCM /\ todo = {} /\ publishedErr = {}
  /\ requests = 0 /\ left = {}
  /\ pulse = [b \in Boards |-> "none"]
  /\ cleaned = [b \in Boards |-> "none"]
-------------------------------------------------------------------------------
(* What a sequence does to the bits of a board *)

\* m_reqClearResetBits: every reset bit becomes 0.  It takes down what anybody has left.
ClearBits(b) == bits' = [bits EXCEPT ![b] = {}]

\* The bits S become 1, the others stay.
RaiseBits(b, S) == bits' = [bits EXCEPT ![b] = @ \cup S]

\* A sequence failed that was to raise S: nothing, only its AND frame, or all of it was done.
RaiseBroken(b, S) ==
  \E now \in {bits[b], bits[b] \ S, bits[b] \cup S} : bits' = [bits EXCEPT ![b] = now]

\* A sequence failed that was to clear the bits.
ClearBroken(b) == \E now \in {bits[b], {}} : bits' = [bits EXCEPT ![b] = now]
-------------------------------------------------------------------------------
(* RESET of board b *)

\* What history keeps: how far the pulse of a request has come.  A write of another
\* parameter is none, and locking a board undoes what RESET_ERRORS has done to it.
Pulse(b, what) == pulse' = [pulse EXCEPT ![b] = what]
LockBoard(b) ==
  /\ locked' = [locked EXCEPT ![b] = TRUE]
  /\ cleaned' = [cleaned EXCEPT ![b] = IF @ = "done" THEN "lockedAgain" ELSE @]

Publish(b, what) == published' = [published EXCEPT ![b] = @ \cup what]

\* waitForRequest.  A request that names none of the bits is an error, but goes on.
Take(b, r) ==
  /\ pc[b] = "idle" /\ requests < MaxRequests
  /\ requests' = requests + 1
  /\ request' = [request EXCEPT ![b] = r]
  /\ success' = [success EXCEPT ![b] = FALSE]
  /\ published' = [published EXCEPT ![b] = IF r \in ResetBits THEN {} ELSE {"ERROR"}]
  /\ Pulse(b, "none")
  /\ pc' = [pc EXCEPT ![b] = "clear"]
  /\ UNCHANGED <<electronics, resetErrors, left>>

\* All bits down, before the one of the request is raised.
ClearFirst(b) ==
  /\ pc[b] = "clear"
  /\ ClearBits(b) /\ Pulse(b, "cleared")
  /\ pc' = [pc EXCEPT ![b] = "set"]
  /\ left' = left \ {b}
  /\ UNCHANGED <<locked, restarted, request, success, published, resetErrors, requests>>

\* If that fails, processExecution returns.
ClearFirstFails(b) ==
  /\ CommFails /\ pc[b] = "clear"
  /\ ClearBroken(b)
  /\ Publish(b, {"ERROR"})
  /\ pc' = [pc EXCEPT ![b] = "idle"]
  /\ UNCHANGED <<locked, restarted, request, success, pulse, resetErrors, requests, left>>

\* The write of 1 to whatever the request names: a reset bit, or another parameter that
\* can be written.
Set(b) ==
  /\ pc[b] = "set" /\ request[b] # "UNKNOWN"
  /\ pc' = [pc EXCEPT ![b] = "clearAgain"]
  /\ success' = [success EXCEPT ![b] = TRUE]
  /\ \/ /\ request[b] \in ResetBits
        /\ RaiseBits(b, {request[b]}) /\ Pulse(b, "raised")
        /\ UNCHANGED <<locked, cleaned>>
     \/ /\ request[b] = "FORCE_IDLE"
        /\ LockBoard(b)
        /\ UNCHANGED <<bits, pulse>>
  /\ UNCHANGED <<restarted, request, published, pcErr, at, todo, publishedErr, requests, left>>

\* The write fails, or cannot be built as there is no such parameter: an error, and on.
SetFails(b) ==
  /\ pc[b] = "set" /\ (CommFails \/ request[b] = "UNKNOWN")
  /\ pc' = [pc EXCEPT ![b] = "clearAgain"]
  /\ Publish(b, {"ERROR"})
  /\ \/ request[b] \in ResetBits /\ RaiseBroken(b, {request[b]}) /\ UNCHANGED <<locked, cleaned>>
     \/ request[b] = "FORCE_IDLE" /\ LockBoard(b) /\ UNCHANGED bits
     \/ request[b] = "FORCE_IDLE" /\ locked' = [locked EXCEPT ![b] = FALSE]
                                 /\ UNCHANGED <<bits, cleaned>>
     \/ request[b] \notin ResetBits /\ UNCHANGED <<bits, locked, cleaned>>
  /\ UNCHANGED <<restarted, request, success, pulse, pcErr, at, todo, publishedErr, requests, left>>

\* The answer depends on the write alone.
Answer(b) == IF success[b] THEN {"SUCCESS"} ELSE {}

ClearLast(b) ==
  /\ pc[b] = "clearAgain"
  /\ ClearBits(b)
  /\ Pulse(b, IF pulse[b] = "raised" THEN "done" ELSE pulse[b])
  /\ Publish(b, Answer(b))
  /\ pc' = [pc EXCEPT ![b] = "idle"]
  /\ left' = left \ {b}
  /\ UNCHANGED <<locked, restarted, request, success, resetErrors, requests>>

ClearLastFails(b) ==
  /\ CommFails /\ pc[b] = "clearAgain"
  /\ ClearBroken(b)
  /\ Publish(b, Answer(b) \cup {"ERROR"})
  /\ pc' = [pc EXCEPT ![b] = "idle"]
  /\ left' = left \cup {b}
  /\ UNCHANGED <<locked, restarted, request, success, pulse, resetErrors, requests>>

ResetStep(b) ==
  \/ ClearFirst(b) \/ ClearFirstFails(b)
  \/ Set(b) \/ SetFails(b)
  \/ ClearLast(b) \/ ClearLastFails(b)
-------------------------------------------------------------------------------
(* RESET_ERRORS *)

\* waitForRequest: any request will do.  The TCM comes first.
TakeErrors ==
  /\ pcErr = "idle" /\ requests < MaxRequests
  /\ requests' = requests + 1
  /\ publishedErr' = {}
  /\ pcErr' = "clear" /\ at' = TCM /\ todo' = PMs
  /\ cleaned' = [b \in Boards |-> "none"]
  /\ UNCHANGED <<electronics, reset, left>>

Did(what) == cleaned' = [cleaned EXCEPT ![at] = what]

\* Mutant: the report of a restart is taken back with the TCM.
ClearBoard_ReportFirst ==
  /\ pcErr = "clear"
  /\ ClearBits(at) /\ Did("cleared")
  /\ pcErr' = "raise"
  /\ restarted' = (restarted /\ at # TCM)
  /\ left' = left \ {at}
  /\ UNCHANGED <<locked, reset, at, todo, publishedErr, requests>>

\* applyResetBoard: clear, raise, and clear again with GBT_FORCE_IDLE.
ClearBoard ==
  /\ pcErr = "clear"
  /\ ClearBits(at) /\ Did("cleared")
  /\ pcErr' = "raise"
  /\ left' = left \ {at}
  /\ UNCHANGED <<locked, restarted, reset, at, todo, publishedErr, requests>>

RaiseErrorBits ==
  /\ pcErr = "raise"
  /\ RaiseBits(at, ErrorBits) /\ Did("raised")
  /\ pcErr' = "unlock"
  /\ UNCHANGED <<locked, restarted, reset, at, todo, publishedErr, requests, left>>

\* Mutant: only GBT_FORCE_IDLE is cleared.
ClearAndUnlock_OnlyUnlocks ==
  /\ pcErr = "unlock"
  /\ UNCHANGED bits /\ Did("done")
  /\ locked' = [locked EXCEPT ![at] = FALSE]
  /\ left' = left \ {at}
  /\ IF todo = {} THEN pcErr' = "report" /\ UNCHANGED <<at, todo>>
     ELSE \E b \in todo : at' = b /\ todo' = todo \ {b} /\ pcErr' = "clear"
  /\ UNCHANGED <<restarted, reset, publishedErr, requests>>

\* Mutant: the loop ends one board early.
ClearAndUnlock_OneLess ==
  /\ pcErr = "unlock"
  /\ ClearBits(at) /\ Did("done")
  /\ locked' = [locked EXCEPT ![at] = FALSE]
  /\ left' = left \ {at}
  /\ IF Cardinality(todo) <= 1 THEN pcErr' = "report" /\ UNCHANGED <<at, todo>>
     ELSE \E b \in todo : at' = b /\ todo' = todo \ {b} /\ pcErr' = "clear"
  /\ UNCHANGED <<restarted, reset, publishedErr, requests>>

\* The board is done.  The next one, in the order in which they happen to be stored.
ClearAndUnlock ==
  /\ pcErr = "unlock"
  /\ ClearBits(at) /\ Did("done")
  /\ locked' = [locked EXCEPT ![at] = FALSE]
  /\ left' = left \ {at}
  /\ IF todo = {} THEN pcErr' = "report" /\ UNCHANGED <<at, todo>>
     ELSE \E b \in todo : at' = b /\ todo' = todo \ {b} /\ pcErr' = "clear"
  /\ UNCHANGED <<restarted, reset, publishedErr, requests>>

\* The first failure ends the request, also between raising and clearing.
BoardFails ==
  /\ CommFails /\ pcErr \in {"clear", "raise", "unlock"}
  /\ \/ UNCHANGED <<bits, locked>>
     \/ pcErr = "clear" /\ ClearBits(at) /\ UNCHANGED locked
     \/ pcErr = "raise" /\ RaiseBroken(at, ErrorBits) /\ UNCHANGED locked
     \/ pcErr = "unlock" /\ ClearBits(at) /\ locked' = [locked EXCEPT ![at] = FALSE]
  /\ left' = IF pcErr = "clear" THEN left ELSE left \cup {at}
  /\ publishedErr' = {"ERROR"}
  /\ pcErr' = "idle"
  /\ UNCHANGED <<restarted, reset, at, todo, cleaned, requests>>

\* The report of a restart is taken back when everything else is done.  Nothing is read back.
ClearReport ==
  /\ pcErr = "report"
  /\ restarted' = FALSE
  /\ publishedErr' = {"SUCCESS"}
  /\ pcErr' = "idle"
  /\ UNCHANGED <<bits, locked, reset, at, todo, cleaned, requests, left>>

ClearReportFails ==
  /\ CommFails /\ pcErr = "report"
  /\ restarted' \in {restarted, FALSE}
  /\ publishedErr' = {"ERROR"}
  /\ pcErr' = "idle"
  /\ UNCHANGED <<bits, locked, reset, at, todo, cleaned, requests, left>>

ResetErrorsStep ==
  \/ ClearBoard \/ RaiseErrorBits \/ ClearAndUnlock \/ BoardFails
  \/ ClearReport \/ ClearReportFails
-------------------------------------------------------------------------------
(* The electronics and their other users *)

\* The electronics report a restart.
Restart ==
  /\ ~restarted /\ requests < MaxRequests
  /\ requests' = requests + 1
  /\ restarted' = TRUE
  /\ UNCHANGED <<bits, locked, reset, resetErrors, left>>

\* RESET_SYSTEM, the configuration of the TCM and a change of delays take the report
\* back as well, each after something else it did (external here: ResetFEE, Startup and
\* DelayChange model these services).
OthersClearReport ==
  /\ restarted
  /\ restarted' = FALSE
  /\ UNCHANGED <<bits, locked, reset, resetErrors, requests, left>>

NextResets ==
  \/ \E b \in Boards : (\E r \in Requests : Take(b, r)) \/ ResetStep(b)
  \/ TakeErrors \/ ResetErrorsStep
  \/ Restart \/ OthersClearReport

ResetsSpec == InitResets /\ [][NextResets]_resetVars
-------------------------------------------------------------------------------
(* Properties *)

TypeOK ==
  /\ bits \in [Boards -> SUBSET ResetBits]
  /\ locked \in [Boards -> BOOLEAN] /\ restarted \in BOOLEAN
  /\ pc \in [Boards -> {"idle", "clear", "set", "clearAgain"}]
  /\ request \in [Boards -> Requests]
  /\ success \in [Boards -> BOOLEAN]
  /\ published \in [Boards -> SUBSET {"ERROR", "SUCCESS"}]
  /\ pcErr \in {"idle", "clear", "raise", "unlock", "report"}
  /\ at \in Boards /\ todo \subseteq PMs
  /\ publishedErr \in SUBSET {"ERROR", "SUCCESS"}
  /\ requests \in Nat /\ left \subseteq Boards
  /\ pulse \in [Boards -> {"none", "cleared", "raised", "done"}]
  /\ cleaned \in [Boards -> {"none", "cleared", "raised", "done", "lockedAgain"}]

\* A service is between raising bits of board b and taking them down.
InReset(b) == pc[b] = "clearAgain" \/ (pcErr = "unlock" /\ at = b)

\* A reset bit that is up is about to be taken down by the service that raised it, or one
\* that shares the board with it, or a failure has left it up and was reported
\* (Reset.cpp:48, ResetErrors.cpp:86).  Whoever clears, clears for both.
BitsComeDown == \A b \in Boards : bits[b] # {} => InReset(b) \/ b \in left

\* SUCCESS alone from RESET: the bit of the request was down, up and down again, whatever
\* the others did to the register.  With an error beside it the bit was raised and may be up
\* still, or the request named none of the bits and something else was written
\* (Reset.cpp:28, 42, 52).
SuccessMeansPulse == \A b \in Boards : "SUCCESS" \in published[b] =>
  \/ published[b] = {"SUCCESS"} /\ pulse[b] = "done"
  \/ "ERROR" \in published[b] /\ (pulse[b] = "raised" \/ request[b] \notin ResetBits)

\* SUCCESS of RESET_ERRORS: every board went through all three steps, none was left out, and
\* none is locked that nobody has locked since.  After an error the boards it had not come to
\* are untouched (ResetErrors.cpp:45).
SuccessMeansCleaned ==
  /\ publishedErr = {"SUCCESS"} => \A b \in Boards :
       cleaned[b] = "lockedAgain" \/ (cleaned[b] = "done" /\ ~locked[b])
  /\ publishedErr = {"ERROR"} => \A b \in todo : cleaned[b] = "none"

\* SUCCESS is only published for what was done (Reset.cpp:42, ResetErrors.cpp:45).
SuccessMeansDone == SuccessMeansPulse /\ SuccessMeansCleaned

\* RESET_ERRORS does not take back the report of a restart before every board has been reset
\* for its request (ResetErrors.cpp:61): until then the report is what tells that there are
\* boards in error, unless another service has taken it back for a reason of its own.
ReportComesLast ==
  [][restarted /\ ~restarted' /\ pcErr' # pcErr =>
       pcErr = "report" /\ \A b \in Boards : cleaned[b] \in {"done", "lockedAgain"}]_resetVars
================================================================================
