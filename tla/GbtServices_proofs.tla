-------------------------- MODULE GbtServices_proofs ---------------------------
(* What holds of the resets and of what BoardStatus publishes for every set of    *)
(* boards and bits, every width of the counter, and failures at any place.  The   *)
(* resets are proved about by themselves: GbtServices implements ResetsSpec.      *)
EXTENDS GbtServices, TLAPS

\* RESET_ERRORS is done with board b, for the request it works on or has answered.
Finished(b) == cleaned[b] = "lockedAgain" \/ (cleaned[b] = "done" /\ ~locked[b])

\* What RESET has published and done to the board at each of its steps.
ResetProgress == \A b \in Boards :
  /\ pc[b] \in {"clear", "set"} =>
       /\ ~success[b]
       /\ published[b] = IF request[b] \in ResetBits THEN {} ELSE {"ERROR"}
  /\ pc[b] = "clearAgain" =>
       /\ "SUCCESS" \notin published[b]
       /\ request[b] \notin ResetBits => "ERROR" \in published[b]
       /\ success[b] /\ request[b] \in ResetBits => pulse[b] = "raised" /\ published[b] = {}

\* RESET_ERRORS is done with the boards that are behind it, and has not touched those ahead.
ErrorsProgress ==
  /\ pcErr # "idle" => publishedErr = {} /\ \A b \in todo : cleaned[b] = "none"
  /\ pcErr \in {"clear", "raise", "unlock"} =>
       at \notin todo /\ \A b \in Boards \ (todo \cup {at}) : Finished(b)
  /\ pcErr = "report" => \A b \in Boards : Finished(b)

ResetInv == ResetProgress /\ SuccessMeansPulse
ErrorsInv == ErrorsProgress /\ SuccessMeansCleaned
IInv == TypeOK /\ ResetInv /\ ErrorsInv /\ BitsComeDown

USE DEF Boards

LEMMA InitIInv == InitResets => IInv
<1>. SUFFICES ASSUME InitResets PROVE IInv
  OBVIOUS
<1>1. TypeOK
  BY DEF InitResets, TypeOK, Requests
<1>2. ResetInv
  BY DEF InitResets, ResetInv, ResetProgress, SuccessMeansPulse
<1>3. ErrorsInv
  BY DEF InitResets, ErrorsInv, ErrorsProgress, SuccessMeansCleaned
<1>4. BitsComeDown
  BY DEF InitResets, BitsComeDown
<1>. QED BY <1>1, <1>2, <1>3, <1>4 DEF IInv

-------------------------------------------------------------------------------
(* Types *)

LEMMA BitsType ==
  ASSUME TypeOK, NEW b \in Boards, NEW S \in SUBSET ResetBits,
         RaiseBits(b, S) \/ RaiseBroken(b, S) \/ ClearBits(b) \/ ClearBroken(b)
  PROVE  bits' \in [Boards -> SUBSET ResetBits]
BY DEF TypeOK, RaiseBits, RaiseBroken, ClearBits, ClearBroken

LEMMA LockType ==
  ASSUME TypeOK, NEW b \in Boards, LockBoard(b)
  PROVE  /\ locked' \in [Boards -> BOOLEAN]
         /\ cleaned' \in [Boards -> {"none", "cleared", "raised", "done", "lockedAgain"}]
BY DEF TypeOK, LockBoard

LEMMA ResetStepType ==
  ASSUME TypeOK, NEW b \in Boards, ResetStep(b) PROVE TypeOK'
<1>. USE BoardResetsAssumption DEF TypeOK, Publish, Pulse, resetErrors, Answer
<1>1. CASE ClearFirst(b)
  BY <1>1 DEF ClearFirst, ClearBits
<1>2. CASE ClearFirstFails(b)
  BY <1>2 DEF ClearFirstFails, ClearBroken
<1>3. CASE Set(b)
  <2>1. bits' \in [Boards -> SUBSET ResetBits]
    BY <1>3, BitsType DEF Set
  <2>2. /\ locked' \in [Boards -> BOOLEAN]
        /\ cleaned' \in [Boards -> {"none", "cleared", "raised", "done", "lockedAgain"}]
    BY <1>3, LockType DEF Set
  <2>. QED BY <1>3, <2>1, <2>2 DEF Set
<1>4. CASE SetFails(b)
  <2>1. bits' \in [Boards -> SUBSET ResetBits]
    BY <1>4, BitsType DEF SetFails
  <2>2. /\ locked' \in [Boards -> BOOLEAN]
        /\ cleaned' \in [Boards -> {"none", "cleared", "raised", "done", "lockedAgain"}]
    BY <1>4, LockType DEF SetFails
  <2>. QED BY <1>4, <2>1, <2>2 DEF SetFails
<1>5. CASE ClearLast(b)
  BY <1>5 DEF ClearLast, ClearBits
<1>6. CASE ClearLastFails(b)
  BY <1>6 DEF ClearLastFails, ClearBroken
<1>. QED BY <1>1, <1>2, <1>3, <1>4, <1>5, <1>6 DEF ResetStep

LEMMA ErrorsStepType ==
  ASSUME TypeOK, ResetErrorsStep PROVE TypeOK'
<1>. USE BoardResetsAssumption DEF TypeOK, reset, Did
<1>1. CASE ClearBoard
  BY <1>1 DEF ClearBoard, ClearBits
<1>2. CASE RaiseErrorBits
  BY <1>2 DEF RaiseErrorBits, RaiseBits
<1>3. CASE ClearAndUnlock
  BY <1>3 DEF ClearAndUnlock, ClearBits
<1>4. CASE BoardFails
  <2>1. bits' \in [Boards -> SUBSET ResetBits]
    BY <1>4, BitsType DEF BoardFails
  <2>. QED BY <1>4, <2>1 DEF BoardFails
<1>5. CASE ClearReport \/ ClearReportFails
  BY <1>5 DEF ClearReport, ClearReportFails
<1>. QED BY <1>1, <1>2, <1>3, <1>4, <1>5 DEF ResetErrorsStep

LEMMA NextType == TypeOK /\ [NextResets]_resetVars => TypeOK'
<1>. SUFFICES ASSUME TypeOK, [NextResets]_resetVars PROVE TypeOK'
  OBVIOUS
<1>1. ASSUME NEW b \in Boards, NEW r \in Requests, Take(b, r) PROVE TypeOK'
  BY <1>1 DEF TypeOK, Take, Pulse, electronics, resetErrors
<1>2. CASE TakeErrors
  BY <1>2 DEF TypeOK, TakeErrors, electronics, reset
<1>3. CASE Restart
  BY <1>3 DEF TypeOK, Restart, reset, resetErrors
<1>4. CASE OthersClearReport
  BY <1>4 DEF TypeOK, OthersClearReport, reset, resetErrors
<1>5. CASE UNCHANGED resetVars
  BY <1>5 DEF TypeOK, resetVars, electronics, reset, resetErrors
<1>. QED BY <1>1, <1>2, <1>3, <1>4, <1>5, ResetStepType, ErrorsStepType DEF NextResets

-------------------------------------------------------------------------------
(* RESET *)

\* No step but its own changes what RESET of a board has done.
LEMMA OtherReset ==
  ASSUME ResetInv, UNCHANGED reset PROVE ResetInv'
BY DEF ResetInv, ResetProgress, SuccessMeansPulse, reset

LEMMA OwnReset ==
  ASSUME TypeOK, ResetInv, NEW b \in Boards, ResetStep(b) PROVE ResetInv'
<1>. USE DEF TypeOK, ResetInv, ResetProgress, SuccessMeansPulse, Publish, Pulse, Answer
<1>1. CASE ClearFirst(b)
  BY <1>1 DEF ClearFirst
<1>2. CASE ClearFirstFails(b)
  BY <1>2 DEF ClearFirstFails
<1>3. CASE Set(b)
  <2>1. CASE request[b] \in ResetBits
    BY <1>3, <2>1, BoardResetsAssumption DEF Set
  <2>2. CASE request[b] \notin ResetBits
    BY <1>3, <2>2 DEF Set
  <2>. QED BY <2>1, <2>2
<1>4. CASE SetFails(b)
  BY <1>4 DEF SetFails
<1>5. CASE ClearLast(b)
  BY <1>5 DEF ClearLast
<1>6. CASE ClearLastFails(b)
  BY <1>6 DEF ClearLastFails
<1>. QED BY <1>1, <1>2, <1>3, <1>4, <1>5, <1>6 DEF ResetStep

LEMMA NextReset == TypeOK /\ ResetInv /\ [NextResets]_resetVars => ResetInv'
<1>. SUFFICES ASSUME TypeOK, ResetInv, [NextResets]_resetVars PROVE ResetInv'
  OBVIOUS
<1>1. ASSUME NEW b \in Boards, NEW r \in Requests, Take(b, r) PROVE ResetInv'
  BY <1>1 DEF TypeOK, ResetInv, ResetProgress, SuccessMeansPulse, Take, Pulse
<1>2. CASE TakeErrors \/ ResetErrorsStep \/ Restart \/ OthersClearReport \/ UNCHANGED resetVars
  <2>1. UNCHANGED reset
    BY <1>2 DEF TakeErrors, ResetErrorsStep, ClearBoard, RaiseErrorBits, ClearAndUnlock,
      BoardFails, ClearReport, ClearReportFails, Restart, OthersClearReport, resetVars
  <2>. QED BY <2>1, OtherReset
<1>. QED BY <1>1, <1>2, OwnReset DEF NextResets

-------------------------------------------------------------------------------
(* RESET_ERRORS *)

\* RESET may lock a board again, or unlock it by half a write; nothing else it does matters here.
LEMMA OtherErrors ==
  ASSUME TypeOK, ErrorsInv, UNCHANGED <<pcErr, at, todo, publishedErr>>,
         \/ UNCHANGED <<locked, cleaned>>
         \/ \E b \in Boards : LockBoard(b)
         \/ \E b \in Boards : locked' = [locked EXCEPT ![b] = FALSE] /\ UNCHANGED cleaned
  PROVE  ErrorsInv'
<1>1. CASE UNCHANGED <<locked, cleaned>>
  BY <1>1 DEF ErrorsInv, ErrorsProgress, SuccessMeansCleaned, Finished
<1>2. ASSUME NEW b \in Boards, LockBoard(b) PROVE ErrorsInv'
  <2>1. \A c \in Boards : /\ Finished(c) => Finished(c)'
                          /\ cleaned[c] = "none" => cleaned'[c] = "none"
    BY <1>2 DEF TypeOK, LockBoard, Finished
  <2>. QED BY <2>1 DEF TypeOK, ErrorsInv, ErrorsProgress, SuccessMeansCleaned, Finished
<1>3. ASSUME NEW b \in Boards, locked' = [locked EXCEPT ![b] = FALSE], UNCHANGED cleaned
      PROVE  ErrorsInv'
  BY <1>3 DEF TypeOK, ErrorsInv, ErrorsProgress, SuccessMeansCleaned, Finished
<1>. QED BY <1>1, <1>2, <1>3

LEMMA OwnErrors ==
  ASSUME TypeOK, ErrorsInv, ResetErrorsStep PROVE ErrorsInv'
<1>. USE BoardResetsAssumption
     DEF TypeOK, ErrorsInv, ErrorsProgress, SuccessMeansCleaned, Finished, Did
<1>1. CASE ClearBoard
  BY <1>1 DEF ClearBoard
<1>2. CASE RaiseErrorBits
  BY <1>2 DEF RaiseErrorBits
<1>3. CASE ClearAndUnlock
  BY <1>3 DEF ClearAndUnlock
<1>4. CASE BoardFails
  BY <1>4 DEF BoardFails
<1>5. CASE ClearReport
  <2>1. {"SUCCESS"} # {"ERROR"}
    OBVIOUS
  <2>. QED BY <1>5, <2>1 DEF ClearReport
<1>6. CASE ClearReportFails
  <2>1. {"SUCCESS"} # {"ERROR"}
    OBVIOUS
  <2>. QED BY <1>6, <2>1 DEF ClearReportFails
<1>. QED BY <1>1, <1>2, <1>3, <1>4, <1>5, <1>6 DEF ResetErrorsStep

LEMMA NextErrors == TypeOK /\ ErrorsInv /\ [NextResets]_resetVars => ErrorsInv'
<1>. SUFFICES ASSUME TypeOK, ErrorsInv, [NextResets]_resetVars PROVE ErrorsInv'
  OBVIOUS
<1>1. ASSUME NEW b \in Boards, NEW r \in Requests, Take(b, r) PROVE ErrorsInv'
  BY <1>1, OtherErrors DEF Take, electronics, resetErrors
<1>2. ASSUME NEW b \in Boards, ResetStep(b) PROVE ErrorsInv'
  <2>1. CASE Set(b) \/ SetFails(b)
    BY <1>2, <2>1, OtherErrors DEF Set, SetFails
  <2>2. CASE ClearFirst(b) \/ ClearFirstFails(b) \/ ClearLast(b) \/ ClearLastFails(b)
    BY <1>2, <2>2, OtherErrors DEF ClearFirst, ClearFirstFails, ClearLast, ClearLastFails, resetErrors
  <2>. QED BY <1>2, <2>1, <2>2 DEF ResetStep
<1>3. CASE TakeErrors
  BY <1>3, BoardResetsAssumption DEF TakeErrors, ErrorsInv, ErrorsProgress,
     SuccessMeansCleaned, Finished
<1>4. CASE Restart \/ OthersClearReport \/ UNCHANGED resetVars
  BY <1>4, OtherErrors DEF Restart, OthersClearReport, resetVars, electronics, resetErrors
<1>. QED BY <1>1, <1>2, <1>3, <1>4, OwnErrors DEF NextResets

-------------------------------------------------------------------------------
(* The bits *)

LEMMA ResetBitsDown ==
  ASSUME TypeOK, BitsComeDown, NEW b \in Boards, ResetStep(b) PROVE BitsComeDown'
<1>. USE DEF TypeOK, BitsComeDown, InReset, ClearBits, RaiseBits, ClearBroken, RaiseBroken,
       resetErrors
<1>1. CASE ClearFirst(b)
  BY <1>1 DEF ClearFirst
<1>2. CASE ClearFirstFails(b)
  BY <1>2 DEF ClearFirstFails
<1>3. CASE Set(b)
  BY <1>3 DEF Set
<1>4. CASE SetFails(b)
  BY <1>4 DEF SetFails
<1>5. CASE ClearLast(b)
  BY <1>5 DEF ClearLast
<1>6. CASE ClearLastFails(b)
  BY <1>6 DEF ClearLastFails
<1>. QED BY <1>1, <1>2, <1>3, <1>4, <1>5, <1>6 DEF ResetStep

LEMMA ErrorsBitsDown ==
  ASSUME TypeOK, BitsComeDown, ResetErrorsStep PROVE BitsComeDown'
<1>. USE DEF TypeOK, BitsComeDown, InReset, ClearBits, RaiseBits, RaiseBroken, reset
<1>1. CASE ClearBoard
  BY <1>1 DEF ClearBoard
<1>2. CASE RaiseErrorBits
  BY <1>2 DEF RaiseErrorBits
<1>3. CASE ClearAndUnlock
  BY <1>3 DEF ClearAndUnlock
<1>4. CASE BoardFails
  BY <1>4 DEF BoardFails
<1>5. CASE ClearReport \/ ClearReportFails
  BY <1>5 DEF ClearReport, ClearReportFails
<1>. QED BY <1>1, <1>2, <1>3, <1>4, <1>5 DEF ResetErrorsStep

LEMMA NextBits == TypeOK /\ BitsComeDown /\ [NextResets]_resetVars => BitsComeDown'
<1>. SUFFICES ASSUME TypeOK, BitsComeDown, [NextResets]_resetVars PROVE BitsComeDown'
  OBVIOUS
<1>1. ASSUME NEW b \in Boards, NEW r \in Requests, Take(b, r) PROVE BitsComeDown'
  BY <1>1 DEF TypeOK, BitsComeDown, InReset, Take, electronics, resetErrors
<1>2. CASE TakeErrors
  BY <1>2 DEF TypeOK, BitsComeDown, InReset, TakeErrors, electronics, reset
<1>3. CASE Restart \/ OthersClearReport \/ UNCHANGED resetVars
  BY <1>3 DEF BitsComeDown, InReset, Restart, OthersClearReport, resetVars, electronics, reset,
     resetErrors
<1>. QED BY <1>1, <1>2, <1>3, ResetBitsDown, ErrorsBitsDown DEF NextResets

-------------------------------------------------------------------------------
LEMMA ResetsIInv == ResetsSpec => []IInv
<1>1. IInv /\ [NextResets]_resetVars => IInv'
  BY NextType, NextReset, NextErrors, NextBits DEF IInv
<1>. QED BY <1>1, InitIInv, PTL DEF ResetsSpec

\* Beside BoardStatus, and with the electronics counting, the services for resets do what they
\* do by themselves.
THEOREM ResetsByThemselves == Spec => ResetsSpec
<1>1. Init => InitResets
  BY DEF Init
<1>2. [Next]_vars => [NextResets]_resetVars
  BY DEF Next, ResetsHappen, ElectronicsStep, MonitorStep, vars
<1>. QED BY <1>1, <1>2, PTL DEF Spec, ResetsSpec

\* The types of the state of the resets.
THEOREM ResetsTyped == Spec => []TypeOK
BY ResetsByThemselves, ResetsIInv, PTL DEF IInv

\* A reset bit that is up is about to be taken down, or a reported failure has left it: for
\* any number of boards, with RESET and RESET_ERRORS at the same bits on their own threads.
THEOREM BitsAlwaysComeDown == Spec => []BitsComeDown
BY ResetsByThemselves, ResetsIInv, PTL DEF IInv

\* SUCCESS alone from RESET means the whole pulse of the bit.
THEOREM SuccessOfReset == Spec => []SuccessMeansPulse
BY ResetsByThemselves, ResetsIInv, PTL DEF IInv, ResetInv

\* SUCCESS from RESET_ERRORS means that every board went through all three steps.
THEOREM SuccessOfResetErrors == Spec => []SuccessMeansCleaned
BY ResetsByThemselves, ResetsIInv, PTL DEF IInv, ErrorsInv

\* SUCCESS is only published for what was done, by either kind of service.
THEOREM SuccessAlwaysMeansDone == Spec => []SuccessMeansDone
BY SuccessOfReset, SuccessOfResetErrors, PTL DEF SuccessMeansDone

LEMMA NextReport ==
  ASSUME IInv, [NextResets]_resetVars, restarted, ~restarted', pcErr' # pcErr
  PROVE  pcErr = "report" /\ \A b \in Boards : cleaned[b] \in {"done", "lockedAgain"}
<1>1. pcErr = "report"
  BY DEF NextResets, Take, TakeErrors, Restart, OthersClearReport, resetErrors, ResetStep, ClearFirst, ClearFirstFails, Set,
    SetFails, ClearLast, ClearLastFails, ResetErrorsStep, ClearBoard, RaiseErrorBits,
    ClearAndUnlock, BoardFails, ClearReport, ClearReportFails, resetVars, electronics
<1>. QED BY <1>1 DEF IInv, ErrorsInv, ErrorsProgress, Finished

\* RESET_ERRORS takes back the report of a restart only when it has reset every board for its
\* request, while other services take it back whenever they like.
THEOREM ReportAlwaysComesLast == Spec => ReportComesLast
<1>1. IInv /\ [NextResets]_resetVars =>
        [restarted /\ ~restarted' /\ pcErr' # pcErr =>
           pcErr = "report" /\ \A b \in Boards : cleaned[b] \in {"done", "lockedAgain"}]_resetVars
  BY NextReport
<1>2. ResetsSpec => ReportComesLast
  BY <1>1, ResetsIInv, PTL DEF ResetsSpec, ReportComesLast
<1>. QED BY <1>2, ResetsByThemselves, PTL

-------------------------------------------------------------------------------
(* BoardStatus *)

Now == CountNow
Old == [value |-> oldCount, words |-> oldWords, era |-> oldEra]

\* Of two looks at the counter, the later one shows no more than was counted in between, on
\* top of the earlier one or from 0 on; exactly that if the counter was not taken back and had
\* room.
Later(a, b) ==
  /\ a.words <= b.words /\ a.era <= b.era
  /\ b.value <= a.value + (b.words - a.words)
  /\ b.value < a.value => b.value <= b.words - a.words
  /\ a.era = b.era /\ a.value + b.words - a.words < Wrap
       => b.value = a.value + (b.words - a.words)

LooksInOrder == Later(Old, stored) /\ Later(stored, Now) /\ Later(Old, Now)

\* After a cycle with rates the next interval is one cycle.
IntervalsCounted ==
  /\ step # "rest" => cycles >= 1
  /\ step = "rest" /\ cycles = 0 => age = 0
  /\ step = "status" /\ cycles = 1 => age = 1
  /\ step \in {"errors", "rates"} => age = 0 /\ (cycles = 1 => interval = 1)

\* A report that was there when the status was read is there, or was flushed.
ReportStillThere ==
  /\ step \in {"status", "errors"} => report = "none"
  /\ step = "errors" /\ ~emptyStored => fifo # "EMPTY" \/ flushed

MInv == MonitorTypeOK /\ LooksInOrder /\ IntervalsCounted /\ RatesAreTrue
        /\ ReportStillThere /\ ReportsAreTrue

\* What the resets and the electronics do to the counter and to the FIFO.
Outside ==
  \/ CountWord
  \/ \E code \in ErrorCodes \cup {"OTHER"} : ReportError(code)
  \/ \E counterHeld, reportsHeld \in BOOLEAN : HeldInReset(counterHeld, reportsHeld)

LEMMA NextSplits == [Next]_vars => Outside \/ BoardStatusStep \/ OtherReads \/ UNCHANGED monitorVars
<1>1. ASSUME Held PROVE Outside
  <2>. DEFINE h == CounterBit \in bits'[TCM]
              r == ReportBit \in bits'[TCM]
  <2>1. h \in BOOLEAN /\ r \in BOOLEAN
    OBVIOUS
  <2>2. HeldInReset(h, r)
    BY <1>1 DEF Held
  <2>. QED BY <2>1, <2>2 DEF Outside
<1>2. ElectronicsStep => Outside
  BY DEF ElectronicsStep, Outside
<1>. QED BY <1>1, <1>2 DEF Next, ResetsHappen, MonitorStep, vars

LEMMA InitMInv == InitMonitor => MInv
<1>. SUFFICES ASSUME InitMonitor PROVE MInv
  OBVIOUS
<1>. USE GbtMonitorAssumption DEF InitMonitor
<1>1. MonitorTypeOK
  <2>1. 0 \in 0 .. Wrap - 1
    OBVIOUS
  <2>2. rate \in [n : Nat, divisor : Nat, counted : Nat, cycles : Nat, steady : BOOLEAN]
    BY DEF NoRate
  <2>3. 2 \in 0 .. 2 /\ stored \in [value : 0 .. Wrap - 1, words : Nat, era : Nat]
    BY <2>1
  <2>. QED BY <2>1, <2>2, <2>3 DEF MonitorTypeOK
<1>2. LooksInOrder
  BY DEF LooksInOrder, Later, Now, Old, CountNow
<1>3. IntervalsCounted /\ RatesAreTrue /\ ReportStillThere /\ ReportsAreTrue
  BY DEF IntervalsCounted, RatesAreTrue, NoRate, ReportStillThere, ReportsAreTrue
<1>. QED BY <1>1, <1>2, <1>3 DEF MInv

LEMMA Wraps == ASSUME MonitorTypeOK
               PROVE  (count + 1) % Wrap = IF count + 1 = Wrap THEN 0 ELSE count + 1
BY GbtMonitorAssumption DEF MonitorTypeOK

LEMMA LaterTransfers ==
  ASSUME MonitorTypeOK, Outside \/ UNCHANGED counters,
         NEW a \in [value : 0 .. Wrap - 1, words : Nat, era : Nat], Later(a, Now)
  PROVE  Later(a, Now')
<1>. USE GbtMonitorAssumption DEF MonitorTypeOK, Later, Now, CountNow
<1>1. CASE CountWord
  BY <1>1, Wraps DEF CountWord
<1>2. ASSUME NEW h \in BOOLEAN, NEW r \in BOOLEAN, HeldInReset(h, r) PROVE Later(a, Now')
  BY <1>2 DEF HeldInReset
<1>3. CASE UNCHANGED counters
  BY <1>3 DEF counters
<1>. QED BY <1>1, <1>2, <1>3 DEF Outside, ReportError

LEMMA NowTyped == ASSUME MonitorTypeOK
                  PROVE  /\ Now \in [value : 0 .. Wrap - 1, words : Nat, era : Nat]
                         /\ Old \in [value : 0 .. Wrap - 1, words : Nat, era : Nat]
                         /\ Later(Now, Now) /\ Later(stored, stored)
BY GbtMonitorAssumption DEF MonitorTypeOK, Now, CountNow, Old, Later

LEMMA OutsideMInv == ASSUME MInv, Outside PROVE MInv'
<1>. USE DEF MInv
<1>1. MonitorTypeOK'
  <2>. USE GbtMonitorAssumption DEF MonitorTypeOK, errors, counters, ofRates, old
  <2>1. CASE CountWord
    BY <2>1, Wraps DEF CountWord
  <2>2. ASSUME NEW code \in ErrorCodes \cup {"OTHER"}, ReportError(code) PROVE MonitorTypeOK'
    BY <2>2 DEF ReportError
  <2>3. ASSUME NEW h \in BOOLEAN, NEW r \in BOOLEAN, HeldInReset(h, r) PROVE MonitorTypeOK'
    BY <2>3 DEF HeldInReset
  <2>. QED BY <2>1, <2>2, <2>3 DEF Outside
<1>2. Later(Old, Now') /\ Later(stored, Now')
  BY LaterTransfers, NowTyped DEF LooksInOrder, MonitorTypeOK
<1>3. UNCHANGED <<ofRates, stored, emptyStored, step, rate, report, taken>>
  BY DEF Outside, CountWord, ReportError, HeldInReset
<1>4. LooksInOrder'
  BY <1>2, <1>3 DEF LooksInOrder, Old, ofRates, old
<1>5. IntervalsCounted' /\ RatesAreTrue'
  BY <1>3 DEF IntervalsCounted, RatesAreTrue, ofRates
<1>6. ReportStillThere' /\ ReportsAreTrue'
  BY <1>3, GbtMonitorAssumption DEF ReportStillThere, ReportsAreTrue, Outside, CountWord,
     ReportError, HeldInReset, errors
<1>. QED BY <1>1, <1>4, <1>5, <1>6

LEMMA StatusType ==
  ASSUME MInv, BoardStatusStep, ~UpdateRates PROVE MonitorTypeOK'
<1>. USE GbtMonitorAssumption DEF MInv, MonitorTypeOK, counters, errors, ofRates, old
<1>1. CASE StatusRead
  BY <1>1 DEF StatusRead, TimePoint, CountNow
<1>2. CASE StatusLost
  BY <1>2 DEF StatusLost, TimePoint
<1>3. CASE NoErrors
  BY <1>3 DEF NoErrors
<1>4. CASE ReadReport
  BY <1>4 DEF ReadReport, parseFifoData
<1>5. CASE ReportLost
  BY <1>5 DEF ReportLost
<1>6. CASE Rest
  <2>1. rate' \in [n : Nat, divisor : Nat, counted : Nat, cycles : Nat, steady : BOOLEAN]
    BY <1>6 DEF Rest, NoRate
  <2>. QED BY <1>6, <2>1 DEF Rest
<1>. QED BY <1>1, <1>2, <1>3, <1>4, <1>5, <1>6 DEF BoardStatusStep

LEMMA StatusMInv ==
  ASSUME MInv, BoardStatusStep, ~UpdateRates PROVE MInv'
<1>. USE DEF MInv
<1>1. LooksInOrder'
  <2>1. CASE StatusRead
    BY <2>1, NowTyped DEF StatusRead, LooksInOrder, Old, Now, CountNow, counters, old
  <2>2. CASE ~StatusRead
    <3>1. UNCHANGED <<counters, old, stored>>
      BY <2>2 DEF BoardStatusStep, StatusLost, NoErrors, ReadReport, ReportLost, Rest, ofRates
    <3>. QED BY <3>1 DEF LooksInOrder, Old, Now, CountNow, counters, old
  <2>. QED BY <2>1, <2>2
<1>2. IntervalsCounted'
  BY DEF MonitorTypeOK, IntervalsCounted, BoardStatusStep, StatusRead, StatusLost, NoErrors,
    ReadReport, ReportLost, Rest, TimePoint, ofRates
<1>3. RatesAreTrue'
  BY DEF RatesAreTrue, BoardStatusStep, StatusRead, StatusLost, NoErrors, ReadReport, ReportLost,
    Rest, NoRate
<1>4. ReportStillThere' /\ ReportsAreTrue'
  BY GbtMonitorAssumption DEF MonitorTypeOK, ReportStillThere, ReportsAreTrue, parseFifoData,
    BoardStatusStep, StatusRead, StatusLost, NoErrors, ReadReport, ReportLost, Rest, errors
<1>. QED BY <1>1, <1>2, <1>3, <1>4, StatusType

LEMMA RatesMInv ==
  ASSUME MInv, UpdateRates PROVE MInv'
<1>. USE GbtMonitorAssumption DEF MInv
<1>1. stored \in [value : 0 .. Wrap - 1, words : Nat, era : Nat] /\ Later(Old, stored)
  BY DEF MonitorTypeOK, LooksInOrder
<1>2. LooksInOrder'
  <2>1. Old' = stored /\ stored' = stored /\ Now' = Now
    BY <1>1 DEF UpdateRates, Old, Now, CountNow, counters
  <2>. QED BY <2>1, NowTyped DEF LooksInOrder
<1>3. /\ rate' \in [n : Nat, divisor : Nat, counted : Nat, cycles : Nat, steady : BOOLEAN]
      /\ rate'.n <= rate'.counted
      /\ rate'.steady => rate'.n = rate'.counted
  <2>. DEFINE r == updateRate(stored.value)
              d == stored.words - oldWords
              still == stored.era = oldEra /\ oldCount + stored.words - oldWords < Wrap
  <2>1. rate' = [n |-> r.n, divisor |-> r.divisor, counted |-> d, cycles |-> cycles, steady |-> still]
    BY DEF UpdateRates
  <2>2. d \in Nat /\ still \in BOOLEAN /\ cycles \in Nat
    BY <1>1 DEF Later, Old, MonitorTypeOK
  <2>3. r.n \in Nat /\ r.divisor \in Nat
    BY <1>1 DEF updateRate, MonitorTypeOK
  <2>4. r.n <= d /\ (still => r.n = d)
    BY <1>1 DEF updateRate, Later, Old, MonitorTypeOK
  <2>. HIDE DEF r, d, still
  <2>. QED BY <2>1, <2>2, <2>3, <2>4
<1>4. rate'.steady /\ rate'.cycles = 1 => rate'.divisor = 1
  BY <1>1 DEF UpdateRates, updateRate, MonitorTypeOK, IntervalsCounted
<1>5. MonitorTypeOK'
  BY <1>1, <1>3 DEF UpdateRates, MonitorTypeOK, counters, errors
<1>6. IntervalsCounted'
  BY DEF UpdateRates, IntervalsCounted
<1>7. ReportStillThere' /\ ReportsAreTrue'
  BY DEF UpdateRates, ReportStillThere, ReportsAreTrue, errors
<1>. QED BY <1>2, <1>3, <1>4, <1>5, <1>6, <1>7 DEF RatesAreTrue

LEMMA OtherReadsMInv ==
  ASSUME MInv, OtherReads PROVE MInv'
<1>. USE DEF MInv
<1>1. stored' = Now /\ UNCHANGED <<counters, errors, ofRates, emptyStored, step, rate, report, taken>>
  BY DEF OtherReads, Now
<1>2. LooksInOrder'
  BY <1>1, NowTyped DEF LooksInOrder, Old, Now, CountNow, counters, ofRates, old
<1>3. MonitorTypeOK'
  BY <1>1, NowTyped DEF MonitorTypeOK, counters, errors, ofRates, old
<1>. QED BY <1>1, <1>2, <1>3 DEF IntervalsCounted, RatesAreTrue, ReportStillThere, ReportsAreTrue,
       ofRates, errors

LEMMA SpecMInv == Spec => []MInv
<1>1. Init => MInv
  BY InitMInv DEF Init
<1>2. ASSUME MInv, UNCHANGED monitorVars PROVE MInv'
  <2>1. UNCHANGED <<counters, errors, ofRates, stored, emptyStored, step, rate, report, taken>>
    BY <1>2 DEF monitorVars
  <2>. QED BY <1>2, <2>1 DEF MInv, MonitorTypeOK, LooksInOrder, Old, Now, CountNow,
         IntervalsCounted, RatesAreTrue, ReportStillThere, ReportsAreTrue, counters, errors,
         ofRates, old
<1>3. MInv /\ [Next]_vars => MInv'
  BY <1>2, NextSplits, OutsideMInv, StatusMInv, RatesMInv, OtherReadsMInv
<1>. QED BY <1>1, <1>3, PTL DEF Spec

\* The types of what BoardStatus keeps and publishes.
THEOREM MonitorTyped == Spec => []MonitorTypeOK
BY SpecMInv, PTL DEF MInv

\* For a counter of any width: no rate tells of words that were not counted, and a rate of a
\* counter that neither wrapped nor was reset tells of all of them, in the time they took.
THEOREM RatesAlwaysTrue == Spec => []RatesAreTrue
BY SpecMInv, PTL DEF MInv

\* A report that is published is the one that was made, or the FIFO was flushed in between.
THEOREM ReportsAlwaysTrue == Spec => []ReportsAreTrue
BY SpecMInv, PTL DEF MInv
================================================================================
