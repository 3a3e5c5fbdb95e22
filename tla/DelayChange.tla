------------------------------ MODULE DelayChange ------------------------------
(* Changes of the delays of the TCM by its two services that make them:            *)
(* SET_PHASE_DELAY and the configuration of the TCM (TcmConfigurations), which      *)
(* writes its other parameters as well.  The electronics move a delay to the value  *)
(* in its register by one unit per millisecond, and may report that the system was  *)
(* restarted as long as they do.  A service computes from the delays stored in the  *)
(* Board what has to be written and how long that takes, writes, sleeps, and clears  *)
(* the report.  A sequence is executed by the electronics in one step and its        *)
(* response is processed in another.                                                *)
EXTENDS Integers, FiniteSets, FiniteSetsExt

CONSTANTS
  Sides,       \* DELAY_A, DELAY_C
  Smallest, Largest,  \* minValue and maxValue
  Margin,      \* milliseconds added to every sleep (10)
  PmInit,      \* milliseconds PMs need after a change of the channel masks (10)
  CommFails,   \* may a sequence fail?
  MaxChanges   \* bound: requests to the services

ASSUME DelayAssumption ==
  /\ IsFiniteSet(Sides) /\ Sides # {}
  /\ Smallest \in Int /\ Largest \in Int /\ Smallest <= Largest
  /\ Margin \in Nat
  /\ PmInit \in Nat
  /\ CommFails \in BOOLEAN
  /\ MaxChanges \in Nat

Values == Smallest .. Largest
Unknown == Largest + 1     \* a delay the Board has not stored yet
Absent == Largest + 2      \* a delay the request does not name

SetPhaseDelay == "SET_PHASE_DELAY"
TcmConfigurations == "CONFIGURATIONS"
Services == {SetPhaseDelay, TcmConfigurations}

VARIABLES
  \* the electronics
  register,     \* the delays as written
  delay,        \* the delays as they are
  restarted,    \* BOARD_STATUS_SYSTEM_RESTARTED
  initLeft,     \* milliseconds until the PMs are initialised
  \* the Board
  stored,
  \* the services
  pc,
  new,          \* the delays of the request
  written,      \* those of them that are written
  difference,   \* delayDifference
  sleep,        \* milliseconds left to sleep
  \* history
  changes,
  disturbed,    \* what the service computed does not fit the electronics
  settled       \* the last change ended undisturbed, and nothing happened since

electronics == <<register, delay, restarted, initLeft>>
locals == <<new, written, difference>>
vars == <<electronics, stored, pc, locals, sleep, changes, disturbed, settled>>

NoDelays == [side \in Sides |-> Absent]
Named(delays) == {side \in Sides : delays[side] # Absent}

Init ==
  /\ register \in [Sides -> Values] /\ delay = register
  /\ restarted = FALSE /\ initLeft = 0
  /\ stored = [side \in Sides |-> Unknown]
  /\ pc = [s \in Services |-> "wait"]
  /\ new = [s \in Services |-> NoDelays] /\ written = [s \in Services |-> NoDelays]
  /\ difference = [s \in Services |-> 0] /\ sleep = [s \in Services |-> 0]
  /\ changes = 0 /\ disturbed = [s \in Services |-> FALSE] /\ settled = FALSE

Abs(n) == IF n < 0 THEN -n ELSE n
Larger(m, n) == IF m > n THEN m ELSE n
-------------------------------------------------------------------------------
(* DelayChange *)

\* How far a delay has to move: unknown delays may be anywhere.
getDelayDifference_NoRange(side, newDelay) ==
  IF newDelay = Absent \/ stored[side] = Unknown THEN 0 ELSE Abs(stored[side] - newDelay)

getDelayDifference(side, newDelay) ==
  IF newDelay = Absent THEN 0
  ELSE IF stored[side] = Unknown THEN Larger(Abs(Smallest - newDelay), Abs(Largest - newDelay))
  ELSE Abs(stored[side] - newDelay)

\* The longest way of any of the delays.
delayDifference(delays) == Max({getDelayDifference(side, delays[side]) : side \in Sides})

\* Only delays that change are written.
ToWrite(delays) ==
  [side \in Sides |-> IF getDelayDifference(side, delays[side]) # 0
                        THEN delays[side] ELSE Absent]

With(values, delays) ==
  [side \in Sides |-> IF delays[side] # Absent THEN delays[side] ELSE values[side]]

\* Are the electronics at rest, and does the Board know the delays named?
FitsElectronics(delays) ==
  /\ delay = register /\ initLeft = 0
  /\ \A side \in Named(delays) : stored[side] \in {Unknown, register[side]}

\* A service takes a request.  If nothing changes SET_PHASE_DELAY is done with it,
\* without an answer, and a configuration goes on with its other parameters.
Request(s, delays) ==
  /\ pc[s] = "wait"
  /\ changes < MaxChanges /\ changes' = changes + 1
  /\ new' = [new EXCEPT ![s] = delays]
  /\ written' = [written EXCEPT ![s] = ToWrite(delays)]
  /\ difference' = [difference EXCEPT ![s] = delayDifference(delays)]
  /\ disturbed' = [disturbed EXCEPT ![s] = ~FitsElectronics(delays)]
  /\ settled' = FALSE
  /\ pc' = [pc EXCEPT ![s] = CASE delayDifference(delays) # 0 -> "write"
                               [] delayDifference(delays) = 0 /\ s = SetPhaseDelay -> "wait"
                               [] delayDifference(delays) = 0 /\ s # SetPhaseDelay -> "data"]
  /\ UNCHANGED <<electronics, stored, sleep>>

\* An error ends the request.
Fail(s) == pc' = [pc EXCEPT ![s] = "wait"]

\* What a service writes disturbs the other.
Disturb(s) ==
  disturbed' = [o \in Services |-> disturbed[o] \/ (o # s /\ pc[o] # "wait")]

\* apply: the electronics execute the sequence, or it fails before or after that.
Write(s) ==
  /\ pc[s] = "write"
  /\ \/ /\ register' = With(register, written[s])
        /\ pc' = [pc EXCEPT ![s] = "store"]
     \/ /\ CommFails
        /\ register' \in {register, With(register, written[s])}
        /\ Fail(s)
  /\ Disturb(s)
  /\ UNCHANGED <<delay, restarted, initLeft, stored, locals, sleep, changes, settled>>

\* apply: how long the sleep lasts.
SleepTime_NoMove(s) == Margin
SleepTime(s) == difference[s] + Margin

\* apply: the response stores the delays that were read back, and the sleep begins.
Store(s) ==
  /\ pc[s] = "store"
  /\ stored' = With(stored, written[s])
  /\ sleep' = [sleep EXCEPT ![s] = SleepTime(s)]
  /\ pc' = [pc EXCEPT ![s] = "sleep"]
  /\ UNCHANGED <<electronics, locals, changes, disturbed, settled>>

\* The sleep is over: SET_PHASE_DELAY clears the report, a configuration leaves that
\* for later.
Awake(s) ==
  /\ pc[s] = "sleep"
  /\ sleep[s] = 0
  /\ pc' = [pc EXCEPT ![s] = IF s = SetPhaseDelay THEN "clear" ELSE "data"]
  /\ UNCHANGED <<electronics, stored, locals, sleep, changes, disturbed, settled>>

\* The report is cleared, and the request answered whether that worked or not.
Clear(s) ==
  /\ pc[s] = "clear"
  /\ \/ /\ restarted' = FALSE
        /\ settled' = (~disturbed[s] /\ \A o \in Services \ {s} : pc[o] = "wait")
     \/ /\ CommFails
        /\ UNCHANGED <<restarted, settled>>
  /\ pc' = [pc EXCEPT ![s] = "wait"]
  /\ UNCHANGED <<register, delay, initLeft, stored, locals, sleep, changes, disturbed>>
-------------------------------------------------------------------------------
(* TcmConfigurations *)

\* How long the service gives the PMs.
InitTime_None == 0
InitTime == PmInit

\* The other parameters, the channel masks possibly among them, are written.
WriteData(s) ==
  /\ pc[s] = "data"
  /\ \/ /\ initLeft' \in {initLeft, PmInit}
        /\ sleep' = [sleep EXCEPT ![s] = InitTime]
        /\ pc' = [pc EXCEPT ![s] = "initialize"]
     \/ /\ CommFails
        /\ initLeft' \in {initLeft, PmInit}
        /\ Fail(s)
        /\ UNCHANGED sleep
  /\ Disturb(s)
  /\ UNCHANGED <<register, delay, restarted, stored, locals, changes, settled>>

\* handleResetErrors follows.
Initialized(s) ==
  /\ pc[s] = "initialize"
  /\ sleep[s] = 0
  /\ pc' = [pc EXCEPT ![s] = "clear"]
  /\ UNCHANGED <<electronics, stored, locals, sleep, changes, disturbed, settled>>
-------------------------------------------------------------------------------
(* Time *)

Toward(from, to) == IF from < to THEN from + 1 ELSE IF from > to THEN from - 1 ELSE from

OneLess(n) == IF n = 0 THEN 0 ELSE n - 1

\* A millisecond passes.
Tick ==
  /\ delay' = [side \in Sides |-> Toward(delay[side], register[side])]
  /\ initLeft' = OneLess(initLeft)
  /\ sleep' = [s \in Services |-> OneLess(sleep[s])]
  /\ restarted' \in {restarted, restarted \/ delay # register \/ initLeft # 0}
  /\ UNCHANGED <<register, stored, pc, locals, changes, disturbed, settled>>

ServiceStep(s) ==
  Write(s) \/ Store(s) \/ Awake(s) \/ Clear(s) \/ WriteData(s) \/ Initialized(s)

\* What requests may name: SET_PHASE_DELAY at least one delay, a configuration any.
Delays(s) ==
  {delays \in [Sides -> Values \cup {Absent}] : s = SetPhaseDelay => Named(delays) # {}}

Next ==
  \/ \E s \in Services : \E delays \in Delays(s) : Request(s, delays)
  \/ \E s \in Services : ServiceStep(s)
  \/ Tick

Spec == Init /\ [][Next]_vars
-------------------------------------------------------------------------------
(* Properties *)

\* The types of the variables.
TypeOK ==
  /\ register \in [Sides -> Values] /\ delay \in [Sides -> Values]
  /\ restarted \in BOOLEAN /\ initLeft \in 0 .. PmInit
  /\ stored \in [Sides -> Values \cup {Unknown}]
  /\ pc \in [Services -> {"wait", "write", "store", "sleep", "clear", "data", "initialize"}]
  /\ new \in [Services -> [Sides -> Values \cup {Absent}]]
  /\ written \in [Services -> [Sides -> Values \cup {Absent}]]
  /\ difference \in [Services -> 0 .. Largest - Smallest]
  /\ sleep \in [Services -> Nat]
  /\ changes \in 0 .. MaxChanges
  /\ disturbed \in [Services -> BOOLEAN] /\ settled \in BOOLEAN

\* A delay change that nobody disturbs leaves the delays it names where it was asked to
\* put them by the time the service wakes up: the difference it computed, from what
\* the Board stores or from the whole range, was enough, and what it did not write was
\* there already.
UndisturbedChangeArrives ==
  \A s \in Services : (pc[s] \in {"clear", "data"} /\ ~disturbed[s]) =>
    \A side \in Named(new[s]) : register[side] = new[s][side] /\ delay[side] = new[s][side]

\* The report stays cleared after a change that nobody disturbed: neither the delays nor
\* the PMs are still busy with it.
ReportStaysCleared == settled => ~restarted
===============================================================================
