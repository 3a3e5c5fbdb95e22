-------------------------- MODULE DelayChange_proofs --------------------------
(* A change of the delays that nobody disturbs arrives, and the report it clears  *)
(* stays cleared: for any range of delays, any margin and time of the PMs, any    *)
(* number of changes, and sequences that fail anywhere.                           *)
EXTENDS DelayChange, TLAPS, WellFoundedInduction

Less == {p \in Nat \X Nat : p[1] < p[2]}

LEMMA LessIsWellFounded == IsWellFoundedOn(Less, Nat)
BY NatLessThanWellFounded DEF OpToRel, Less

LEMMA LeastNumber ==
  ASSUME NEW T \in SUBSET Nat, T # {} PROVE \E x \in T : \A y \in T : x <= y
<1>1. PICK x \in T : \A y \in T : <<y, x>> \notin Less
  BY LessIsWellFounded, WFMin
<1>2. ASSUME NEW y \in T PROVE x <= y
  <2>1. <<y, x>> \in Nat \X Nat /\ ~(<<y, x>>[1] < <<y, x>>[2])
    BY <1>1 DEF Less
  <2>. QED BY <2>1
<1>. QED BY <1>2

\* The greatest of some differences is there, and no less than any of them.
LEMMA MaxOfDifferences ==
  ASSUME NEW n \in Nat, NEW S \in SUBSET (0 .. n), S # {}
  PROVE  Max(S) \in S /\ \A d \in S : d <= Max(S)
<1>. DEFINE Room == {r \in Nat : n - r \in S}
<1>1. Room # {}
  <2>1. PICK d \in S : TRUE
    OBVIOUS
  <2>2. n - d \in Nat /\ n - (n - d) = d
    OBVIOUS
  <2>. QED BY <2>2
<1>2. PICK r \in Room : \A q \in Room : r <= q
  <2>. HIDE DEF Room
  <2>1. Room \subseteq Nat
    BY DEF Room
  <2>. QED BY <1>1, <2>1, LeastNumber
<1>3. ASSUME NEW e \in S PROVE n - r >= e
  <2>1. n - e \in Nat /\ n - (n - e) = e
    OBVIOUS
  <2>2. n - e \in Room
    BY <2>1
  <2>. QED BY <1>2, <2>1, <2>2
<1>. QED BY <1>2, <1>3 DEF Max
-------------------------------------------------------------------------------
(* What a service computes from what the Board stores *)

Request0 == [Sides -> Values \cup {Absent}]

LEMMA DifferenceType ==
  ASSUME TypeOK, NEW side \in Sides, NEW d \in Values \cup {Absent}
  PROVE  getDelayDifference(side, d) \in 0 .. Largest - Smallest
<1>1. /\ stored[side] \in Values \cup {Unknown}
      /\ Largest - Smallest \in Nat
  BY DelayAssumption DEF TypeOK
<1>. QED BY <1>1, DelayAssumption
       DEF getDelayDifference, Values, Unknown, Absent, Larger, Abs

\* The difference is that of one of the delays, and covers all of them.
LEMMA DifferenceCovers ==
  ASSUME TypeOK, NEW delays \in Request0
  PROVE  /\ delayDifference(delays) \in 0 .. Largest - Smallest
         /\ \A side \in Sides :
              getDelayDifference(side, delays[side]) <= delayDifference(delays)
<1>. DEFINE S == {getDelayDifference(side, delays[side]) : side \in Sides}
<1>1. S \subseteq 0 .. Largest - Smallest /\ S # {}
  <2>1. \A side \in Sides : delays[side] \in Values \cup {Absent}
    BY DEF Request0
  <2>. QED BY <2>1, DifferenceType, DelayAssumption
<1>2. Largest - Smallest \in Nat
  BY DelayAssumption
<1>3. Max(S) \in S /\ \A d \in S : d <= Max(S)
  BY <1>1, <1>2, MaxOfDifferences
<1>. QED BY <1>1, <1>3 DEF delayDifference

\* If the Board knows the delays, the way from a register to what is asked for is no
\* longer than the difference; without a difference it is there.
LEMMA DifferenceIsWay ==
  ASSUME TypeOK, NEW side \in Sides, NEW d \in Values, stored[side] \in {Unknown, register[side]}
  PROVE  Abs(register[side] - d) <= getDelayDifference(side, d)
<1>1. register[side] \in Values
  BY DEF TypeOK
<1>. QED BY <1>1, DelayAssumption
       DEF getDelayDifference, Values, Unknown, Absent, Larger, Abs
-------------------------------------------------------------------------------
(* Types *)

LEMMA WithType ==
  ASSUME NEW T, Values \subseteq T, NEW values \in [Sides -> T], NEW delays \in Request0
  PROVE  With(values, delays) \in [Sides -> T]
BY DEF With, Request0

LEMMA InitType == Init => TypeOK
<1>. SUFFICES ASSUME Init PROVE TypeOK
  OBVIOUS
<1>1. 0 \in 0 .. Largest - Smallest /\ 0 \in 0 .. MaxChanges /\ 0 \in 0 .. PmInit
  BY DelayAssumption
<1>2. NoDelays \in Request0
  BY DEF NoDelays, Request0
<1>. QED BY <1>1, <1>2 DEF Init, TypeOK, Request0

LEMMA RequestType ==
  ASSUME TypeOK, NEW s \in Services, NEW delays \in Delays(s), Request(s, delays) PROVE TypeOK'
<1>1. delays \in Request0
  BY DEF Delays, Request0
<1>2. ToWrite(delays) \in Request0
  BY <1>1 DEF ToWrite, Request0
<1>3. delayDifference(delays) \in 0 .. Largest - Smallest
  BY <1>1, DifferenceCovers
<1>4. FitsElectronics(delays) \in BOOLEAN
  BY DEF FitsElectronics
<1>5. changes' \in 0 .. MaxChanges
  BY DelayAssumption DEF TypeOK, Request
<1>6. pc' \in [Services -> {"wait", "write", "store", "sleep", "clear", "data", "initialize"}]
  BY DEF TypeOK, Request
<1>. QED BY <1>1, <1>2, <1>3, <1>4, <1>5, <1>6 DEF TypeOK, Request, Request0, electronics

LEMMA ServiceType ==
  ASSUME TypeOK, NEW s \in Services, ServiceStep(s) PROVE TypeOK'
<1>. USE DEF TypeOK, electronics, locals, Disturb, Fail
<1>1. CASE Write(s)
  <2>1. written[s] \in Request0
    BY DEF Request0
  <2>2. With(register, written[s]) \in [Sides -> Values]
    BY <2>1, WithType
  <2>. QED BY <1>1, <2>2 DEF Write
<1>2. CASE Store(s)
  <2>1. written[s] \in Request0
    BY DEF Request0
  <2>2. With(stored, written[s]) \in [Sides -> Values \cup {Unknown}]
    BY <2>1, WithType
  <2>3. SleepTime(s) \in Nat
    BY DelayAssumption DEF SleepTime
  <2>. QED BY <1>2, <2>2, <2>3 DEF Store
<1>3. CASE Awake(s)
  BY <1>3 DEF Awake
<1>4. CASE Clear(s)
  BY <1>4 DEF Clear
<1>5. CASE WriteData(s)
  <2>1. PmInit \in Nat /\ PmInit \in 0 .. PmInit
    BY DelayAssumption
  <2>2. sleep' \in [Services -> Nat] /\ initLeft' \in 0 .. PmInit
    BY <1>5, <2>1 DEF WriteData, InitTime
  <2>. QED BY <1>5, <2>2 DEF WriteData
<1>6. CASE Initialized(s)
  BY <1>6 DEF Initialized
<1>. QED BY <1>1, <1>2, <1>3, <1>4, <1>5, <1>6 DEF ServiceStep

LEMMA TickType == ASSUME TypeOK, Tick PROVE TypeOK'
<1>1. \A x, y \in Values : Toward(x, y) \in Values
  BY DelayAssumption DEF Toward, Values
<1>2. delay' \in [Sides -> Values]
  BY <1>1 DEF TypeOK, Tick
<1>3. initLeft' \in 0 .. PmInit /\ sleep' \in [Services -> Nat]
  <2>1. \A n \in Nat : OneLess(n) \in Nat /\ (n <= PmInit => OneLess(n) <= PmInit)
    BY DelayAssumption DEF OneLess
  <2>2. initLeft \in Nat /\ initLeft <= PmInit /\ PmInit \in Nat
    BY DelayAssumption DEF TypeOK
  <2>. QED BY <2>1, <2>2 DEF TypeOK, Tick
<1>. QED BY <1>2, <1>3 DEF TypeOK, Tick, locals

LEMMA NextType == TypeOK /\ [Next]_vars => TypeOK'
<1>. SUFFICES ASSUME TypeOK, [Next]_vars PROVE TypeOK'
  OBVIOUS
<1>1. CASE UNCHANGED vars
  BY <1>1 DEF TypeOK, vars, electronics, locals
<1>. QED BY <1>1, RequestType, ServiceType, TickType DEF Next
-------------------------------------------------------------------------------
(* The invariant: what is left of the change of a service that is not disturbed *)

Quiet == delay = register /\ initLeft = 0
Arrived(s) == \A side \in Named(new[s]) : register[side] = new[s][side]
Within(n) == \A side \in Sides : Abs(register[side] - delay[side]) <= n

\* What will be written makes the registers what was asked for, and the difference is enough.
Prepared(s) ==
  /\ \A side \in Sides : written[s][side] \in {new[s][side], Absent}
  /\ \A side \in Named(new[s]) : written[s][side] = Absent => register[side] = new[s][side]
  /\ \A side \in Named(new[s]) : Abs(register[side] - new[s][side]) <= difference[s]

OnItsWay(s) ==
  /\ pc[s] = "write" => Quiet /\ Prepared(s)
  /\ pc[s] = "store" => Arrived(s) /\ Within(difference[s]) /\ initLeft = 0
  /\ pc[s] = "sleep" => Arrived(s) /\ Within(sleep[s]) /\ initLeft = 0
  /\ pc[s] \in {"data", "clear"} => Arrived(s) /\ Quiet
  /\ pc[s] = "initialize" => Arrived(s) /\ delay = register /\ initLeft <= sleep[s]

ChangesArrive == \A s \in Services : ~disturbed[s] => OnItsWay(s)
Settled == settled => Quiet /\ ~restarted /\ \A s \in Services : pc[s] = "wait"
IInv == TypeOK /\ ChangesArrive /\ Settled

LEMMA InitIInv == Init => IInv
BY InitType DEF Init, IInv, ChangesArrive, OnItsWay, Settled

\* What one service does leaves the change of the other on its way, or disturbs it.
LEMMA OtherKeeps ==
  ASSUME NEW s \in Services, OnItsWay(s),
         UNCHANGED <<register, delay, initLeft, new[s], written[s], difference[s], pc[s], sleep[s]>>
  PROVE  OnItsWay(s)'
BY DEF OnItsWay, Quiet, Arrived, Within, Prepared, Named

LEMMA RequestArrives ==
  ASSUME TypeOK, ChangesArrive, NEW s \in Services, NEW delays \in Delays(s), Request(s, delays)
  PROVE  ChangesArrive'
<1>1. ASSUME NEW o \in Services, o # s, ~disturbed'[o] PROVE OnItsWay(o)'
  BY <1>1, OtherKeeps DEF TypeOK, ChangesArrive, Request, electronics
<1>2. ASSUME ~disturbed'[s] PROVE OnItsWay(s)'
  <2>1. /\ delay = register /\ initLeft = 0
        /\ \A side \in Named(delays) : stored[side] \in {Unknown, register[side]}
    BY <1>2 DEF TypeOK, Request, FitsElectronics
  <2>2. delays \in Request0
    BY DEF Delays, Request0
  <2>3. ASSUME NEW side \in Named(delays)
        PROVE  /\ Abs(register[side] - delays[side]) <= delayDifference(delays)
               /\ getDelayDifference(side, delays[side]) = 0 => register[side] = delays[side]
    <3>1. side \in Sides /\ delays[side] \in Values /\ register[side] \in Values
      BY <2>2 DEF Named, Request0, TypeOK
    <3>2. Abs(register[side] - delays[side]) <= getDelayDifference(side, delays[side])
      BY <2>1, <3>1, DifferenceIsWay
    <3>3. /\ getDelayDifference(side, delays[side]) <= delayDifference(delays)
          /\ delayDifference(delays) \in Nat
      BY <2>2, <3>1, DifferenceCovers
    <3>4. getDelayDifference(side, delays[side]) \in Nat
      BY <3>1, DifferenceType
    <3>5. register[side] - delays[side] \in Int
      BY <3>1, DelayAssumption DEF Values
    <3>6. Abs(register[side] - delays[side]) \in Nat
      BY <3>5 DEF Abs
    <3>7. Abs(register[side] - delays[side]) <= 0 => register[side] = delays[side]
      BY <3>1, DelayAssumption DEF Abs, Values
    <3>. QED BY <3>2, <3>3, <3>4, <3>6, <3>7
  <2>4. delayDifference(delays) = 0 => \A side \in Named(delays) : register[side] = delays[side]
    <3>1. ASSUME delayDifference(delays) = 0, NEW side \in Named(delays)
          PROVE  getDelayDifference(side, delays[side]) = 0
      <4>1. side \in Sides /\ delays[side] \in Values \cup {Absent}
        BY <2>2 DEF Named, Request0
      <4>. QED BY <2>2, <3>1, <4>1, DifferenceCovers, DifferenceType
    <3>. QED BY <2>3, <3>1
  <2>5. new'[s] = delays /\ written'[s] = ToWrite(delays) /\ difference'[s] = delayDifference(delays)
    BY DEF TypeOK, Request
  <2>6. UNCHANGED <<register, delay, initLeft>>
    BY DEF Request, electronics
  <2>7. \A side \in Sides : ToWrite(delays)[side] \in {delays[side], Absent}
    BY DEF ToWrite
  <2>8. \A side \in Named(delays) : ToWrite(delays)[side] = Absent => register[side] = delays[side]
    BY <2>3 DEF ToWrite, Named
  <2>9. Prepared(s)'
    BY <2>3, <2>5, <2>6, <2>7, <2>8 DEF Prepared, Named
  <2>10. \/ pc'[s] = "write"
         \/ pc'[s] \in {"wait", "data"} /\ delayDifference(delays) = 0
    BY DEF TypeOK, Request
  <2>11. delayDifference(delays) = 0 => Arrived(s)'
    BY <2>4, <2>5, <2>6 DEF Arrived, Named
  <2>. QED BY <2>1, <2>6, <2>9, <2>10, <2>11 DEF OnItsWay, Quiet
<1>. QED BY <1>1, <1>2 DEF ChangesArrive

LEMMA WriteArrives ==
  ASSUME TypeOK, ChangesArrive, NEW s \in Services, Write(s) PROVE ChangesArrive'
<1>1. ASSUME NEW o \in Services, o # s, ~disturbed'[o] PROVE OnItsWay(o)'
  <2>1. pc[o] = "wait"
    BY <1>1 DEF TypeOK, Write, Disturb
  <2>2. pc'[o] = pc[o]
    BY <1>1 DEF TypeOK, Write, Fail
  <2>. QED BY <2>1, <2>2 DEF OnItsWay
<1>2. ASSUME ~disturbed'[s] PROVE OnItsWay(s)'
  <2>1. Quiet /\ Prepared(s)
    BY <1>2 DEF TypeOK, ChangesArrive, OnItsWay, Write, Disturb
  <2>2. CASE pc'[s] = "wait"
    BY <2>2 DEF OnItsWay
  <2>3. CASE register' = With(register, written[s]) /\ pc' = [pc EXCEPT ![s] = "store"]
    <3>1. pc'[s] = "store"
      BY <2>3 DEF TypeOK
    <3>2. UNCHANGED <<new, difference, delay, initLeft>>
      BY DEF Write, locals
    <3>3. Arrived(s)'
      BY <2>1, <2>3, <3>2 DEF Arrived, Prepared, With, Named
    <3>4. ASSUME NEW side \in Sides
          PROVE  Abs(register'[side] - delay'[side]) <= difference'[s]
      <4>1. delay[side] = register[side] /\ register[side] \in Values /\ difference[s] \in Nat
        BY <2>1, DelayAssumption DEF Quiet, TypeOK
      <4>2. CASE written[s][side] = Absent
        BY <2>3, <3>2, <4>1, <4>2, DelayAssumption DEF With, Abs, Values
      <4>3. CASE written[s][side] # Absent
        <5>1. register'[side] = new[s][side] /\ new[s][side] \in Values
          BY <2>1, <2>3, <4>3 DEF With, Prepared, TypeOK
        <5>2. Abs(register[side] - new[s][side]) <= difference[s]
          BY <2>1, <4>3 DEF Prepared, Named
        <5>. QED BY <3>2, <4>1, <5>1, <5>2, DelayAssumption DEF Abs, Values
      <4>. QED BY <4>2, <4>3
    <3>. QED BY <2>1, <3>1, <3>2, <3>3, <3>4 DEF OnItsWay, Within, Quiet
  <2>. QED BY <2>2, <2>3 DEF TypeOK, Write, Fail
<1>. QED BY <1>1, <1>2 DEF ChangesArrive

LEMMA ServiceArrives ==
  ASSUME TypeOK, ChangesArrive, NEW s \in Services, ServiceStep(s) PROVE ChangesArrive'
<1>1. CASE Write(s)
  BY <1>1, WriteArrives
<1>2. CASE WriteData(s)
  <2>1. ASSUME NEW o \in Services, o # s, ~disturbed'[o] PROVE OnItsWay(o)'
    <3>1. pc[o] = "wait" /\ pc'[o] = pc[o]
      BY <1>2, <2>1 DEF TypeOK, WriteData, Disturb, Fail
    <3>. QED BY <3>1 DEF OnItsWay
  <2>2. ASSUME ~disturbed'[s] PROVE OnItsWay(s)'
    <3>1. Quiet /\ Arrived(s)
      BY <1>2, <2>2 DEF TypeOK, ChangesArrive, OnItsWay, WriteData, Disturb
    <3>2. Arrived(s)' /\ UNCHANGED <<delay, register>>
      BY <1>2, <3>1 DEF Arrived, Named, WriteData, locals
    <3>3. \/ pc'[s] = "wait"
          \/ pc'[s] = "initialize" /\ sleep'[s] = PmInit /\ initLeft' \in {0, PmInit}
      BY <1>2, <3>1 DEF TypeOK, WriteData, Fail, InitTime, Quiet
    <3>. QED BY <3>1, <3>2, <3>3, DelayAssumption DEF OnItsWay, Quiet
  <2>. QED BY <2>1, <2>2 DEF ChangesArrive
<1>3. CASE Store(s)
  <2>1. ASSUME NEW o \in Services, o # s, ~disturbed'[o] PROVE OnItsWay(o)'
    BY <1>3, <2>1, OtherKeeps DEF TypeOK, ChangesArrive, Store, electronics, locals
  <2>2. ASSUME ~disturbed'[s] PROVE OnItsWay(s)'
    <3>1. Arrived(s) /\ Within(difference[s]) /\ initLeft = 0
      BY <1>3, <2>2 DEF ChangesArrive, OnItsWay, Store
    <3>2. pc'[s] = "sleep" /\ sleep'[s] = difference[s] + Margin
      BY <1>3 DEF TypeOK, Store, SleepTime
    <3>3. UNCHANGED <<register, delay, initLeft, new>>
      BY <1>3 DEF Store, electronics, locals
    <3>4. Within(sleep'[s])
      <4>1. difference[s] \in Nat /\ Margin \in Nat
        BY DelayAssumption DEF TypeOK
      <4>2. \A side \in Sides : Abs(register[side] - delay[side]) \in Int
        BY DelayAssumption DEF TypeOK, Values, Abs
      <4>. QED BY <3>1, <3>2, <4>1, <4>2 DEF Within
    <3>. QED BY <3>1, <3>2, <3>3, <3>4 DEF OnItsWay, Arrived, Within, Named
  <2>. QED BY <2>1, <2>2 DEF ChangesArrive
<1>4. CASE Awake(s)
  <2>1. ASSUME NEW o \in Services, o # s, ~disturbed'[o] PROVE OnItsWay(o)'
    BY <1>4, <2>1, OtherKeeps DEF TypeOK, ChangesArrive, Awake, electronics, locals
  <2>2. ASSUME ~disturbed'[s] PROVE OnItsWay(s)'
    <3>1. Arrived(s) /\ Within(0) /\ initLeft = 0
      BY <1>4, <2>2 DEF ChangesArrive, OnItsWay, Awake
    <3>2. delay = register
      <4>1. \A side \in Sides : delay[side] = register[side]
        <5>1. \A x, y \in Int : Abs(x - y) <= 0 => y = x
          BY DEF Abs
        <5>2. \A side \in Sides : register[side] \in Int /\ delay[side] \in Int
          BY DelayAssumption DEF TypeOK, Values
        <5>. QED BY <3>1, <5>1, <5>2 DEF Within
      <4>. QED BY <4>1 DEF TypeOK
    <3>3. pc'[s] \in {"clear", "data"} /\ UNCHANGED <<register, delay, initLeft, new>>
      BY <1>4 DEF TypeOK, Awake, electronics, locals
    <3>. QED BY <3>1, <3>2, <3>3 DEF OnItsWay, Arrived, Quiet, Named
  <2>. QED BY <2>1, <2>2 DEF ChangesArrive
<1>5. CASE Clear(s)
  <2>1. ASSUME NEW o \in Services, o # s, ~disturbed'[o] PROVE OnItsWay(o)'
    BY <1>5, <2>1, OtherKeeps DEF TypeOK, ChangesArrive, Clear, locals
  <2>2. pc'[s] = "wait"
    BY <1>5 DEF TypeOK, Clear
  <2>. QED BY <2>1, <2>2 DEF ChangesArrive, OnItsWay
<1>6. CASE Initialized(s)
  <2>1. ASSUME NEW o \in Services, o # s, ~disturbed'[o] PROVE OnItsWay(o)'
    BY <1>6, <2>1, OtherKeeps DEF TypeOK, ChangesArrive, Initialized, electronics, locals
  <2>2. ASSUME ~disturbed'[s] PROVE OnItsWay(s)'
    <3>1. Arrived(s) /\ delay = register /\ initLeft <= 0
      BY <1>6, <2>2 DEF ChangesArrive, OnItsWay, Initialized
    <3>2. initLeft = 0
      BY <3>1, DelayAssumption DEF TypeOK
    <3>3. pc'[s] = "clear" /\ UNCHANGED <<register, delay, initLeft, new>>
      BY <1>6 DEF TypeOK, Initialized, electronics, locals
    <3>. QED BY <3>1, <3>2, <3>3 DEF OnItsWay, Arrived, Quiet, Named
  <2>. QED BY <2>1, <2>2 DEF ChangesArrive
<1>. QED BY <1>1, <1>2, <1>3, <1>4, <1>5, <1>6 DEF ServiceStep

\* A millisecond takes as much from the way as from the sleep.
LEMMA TickCloser ==
  ASSUME TypeOK, Tick, NEW side \in Sides, NEW n \in Nat, Abs(register[side] - delay[side]) <= n
  PROVE  Abs(register'[side] - delay'[side]) <= OneLess(n) /\ Abs(register'[side] - delay'[side]) <= n
<1>1. register[side] \in Int /\ delay[side] \in Int
  BY DelayAssumption DEF TypeOK, Values
<1>2. register'[side] = register[side] /\ delay'[side] = Toward(delay[side], register[side])
  BY DEF Tick
<1>. QED BY <1>1, <1>2 DEF Toward, Abs, OneLess

LEMMA TickArrives == ASSUME TypeOK, ChangesArrive, Tick PROVE ChangesArrive'
<1>. SUFFICES ASSUME NEW s \in Services, ~disturbed'[s] PROVE OnItsWay(s)'
  BY DEF ChangesArrive
<1>1. UNCHANGED <<register, pc, new, written, difference>>
  BY DEF Tick, locals
<1>2. OnItsWay(s) /\ (Arrived(s) => Arrived(s)') /\ (Prepared(s) => Prepared(s)')
  BY <1>1 DEF Tick, ChangesArrive, Arrived, Prepared, Named
<1>3. delay = register => delay' = register'
  <2>. SUFFICES ASSUME delay = register PROVE delay' = register
    BY <1>1
  <2>1. \A side \in Sides : Toward(delay[side], register[side]) = register[side]
    BY DelayAssumption DEF TypeOK, Values, Toward
  <2>. QED BY <2>1 DEF Tick, TypeOK
<1>4. initLeft = 0 => initLeft' = 0
  BY DEF Tick, OneLess
<1>5. Within(difference[s]) => Within(difference[s])'
  <2>1. difference[s] \in Nat
    BY DelayAssumption DEF TypeOK
  <2>. QED BY <1>1, <2>1, TickCloser DEF Within
<1>6. sleep[s] \in Nat /\ sleep'[s] = OneLess(sleep[s])
  BY DEF TypeOK, Tick
<1>7. Within(sleep[s]) => Within(sleep[s])'
  BY <1>6, TickCloser DEF Within
<1>8. initLeft <= sleep[s] => initLeft' <= sleep'[s]
  BY <1>6, DelayAssumption DEF TypeOK, Tick, OneLess
<1>. QED BY <1>1, <1>2, <1>3, <1>4, <1>5, <1>7, <1>8 DEF OnItsWay, Quiet

LEMMA NextArrives == TypeOK /\ ChangesArrive /\ [Next]_vars => ChangesArrive'
<1>. SUFFICES ASSUME TypeOK, ChangesArrive, [Next]_vars PROVE ChangesArrive'
  OBVIOUS
<1>1. CASE UNCHANGED vars
  BY <1>1, OtherKeeps DEF ChangesArrive, vars, electronics, locals
<1>. QED BY <1>1, RequestArrives, ServiceArrives, TickArrives DEF Next
-------------------------------------------------------------------------------
LEMMA NextSettled == TypeOK /\ ChangesArrive /\ Settled /\ [Next]_vars => Settled'
<1>. SUFFICES ASSUME TypeOK, ChangesArrive, Settled, [Next]_vars, settled' PROVE Settled'
  BY DEF Settled
<1>1. ASSUME NEW s \in Services, NEW delays \in Delays(s), Request(s, delays) PROVE FALSE
  BY <1>1 DEF Request
<1>2. ASSUME NEW s \in Services, Clear(s), settled' # settled PROVE Settled'
  <2>1. Quiet /\ ~disturbed[s] /\ \A o \in Services \ {s} : pc[o] = "wait"
    BY <1>2 DEF ChangesArrive, OnItsWay, Clear
  <2>2. ~restarted' /\ UNCHANGED <<delay, register, initLeft>> /\ \A o \in Services : pc'[o] = "wait"
    BY <1>2, <2>1 DEF TypeOK, Clear
  <2>. QED BY <2>1, <2>2 DEF Settled, Quiet
<1>3. ASSUME NEW s \in Services, ServiceStep(s), settled' = settled PROVE Settled'
  <2>1. pc[s] = "wait"
    BY <1>3 DEF Settled
  <2>. QED BY <1>3, <2>1 DEF ServiceStep, Write, Store, Awake, Clear, WriteData, Initialized
<1>4. CASE Tick
  <2>1. Quiet /\ ~restarted /\ (\A s \in Services : pc[s] = "wait") /\ UNCHANGED <<register, pc>>
    BY <1>4 DEF Settled, Tick
  <2>2. delay' = register'
    <3>1. \A side \in Sides : Toward(delay[side], register[side]) = register[side]
      BY <2>1, DelayAssumption DEF Quiet, TypeOK, Values, Toward
    <3>. QED BY <1>4, <2>1, <3>1 DEF Tick, TypeOK
  <2>3. initLeft' = 0 /\ ~restarted'
    BY <1>4, <2>1 DEF Tick, OneLess, Quiet
  <2>. QED BY <2>1, <2>2, <2>3 DEF Settled, Quiet
<1>5. CASE UNCHANGED vars
  BY <1>5 DEF Settled, Quiet, vars, electronics
<1>6. ASSUME NEW s \in Services, ServiceStep(s), settled' # settled PROVE Settled'
  BY <1>2, <1>6 DEF ServiceStep, Write, Store, Awake, WriteData, Initialized
<1>. QED BY <1>1, <1>3, <1>4, <1>5, <1>6 DEF Next

LEMMA SpecIInv == Spec => []IInv
<1>1. IInv /\ [Next]_vars => IInv'
  BY NextType, NextArrives, NextSettled DEF IInv
<1>. QED BY <1>1, InitIInv, PTL DEF Spec

\* The types of the variables; a difference is never longer than the range of the delays.
THEOREM TypeCorrect == Spec => []TypeOK
BY SpecIInv, PTL DEF IInv

\* The delays of a change that nobody disturbed are where they were asked to be when the
\* service wakes up.
THEOREM ChangesAlwaysArrive == Spec => []UndisturbedChangeArrives
<1>1. IInv => UndisturbedChangeArrives
  <2>. SUFFICES ASSUME IInv, NEW s \in Services, pc[s] \in {"clear", "data"}, ~disturbed[s],
                       NEW side \in Named(new[s])
                PROVE  register[side] = new[s][side] /\ delay[side] = new[s][side]
    BY DEF UndisturbedChangeArrives
  <2>. QED BY DEF IInv, ChangesArrive, OnItsWay, Arrived, Quiet
<1>. QED BY <1>1, SpecIInv, PTL

\* A report that was cleared after such a change stays cleared.
THEOREM ReportsStayCleared == Spec => []ReportStaysCleared
<1>1. IInv => ReportStaysCleared
  BY DEF IInv, Settled, ReportStaysCleared
<1>. QED BY <1>1, SpecIInv, PTL
===============================================================================
