-------------------------- MODULE CounterRates_proofs --------------------------
(* What the rates of the counters mean, for counters of any width, any depth of   *)
(* the FIFO and any number of resets, events and failures.                        *)
EXTENDS CounterRates, TLAPS
-------------------------------------------------------------------------------
(* Arithmetic of counters that wrap around *)

Values == 0 .. Modulus - 1

LEMMA Remainder ==
  ASSUME NEW x \in Int, 0 <= x, x < 2 * Modulus
  PROVE  x % Modulus = IF x < Modulus THEN x ELSE x - Modulus
<1>1. Modulus \in Nat /\ Modulus > 0
  BY ConstantsAssumption
<1>2. CASE x < Modulus
  BY <1>1, <1>2
<1>3. CASE x >= Modulus
  BY <1>1, <1>3
<1>. QED BY <1>1, <1>2, <1>3

LEMMA MinusIs ==
  ASSUME NEW a \in Values, NEW b \in Values
  PROVE  Minus(a, b) = (IF a >= b THEN a - b ELSE a - b + Modulus) /\ Minus(a, b) \in Values
<1>1. Modulus \in Nat /\ Modulus > 0
  BY ConstantsAssumption
<1>. DEFINE x == a - b + Modulus
<1>2. x \in Int /\ 0 <= x /\ x < 2 * Modulus
  BY <1>1 DEF Values
<1>3. Minus(a, b) = x % Modulus
  BY DEF Minus
<1>. HIDE DEF x
<1>4. x % Modulus = IF x < Modulus THEN x ELSE x - Modulus
  BY <1>2, Remainder
<1>. QED BY <1>1, <1>3, <1>4 DEF Values, x

LEMMA OneMore ==
  ASSUME NEW a \in Values
  PROVE  Plus(a, 1) = (IF a + 1 = Modulus THEN 0 ELSE a + 1) /\ Plus(a, 1) \in Values
<1>1. Modulus \in Nat /\ Modulus > 0
  BY ConstantsAssumption
<1>2. (a + 1) % Modulus = IF a + 1 < Modulus THEN a + 1 ELSE a + 1 - Modulus
  BY <1>1, Remainder DEF Values
<1>. QED BY <1>1, <1>2 DEF Values, Plus

\* Counting an event does not change how far the counter and the total are apart.
LEMMA EventsKeepOffset ==
  ASSUME NEW c \in Values, NEW t \in Values
  PROVE  Minus(Plus(c, 1), Plus(t, 1)) = Minus(c, t)
<1>1. Modulus \in Nat /\ Modulus > 0
  BY ConstantsAssumption
<1>. DEFINE x == Plus(c, 1)
            y == Plus(t, 1)
<1>2. x \in Values /\ x = (IF c + 1 = Modulus THEN 0 ELSE c + 1)
  BY OneMore
<1>3. y \in Values /\ y = (IF t + 1 = Modulus THEN 0 ELSE t + 1)
  BY OneMore
<1>. HIDE DEF x, y
<1>4. Minus(x, y) = (IF x >= y THEN x - y ELSE x - y + Modulus)
  BY <1>2, <1>3, MinusIs
<1>5. Minus(c, t) = (IF c >= t THEN c - t ELSE c - t + Modulus)
  BY MinusIs
<1>6. Minus(x, y) = Minus(c, t)
  BY <1>1, <1>2, <1>3, <1>4, <1>5 DEF Values
<1>. QED BY <1>6 DEF x, y

\* A difference of two values of the same offset is that of the totals.
LEMMA SameOffset ==
  ASSUME NEW v \in Values, NEW t \in Values, NEW w \in Values, NEW u \in Values,
         Minus(v, t) = Minus(w, u)
  PROVE  Minus(Minus(v, w), Minus(t, u)) = 0
<1>1. Modulus \in Nat /\ Modulus > 0
  BY ConstantsAssumption
<1>2. Minus(v, w) \in Values /\ Minus(t, u) \in Values
  BY MinusIs
<1>3. Minus(v, w) = Minus(t, u)
  <2>1. Minus(v, t) = (IF v >= t THEN v - t ELSE v - t + Modulus)
        /\ Minus(w, u) = (IF w >= u THEN w - u ELSE w - u + Modulus)
    BY MinusIs
  <2>2. Minus(v, w) = (IF v >= w THEN v - w ELSE v - w + Modulus)
        /\ Minus(t, u) = (IF t >= u THEN t - u ELSE t - u + Modulus)
    BY MinusIs
  <2>3. (IF v >= t THEN v - t ELSE v - t + Modulus) = (IF w >= u THEN w - u ELSE w - u + Modulus)
    BY <2>1
  <2>4. (IF v >= w THEN v - w ELSE v - w + Modulus) = (IF t >= u THEN t - u ELSE t - u + Modulus)
    BY <1>1, <2>3 DEF Values
  <2>. QED BY <2>2, <2>4
<1>. QED BY <1>1, <1>2, <1>3, MinusIs DEF Values

\* What resetCounters subtracts from a value that it keeps moves it to the offset of the
\* counter that was reset, whatever was counted after it was read directly.
LEMMA Compensates ==
  ASSUME NEW c \in Values, NEW t \in Values, NEW d \in Values, NEW v \in Values,
         NEW b \in Values, Minus(v, b) = Minus(c, t)
  PROVE  Minus(Minus(v, d), b) = Minus(0, Minus(t, Minus(c, d)))
<1>1. Modulus \in Nat /\ Modulus > 0 /\ 0 \in Values
  BY ConstantsAssumption DEF Values
<1>. DEFINE x == Minus(v, d)
            y == Minus(c, d)
            z == Minus(t, y)
<1>2. x \in Values /\ x = (IF v >= d THEN v - d ELSE v - d + Modulus)
  BY MinusIs
<1>3. y \in Values /\ y = (IF c >= d THEN c - d ELSE c - d + Modulus)
  BY MinusIs
<1>4. z \in Values /\ z = (IF t >= y THEN t - y ELSE t - y + Modulus)
  BY <1>3, MinusIs
<1>5. (IF v >= b THEN v - b ELSE v - b + Modulus) = (IF c >= t THEN c - t ELSE c - t + Modulus)
  BY MinusIs
<1>. HIDE DEF x, y, z
<1>6. Minus(x, b) = (IF x >= b THEN x - b ELSE x - b + Modulus)
  BY <1>2, MinusIs
<1>7. Minus(0, z) = (IF 0 >= z THEN 0 - z ELSE 0 - z + Modulus)
  BY <1>1, <1>4, MinusIs
<1>8. Minus(x, b) = Minus(0, z)
  BY <1>1, <1>2, <1>3, <1>4, <1>5, <1>6, <1>7 DEF Values
<1>. QED BY <1>8 DEF x, y, z
-------------------------------------------------------------------------------
(* Types *)

Readouts == [state : {"Ok", "Changed", "Empty", "Single", "Multiple", "Partial", "Outdated"},
             sets : Nat, partial : BOOLEAN]
Bases == [total : Values, era : 0 .. MaxResets \cup {None}, junk : BOOLEAN, behind : BOOLEAN]

ElectronicsOK ==
  /\ count \in Values /\ total \in Values /\ era \in 0 .. MaxResets
  /\ fifo \in Seq(Set) /\ Len(fifo) <= MaxSets
  /\ \A i \in 1 .. Len(fifo) : fifo[i].era <= era
  /\ torn \in BOOLEAN /\ lost \in BOOLEAN /\ changed \in BOOLEAN
  /\ loading \in Set \cup {None} /\ (loading # None => loading.era <= era)
  /\ code \in Codes

ServiceOK ==
  /\ pc \in {"rest", "interval", "load", "fifo", "requests"}
  /\ stopped \in BOOLEAN /\ cached \in Codes \cup {None} /\ interval \in Codes \cup {0}
  /\ late \in Nat /\ unseen \in BOOLEAN
  /\ readout \in Readouts
  /\ (pc = "fifo" /\ readout.state # "Outdated") => readout.sets >= 1

ValuesOK ==
  /\ counters \in Values \cup {None} /\ (rates # None => counters # None)
  /\ base \in Bases /\ (base.era # None => base.era <= era)
  /\ direct \in Values \cup {None} /\ (direct # None => era < MaxResets)

IType == ElectronicsOK /\ ServiceOK /\ ValuesOK

LEMMA Typed == IType => TypeOK
<1>1. IType => \A i \in DOMAIN fifo : fifo[i] \in Set
  BY DEF IType, ElectronicsOK
<1>. QED BY <1>1 DEF IType, ElectronicsOK, ServiceOK, ValuesOK, TypeOK, Values, Readouts

LEMMA Constants ==
  /\ Modulus \in Nat \ {0} /\ 0 \in Values /\ MaxResets \in Nat /\ MaxSets \in Nat \ {0, 1}
  /\ MaxLate \in Nat /\ (\A n \in Nat : n # None) /\ (\A n \in Values : n # None)
  /\ 0 \in 0 .. MaxResets
BY ConstantsAssumption DEF Values

LEMMA Rest ==
  ASSUME NEW S, NEW q \in Seq(S), NEW n \in Nat
  PROVE  /\ SubSeq(q, n + 1, Len(q)) \in Seq(S)
         /\ Len(SubSeq(q, n + 1, Len(q))) = IF n <= Len(q) THEN Len(q) - n ELSE 0
         /\ \A i \in 1 .. Len(SubSeq(q, n + 1, Len(q))) :
              n + i \in 1 .. Len(q) /\ SubSeq(q, n + 1, Len(q))[i] = q[n + i]
<1>1. Len(q) \in Nat
  OBVIOUS
<1>. QED BY <1>1

LEMMA Dropped ==
  ASSUME NEW S, NEW q \in Seq(S), q # <<>>
  PROVE  /\ Tail(q) \in Seq(S) /\ Len(q) >= 1 /\ Len(Tail(q)) = Len(q) - 1
         /\ \A i \in 1 .. Len(Tail(q)) : i + 1 \in 1 .. Len(q) /\ Tail(q)[i] = q[i + 1]
OBVIOUS

\* Words that are read leave a part of what was in the FIFO there.
LEMMA TakeLeaves ==
  ASSUME fifo \in Seq(Set), readout.sets \in Nat, TakeWords
  PROVE  /\ fifo' \in Seq(Set) /\ Len(fifo') <= Len(fifo) /\ Len(fifo') \in Nat
         /\ \A i \in 1 .. Len(fifo') : \E j \in 1 .. Len(fifo) : fifo'[i] = fifo[j]
<1>. DEFINE n == readout.sets
            left == SubSeq(fifo, n + 1, Len(fifo))
<1>1. /\ left \in Seq(Set) /\ Len(fifo) \in Nat /\ n \in Nat
      /\ Len(left) = IF n <= Len(fifo) THEN Len(fifo) - n ELSE 0
      /\ \A i \in 1 .. Len(left) : n + i \in 1 .. Len(fifo) /\ left[i] = fifo[n + i]
  <2>1. fifo \in Seq(Set) /\ n \in Nat
    OBVIOUS
  <2>. HIDE DEF n
  <2>2. left \in Seq(Set)
    BY <2>1, Rest
  <2>3. Len(left) = IF n <= Len(fifo) THEN Len(fifo) - n ELSE 0
    BY <2>1, Rest
  <2>4. \A i \in 1 .. Len(left) : n + i \in 1 .. Len(fifo) /\ left[i] = fifo[n + i]
    BY <2>1, Rest
  <2>. QED BY <2>1, <2>2, <2>3, <2>4
<1>2. fifo' = <<>> \/ fifo' = left \/ (left # <<>> /\ fifo' = Tail(left))
  BY DEF TakeWords
<1>. HIDE DEF left, n
<1>3. CASE fifo' = <<>>
  BY <1>1, <1>3
<1>4. CASE fifo' = left
  <2>1. ASSUME NEW i \in 1 .. Len(left) PROVE \E j \in 1 .. Len(fifo) : left[i] = fifo[j]
    BY <1>1
  <2>2. Len(left) <= Len(fifo) /\ Len(left) \in Nat
    BY <1>1
  <2>. QED BY <1>1, <1>4, <2>1, <2>2
<1>5. CASE left # <<>> /\ fifo' = Tail(left)
  <2>1. /\ Tail(left) \in Seq(Set) /\ Len(left) >= 1 /\ Len(Tail(left)) = Len(left) - 1
        /\ \A i \in 1 .. Len(Tail(left)) : i + 1 \in 1 .. Len(left) /\ Tail(left)[i] = left[i + 1]
    BY <1>1, <1>5, Dropped
  <2>2. ASSUME NEW i \in 1 .. Len(Tail(left)) PROVE \E j \in 1 .. Len(fifo) : Tail(left)[i] = fifo[j]
    <3>1. i + 1 \in 1 .. Len(left) /\ Tail(left)[i] = left[i + 1]
      BY <2>1
    <3>2. n + (i + 1) \in 1 .. Len(fifo) /\ left[i + 1] = fifo[n + (i + 1)]
      BY <1>1, <3>1
    <3>. QED BY <3>1, <3>2
  <2>3. Len(fifo') <= Len(fifo) /\ Len(fifo') \in Nat
    BY <1>1, <1>5, <2>1
  <2>. QED BY <1>5, <2>1, <2>2, <2>3
<1>. QED BY <1>2, <1>3, <1>4, <1>5

LEMMA TakeType ==
  ASSUME IType, TakeWords, UNCHANGED <<count, total, era, code, changed>>
  PROVE  ElectronicsOK'
<1>1. /\ fifo' \in Seq(Set) /\ Len(fifo') <= Len(fifo) /\ Len(fifo') \in Nat
      /\ \A i \in 1 .. Len(fifo') : \E j \in 1 .. Len(fifo) : fifo'[i] = fifo[j]
  BY TakeLeaves DEF IType, ElectronicsOK, ServiceOK, Readouts
<1>2. Len(fifo) \in Nat /\ Len(fifo') <= MaxSets
  BY <1>1, Constants DEF IType, ElectronicsOK
<1>3. loading' \in {loading, None} /\ torn' \in BOOLEAN /\ lost' \in BOOLEAN
  BY DEF TakeWords, IType, ElectronicsOK
<1>4. \A i \in 1 .. Len(fifo') : fifo'[i].era <= era'
  BY <1>1 DEF IType, ElectronicsOK
<1>. QED BY <1>1, <1>2, <1>3, <1>4 DEF IType, ElectronicsOK

LEMMA InitType == Init => IType
<1>. SUFFICES ASSUME Init PROVE IType
  OBVIOUS
<1>1. readout \in Readouts /\ base \in Bases /\ base.era = None
  BY Constants DEF Init, NoReadout, NoBase, Readouts, Bases
<1>2. fifo = <<>> /\ fifo \in Seq(Set) /\ Len(fifo) <= MaxSets
      /\ \A i \in 1 .. Len(fifo) : fifo[i].era <= era
  BY Constants DEF Init
<1>3. ElectronicsOK
  BY <1>2, Constants DEF Init, ElectronicsOK
<1>4. ServiceOK
  BY <1>1, Constants DEF Init, ServiceOK
<1>5. ValuesOK
  BY <1>1, Constants DEF Init, ValuesOK
<1>. QED BY <1>3, <1>4, <1>5 DEF IType

LEMMA ElectronicsType == IType /\ (Electronics \/ Clients) => IType'
<1>. SUFFICES ASSUME IType, Electronics \/ Clients PROVE IType'
  OBVIOUS
<1>. USE DEF IType, control, values
<1>1. CASE Event
  <2>1. ElectronicsOK'
    BY <1>1, OneMore DEF Event, ElectronicsOK
  <2>. QED BY <1>1, <2>1 DEF Event, ServiceOK, ValuesOK
<1>2. CASE BeginLoad
  <2>1. loading' \in Set /\ loading'.era <= era
    BY <1>2, Constants DEF BeginLoad, Set, ElectronicsOK, Values
  <2>2. late' \in Nat
    BY <1>2 DEF BeginLoad, ServiceOK
  <2>3. /\ UNCHANGED <<count, total, era, fifo, torn, code>>
        /\ lost' = FALSE /\ changed' = FALSE
    BY <1>2 DEF BeginLoad
  <2>4. ElectronicsOK'
    BY <2>1, <2>3 DEF ElectronicsOK
  <2>. QED BY <1>2, <2>2, <2>4 DEF BeginLoad, ServiceOK, ValuesOK
<1>3. CASE EndLoad
  <2>1. CASE Len(fifo) < MaxSets
    <3>1. loading \in Set /\ loading.era <= era /\ fifo' = Append(fifo, loading)
      BY <1>3, <2>1 DEF EndLoad, ElectronicsOK
    <3>2. fifo \in Seq(Set) /\ Len(fifo) \in Nat /\ \A i \in 1 .. Len(fifo) : fifo[i].era <= era
      BY DEF ElectronicsOK
    <3>3. fifo' \in Seq(Set) /\ Len(fifo') = Len(fifo) + 1
          /\ \A i \in 1 .. Len(fifo') : fifo'[i].era <= era
      BY <3>1, <3>2
    <3>4. Len(fifo') <= MaxSets
      BY <2>1, <3>2, <3>3, Constants
    <3>5. ElectronicsOK'
      BY <1>3, <3>3, <3>4, <2>1 DEF EndLoad, ElectronicsOK
    <3>. QED BY <1>3, <3>5 DEF EndLoad, ServiceOK, ValuesOK
  <2>2. CASE ~(Len(fifo) < MaxSets)
    BY <1>3, <2>2 DEF EndLoad, ElectronicsOK, ServiceOK, ValuesOK
  <2>. QED BY <2>1, <2>2
<1>4. ASSUME NEW c \in Codes, WriteInterval(c) PROVE IType'
  BY <1>4 DEF WriteInterval, ElectronicsOK, ServiceOK, ValuesOK
<1>5. CASE StoreInterval
  BY <1>5 DEF StoreInterval, electronics, ElectronicsOK, ServiceOK, ValuesOK
<1>. QED BY <1>1, <1>2, <1>3, <1>4, <1>5 DEF Electronics, Clients

LEMMA ReadoutType == IType /\ Readout => IType'
<1>. SUFFICES ASSUME IType, Readout PROVE IType'
  OBVIOUS
<1>0. Len(fifo) \in Nat /\ NoReadout \in Readouts /\ NoReadout.state = "Ok" /\ NoBase \in Bases
      /\ NoBase.era = None
  BY Constants DEF NoReadout, Readouts, NoBase, Bases, IType, ElectronicsOK
<1>a. UNCHANGED electronics /\ ElectronicsOK => ElectronicsOK'
  BY DEF electronics, ElectronicsOK
<1>b. UNCHANGED <<values, direct, era>> /\ ValuesOK => ValuesOK'
  BY DEF values, ValuesOK
<1>c. ASSUME resetService, UNCHANGED <<direct, era>> PROVE ValuesOK'
  BY <1>0, <1>c DEF resetService, ValuesOK, IType
<1>1. CASE Wake \/ IntervalUnusable \/ FifoEmpty
  <2>1. ServiceOK'
    BY <1>1 DEF Wake, IntervalUnusable, FifoEmpty, control, IType, ServiceOK
  <2>. QED BY <1>1, <1>a, <1>b, <2>1 DEF Wake, IntervalUnusable, FifoEmpty, electronics, IType
<1>2. CASE IntervalDisabled
  <2>1. ServiceOK'
    BY <1>2 DEF IntervalDisabled, IType, ServiceOK
  <2>. QED BY <1>2, <1>a, <1>b, <2>1 DEF IntervalDisabled, electronics, IType
<1>3. CASE IntervalOk
  <2>1. readout' \in Readouts
    BY <1>3 DEF IntervalOk, Readouts, IType, ServiceOK
  <2>2. ServiceOK'
    BY <1>3, <2>1 DEF IntervalOk, control, IType, ServiceOK
  <2>. QED BY <1>3, <1>a, <1>b, <2>2 DEF IntervalOk, electronics, IType
<1>4. CASE IntervalChanged
  <2>1. readout' \in Readouts
    BY <1>4 DEF IntervalChanged, Readouts, IType, ServiceOK
  <2>2. interval' \in Codes
    BY <1>4, Constants DEF IntervalChanged, IType, ServiceOK
  <2>3. ServiceOK'
    BY <1>4, <2>1, <2>2 DEF IntervalChanged, IType, ServiceOK
  <2>. QED BY <1>4, <1>a, <1>c, <2>3 DEF IntervalChanged, electronics, IType
<1>5. CASE LoadFails
  <2>1. ServiceOK'
    BY <1>0, <1>5 DEF LoadFails, IType, ServiceOK
  <2>. QED BY <1>5, <1>a, <1>b, <2>1 DEF LoadFails, electronics, IType
<1>6. CASE FifoFilled
  <2>. DEFINE state == IF readout.state = "Changed" THEN "Outdated" ELSE evaluateFifoState
  <2>1. /\ state # "Empty" /\ state \in {"Single", "Multiple", "Partial", "Outdated", "Empty"}
        /\ (state = "Single" \/ state = "Multiple") => Len(fifo) >= 1
    <3>1. state # "Empty"
      BY <1>6 DEF FifoFilled
    <3>2. fifo = <<>> \/ Len(fifo) >= 1
      BY <1>0 DEF IType, ElectronicsOK
    <3>3. torn \in BOOLEAN /\ Len(fifo) \in Nat /\ MaxSets \in Nat
      BY <1>0, Constants DEF IType, ElectronicsOK
    <3>. QED BY <3>1, <3>2, <3>3 DEF evaluateFifoState
  <2>2. readout' = [state |-> state, sets |-> Len(fifo) + IF state = "Partial" THEN 1 ELSE 0,
                    partial |-> loading # None]
    BY <1>6 DEF FifoFilled
  <2>. HIDE DEF state
  <2>3. readout' \in Readouts /\ (readout'.state # "Outdated" => readout'.sets >= 1)
    BY <1>0, <2>1, <2>2 DEF Readouts
  <2>4. ServiceOK'
    BY <1>6, <2>3 DEF FifoFilled, IType, ServiceOK
  <2>. QED BY <1>6, <1>a, <1>b, <2>4 DEF FifoFilled, electronics, IType
<1>7. CASE ReadFails
  <2>1. base' \in Bases /\ base'.era = base.era
    BY <1>7 DEF ReadFails, Bases, IType, ValuesOK
  <2>2. ElectronicsOK'
    <3>1. CASE UNCHANGED <<fifo, torn, loading, lost, base>>
      BY <1>7, <3>1 DEF ReadFails, IType, ElectronicsOK
    <3>. QED BY <1>7, <3>1, TakeType DEF ReadFails
  <2>3. ServiceOK'
    BY <1>0, <1>7 DEF ReadFails, IType, ServiceOK
  <2>4. ValuesOK'
    BY <1>7, <2>1 DEF ReadFails, IType, ValuesOK
  <2>. QED BY <2>2, <2>3, <2>4 DEF IType
<1>8. CASE ClearFifo
  <2>1. ServiceOK'
    BY <1>0, <1>8 DEF ClearFifo, control, IType, ServiceOK
  <2>. QED BY <1>8, <1>c, <2>1, TakeType DEF ClearFifo, IType
<1>9. CASE ReadFifo
  <2>1. readout.sets \in 1 .. Len(fifo)
    BY <1>0, <1>9 DEF ReadFifo, TakeWords, Readouts, IType, ServiceOK
  <2>2. fifo[readout.sets] \in Set /\ fifo[readout.sets].era <= era
    BY <2>1 DEF IType, ElectronicsOK
  <2>3. counters' \in Values /\ base' \in Bases /\ base'.era <= era
    BY <1>9, <2>1, <2>2 DEF ReadFifo, Base, Bases, Set, Values
  <2>4. ServiceOK'
    BY <1>0, <1>9 DEF ReadFifo, control, IType, ServiceOK
  <2>5. ValuesOK'
    BY <1>9, <2>3, Constants DEF ReadFifo, IType, ValuesOK
  <2>. QED BY <1>9, <2>4, <2>5, TakeType DEF ReadFifo, IType
<1>10. CASE ReadTornFifo
  <2>1. counters' \in Values
    BY <1>10 DEF ReadTornFifo, Values
  <2>2. base' \in Bases /\ base'.era = None
    BY <1>10, Constants DEF ReadTornFifo, Bases
  <2>3. ServiceOK'
    BY <1>0, <1>10 DEF ReadTornFifo, control, IType, ServiceOK
  <2>4. ValuesOK'
    BY <1>10, <2>1, <2>2, Constants DEF ReadTornFifo, IType, ValuesOK
  <2>. QED BY <1>10, <2>3, <2>4, TakeType DEF ReadTornFifo, IType
<1>. QED BY <1>1, <1>2, <1>3, <1>4, <1>5, <1>6, <1>7, <1>8, <1>9, <1>10 DEF Readout

LEMMA RequestsType == IType /\ Requests => IType'
<1>. SUFFICES ASSUME IType, Requests PROVE IType'
  OBVIOUS
<1>. USE DEF IType, control
<1>1. CASE Publish \/ StartStop \/ ReadDirectly
  <2>1. ElectronicsOK'
    BY <1>1 DEF Publish, StartStop, ReadDirectly, electronics, ElectronicsOK
  <2>2. ServiceOK'
    <3>1. CASE Publish
      BY <3>1 DEF Publish, ServiceOK
    <3>2. CASE StartStop
      BY <3>2 DEF StartStop, TakesRequests, ServiceOK
    <3>3. CASE ReadDirectly
      BY <3>3 DEF ReadDirectly, TakesRequests, ServiceOK
    <3>. QED BY <1>1, <3>1, <3>2, <3>3
  <2>3. ValuesOK'
    BY <1>1 DEF Publish, StartStop, ReadDirectly, electronics, values, ElectronicsOK, ValuesOK
  <2>. QED BY <2>1, <2>2, <2>3
<1>2. ASSUME ResetCounters \/ ResetFails
      PROVE  /\ direct \in Values /\ Minus(total, Minus(count, direct)) \in Values
             /\ era \in Nat /\ era + 1 \in 0 .. MaxResets
  <2>1. direct \in Values /\ era < MaxResets
    BY <1>2 DEF ResetCounters, ResetFails, ValuesOK
  <2>2. Minus(count, direct) \in Values
    BY <2>1, MinusIs DEF ElectronicsOK
  <2>3. Minus(total, Minus(count, direct)) \in Values
    BY <2>2, MinusIs DEF ElectronicsOK
  <2>. QED BY <2>1, <2>3, Constants DEF ElectronicsOK
<1>a. ASSUME count' = 0, total' = Minus(total, Minus(count, direct)), era' = era + 1,
             ResetCounters \/ ResetFails
      PROVE  ElectronicsOK'
  <2>1. /\ count' \in Values /\ total' \in Values /\ era' \in 0 .. MaxResets
        /\ \A e \in 0 .. MaxResets : e <= era => e <= era'
    BY <1>a, <1>2, Constants
  <2>2. UNCHANGED <<fifo, torn, loading, lost, code, changed>>
    BY <1>a DEF ResetCounters, ResetFails
  <2>3. ASSUME NEW i \in 1 .. Len(fifo) PROVE fifo[i].era \in 0 .. MaxResets
    <3>1. fifo[i] \in Set
      BY DEF ElectronicsOK
    <3>. QED BY <3>1 DEF Set
  <2>4. loading # None => loading.era \in 0 .. MaxResets
    BY DEF ElectronicsOK, Set
  <2>. QED BY <2>1, <2>2, <2>3, <2>4 DEF ElectronicsOK
<1>3. CASE ResetCounters
  <2>1. counters' \in Values \cup {None} /\ (counters # None => counters' # None)
    <3>1. counters # None => Minus(counters, direct) \in Values
      BY <1>2, <1>3, MinusIs DEF ValuesOK
    <3>. QED BY <1>3, <3>1, Constants DEF ResetCounters, Compensated, ValuesOK
  <2>2. base' \in Bases /\ base'.era \in {era + 1, None}
    BY <1>2, <1>3 DEF ResetCounters, Bases, ValuesOK
  <2>3. ElectronicsOK'
    BY <1>3, <1>a DEF ResetCounters
  <2>4. ServiceOK'
    BY <1>3 DEF ResetCounters, ServiceOK
  <2>5. ValuesOK'
    BY <1>2, <1>3, <2>1, <2>2 DEF ResetCounters, ValuesOK
  <2>. QED BY <2>3, <2>4, <2>5
<1>4. CASE ResetFails
  <2>1. ElectronicsOK'
    <3>1. CASE UNCHANGED <<count, total, era>>
      BY <1>4, <3>1 DEF ResetFails, ElectronicsOK
    <3>. QED BY <1>4, <1>a, <3>1 DEF ResetFails
  <2>2. ServiceOK'
    BY <1>4 DEF ResetFails, ServiceOK
  <2>3. base.era # None => base.era <= era'
    <3>1. base.era # None => base.era \in 0 .. MaxResets /\ base.era <= era
      BY DEF ValuesOK, Bases
    <3>2. era' \in {era, era + 1} /\ era \in Nat
      BY <1>2, <1>4 DEF ResetFails
    <3>. QED BY <3>1, <3>2
  <2>4. ValuesOK'
    BY <1>4, <2>3 DEF ResetFails, values, ValuesOK
  <2>. QED BY <2>1, <2>2, <2>4
<1>. QED BY <1>1, <1>3, <1>4 DEF Requests

LEMMA NextType == IType /\ [Next]_vars => IType'
<1>1. IType /\ UNCHANGED vars => IType'
  BY DEF IType, ElectronicsOK, ServiceOK, ValuesOK, vars, electronics, values, control
<1>. QED BY <1>1, ElectronicsType, ReadoutType, RequestsType DEF Next
-------------------------------------------------------------------------------
(* How far values and totals are apart: the same for all sets between two resets *)

Fits(K) ==
  /\ K \in [0 .. MaxResets -> Values]
  /\ Minus(count, total) = K[era]
  /\ \A i \in 1 .. Len(fifo) : Minus(fifo[i].value, fifo[i].total) = K[fifo[i].era]
  /\ loading # None => Minus(loading.value, loading.total) = K[loading.era]
  /\ (counters # None /\ base.era # None) => Minus(counters, base.total) = K[base.era]

IOffsets == (\E K : Fits(K)) /\ RatesCountEvents

LEMMA SetFields ==
  ASSUME NEW x \in Set
  PROVE  x.value \in Values /\ x.total \in Values /\ x.era \in 0 .. MaxResets /\ x.era # None
BY Constants DEF Set, Values

LEMMA InitOffsets == Init => IOffsets
<1>. SUFFICES ASSUME Init PROVE IOffsets
  OBVIOUS
<1>. DEFINE K == [e \in 0 .. MaxResets |-> Minus(count, total)]
<1>1. Minus(count, total) \in Values
  BY MinusIs, Constants DEF Init
<1>2. Fits(K)
  BY <1>1, Constants DEF Init, Fits, NoBase
<1>3. RatesCountEvents
  BY DEF Init, RatesCountEvents
<1>. QED BY <1>2, <1>3 DEF IOffsets

\* Taking sets out of the FIFO, or forgetting one, disturbs no offset.
LEMMA FitsLess ==
  ASSUME IType, NEW K, Fits(K), UNCHANGED <<count, total, era>>, loading' \in {loading, None},
         \A i \in 1 .. Len(fifo') : \E j \in 1 .. Len(fifo) : fifo'[i] = fifo[j],
         \/ counters' = counters /\ base'.era = base.era /\ base'.total = base.total
         \/ counters' = None \/ base'.era = None
  PROVE  Fits(K)'
BY DEF Fits

LEMMA FitsTaken ==
  ASSUME IType, NEW K, Fits(K), UNCHANGED <<count, total, era>>, TakeWords,
         \/ counters' = counters /\ base'.era = base.era /\ base'.total = base.total
         \/ counters' = None \/ base'.era = None
  PROVE  Fits(K)'
<1>1. /\ \A i \in 1 .. Len(fifo') : \E j \in 1 .. Len(fifo) : fifo'[i] = fifo[j]
      /\ loading' \in {loading, None}
  BY TakeLeaves DEF IType, ElectronicsOK, ServiceOK, Readouts, TakeWords
<1>. QED BY <1>1, FitsLess

LEMMA ElectronicsOffsets == IType /\ IOffsets /\ (Electronics \/ Clients) => IOffsets'
<1>. SUFFICES ASSUME IType, IOffsets, Electronics \/ Clients PROVE IOffsets'
  OBVIOUS
<1>. PICK K : Fits(K)
  BY DEF IOffsets
<1>0. UNCHANGED values /\ RatesCountEvents /\ RatesCountEvents'
  BY DEF Electronics, Clients, Event, BeginLoad, EndLoad, WriteInterval, StoreInterval,
         values, RatesCountEvents, IOffsets
<1>1. CASE Event
  <2>1. Minus(count', total') = Minus(count, total)
    BY <1>1, EventsKeepOffset DEF Event, IType, ElectronicsOK
  <2>2. Fits(K)'
    BY <1>0, <1>1, <2>1 DEF Event, Fits, values
  <2>. QED BY <1>0, <2>2 DEF IOffsets
<1>2. CASE BeginLoad
  <2>1. Minus(loading'.value, loading'.total) = K[loading'.era]
    BY <1>2 DEF BeginLoad, Fits
  <2>2. Fits(K)'
    BY <1>0, <1>2, <2>1 DEF BeginLoad, Fits, values
  <2>. QED BY <1>0, <2>2 DEF IOffsets
<1>3. CASE EndLoad
  <2>1. fifo \in Seq(Set) /\ Len(fifo) \in Nat
    BY DEF IType, ElectronicsOK
  <2>2. \A i \in 1 .. Len(fifo') : Minus(fifo'[i].value, fifo'[i].total) = K[fifo'[i].era]
    <3>1. CASE fifo' = fifo
      BY <3>1 DEF Fits
    <3>2. CASE fifo' = Append(fifo, loading)
      BY <1>3, <2>1, <3>2 DEF Fits, EndLoad
    <3>. QED BY <1>3, <3>1, <3>2 DEF EndLoad
  <2>3. Fits(K)'
    BY <1>0, <1>3, <2>2 DEF EndLoad, Fits, values
  <2>. QED BY <1>0, <2>3 DEF IOffsets
<1>4. CASE Clients
  <2>1. Fits(K)'
    BY <1>0, <1>4 DEF Clients, WriteInterval, StoreInterval, electronics, Fits, values
  <2>. QED BY <1>0, <2>1 DEF IOffsets
<1>. QED BY <1>1, <1>2, <1>3, <1>4 DEF Electronics

LEMMA ReadoutOffsets == IType /\ IOffsets /\ Readout => IOffsets'
<1>. SUFFICES ASSUME IType, IOffsets, Readout PROVE IOffsets'
  OBVIOUS
<1>. PICK K : Fits(K)
  BY DEF IOffsets
<1>1. CASE UNCHANGED <<electronics, values>>
  <2>1. Fits(K)'
    BY <1>1 DEF electronics, values, Fits
  <2>2. RatesCountEvents'
    BY <1>1 DEF values, RatesCountEvents, IOffsets
  <2>. QED BY <2>1, <2>2 DEF IOffsets
<1>2. CASE IntervalChanged
  <2>1. Fits(K)'
    BY <1>2 DEF IntervalChanged, resetService, electronics, Fits
  <2>2. RatesCountEvents'
    BY <1>2 DEF IntervalChanged, resetService, RatesCountEvents
  <2>. QED BY <2>1, <2>2 DEF IOffsets
<1>3. CASE ReadFails
  <2>1. rates' = rates /\ counters' = counters /\ base'.era = base.era /\ base'.total = base.total
        /\ UNCHANGED <<count, total, era>>
    BY <1>3 DEF ReadFails, IType, ValuesOK, Bases
  <2>2. CASE TakeWords
    BY <2>1, <2>2, FitsTaken DEF IOffsets, RatesCountEvents
  <2>3. CASE UNCHANGED <<fifo, torn, loading, lost, base>>
    <3>1. Fits(K)'
      BY <2>1, <2>3 DEF Fits
    <3>. QED BY <2>1, <3>1 DEF IOffsets, RatesCountEvents
  <2>. QED BY <1>3, <2>2, <2>3 DEF ReadFails
<1>4. CASE ClearFifo
  <2>1. counters' = None /\ rates' = None /\ TakeWords /\ UNCHANGED <<count, total, era>>
    BY <1>4 DEF ClearFifo, resetService
  <2>. QED BY <2>1, FitsTaken DEF IOffsets, RatesCountEvents
<1>5. CASE ReadFifo
  <2>. DEFINE n == readout.sets
              new == fifo[n]
  <2>0. n \in 1 .. Len(fifo)
    BY <1>5 DEF ReadFifo, TakeWords, Readouts, IType, ServiceOK, ElectronicsOK
  <2>1. /\ new \in Set /\ Minus(new.value, new.total) = K[new.era]
        /\ counters' = new.value /\ base'.total = new.total /\ base'.era = new.era
    BY <1>5, <2>0 DEF ReadFifo, Base, IType, ElectronicsOK, Fits
  <2>2. Fits(K)'
    <3>1. /\ \A i \in 1 .. Len(fifo') : \E j \in 1 .. Len(fifo) : fifo'[i] = fifo[j]
          /\ loading' \in {loading, None} /\ UNCHANGED <<count, total, era>>
      BY <1>5, TakeLeaves DEF IType, ElectronicsOK, ServiceOK, Readouts, TakeWords, ReadFifo
    <3>. QED BY <2>1, <3>1 DEF Fits
  <2>3. CASE n > 1
    <3>. DEFINE old == fifo[n - 1]
    <3>1. n - 1 \in 1 .. Len(fifo)
      BY <2>0, <2>3
    <3>2. old \in Set /\ Minus(old.value, old.total) = K[old.era]
      BY <3>1 DEF IType, ElectronicsOK, Fits
    <3>3. rates' = Rate(new, old.value, Base(old))
      BY <1>5, <2>3 DEF ReadFifo
    <3>. HIDE DEF new, old
    <3>4. new.era = old.era => Minus(Minus(new.value, old.value), Minus(new.total, old.total)) = 0
      BY <2>1, <3>2, SetFields, SameOffset
    <3>5. rates'.sameEra => rates'.off = 0
      BY <3>3, <3>4 DEF Rate, Base
    <3>. QED BY <2>2, <3>5 DEF IOffsets, RatesCountEvents
  <2>4. CASE n <= 1 /\ counters # None
    <3>1. rates' = Rate(new, counters, base)
      BY <1>5, <2>4, <2>0 DEF ReadFifo, IType, ElectronicsOK
    <3>2. base.total \in Values /\ counters \in Values
          /\ (base.era # None => Minus(counters, base.total) = K[base.era])
      BY <2>4 DEF IType, ValuesOK, Bases, Fits
    <3>. HIDE DEF new
    <3>3. new.era = base.era => Minus(Minus(new.value, counters), Minus(new.total, base.total)) = 0
      BY <2>1, <3>2, SetFields, SameOffset
    <3>4. rates'.sameEra => rates'.off = 0
      BY <3>1, <3>3 DEF Rate
    <3>. QED BY <2>2, <3>4 DEF IOffsets, RatesCountEvents
  <2>5. CASE n <= 1 /\ counters = None
    <3>1. rates' = rates
      BY <1>5, <2>5, <2>0 DEF ReadFifo, IType, ElectronicsOK
    <3>. QED BY <2>2, <3>1 DEF IOffsets, RatesCountEvents
  <2>. QED BY <2>0, <2>3, <2>4, <2>5
<1>6. CASE ReadTornFifo
  <2>1. base'.era = None /\ TakeWords /\ UNCHANGED <<count, total, era>>
    BY <1>6 DEF ReadTornFifo
  <2>2. Fits(K)'
    BY <2>1, FitsTaken
  <2>3. RatesCountEvents'
    BY <1>6 DEF ReadTornFifo, RatesCountEvents, IOffsets
  <2>. QED BY <2>2, <2>3 DEF IOffsets
<1>. QED BY <1>1, <1>2, <1>3, <1>4, <1>5, <1>6
         DEF Readout, Wake, IntervalUnusable, IntervalDisabled, IntervalOk, LoadFails, FifoEmpty,
             FifoFilled

LEMMA RequestsOffsets == IType /\ IOffsets /\ Requests => IOffsets'
<1>. SUFFICES ASSUME IType, IOffsets, Requests PROVE IOffsets'
  OBVIOUS
<1>. PICK K : Fits(K)
  BY DEF IOffsets
<1>1. CASE UNCHANGED <<electronics, values>>
  <2>1. Fits(K)'
    BY <1>1 DEF electronics, values, Fits
  <2>2. RatesCountEvents'
    BY <1>1 DEF values, RatesCountEvents, IOffsets
  <2>. QED BY <2>1, <2>2 DEF IOffsets
<1>. DEFINE after == Minus(total, Minus(count, direct))
<1>b. PICK L : L = [K EXCEPT ![era + 1] = Minus(0, after)]
  OBVIOUS
<1>2. ASSUME direct # None, count' = 0, total' = after, era' = era + 1,
             UNCHANGED <<fifo, loading>>
      PROVE  /\ L \in [0 .. MaxResets -> Values] /\ era + 1 \in 0 .. MaxResets
             /\ direct \in Values
             /\ Minus(count', total') = L[era']
             /\ \A e \in 0 .. MaxResets : e <= era => L[e] = K[e]
             /\ \A i \in 1 .. Len(fifo') : Minus(fifo'[i].value, fifo'[i].total) = L[fifo'[i].era]
             /\ loading' # None => Minus(loading'.value, loading'.total) = L[loading'.era]
  <2>1. direct \in Values /\ era + 1 \in 0 .. MaxResets /\ era \in Nat
    BY <1>2, Constants DEF IType, ValuesOK, ElectronicsOK
  <2>2. Minus(0, after) \in Values
    <3>1. Minus(count, direct) \in Values
      BY <2>1, MinusIs DEF IType, ElectronicsOK
    <3>2. after \in Values
      BY <3>1, MinusIs DEF IType, ElectronicsOK
    <3>. QED BY <3>2, MinusIs, Constants
  <2>3. L \in [0 .. MaxResets -> Values] /\ L[era + 1] = Minus(0, after)
        /\ \A e \in 0 .. MaxResets : e <= era => L[e] = K[e]
    BY <1>b, <2>1, <2>2 DEF Fits
  <2>. HIDE DEF after
  <2>4. ASSUME NEW i \in 1 .. Len(fifo)
        PROVE  Minus(fifo[i].value, fifo[i].total) = L[fifo[i].era]
    <3>1. fifo[i] \in Set /\ fifo[i].era <= era
      BY DEF IType, ElectronicsOK
    <3>. QED BY <2>3, <3>1, SetFields DEF Fits
  <2>5. loading # None => Minus(loading.value, loading.total) = L[loading.era]
    <3>1. loading # None => loading \in Set /\ loading.era <= era
      BY DEF IType, ElectronicsOK
    <3>. QED BY <2>3, <3>1, SetFields DEF Fits
  <2>. QED BY <1>2, <2>1, <2>3, <2>4, <2>5
<1>3. CASE ResetCounters
  <2>1. direct # None /\ count' = 0 /\ total' = after /\ era' = era + 1
        /\ UNCHANGED <<fifo, loading, rates>>
    BY <1>3 DEF ResetCounters
  <2>2. ASSUME counters' # None, base'.era # None PROVE Minus(counters', base'.total) = L[base'.era]
    <3>1. counters # None /\ counters' = Minus(counters, direct)
      BY <1>3, <2>2 DEF ResetCounters, Compensated
    <3>2. base.era = era /\ base'.era = era + 1 /\ base'.total = base.total
      BY <1>3, <2>2 DEF ResetCounters, IType, ValuesOK, Bases
    <3>3. era # None /\ era \in 0 .. MaxResets
      BY Constants DEF IType, ElectronicsOK
    <3>4. Minus(counters, base.total) = Minus(count, total)
      BY <3>1, <3>2, <3>3 DEF Fits
    <3>5. counters \in Values /\ base.total \in Values /\ count \in Values /\ total \in Values
          /\ direct \in Values
      BY <2>1, <3>1 DEF IType, ElectronicsOK, ValuesOK, Bases
    <3>6. Minus(Minus(counters, direct), base.total) = Minus(0, after)
      BY <3>4, <3>5, Compensates
    <3>7. L[era + 1] = Minus(0, after)
      BY <1>b, <1>2, <2>1 DEF Fits
    <3>. QED BY <3>1, <3>2, <3>6, <3>7
  <2>. HIDE DEF after
  <2>3. /\ L \in [0 .. MaxResets -> Values] /\ Minus(count', total') = L[era']
        /\ \A i \in 1 .. Len(fifo') : Minus(fifo'[i].value, fifo'[i].total) = L[fifo'[i].era]
        /\ loading' # None => Minus(loading'.value, loading'.total) = L[loading'.era]
    BY <1>2, <2>1
  <2>4. Fits(L)'
    BY <2>2, <2>3 DEF Fits
  <2>. QED BY <2>1, <2>4 DEF IOffsets, RatesCountEvents
<1>4. CASE ResetFails
  <2>1. direct # None /\ UNCHANGED <<fifo, loading, counters, base, rates>>
    BY <1>4 DEF ResetFails, values
  <2>2. CASE UNCHANGED <<count, total, era>>
    <3>1. Fits(K)'
      BY <2>1, <2>2 DEF Fits
    <3>. QED BY <2>1, <3>1 DEF IOffsets, RatesCountEvents
  <2>3. CASE count' = 0 /\ total' = after /\ era' = era + 1
    <3>. HIDE DEF after
    <3>1. base.era # None => base.era \in 0 .. MaxResets /\ base.era <= era
      BY DEF IType, ValuesOK, Bases
    <3>2. /\ L \in [0 .. MaxResets -> Values] /\ Minus(count', total') = L[era']
          /\ \A i \in 1 .. Len(fifo') : Minus(fifo'[i].value, fifo'[i].total) = L[fifo'[i].era]
          /\ loading' # None => Minus(loading'.value, loading'.total) = L[loading'.era]
          /\ \A e \in 0 .. MaxResets : e <= era => L[e] = K[e]
      BY <1>2, <2>1, <2>3
    <3>3. Fits(L)'
      BY <2>1, <3>1, <3>2 DEF Fits
    <3>. QED BY <2>1, <3>3 DEF IOffsets, RatesCountEvents
  <2>. QED BY <1>4, <2>2, <2>3 DEF ResetFails
<1>. QED BY <1>1, <1>3, <1>4 DEF Requests, Publish, StartStop, ReadDirectly

LEMMA NextOffsets == IType /\ IOffsets /\ [Next]_vars => IOffsets'
<1>. SUFFICES ASSUME IType, IOffsets, UNCHANGED vars PROVE IOffsets'
  BY ElectronicsOffsets, ReadoutOffsets, RequestsOffsets DEF Next
<1>. PICK K : Fits(K)
  BY DEF IOffsets
<1>1. Fits(K)'
  BY DEF vars, electronics, values, Fits
<1>. QED BY <1>1 DEF IOffsets, RatesCountEvents, vars, values
-------------------------------------------------------------------------------
(* The interval that the sets were counted in *)

Good(x) == x.whole /\ x.code = code
Loaded == IF loading # None THEN 1 ELSE 0
Looked == readout.sets + IF readout.partial THEN 1 ELSE 0
Outdating == pc = "fifo" /\ readout.state = "Outdated"
Adapting == pc = "load" /\ readout.state = "Changed"

\* Of the sets after the first k, counting the one being loaded and the next one, all but the
\* first were counted in a whole interval of the present length.
FreshAfter(k) ==
  /\ \A i \in k + 2 .. Len(fifo) : Good(fifo[i])
  /\ (loading # None /\ Len(fifo) > k) => Good(loading)
  /\ changed => Len(fifo) + Loaded <= k

\* So was the first of all, or it will not make a rate of its own.
FirstOk ==
  \/ counters = None \/ base.junk
  \/ fifo # <<>> /\ Good(fifo[1])
  \/ fifo = <<>> /\ loading # None /\ Good(loading)
  \/ fifo = <<>> /\ loading = None /\ ~changed

Adapted ==
  /\ cached = code /\ interval = code /\ code \in 1 .. 7
  /\ Outdating => FreshAfter(Looked)
  /\ (~Outdating /\ ~Adapting) => FreshAfter(0) /\ FirstOk

IInterval ==
  /\ Outdating => Len(fifo) >= readout.sets
  /\ ~unseen => Adapted
  /\ RatesUseTheirInterval

LEMMA InitInterval == Init => IInterval
BY DEF Init, IInterval, Outdating, RatesUseTheirInterval

LEMMA LoadKeepsFresh ==
  ASSUME IType, NEW k \in Nat, FreshAfter(k), BeginLoad \/ EndLoad
  PROVE  FreshAfter(k)'
<1>1. fifo \in Seq(Set) /\ Len(fifo) \in Nat /\ changed \in BOOLEAN /\ Loaded \in {0, 1}
  BY DEF IType, ElectronicsOK, Loaded
<1>2. CASE BeginLoad
  <2>1. loading = None /\ fifo' = fifo /\ code' = code /\ changed' = FALSE
        /\ loading' = [value |-> count, total |-> total, era |-> era, code |-> code,
                       whole |-> ~changed, follows |-> ~lost]
    BY <1>2 DEF BeginLoad
  <2>2. Len(fifo) > k => ~changed
    BY <1>1 DEF FreshAfter
  <2>3. Len(fifo) > k => Good(loading)'
    BY <2>1, <2>2 DEF Good
  <2>. QED BY <2>1, <2>3 DEF FreshAfter, Good
<1>3. CASE EndLoad /\ fifo' = Append(fifo, loading)
  <2>1. loading # None /\ loading' = None /\ code' = code /\ changed' = changed
    BY <1>3 DEF EndLoad
  <2>2. Len(fifo') = Len(fifo) + 1 /\ fifo'[Len(fifo) + 1] = loading
        /\ \A i \in 1 .. Len(fifo) : fifo'[i] = fifo[i]
    BY <1>1, <1>3
  <2>3. ASSUME NEW i \in k + 2 .. Len(fifo') PROVE Good(fifo[i])' 
    <3>1. CASE i = Len(fifo) + 1
      <4>1. Good(loading)
        BY <1>1, <2>1, <2>2, <3>1 DEF FreshAfter
      <4>. QED BY <2>1, <2>2, <3>1, <4>1 DEF Good
    <3>2. CASE i # Len(fifo) + 1
      <4>1. i \in 1 .. Len(fifo) /\ i \in k + 2 .. Len(fifo)
        BY <1>1, <2>2, <3>2
      <4>2. Good(fifo[i]) /\ fifo'[i] = fifo[i]
        BY <2>2, <4>1 DEF FreshAfter
      <4>. QED BY <2>1, <4>2 DEF Good
    <3>. QED BY <3>1, <3>2
  <2>4. changed => Len(fifo) + 1 <= k
    BY <2>1 DEF FreshAfter, Loaded
  <2>. QED BY <1>1, <2>1, <2>2, <2>3, <2>4 DEF FreshAfter, Loaded
<1>4. CASE EndLoad /\ fifo' = fifo
  <2>1. loading # None /\ loading' = None /\ code' = code /\ changed' = changed
    BY <1>4 DEF EndLoad
  <2>. QED BY <1>1, <1>4, <2>1 DEF FreshAfter, Loaded, Good
<1>. QED BY <1>2, <1>3, <1>4 DEF EndLoad

LEMMA LoadKeepsFirst ==
  ASSUME IType, FirstOk, BeginLoad \/ EndLoad
  PROVE  FirstOk'
<1>1. fifo \in Seq(Set) /\ Len(fifo) \in Nat /\ changed \in BOOLEAN
  BY DEF IType, ElectronicsOK
<1>2. counters' = counters /\ base' = base /\ code' = code
  BY DEF BeginLoad, EndLoad, values
<1>3. CASE BeginLoad
  <2>1. loading = None /\ fifo' = fifo /\ changed' = FALSE
        /\ loading' = [value |-> count, total |-> total, era |-> era, code |-> code,
                       whole |-> ~changed, follows |-> ~lost]
    BY <1>3 DEF BeginLoad
  <2>2. ~changed => loading'.whole /\ loading'.code = code
    BY <2>1
  <2>. QED BY <1>2, <2>1, <2>2 DEF FirstOk, Good
<1>4. CASE EndLoad /\ fifo' = Append(fifo, loading)
  <2>1. loading # None /\ fifo' # <<>> /\ fifo'[1] = IF fifo = <<>> THEN loading ELSE fifo[1]
    BY <1>1, <1>4 DEF EndLoad
  <2>. QED BY <1>2, <2>1 DEF FirstOk, Good
<1>5. CASE EndLoad /\ fifo' = fifo /\ Len(fifo) >= MaxSets
  <2>1. fifo # <<>> /\ changed' = changed
    BY <1>1, <1>5, Constants DEF EndLoad
  <2>. QED BY <1>2, <1>5, <2>1 DEF FirstOk, Good
<1>6. EndLoad => fifo' = Append(fifo, loading) \/ (fifo' = fifo /\ Len(fifo) >= MaxSets)
  BY <1>1, Constants DEF EndLoad
<1>. QED BY <1>3, <1>4, <1>5, <1>6

LEMMA ElectronicsInterval == IType /\ IInterval /\ (Electronics \/ Clients) => IInterval'
<1>. SUFFICES ASSUME IType, IInterval, Electronics \/ Clients PROVE IInterval'
  OBVIOUS
<1>0. UNCHANGED <<pc, readout, values>> /\ Looked \in Nat
  BY DEF Electronics, Clients, Event, BeginLoad, EndLoad, WriteInterval, StoreInterval,
         Looked, IType, ServiceOK, Readouts
<1>1. RatesUseTheirInterval'
  BY <1>0 DEF RatesUseTheirInterval, IInterval, values
<1>2. CASE BeginLoad \/ EndLoad
  <2>1. Outdating' => Len(fifo') >= readout'.sets
    <3>1. readout.sets \in Nat /\ fifo \in Seq(Set) /\ Len(fifo) \in Nat
      BY DEF IType, ElectronicsOK, ServiceOK, Readouts
    <3>2. Len(fifo') >= Len(fifo) /\ Len(fifo') \in Nat
      BY <1>2, <3>1 DEF BeginLoad, EndLoad
    <3>. QED BY <1>0, <3>1, <3>2 DEF IInterval, Outdating
  <2>2. UNCHANGED <<cached, interval, code, unseen>>
    BY <1>2 DEF BeginLoad, EndLoad, control
  <2>. PICK k : k = Looked
    OBVIOUS
  <2>3. Looked' = Looked /\ (Outdating' <=> Outdating) /\ (Adapting' <=> Adapting)
    BY <1>0 DEF Looked, Outdating, Adapting
  <2>4. ASSUME ~unseen PROVE Adapted'
    <3>1. Adapted
      BY <2>4 DEF IInterval
    <3>2. ASSUME Outdating PROVE FreshAfter(k)'
      BY <1>0, <1>2, <3>1, <3>2, LoadKeepsFresh DEF Adapted
    <3>3. ASSUME ~Outdating, ~Adapting PROVE FreshAfter(0)' /\ FirstOk'
      BY <1>2, <3>1, <3>3, LoadKeepsFresh, LoadKeepsFirst DEF Adapted
    <3>. QED BY <2>2, <2>3, <3>1, <3>2, <3>3 DEF Adapted
  <2>. QED BY <1>1, <2>1, <2>2, <2>4 DEF IInterval
<1>3. CASE Event
  BY <1>0, <1>1, <1>3 DEF Event, control, values, IInterval, Adapted, Outdating, Adapting, Looked,
                          FreshAfter, FirstOk, Loaded, Good
<1>4. ASSUME NEW c \in Codes, WriteInterval(c) PROVE IInterval'
  BY <1>0, <1>1, <1>4 DEF WriteInterval, IInterval, Outdating
<1>5. CASE StoreInterval
  <2>1. unseen
    BY <1>5 DEF StoreInterval, IInterval, Adapted, IType, ServiceOK
  <2>. QED BY <1>0, <1>1, <1>5, <2>1 DEF StoreInterval, electronics, IInterval, Outdating
<1>. QED BY <1>2, <1>3, <1>4, <1>5 DEF Electronics, Clients

\* When the FIFO was cleared, or read, no more than one set of another interval is ahead.
LEMMA ClearedIsFresh ==
  ASSUME IType, TakeWords, Outdating, Len(fifo) >= readout.sets, FreshAfter(Looked),
         UNCHANGED <<code, changed>>
  PROVE  FreshAfter(0)'
<1>. DEFINE n == readout.sets
            left == SubSeq(fifo, n + 1, Len(fifo))
<1>1. fifo \in Seq(Set) /\ Len(fifo) \in Nat /\ n \in Nat /\ n <= Len(fifo)
      /\ readout.partial \in BOOLEAN /\ Looked = n + (IF readout.partial THEN 1 ELSE 0)
      /\ changed \in BOOLEAN
  BY DEF IType, ElectronicsOK, ServiceOK, Readouts, Looked
<1>2. \/ readout.partial /\ fifo' = (IF left = <<>> THEN <<>> ELSE Tail(left))
         /\ loading' = (IF left = <<>> THEN None ELSE loading)
      \/ ~readout.partial /\ fifo' = left /\ loading' = loading
  BY DEF TakeWords, Outdating
<1>. HIDE DEF n
<1>3. /\ left \in Seq(Set) /\ Len(left) = Len(fifo) - n /\ Len(left) \in Nat
      /\ \A i \in 1 .. Len(left) : n + i \in 1 .. Len(fifo) /\ left[i] = fifo[n + i]
  <2>1. /\ left \in Seq(Set) /\ Len(left) = IF n <= Len(fifo) THEN Len(fifo) - n ELSE 0
    BY <1>1, Rest
  <2>2. \A i \in 1 .. Len(left) : n + i \in 1 .. Len(fifo) /\ left[i] = fifo[n + i]
    BY <1>1, Rest
  <2>. QED BY <1>1, <2>1, <2>2
<1>. HIDE DEF left
<1>4. CASE ~readout.partial /\ fifo' = left /\ loading' = loading
  <2>1. Looked = n
    BY <1>1, <1>4
  <2>2. ASSUME NEW i \in 2 .. Len(left) PROVE Good(left[i])
    <3>1. i \in 1 .. Len(left) /\ n + i \in n + 2 .. Len(fifo)
      BY <1>1, <1>3
    <3>. QED BY <1>3, <2>1, <3>1 DEF FreshAfter
  <2>3. (loading # None /\ Len(left) > 0) => Good(loading)
    BY <1>1, <1>3, <2>1 DEF FreshAfter
  <2>4. changed => Len(left) + Loaded <= 0
    BY <1>1, <1>3, <2>1 DEF FreshAfter, Loaded
  <2>. QED BY <1>1, <1>4, <2>2, <2>3, <2>4 DEF FreshAfter, Loaded, Good
<1>5. CASE readout.partial /\ left = <<>> /\ fifo' = <<>> /\ loading' = None
  BY <1>5 DEF FreshAfter, Loaded
<1>6. CASE readout.partial /\ left # <<>> /\ fifo' = Tail(left) /\ loading' = loading
  <2>1. Looked = n + 1
    BY <1>1, <1>6
  <2>2. /\ Len(Tail(left)) = Len(left) - 1 /\ Len(left) >= 1
        /\ \A i \in 1 .. Len(Tail(left)) : i + 1 \in 1 .. Len(left) /\ Tail(left)[i] = left[i + 1]
    BY <1>3, <1>6, Dropped
  <2>3. ASSUME NEW i \in 2 .. Len(Tail(left)) PROVE Good(Tail(left)[i])
    <3>1. i + 1 \in 1 .. Len(left) /\ Tail(left)[i] = left[i + 1]
      BY <1>3, <2>2
    <3>2. left[i + 1] = fifo[n + (i + 1)] /\ n + (i + 1) \in (n + 1) + 2 .. Len(fifo)
      BY <1>1, <1>3, <2>2, <3>1
    <3>. QED BY <2>1, <3>1, <3>2 DEF FreshAfter
  <2>4. (loading # None /\ Len(Tail(left)) > 0) => Good(loading)
    BY <1>1, <1>3, <2>1, <2>2 DEF FreshAfter
  <2>5. changed => Len(Tail(left)) + Loaded <= 0
    <3>1. changed => Len(fifo) + Loaded <= n + 1
      BY <2>1 DEF FreshAfter
    <3>2. Loaded \in {0, 1} /\ Len(Tail(left)) = Len(fifo) - n - 1
      BY <1>1, <1>3, <2>2 DEF Loaded
    <3>. QED BY <1>1, <3>1, <3>2
  <2>. QED BY <1>1, <1>6, <2>3, <2>4, <2>5 DEF FreshAfter, Loaded, Good
<1>. QED BY <1>2, <1>4, <1>5, <1>6

LEMMA ReadIsFresh ==
  ASSUME IType, TakeWords, pc = "fifo", ~Outdating, ~torn, FreshAfter(0), UNCHANGED <<code, changed>>
  PROVE  /\ FreshAfter(0)' /\ ~changed
         /\ (fifo' # <<>> /\ Good(fifo[1])') \/ (fifo' = <<>> /\ (loading' # None => Good(loading)'))
<1>. DEFINE n == readout.sets
            left == SubSeq(fifo, n + 1, Len(fifo))
<1>1. fifo \in Seq(Set) /\ Len(fifo) \in Nat /\ n \in Nat /\ n >= 1 /\ changed \in BOOLEAN
  BY DEF IType, ElectronicsOK, ServiceOK, Readouts, Outdating
<1>2. fifo' = left /\ loading' = loading /\ n <= Len(fifo)
  BY DEF TakeWords, Outdating
<1>. HIDE DEF n
<1>3. /\ left \in Seq(Set) /\ Len(left) = Len(fifo) - n
      /\ \A i \in 1 .. Len(left) : n + i \in 1 .. Len(fifo) /\ left[i] = fifo[n + i]
  <2>1. /\ left \in Seq(Set) /\ Len(left) = IF n <= Len(fifo) THEN Len(fifo) - n ELSE 0
    BY <1>1, Rest
  <2>2. \A i \in 1 .. Len(left) : n + i \in 1 .. Len(fifo) /\ left[i] = fifo[n + i]
    BY <1>1, Rest
  <2>. QED BY <1>1, <1>2, <2>1, <2>2
<1>. HIDE DEF left
<1>4. ~changed
  BY <1>1, <1>2 DEF FreshAfter, Loaded
<1>5. \A i \in 1 .. Len(left) : Good(left[i])
  <2>1. ASSUME NEW i \in 1 .. Len(left) PROVE Good(left[i])
    <3>1. left[i] = fifo[n + i] /\ n + i \in 2 .. Len(fifo)
      BY <1>1, <1>2, <1>3
    <3>. QED BY <3>1 DEF FreshAfter
  <2>. QED BY <2>1
<1>6. loading # None => Good(loading)
  BY <1>1, <1>2 DEF FreshAfter
<1>7. FreshAfter(0)'
  BY <1>2, <1>3, <1>4, <1>5, <1>6 DEF FreshAfter, Good
<1>8. left # <<>> => 1 \in 1 .. Len(left)
  BY <1>3
<1>. QED BY <1>2, <1>4, <1>5, <1>6, <1>7, <1>8 DEF Good

LEMMA ReadoutInterval == IType /\ IInterval /\ Readout => IInterval'
<1>. SUFFICES ASSUME IType, IInterval, Readout PROVE IInterval'
  OBVIOUS
<1>0. /\ unseen \in BOOLEAN /\ Len(fifo) \in Nat /\ readout.sets \in Nat /\ NoReadout.state = "Ok"
      /\ changed \in BOOLEAN /\ readout \in Readouts
  BY DEF IType, ElectronicsOK, ServiceOK, Readouts, NoReadout
<1>1. CASE Wake \/ IntervalUnusable \/ FifoEmpty
  BY <1>1 DEF Wake, IntervalUnusable, FifoEmpty, electronics, values, control, IInterval, Adapted,
     Outdating, Adapting, Looked, FreshAfter, FirstOk, Loaded, Good, RatesUseTheirInterval
<1>2. CASE IntervalDisabled
  <2>1. unseen
    BY <1>2 DEF IntervalDisabled, IInterval, Adapted
  <2>. QED BY <1>2, <2>1 DEF IntervalDisabled, IInterval, Outdating, values, RatesUseTheirInterval
<1>3. CASE IntervalOk
  <2>1. ~unseen => FreshAfter(0) /\ FirstOk
    BY <1>3 DEF IntervalOk, IInterval, Adapted, Outdating, Adapting
  <2>2. readout'.state = "Ok"
    BY <1>0, <1>3 DEF IntervalOk, Readouts
  <2>. QED BY <1>3, <2>1, <2>2
           DEF IntervalOk, electronics, values, control, IInterval, Adapted, Outdating, Adapting,
               FreshAfter, FirstOk, Loaded, Good, RatesUseTheirInterval
<1>4. CASE IntervalChanged
  <2>1. pc' = "load" /\ readout'.state = "Changed" /\ rates' = None
        /\ interval' = cached /\ cached' = cached /\ code' = code /\ cached \in 1 .. 7
        /\ unseen' = (cached # code)
    BY <1>0, <1>4 DEF IntervalChanged, resetService, electronics, Readouts
  <2>. QED BY <2>1 DEF IInterval, Adapted, Outdating, Adapting, RatesUseTheirInterval
<1>5. CASE LoadFails
  <2>1. ~unseen' => ~unseen /\ FreshAfter(0) /\ FirstOk
    BY <1>0, <1>5 DEF LoadFails, IInterval, Adapted, Outdating, Adapting
  <2>2. readout'.state = "Ok" /\ pc' = "requests"
    BY <1>0, <1>5 DEF LoadFails
  <2>. QED BY <1>5, <2>1, <2>2
           DEF LoadFails, electronics, values, IInterval, Adapted, Outdating, Adapting,
               FreshAfter, FirstOk, Loaded, Good, RatesUseTheirInterval
<1>6. CASE FifoFilled
  <2>. DEFINE state == IF readout.state = "Changed" THEN "Outdated" ELSE evaluateFifoState
  <2>1. readout' = [state |-> state, sets |-> Len(fifo) + IF state = "Partial" THEN 1 ELSE 0,
                    partial |-> loading # None]
    BY <1>6 DEF FifoFilled
  <2>. HIDE DEF state
  <2>2. pc = "load" /\ pc' = "fifo" /\ UNCHANGED <<electronics, values, cached, interval, unseen>>
    BY <1>6 DEF FifoFilled
  <2>3. Outdating' => readout'.sets = Len(fifo) /\ Looked' = Len(fifo) + Loaded
    <3>1. readout'.state = state /\ readout'.partial = (loading # None)
          /\ readout'.sets = Len(fifo) + (IF state = "Partial" THEN 1 ELSE 0)
      BY <2>1
    <3>2. ASSUME Outdating' PROVE readout'.sets = Len(fifo)
      BY <1>0, <3>1, <3>2 DEF Outdating
    <3>3. ASSUME Outdating' PROVE Looked' = Len(fifo) + Loaded
      BY <1>0, <3>1, <3>2, <3>3 DEF Looked, Loaded
    <3>. QED BY <3>2, <3>3
  <2>. PICK k : k = Looked'
    OBVIOUS
  <2>4. Outdating' => FreshAfter(k)'
    BY <1>0, <2>2, <2>3 DEF FreshAfter, Loaded, electronics
  <2>5. ~Outdating' /\ ~unseen => FreshAfter(0) /\ FirstOk
    <3>1. Adapting => Outdating'
      BY <2>1, <2>2 DEF Adapting, Outdating, state
    <3>. QED BY <2>2, <3>1 DEF IInterval, Adapted, Outdating
  <2>6. ~Adapting' /\ RatesUseTheirInterval'
    BY <2>2 DEF Adapting, RatesUseTheirInterval, IInterval, values
  <2>7. ~Outdating' /\ ~unseen => (FreshAfter(0) /\ FirstOk)'
    BY <2>2, <2>5 DEF FreshAfter, FirstOk, Loaded, Good, electronics, values
  <2>8. Outdating' => FreshAfter(Looked)'
    BY <2>4
  <2>9. ~unseen => Adapted'
    BY <2>2, <2>6, <2>7, <2>8 DEF IInterval, Adapted, electronics
  <2>10. Outdating' => Len(fifo') >= readout'.sets
    BY <1>0, <2>2, <2>3 DEF electronics
  <2>. QED BY <2>2, <2>6, <2>9, <2>10 DEF IInterval
<1>7. CASE ReadFails
  <2>1. /\ pc = "fifo" /\ pc' = "requests" /\ unseen' = (unseen \/ readout.state = "Outdated")
        /\ UNCHANGED <<code, changed, counters, rates, cached, interval>>
        /\ base'.junk = base.junk
    BY <1>7 DEF ReadFails, IType, ValuesOK, Bases
  <2>2. ~Outdating' /\ ~Adapting' /\ RatesUseTheirInterval'
    BY <2>1 DEF Outdating, Adapting, RatesUseTheirInterval, IInterval
  <2>3. ASSUME ~unseen' PROVE FreshAfter(0)' /\ FirstOk'
    <3>1. ~Outdating /\ FreshAfter(0) /\ FirstOk
      BY <2>1, <2>3 DEF IInterval, Adapted, Outdating, Adapting
    <3>2. CASE UNCHANGED <<fifo, torn, loading, lost, base>>
      BY <2>1, <3>1, <3>2 DEF FreshAfter, FirstOk, Loaded, Good
    <3>3. CASE TakeWords /\ ~torn
      <4>1. /\ FreshAfter(0)' /\ ~changed
            /\ (fifo' # <<>> /\ Good(fifo[1])') \/ (fifo' = <<>> /\ (loading' # None => Good(loading)'))
        BY <2>1, <3>1, <3>3, ReadIsFresh
      <4>. QED BY <2>1, <4>1 DEF FirstOk
    <3>4. CASE TakeWords /\ torn
      <4>1. fifo' = <<>> /\ loading' = None
        BY <2>1, <3>1, <3>4 DEF TakeWords, Outdating
      <4>2. FreshAfter(0)'
        BY <4>1 DEF FreshAfter, Loaded
      <4>3. counters = None \/ base.junk \/ ~changed
        <5>1. changed => Len(fifo) + Loaded <= 0
          BY <3>1 DEF FreshAfter
        <5>2. changed => fifo = <<>> /\ loading = None
          BY <1>0, <5>1 DEF Loaded, IType, ElectronicsOK
        <5>. QED BY <3>1, <5>2 DEF FirstOk
      <4>. QED BY <2>1, <4>1, <4>2, <4>3 DEF FirstOk
    <3>. QED BY <1>7, <3>2, <3>3, <3>4 DEF ReadFails, IType, ElectronicsOK
  <2>. QED BY <2>1, <2>2, <2>3 DEF IInterval, Adapted
<1>8. CASE ClearFifo
  <2>1. /\ Outdating /\ pc' = "requests" /\ counters' = None /\ rates' = None /\ TakeWords
        /\ UNCHANGED <<code, changed, cached, interval, unseen>>
    BY <1>8 DEF ClearFifo, Outdating, resetService, control
  <2>2. ASSUME ~unseen PROVE FreshAfter(0)'
    BY <2>1, <2>2, ClearedIsFresh DEF IInterval, Adapted
  <2>. QED BY <2>1, <2>2
           DEF IInterval, Adapted, Outdating, Adapting, FirstOk, RatesUseTheirInterval
<1>9. CASE ReadFifo
  <2>. DEFINE n == readout.sets
              new == fifo[n]
  <2>1. /\ pc = "fifo" /\ pc' = "requests" /\ ~Outdating /\ ~torn /\ TakeWords
        /\ UNCHANGED <<code, changed, cached, interval, unseen>>
        /\ rates' = IF n > 1 THEN Rate(new, fifo[n - 1].value, Base(fifo[n - 1]))
                    ELSE IF counters # None THEN Rate(new, counters, base) ELSE rates
    BY <1>9 DEF ReadFifo, Outdating, control
  <2>2. n \in 1 .. Len(fifo)
    BY <2>1 DEF TakeWords, IType, ServiceOK, Outdating, Readouts, ElectronicsOK
  <2>3. ASSUME ~unseen PROVE Adapted'
    <3>1. FreshAfter(0)
      BY <2>1, <2>3 DEF IInterval, Adapted, Adapting
    <3>2. /\ FreshAfter(0)' /\ ~changed
          /\ (fifo' # <<>> /\ Good(fifo[1])') \/ (fifo' = <<>> /\ (loading' # None => Good(loading)'))
      BY <2>1, <3>1, ReadIsFresh
    <3>. QED BY <2>1, <2>3, <3>2 DEF IInterval, Adapted, Outdating, Adapting, FirstOk
  <2>4. RatesUseTheirInterval'
    <3>1. CASE n > 1
      <4>1. ~unseen => Good(new) /\ interval = code
        <5>1. n \in 2 .. Len(fifo)
          BY <2>2, <3>1
        <5>. QED BY <2>1, <5>1 DEF IInterval, Adapted, Adapting, FreshAfter
      <4>2. rates'.ownInterval = (new.whole /\ new.code = interval) /\ rates'.unseen = unseen
        BY <2>1, <3>1 DEF Rate
      <4>. QED BY <1>0, <4>1, <4>2 DEF Good, RatesUseTheirInterval
    <3>2. CASE n = 1 /\ counters # None
      <4>1. fifo # <<>>
        BY <2>2
      <4>2. ~unseen => interval = code /\ (base.junk \/ Good(new))
        BY <2>1, <3>2, <4>1 DEF IInterval, Adapted, Adapting, FirstOk
      <4>3. /\ rates'.ownInterval = (new.whole /\ new.code = interval) /\ rates'.unseen = unseen
            /\ rates'.junk = base.junk
        BY <2>1, <3>2 DEF Rate
      <4>. QED BY <1>0, <4>2, <4>3 DEF Good, RatesUseTheirInterval
    <3>3. CASE n = 1 /\ counters = None
      BY <2>1, <3>3 DEF RatesUseTheirInterval, IInterval
    <3>. QED BY <2>2, <3>1, <3>2, <3>3
  <2>. QED BY <2>1, <2>3, <2>4 DEF IInterval, Outdating
<1>10. CASE ReadTornFifo
  <2>1. /\ pc' = "requests" /\ base'.junk /\ fifo' = <<>> /\ loading' = None
        /\ UNCHANGED <<code, changed, cached, interval, unseen>>
    BY <1>10 DEF ReadTornFifo, TakeWords, control
  <2>2. FreshAfter(0)' /\ FirstOk'
    <3>1. ~unseen => ~changed \/ base'.junk
      BY <2>1
    <3>2. changed /\ ~unseen' => Len(fifo') + Loaded' <= 0
      BY <2>1 DEF Loaded
    <3>. QED BY <2>1 DEF FreshAfter, FirstOk, Loaded
  <2>3. RatesUseTheirInterval'
    BY <1>10 DEF ReadTornFifo, RatesUseTheirInterval, IInterval
  <2>. QED BY <2>1, <2>2, <2>3 DEF IInterval, Adapted, Outdating, Adapting
<1>. QED BY <1>1, <1>2, <1>3, <1>4, <1>5, <1>6, <1>7, <1>8, <1>9, <1>10 DEF Readout

LEMMA RequestsInterval == IType /\ IInterval /\ Requests => IInterval'
<1>. SUFFICES ASSUME IType, IInterval, Requests PROVE IInterval'
  OBVIOUS
<1>1. CASE Publish \/ StartStop \/ ReadDirectly
  BY <1>1 DEF Publish, StartStop, ReadDirectly, electronics, values, control, IInterval, Adapted,
     Outdating, Adapting, Looked, FreshAfter, FirstOk, Loaded, Good, RatesUseTheirInterval
<1>2. CASE ResetCounters \/ ResetFails
  <2>1. /\ UNCHANGED <<fifo, loading, code, changed, pc, readout, rates, cached, interval, unseen>>
        /\ (counters = None => counters' = None) /\ base'.junk = base.junk
    BY <1>2 DEF ResetCounters, ResetFails, values, control, IType, ValuesOK, Bases
  <2>. QED BY <2>1 DEF IInterval, Adapted, Outdating, Adapting, Looked, FreshAfter, FirstOk,
                       Loaded, Good, RatesUseTheirInterval
<1>. QED BY <1>1, <1>2 DEF Requests

LEMMA NextInterval == IType /\ IInterval /\ [Next]_vars => IInterval'
<1>1. IInterval /\ UNCHANGED vars => IInterval'
  BY DEF vars, electronics, values, control, IInterval, Adapted, Outdating, Adapting, Looked,
         FreshAfter, FirstOk, Loaded, Good, RatesUseTheirInterval
<1>. QED BY <1>1, ElectronicsInterval, ReadoutInterval, RequestsInterval DEF Next
-------------------------------------------------------------------------------
(* Sets that were lost, if no more than one set is loaded while the FIFO is read *)

\* Of the sets after the first k, counting the one being loaded and the next one, all but the
\* first follow the set before them.
FollowAfter(k) ==
  /\ \A i \in k + 2 .. Len(fifo) : fifo[i].follows
  /\ (loading # None /\ Len(fifo) > k) => loading.follows
  /\ lost => Len(fifo) + Loaded <= k

\* So does the first of all, or it will not make a rate of its own.
FirstFollows ==
  \/ counters = None \/ base.junk \/ base.behind
  \/ fifo # <<>> /\ fifo[1].follows
  \/ fifo = <<>> /\ loading # None /\ loading.follows
  \/ fifo = <<>> /\ loading = None /\ ~lost

\* A set is only lost beside a FIFO that the service will find full.
Full == Len(fifo) = MaxSets /\ \A i \in 2 .. Len(fifo) : fifo[i].follows

ISuccessive ==
  /\ late <= 1
  /\ Outdating => /\ Len(fifo) >= readout.sets /\ Len(fifo) + Loaded <= readout.sets + late
                  /\ FollowAfter(Looked)
  /\ (pc = "fifo" /\ ~Outdating) => /\ Len(fifo) + Loaded + 1 <= MaxSets + late
                                    /\ ~torn => FollowAfter(0)
  /\ ~torn => (Full \/ FollowAfter(0)) /\ FirstFollows
  /\ RatesUseSuccessiveSets

LEMMA InitSuccessive == Init => ISuccessive
BY DEF Init, ISuccessive, Outdating, FollowAfter, FirstFollows, Loaded, RatesUseSuccessiveSets

LEMMA LoadKeepsFollow ==
  ASSUME IType, NEW k \in Nat, FollowAfter(k),
         BeginLoad \/ (EndLoad /\ (Len(fifo) < MaxSets \/ Len(fifo) <= k))
  PROVE  FollowAfter(k)'
<1>1. fifo \in Seq(Set) /\ Len(fifo) \in Nat /\ lost \in BOOLEAN /\ Loaded \in {0, 1}
  BY DEF IType, ElectronicsOK, Loaded
<1>2. CASE BeginLoad
  <2>1. loading = None /\ fifo' = fifo /\ lost' = FALSE
        /\ loading' = [value |-> count, total |-> total, era |-> era, code |-> code,
                       whole |-> ~changed, follows |-> ~lost]
    BY <1>2 DEF BeginLoad
  <2>2. Len(fifo) > k => ~lost
    BY <1>1 DEF FollowAfter
  <2>3. Len(fifo) > k => loading'.follows
    BY <2>1, <2>2
  <2>. QED BY <2>1, <2>3 DEF FollowAfter
<1>3. CASE EndLoad /\ fifo' = Append(fifo, loading) /\ lost' = lost
  <2>1. loading # None /\ loading' = None
    BY <1>3 DEF EndLoad
  <2>2. Len(fifo') = Len(fifo) + 1 /\ fifo'[Len(fifo) + 1] = loading
        /\ \A i \in 1 .. Len(fifo) : fifo'[i] = fifo[i]
    BY <1>1, <1>3
  <2>3. ASSUME NEW i \in k + 2 .. Len(fifo') PROVE fifo'[i].follows
    <3>1. CASE i = Len(fifo) + 1
      BY <1>1, <2>1, <2>2, <3>1 DEF FollowAfter
    <3>2. CASE i # Len(fifo) + 1
      <4>1. i \in 1 .. Len(fifo) /\ i \in k + 2 .. Len(fifo)
        BY <1>1, <2>2, <3>2
      <4>. QED BY <2>2, <4>1 DEF FollowAfter
    <3>. QED BY <3>1, <3>2
  <2>4. lost => Len(fifo) + 1 <= k
    BY <2>1 DEF FollowAfter, Loaded
  <2>. QED BY <1>1, <1>3, <2>1, <2>2, <2>3, <2>4 DEF FollowAfter, Loaded
<1>4. CASE EndLoad /\ fifo' = fifo /\ Len(fifo) <= k
  <2>1. loading' = None
    BY <1>4 DEF EndLoad
  <2>. QED BY <1>1, <1>4, <2>1 DEF FollowAfter, Loaded
<1>. QED BY <1>1, <1>2, <1>3, <1>4, Constants DEF EndLoad

LEMMA LoadKeepsFirstFollows ==
  ASSUME IType, FirstFollows, BeginLoad \/ EndLoad
  PROVE  FirstFollows'
<1>1. fifo \in Seq(Set) /\ Len(fifo) \in Nat /\ lost \in BOOLEAN
  BY DEF IType, ElectronicsOK
<1>2. counters' = counters /\ base' = base
  BY DEF BeginLoad, EndLoad, values
<1>3. CASE BeginLoad
  <2>1. loading = None /\ fifo' = fifo /\ lost' = FALSE
        /\ loading' = [value |-> count, total |-> total, era |-> era, code |-> code,
                       whole |-> ~changed, follows |-> ~lost]
    BY <1>3 DEF BeginLoad
  <2>2. ~lost => loading'.follows
    BY <2>1
  <2>. QED BY <1>2, <2>1, <2>2 DEF FirstFollows
<1>4. CASE EndLoad /\ fifo' = Append(fifo, loading)
  <2>1. loading # None /\ fifo' # <<>> /\ fifo'[1] = IF fifo = <<>> THEN loading ELSE fifo[1]
    BY <1>1, <1>4 DEF EndLoad
  <2>. QED BY <1>2, <2>1 DEF FirstFollows
<1>5. CASE EndLoad /\ fifo' = fifo /\ Len(fifo) >= MaxSets
  <2>1. fifo # <<>>
    BY <1>1, <1>5, Constants
  <2>. QED BY <1>2, <1>5, <2>1 DEF FirstFollows
<1>6. EndLoad => fifo' = Append(fifo, loading) \/ (fifo' = fifo /\ Len(fifo) >= MaxSets)
  BY <1>1, Constants DEF EndLoad
<1>. QED BY <1>3, <1>4, <1>5, <1>6

LEMMA LoadKeepsFull ==
  ASSUME IType, ~torn => Full \/ FollowAfter(0), BeginLoad \/ EndLoad
  PROVE  ~torn' => Full' \/ FollowAfter(0)'
<1>. SUFFICES ASSUME ~torn PROVE Full' \/ FollowAfter(0)'
  BY DEF BeginLoad, EndLoad
<1>1. fifo \in Seq(Set) /\ Len(fifo) \in Nat /\ Len(fifo) <= MaxSets
  BY DEF IType, ElectronicsOK
<1>2. CASE fifo' = fifo /\ Len(fifo) >= MaxSets
  BY <1>1, <1>2, Constants DEF Full, FollowAfter
<1>3. CASE Len(fifo) < MaxSets
  BY <1>3, LoadKeepsFollow DEF Full
<1>. QED BY <1>1, <1>2, <1>3, Constants DEF BeginLoad, EndLoad

LEMMA ElectronicsSuccessive ==
  ASSUME MaxLate <= 1, IType, ISuccessive, Electronics \/ Clients
  PROVE  ISuccessive'
<1>0. UNCHANGED <<pc, readout, values>> /\ Looked \in Nat
  BY DEF Electronics, Clients, Event, BeginLoad, EndLoad, WriteInterval, StoreInterval,
         Looked, IType, ServiceOK, Readouts
<1>1. RatesUseSuccessiveSets'
  BY <1>0 DEF RatesUseSuccessiveSets, ISuccessive, values
<1>2. CASE BeginLoad \/ EndLoad
  <2>0. /\ readout.sets \in Nat /\ fifo \in Seq(Set) /\ Len(fifo) \in Nat /\ late \in Nat
        /\ MaxSets \in Nat /\ MaxLate \in Nat /\ Len(fifo) <= MaxSets
        /\ torn' = torn /\ torn \in BOOLEAN /\ Looked >= readout.sets
    BY <1>2, Constants
       DEF IType, ElectronicsOK, ServiceOK, Readouts, BeginLoad, EndLoad, Looked
  <2>. PICK k : k = Looked
    OBVIOUS
  <2>1. Looked' = Looked /\ (Outdating' <=> Outdating)
    BY <1>0 DEF Looked, Outdating
  <2>2. late' <= 1 /\ late' \in Nat /\ late' >= late
    BY <1>2, <2>0, Constants DEF BeginLoad, EndLoad, ISuccessive, control
  <2>3. ASSUME pc = "fifo" PROVE /\ Len(fifo') >= Len(fifo) /\ Len(fifo') \in Nat
                               /\ \A room \in Nat : Len(fifo) + Loaded <= room + late =>
                                                    Len(fifo') + Loaded' <= room + late'
    <3>1. CASE BeginLoad
      BY <2>0, <2>3, <3>1 DEF BeginLoad, Loaded
    <3>2. CASE EndLoad
      BY <2>0, <3>2 DEF EndLoad, Loaded, control
    <3>. QED BY <1>2, <3>1, <3>2
  <2>4. ASSUME Outdating
        PROVE  /\ Len(fifo') >= readout'.sets /\ Len(fifo') + Loaded' <= readout'.sets + late'
               /\ FollowAfter(k)'
    <3>1. Len(fifo) >= readout.sets /\ Len(fifo) + Loaded <= readout.sets + late /\ FollowAfter(k)
          /\ pc = "fifo"
      BY <2>4 DEF ISuccessive, Outdating
    <3>2. EndLoad => Len(fifo) <= k
      <4>1. EndLoad => Loaded = 1
        BY DEF EndLoad, Loaded
      <4>. QED BY <2>0, <3>1, <4>1 DEF ISuccessive
    <3>3. FollowAfter(k)'
      BY <1>0, <1>2, <3>1, <3>2, LoadKeepsFollow
    <3>. QED BY <1>0, <2>0, <2>3, <3>1, <3>3
  <2>5. ASSUME pc = "fifo", ~Outdating
        PROVE  /\ Len(fifo') + Loaded' + 1 <= MaxSets + late'
               /\ ~torn => FollowAfter(0)'
    <3>1. Len(fifo) + Loaded + 1 <= MaxSets + late /\ (~torn => FollowAfter(0))
      BY <2>5 DEF ISuccessive
    <3>2. EndLoad => Len(fifo) < MaxSets
      <4>1. EndLoad => Loaded = 1
        BY DEF EndLoad, Loaded
      <4>. QED BY <2>0, <3>1, <4>1 DEF ISuccessive
    <3>3. ~torn => FollowAfter(0)'
      BY <1>2, <3>1, <3>2, LoadKeepsFollow
    <3>4. Len(fifo') + Loaded' + 1 <= MaxSets + late'
      <4>1. MaxSets - 1 \in Nat /\ Loaded \in {0, 1} /\ Loaded' \in {0, 1}
        BY <2>0, Constants DEF Loaded
      <4>2. Len(fifo) + Loaded <= (MaxSets - 1) + late
        BY <2>0, <3>1, <4>1
      <4>3. Len(fifo') + Loaded' <= (MaxSets - 1) + late' /\ Len(fifo') \in Nat
        BY <2>3, <2>5, <4>1, <4>2
      <4>. QED BY <2>0, <2>2, <4>1, <4>3
    <3>. QED BY <3>3, <3>4
  <2>6. ~torn => (Full' \/ FollowAfter(0)') /\ FirstFollows'
    BY <1>2, <2>0, LoadKeepsFull, LoadKeepsFirstFollows DEF ISuccessive
  <2>7. FollowAfter(k)' => FollowAfter(Looked)'
    BY <2>1 DEF FollowAfter
  <2>. QED BY <1>0, <1>1, <2>0, <2>1, <2>2, <2>4, <2>5, <2>6, <2>7 DEF ISuccessive
<1>3. CASE Event \/ (\E c \in Codes : WriteInterval(c)) \/ StoreInterval
  <2>1. UNCHANGED <<fifo, torn, loading, lost, late>>
    BY <1>3 DEF Event, WriteInterval, StoreInterval, electronics, control
  <2>. QED BY <1>0, <1>1, <2>1 DEF ISuccessive, Outdating, Looked, FollowAfter, FirstFollows, Full,
                                   Loaded, values
<1>. QED BY <1>2, <1>3 DEF Electronics, Clients

\* When a FIFO that did not begin in the middle of a set was cleared, or read, at most the next
\* set follows a lost one.
LEMMA ClearedFollows ==
  ASSUME IType, TakeWords, Outdating, ~readout.partial,
         Len(fifo) >= readout.sets, FollowAfter(Looked)
  PROVE  FollowAfter(0)'
<1>. DEFINE n == readout.sets
            left == SubSeq(fifo, n + 1, Len(fifo))
<1>1. fifo \in Seq(Set) /\ Len(fifo) \in Nat /\ n \in Nat /\ n <= Len(fifo)
      /\ readout.partial \in BOOLEAN /\ Looked = n + (IF readout.partial THEN 1 ELSE 0)
      /\ lost \in BOOLEAN
  BY DEF IType, ElectronicsOK, ServiceOK, Readouts, Looked
<1>2. fifo' = left /\ loading' = loading /\ lost' = lost
  BY DEF TakeWords, Outdating
<1>. HIDE DEF n
<1>3. /\ left \in Seq(Set) /\ Len(left) = Len(fifo) - n /\ Len(left) \in Nat
      /\ \A i \in 1 .. Len(left) : n + i \in 1 .. Len(fifo) /\ left[i] = fifo[n + i]
  <2>1. /\ left \in Seq(Set) /\ Len(left) = IF n <= Len(fifo) THEN Len(fifo) - n ELSE 0
    BY <1>1, Rest
  <2>2. \A i \in 1 .. Len(left) : n + i \in 1 .. Len(fifo) /\ left[i] = fifo[n + i]
    BY <1>1, Rest
  <2>. QED BY <1>1, <2>1, <2>2
<1>. HIDE DEF left
<1>4. Looked = n
  BY <1>1
<1>5. ASSUME NEW i \in 2 .. Len(left) PROVE left[i].follows
  <2>1. i \in 1 .. Len(left) /\ n + i \in n + 2 .. Len(fifo)
    BY <1>1, <1>3
  <2>. QED BY <1>3, <1>4, <2>1 DEF FollowAfter
<1>6. (loading # None /\ Len(left) > 0) => loading.follows
  BY <1>1, <1>3, <1>4 DEF FollowAfter
<1>7. lost => Len(left) + Loaded <= 0
  BY <1>1, <1>3, <1>4 DEF FollowAfter, Loaded
<1>. QED BY <1>1, <1>2, <1>5, <1>6, <1>7 DEF FollowAfter, Loaded

LEMMA ReadFollows ==
  ASSUME IType, TakeWords, pc = "fifo", ~Outdating, ~torn, FollowAfter(0)
  PROVE  /\ FollowAfter(0)' /\ ~lost' /\ torn' = torn
         /\ (fifo' # <<>> /\ fifo'[1].follows) \/ (fifo' = <<>> /\ (loading' # None => loading'.follows))
<1>. DEFINE n == readout.sets
            left == SubSeq(fifo, n + 1, Len(fifo))
<1>1. fifo \in Seq(Set) /\ Len(fifo) \in Nat /\ n \in Nat /\ n >= 1 /\ lost \in BOOLEAN
  BY DEF IType, ElectronicsOK, ServiceOK, Readouts, Outdating
<1>2. fifo' = left /\ loading' = loading /\ lost' = lost /\ torn' = torn /\ n <= Len(fifo)
  BY DEF TakeWords, Outdating
<1>. HIDE DEF n
<1>3. /\ left \in Seq(Set) /\ Len(left) = Len(fifo) - n
      /\ \A i \in 1 .. Len(left) : n + i \in 1 .. Len(fifo) /\ left[i] = fifo[n + i]
  <2>1. /\ left \in Seq(Set) /\ Len(left) = IF n <= Len(fifo) THEN Len(fifo) - n ELSE 0
    BY <1>1, Rest
  <2>2. \A i \in 1 .. Len(left) : n + i \in 1 .. Len(fifo) /\ left[i] = fifo[n + i]
    BY <1>1, Rest
  <2>. QED BY <1>1, <1>2, <2>1, <2>2
<1>. HIDE DEF left
<1>4. ~lost
  BY <1>1, <1>2 DEF FollowAfter, Loaded
<1>5. \A i \in 1 .. Len(left) : left[i].follows
  <2>1. ASSUME NEW i \in 1 .. Len(left) PROVE left[i].follows
    <3>1. left[i] = fifo[n + i] /\ n + i \in 2 .. Len(fifo)
      BY <1>1, <1>2, <1>3
    <3>. QED BY <3>1 DEF FollowAfter
  <2>. QED BY <2>1
<1>6. loading # None => loading.follows
  BY <1>1, <1>2 DEF FollowAfter
<1>7. FollowAfter(0)'
  BY <1>2, <1>3, <1>4, <1>5, <1>6 DEF FollowAfter
<1>8. left # <<>> => 1 \in 1 .. Len(left)
  BY <1>3
<1>. QED BY <1>2, <1>4, <1>5, <1>6, <1>7, <1>8

LEMMA ReadoutSuccessive ==
  ASSUME MaxLate <= 1, IType, ISuccessive, Readout
  PROVE  ISuccessive'
<1>0. /\ Len(fifo) \in Nat /\ readout.sets \in Nat /\ NoReadout.state = "Ok" /\ late \in Nat
      /\ lost \in BOOLEAN /\ torn \in BOOLEAN /\ readout \in Readouts /\ base \in Bases
      /\ readout.partial \in BOOLEAN /\ fifo \in Seq(Set) /\ MaxSets \in Nat
  BY Constants DEF IType, ElectronicsOK, ServiceOK, ValuesOK, Readouts, NoReadout
<1>1. CASE Wake \/ IntervalUnusable \/ FifoEmpty \/ IntervalDisabled \/ IntervalOk \/ LoadFails
  <2>1. UNCHANGED <<fifo, torn, loading, lost, counters, base, rates, late>> /\ pc' # "fifo"
    BY <1>1 DEF Wake, IntervalUnusable, FifoEmpty, IntervalDisabled, IntervalOk, LoadFails,
                electronics, values, control
  <2>. QED BY <2>1 DEF ISuccessive, Outdating, FollowAfter, FirstFollows, Full, Loaded,
                       RatesUseSuccessiveSets
<1>2. CASE IntervalChanged
  <2>1. /\ UNCHANGED <<fifo, torn, loading, lost, late>> /\ pc' # "fifo"
        /\ counters' = None /\ rates' = None
    BY <1>2 DEF IntervalChanged, resetService, electronics
  <2>. QED BY <2>1 DEF ISuccessive, Outdating, FollowAfter, FirstFollows, Full, Loaded,
                       RatesUseSuccessiveSets
<1>3. CASE FifoFilled
  <2>. DEFINE state == IF readout.state = "Changed" THEN "Outdated" ELSE evaluateFifoState
  <2>1. readout' = [state |-> state, sets |-> Len(fifo) + IF state = "Partial" THEN 1 ELSE 0,
                    partial |-> loading # None]
    BY <1>3 DEF FifoFilled
  <2>2. state # "Outdated" => Len(fifo) < MaxSets
    BY <1>0 DEF evaluateFifoState
  <2>. HIDE DEF state
  <2>3. pc' = "fifo" /\ UNCHANGED <<electronics, values>> /\ late' = Loaded
    BY <1>3 DEF FifoFilled, Loaded
  <2>4. UNCHANGED <<fifo, torn, loading, lost, counters, base, rates>> /\ Loaded \in {0, 1}
    BY <2>3 DEF electronics, values, Loaded
  <2>5. readout'.state = state /\ readout'.partial = (loading # None)
        /\ readout'.sets = Len(fifo) + (IF state = "Partial" THEN 1 ELSE 0)
    BY <2>1
  <2>6. Outdating' => readout'.sets = Len(fifo) /\ Looked' = Len(fifo) + Loaded
    <3>1. ASSUME Outdating' PROVE readout'.sets = Len(fifo)
      BY <1>0, <2>5, <3>1 DEF Outdating
    <3>2. ASSUME Outdating' PROVE Looked' = Len(fifo) + Loaded
      BY <1>0, <2>5, <3>1, <3>2 DEF Looked, Loaded
    <3>. QED BY <3>1, <3>2
  <2>. PICK k : k = Looked'
    OBVIOUS
  <2>7. Outdating' => FollowAfter(k)'
    BY <1>0, <2>4, <2>6 DEF FollowAfter, Loaded
  <2>8. Outdating' => /\ Len(fifo') >= readout'.sets /\ Len(fifo') + Loaded' <= readout'.sets + late'
                      /\ FollowAfter(Looked)'
    BY <1>0, <2>3, <2>4, <2>6, <2>7 DEF Loaded
  <2>9. ~Outdating' => Len(fifo) < MaxSets
    BY <2>2, <2>3, <2>5 DEF Outdating
  <2>10. ~Outdating' => Len(fifo') + Loaded' + 1 <= MaxSets + late'
    BY <1>0, <2>3, <2>4, <2>9 DEF Loaded
  <2>11. ~Outdating' => (~torn => FollowAfter(0))
    BY <1>0, <2>9 DEF ISuccessive, Full
  <2>12. ~Outdating' => (~torn' => FollowAfter(0)')
    BY <2>4, <2>11 DEF FollowAfter, Loaded
  <2>13. (~torn' => (Full' \/ FollowAfter(0)') /\ FirstFollows') /\ RatesUseSuccessiveSets'
    BY <2>4 DEF ISuccessive, FollowAfter, FirstFollows, Full, Loaded, RatesUseSuccessiveSets
  <2>14. late' <= 1
    BY <2>3, <2>4
  <2>. QED BY <2>8, <2>10, <2>12, <2>13, <2>14 DEF ISuccessive
<1>4. CASE ReadFails
  <2>1. /\ pc = "fifo" /\ pc' = "requests" /\ UNCHANGED <<counters, rates, late>>
    BY <1>4 DEF ReadFails
  <2>2. ~Outdating' /\ RatesUseSuccessiveSets' /\ late' <= 1
    BY <2>1 DEF Outdating, RatesUseSuccessiveSets, ISuccessive
  <2>3. ASSUME ~torn' PROVE (Full' \/ FollowAfter(0)') /\ FirstFollows'
    <3>1. CASE UNCHANGED <<fifo, torn, loading, lost, base>>
      BY <2>1, <2>3, <3>1 DEF ISuccessive, FollowAfter, FirstFollows, Full, Loaded
    <3>2. CASE TakeWords /\ base'.behind
      <4>1. FirstFollows'
        BY <3>2 DEF FirstFollows
      <4>2. CASE Outdating
        <5>1. ~readout.partial
          BY <1>0, <2>3, <3>2, <4>2 DEF TakeWords, Outdating
        <5>. QED BY <3>2, <4>1, <4>2, <5>1, ClearedFollows DEF ISuccessive
      <4>3. CASE ~Outdating /\ ~torn
        BY <2>1, <3>2, <4>1, <4>3, ReadFollows DEF ISuccessive
      <4>4. CASE ~Outdating /\ torn
        <5>1. fifo' = <<>> /\ loading' = None
          BY <2>1, <3>2, <4>4 DEF TakeWords, Outdating
        <5>. QED BY <4>1, <5>1 DEF FollowAfter, Loaded
      <4>. QED BY <4>2, <4>3, <4>4
    <3>3. base' = [base EXCEPT !.behind = TRUE] => base'.behind
      BY <1>0 DEF Bases
    <3>. QED BY <1>4, <3>1, <3>2, <3>3 DEF ReadFails
  <2>. QED BY <2>1, <2>2, <2>3 DEF ISuccessive
<1>5. CASE ClearFifo
  <2>1. /\ Outdating /\ pc' = "requests" /\ counters' = None /\ rates' = None /\ TakeWords
        /\ late' = late
    BY <1>5 DEF ClearFifo, Outdating, resetService, control
  <2>2. ASSUME ~torn' PROVE FollowAfter(0)'
    <3>1. ~readout.partial
      BY <1>0, <2>1, <2>2 DEF TakeWords, Outdating
    <3>. QED BY <2>1, <3>1, ClearedFollows DEF ISuccessive
  <2>. QED BY <2>1, <2>2 DEF ISuccessive, Outdating, FirstFollows, RatesUseSuccessiveSets
<1>6. CASE ReadFifo
  <2>. DEFINE n == readout.sets
              new == fifo[n]
  <2>1. /\ pc = "fifo" /\ pc' = "requests" /\ ~Outdating /\ ~torn /\ TakeWords /\ late' = late
        /\ rates' = IF n > 1 THEN Rate(new, fifo[n - 1].value, Base(fifo[n - 1]))
                    ELSE IF counters # None THEN Rate(new, counters, base) ELSE rates
    BY <1>6 DEF ReadFifo, Outdating, control
  <2>2. n \in 1 .. Len(fifo)
    BY <2>1 DEF TakeWords, IType, ServiceOK, Outdating, Readouts, ElectronicsOK
  <2>3. FollowAfter(0) /\ FirstFollows
    BY <2>1 DEF ISuccessive
  <2>4. /\ FollowAfter(0)' /\ ~lost' /\ torn' = torn
        /\ (fifo' # <<>> /\ fifo'[1].follows) \/ (fifo' = <<>> /\ (loading' # None => loading'.follows))
    BY <2>1, <2>3, ReadFollows
  <2>5. FirstFollows'
    BY <2>4 DEF FirstFollows
  <2>6. RatesUseSuccessiveSets'
    <3>1. CASE n > 1
      <4>1. n \in 2 .. Len(fifo)
        BY <2>2, <3>1
      <4>2. new.follows
        BY <2>3, <4>1 DEF FollowAfter
      <4>3. rates'.follows = new.follows
        BY <2>1, <3>1 DEF Rate
      <4>. QED BY <4>2, <4>3 DEF RatesUseSuccessiveSets
    <3>2. CASE n = 1 /\ counters # None
      <4>1. fifo # <<>>
        BY <2>2
      <4>2. base.junk \/ base.behind \/ new.follows
        BY <2>3, <3>2, <4>1 DEF FirstFollows
      <4>3. rates'.follows = new.follows /\ rates'.junk = base.junk /\ rates'.behind = base.behind
        BY <2>1, <3>2 DEF Rate
      <4>. QED BY <4>2, <4>3 DEF RatesUseSuccessiveSets
    <3>3. CASE n = 1 /\ counters = None
      BY <2>1, <3>3 DEF RatesUseSuccessiveSets, ISuccessive
    <3>. QED BY <2>2, <3>1, <3>2, <3>3
  <2>. QED BY <2>1, <2>4, <2>5, <2>6 DEF ISuccessive, Outdating
<1>7. CASE ReadTornFifo
  <2>1. /\ pc' = "requests" /\ base'.junk /\ fifo' = <<>> /\ loading' = None /\ late' = late
    BY <1>7 DEF ReadTornFifo, TakeWords, control
  <2>2. FollowAfter(0)' /\ FirstFollows'
    BY <2>1 DEF FollowAfter, FirstFollows, Loaded
  <2>3. RatesUseSuccessiveSets'
    BY <1>7 DEF ReadTornFifo, RatesUseSuccessiveSets, ISuccessive
  <2>. QED BY <2>1, <2>2, <2>3 DEF ISuccessive, Outdating
<1>. QED BY <1>1, <1>2, <1>3, <1>4, <1>5, <1>6, <1>7 DEF Readout

LEMMA RequestsSuccessive == IType /\ ISuccessive /\ Requests => ISuccessive'
<1>. SUFFICES ASSUME IType, ISuccessive, Requests PROVE ISuccessive'
  OBVIOUS
<1>1. /\ UNCHANGED <<fifo, torn, loading, lost, rates, readout>>
      /\ (counters = None => counters' = None)
      /\ base'.junk = base.junk /\ base'.behind = base.behind
  BY DEF Requests, Publish, StartStop, ReadDirectly, ResetCounters, ResetFails, electronics, values,
         IType, ValuesOK, Bases
<1>2. /\ (pc' = "fifo" => pc = "fifo" /\ late' = late)
      /\ (Outdating' => Outdating) /\ (Outdating /\ pc' = "fifo" => Outdating') /\ late' <= 1
  BY <1>1, Constants DEF Requests, Publish, StartStop, ReadDirectly, ResetCounters, ResetFails,
     control, Outdating, ISuccessive
<1>3. Looked' = Looked /\ Loaded' = Loaded
  BY <1>1 DEF Looked, Loaded
<1>4. (Full => Full') /\ (FollowAfter(0) => FollowAfter(0)') /\ (FirstFollows => FirstFollows')
  BY <1>1 DEF Full, FollowAfter, FirstFollows, Loaded
<1>5. FollowAfter(Looked) => FollowAfter(Looked)'
  BY <1>1, <1>3 DEF FollowAfter
<1>6. RatesUseSuccessiveSets'
  BY <1>1 DEF RatesUseSuccessiveSets, ISuccessive
<1>7. Outdating' => Outdating /\ pc' = "fifo"
  BY <1>2 DEF Outdating
<1>. QED BY <1>1, <1>2, <1>3, <1>4, <1>5, <1>6, <1>7 DEF ISuccessive

LEMMA NextSuccessive ==
  ASSUME MaxLate <= 1, IType, ISuccessive, [Next]_vars
  PROVE  ISuccessive'
<1>1. ASSUME UNCHANGED vars PROVE ISuccessive'
  BY <1>1 DEF vars, electronics, values, control, ISuccessive, Outdating, Looked, FollowAfter,
              FirstFollows, Full, Loaded, RatesUseSuccessiveSets
<1>. QED BY <1>1, ElectronicsSuccessive, ReadoutSuccessive, RequestsSuccessive DEF Next
-------------------------------------------------------------------------------
(* Theorems *)

IInv == IType /\ IOffsets /\ IInterval

LEMMA SpecIInv == Spec => []IInv
<1>1. IInv /\ [Next]_vars => IInv'
  BY NextType, NextOffsets, NextInterval DEF IInv
<1>. QED BY <1>1, InitType, InitOffsets, InitInterval, PTL DEF Spec, IInv

\* The types of the variables; the FIFO never holds more sets than fit.
THEOREM TypeCorrect == Spec => []TypeOK
<1>1. IInv => TypeOK
  BY Typed DEF IInv
<1>. QED BY <1>1, SpecIInv, PTL

\* For counters of any width a rate is the number of events between its two sets, wrapped
\* around or not, and over a reset that followed the last read of the FIFO too.
THEOREM RatesAlwaysCount == Spec => []RatesCountEvents
<1>1. IInv => RatesCountEvents
  BY DEF IInv, IOffsets
<1>. QED BY <1>1, SpecIInv, PTL

\* For any depth of the FIFO, and with sets loaded between its looks at it, a service that
\* has adapted to the interval divides only what was counted in an interval of that length.
THEOREM RatesAlwaysUseTheirInterval == Spec => []RatesUseTheirInterval
<1>1. IInv => RatesUseTheirInterval
  BY DEF IInv, IInterval
<1>. QED BY <1>1, SpecIInv, PTL

\* For any depth of the FIFO, no rate is computed over a set that was lost, if no more than one
\* set is loaded between a look at the FIFO and the end of the readout.
THEOREM RatesAlwaysUseSuccessiveSets ==
  ASSUME MaxLate <= 1
  PROVE  Spec => []RatesUseSuccessiveSets
<1>1. IInv /\ ISuccessive /\ [Next]_vars => ISuccessive'
  BY NextSuccessive DEF IInv
<1>2. ISuccessive => RatesUseSuccessiveSets
  BY DEF ISuccessive
<1>. QED BY <1>1, <1>2, SpecIInv, InitSuccessive, PTL DEF Spec
===============================================================================
