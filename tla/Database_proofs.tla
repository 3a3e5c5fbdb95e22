---------------------------- MODULE Database_proofs ----------------------------
(* The database and what comes of it.  The broker of configurations: what requests *)
(* leave in the tables, for any requests and rows, whatever fails.  The tool that  *)
(* fills the database, for any table and files.  FitData, for any rows: registers, *)
(* their values and the environment.  The histograms of the boards: what the       *)
(* services of a TCM and of a PM answer.                                           *)
EXTENDS ConfigurationBroker, BoardData, FiniteSetTheorems, SequenceTheorems,
        WellFoundedInduction, TLAPS

-------------------------------------------------------------------------------
(* The broker of configurations *)

\* Tables are records.
IsTables(t) == t = [configurations |-> t.configurations, rows |-> t.rows, archive |-> t.archive]

\* Rows that were there before, or that a request may have written.
Good(rows) == \A row \in rows : row \in Legacy \/ (row.parameter \in Known /\ InRange(row.value))

\* The archive of the transaction is that of the tables: only a commit adds to it.
TablesInv ==
  /\ IsTables(committed) /\ IsTables(pending)
  /\ pending.archive = committed.archive /\ committed.rows \subseteq committed.archive
  /\ Good(committed.archive) /\ Good(pending.rows)

ControlOK ==
  /\ connected \in BOOLEAN
  /\ pc \in {"wait", "line", "refuse", "publish", "dead"}
  /\ request \in Requests \union {<<>>} /\ at \in 1 .. Len(request) + 1
  /\ answer.kind \in Kinds

\* Whatever has been given a value since the program started was converted with values that
\* are stored: they stay.
ConvertedInv ==
  /\ valued \subseteq Known /\ written \subseteq Known
  /\ \A p \in written : physicToElectronic[p] \subseteq valued

IInv == TablesInv /\ ControlOK /\ ConvertedInv

LEMMA InitIInv == Init => IInv
<1>. SUFFICES ASSUME Init PROVE IInv
  OBVIOUS
<1>1. TablesInv
  BY DEF Init, TablesInv, IsTables, Good, Store!InitialTables
<1>2. ControlOK
  BY DEF Init, ControlOK, Kinds, Store!NoAnswer
<1>3. ConvertedInv
  BY DEF Init, ConvertedInv
<1>. QED BY <1>1, <1>2, <1>3 DEF IInv

LEMMA LinesTyped ==
  ASSUME ControlOK, AtLine
  PROVE  request[at] \in [command : STRING, configuration : STRING, parameter : STRING,
                          value : DOMAIN calculateElectronic]
<1>1. at \in 1 .. Len(request) /\ request \in Requests \union {<<>>}
  <2>1. Len(request) \in Nat
    BY BrokerAssumption DEF ControlOK
  <2>. QED BY <2>1 DEF ControlOK, AtLine
<1>. DEFINE T == [command : STRING, configuration : STRING, parameter : STRING,
                 value : DOMAIN calculateElectronic]
<1>2. request \in Seq(T)
  <2>1. Requests \subseteq Seq(T)
    BY BrokerAssumption
  <2>2. <<>> \in Seq(T)
    OBVIOUS
  <2>. QED BY <1>1, <2>1, <2>2
<1>. HIDE DEF T
<1>3. request[at] \in T
  BY <1>1, <1>2
<1>. QED BY <1>3 DEF T

\* What a query changes is right, if its value is.
LEMMA EffectIsGood ==
  ASSUME NEW t, IsTables(t), Good(t.rows), NEW query,
         query.command \in {"INSERT", "UPDATE"} =>
           query.parameter \in Known /\ InRange(query.value)
  PROVE  LET u == Store!Effect(query, t)
         IN  IsTables(u) /\ Good(u.rows) /\ u.archive = t.archive
<1>. DEFINE u == Store!Effect(query, t)
<1>1. CASE query.command = "INSERT"
  BY <1>1 DEF Store!Effect, Store!Row, IsTables, Good
<1>2. CASE query.command = "UPDATE"
  <2>1. u = [t EXCEPT !.rows = {IF Store!Matches(query, row) THEN Store!Row(row, query.value)
                                ELSE row : row \in @}]
    BY <1>2 DEF Store!Effect
  <2>2. ASSUME NEW row \in t.rows, Store!Matches(query, row)
        PROVE  row.parameter = query.parameter
    BY <1>2, <2>2, BrokerAssumption DEF Store!Matches
  <2>3. Good(u.rows)
    BY <1>2, <2>1, <2>2 DEF Good, IsTables, Store!Row
  <2>. QED BY <2>1, <2>3 DEF IsTables
<1>3. CASE query.command = "DELETE"
  BY <1>3 DEF Store!Effect, IsTables, Good
<1>4. CASE query.command = "INSERT CONFIGURATION"
  BY <1>4 DEF Store!Effect, IsTables, Good
<1>5. CASE query.command \notin {"INSERT", "UPDATE", "DELETE", "INSERT CONFIGURATION"}
  BY <1>5 DEF Store!Effect
<1>. QED BY <1>1, <1>2, <1>3, <1>4, <1>5

LEMMA UpdateKeeps ==
  ASSUME TablesInv, ControlOK, executeUpdate PROVE TablesInv' /\ ControlOK'
<1>. DEFINE query == construct(request[at])
<1>1. request[at] \in [command : STRING, configuration : STRING, parameter : STRING,
                       value : DOMAIN calculateElectronic]
  BY LinesTyped DEF executeUpdate, Ready
<1>2. query.command \in {"INSERT", "UPDATE"} => query.parameter \in Known /\ InRange(query.value)
  BY <1>1 DEF executeUpdate, Ready, Constructs, ValueFits, construct, GivesValue
<1>3. /\ IsTables(pending') /\ Good(pending'.rows) /\ pending'.archive = pending.archive
      /\ UNCHANGED committed
  <2>. HIDE DEF query
  <2>1. pending' = Store!Effect(query, pending) /\ UNCHANGED committed
    BY DEF executeUpdate, query
  <2>. QED BY <1>2, <2>1, EffectIsGood DEF TablesInv
<1>4. ControlOK'
  <2>1. Len(request) \in Nat
    BY BrokerAssumption DEF ControlOK
  <2>2. at <= Len(request) /\ at' = at + 1 /\ UNCHANGED <<pc, request, connected, answer>>
    BY DEF executeUpdate, Ready, AtLine, NextLine
  <2>. QED BY <2>1, <2>2 DEF ControlOK
<1>. QED BY <1>3, <1>4 DEF TablesInv

LEMMA NextTables ==
  ASSUME TablesInv, ControlOK, [Next]_vars PROVE TablesInv' /\ ControlOK'
<1>. USE DEF TablesInv, ControlOK, tables
<1>0. Len(request) \in Nat /\ Len(<<>>) = 0
  BY BrokerAssumption
<1>1. CASE waitForRequest
  <2>1. Len(request') \in Nat
    BY <1>1, BrokerAssumption DEF waitForRequest
  <2>2. TablesInv'
    BY <1>1 DEF waitForRequest, Die, Good
  <2>3. ControlOK'
    BY <1>1, <2>1 DEF waitForRequest, Die, Kinds, Store!NoAnswer, Store!Refusal
  <2>. QED BY <2>2, <2>3
<1>2. CASE Blank
  BY <1>0, <1>2 DEF Blank, AtLine, NextLine
<1>3. CASE ConstructFails \/ QueryFails
  BY <1>3 DEF ConstructFails, QueryFails, Fails
<1>4. CASE executeUpdate
  BY <1>4, UpdateKeeps
<1>5. CASE executeSelect
  <2>1. TablesInv'
    BY <1>5 DEF executeSelect, Die, Good
  <2>2. /\ at <= Len(request) /\ pc = "line" /\ UNCHANGED <<connected, request>>
        /\ \/ pc' = "dead" /\ at' = at /\ answer'.kind = "none"
           \/ pc' = pc /\ at' = at + 1 /\ answer' = answer
    <3>1. Ready /\ UNCHANGED <<connected, request>>
      BY <1>5 DEF executeSelect
    <3>2. \/ Die /\ at' = at
          \/ NextLine /\ answer' = answer
      BY <1>5 DEF executeSelect
    <3>. QED BY <3>1, <3>2 DEF Ready, AtLine, Die, NextLine, Store!NoAnswer
  <2>3. ControlOK'
    BY <1>0, <2>2 DEF Kinds
  <2>. QED BY <2>1, <2>3
<1>6. CASE Refuse
  BY <1>0, <1>6 DEF Refuse, Rollback, Kinds, Store!Refusal, Good
<1>7. CASE Commit
  <2>1. TablesInv'
    <3>1. CASE connected
      BY <1>7, <3>1 DEF Commit, Store!Committed, IsTables, Good
    <3>2. CASE ~connected
      BY <1>7, <3>2 DEF Commit, Good
    <3>. QED BY <3>1, <3>2
  <2>. QED BY <1>7, <2>1 DEF Commit
<1>8. CASE publishAnswer
  BY <1>0, <1>8 DEF publishAnswer, Kinds
<1>9. CASE Crash
  BY <1>9 DEF Crash, Die, Kinds, Store!NoAnswer, Good
<1>10. CASE Start
  BY <1>0, <1>10 DEF Start
<1>11. CASE Connect \/ Disconnect
  BY <1>11 DEF Connect, Disconnect, Good
<1>12. CASE UNCHANGED vars
  BY <1>12 DEF vars
<1>13. CASE storeValue
  BY <1>13 DEF storeValue
<1>. QED BY <1>1, <1>2, <1>3, <1>4, <1>5, <1>6, <1>7, <1>8, <1>9, <1>10, <1>11, <1>12, <1>13
       DEF Next, processExecution

\* A line that gives a value is executed when the parameters of its equation have one.
LEMMA NextConverted ==
  ASSUME ControlOK, ConvertedInv, [Next]_vars PROVE ConvertedInv'
<1>. USE DEF ConvertedInv
<1>1. CASE executeUpdate
  <2>. DEFINE asked == request[at]
              query == construct(asked)
  <2>1. asked \in [command : STRING, configuration : STRING, parameter : STRING,
                  value : DOMAIN calculateElectronic]
    BY <1>1, LinesTyped DEF executeUpdate, Ready
  <2>2. query.parameter = asked.parameter /\ (GivesValue(query) <=> GivesValue(asked))
    BY <2>1 DEF construct, GivesValue
  <2>3. GivesValue(asked) => asked.parameter \in Known /\ physicToElectronic[asked.parameter] \subseteq valued
    BY <1>1 DEF executeUpdate, Ready, Constructs
  <2>4. /\ UNCHANGED valued
        /\ written' = IF GivesValue(query) THEN written \union {query.parameter} ELSE written
    BY <1>1 DEF executeUpdate
  <2>. HIDE DEF query, asked
  <2>. QED BY <2>2, <2>3, <2>4
<1>2. CASE storeValue
  BY <1>2 DEF storeValue
<1>3. CASE Start
  BY <1>3 DEF Start
<1>4. CASE UNCHANGED storedValues
  BY <1>4 DEF storedValues
<1>5. \/ executeUpdate \/ storeValue \/ Start
      \/ UNCHANGED storedValues
  BY DEF Next, processExecution, waitForRequest, Blank, ConstructFails, QueryFails, Fails,
    executeSelect, Refuse, Commit, publishAnswer, Crash, Connect, Disconnect, vars
<1>. QED BY <1>1, <1>2, <1>3, <1>4, <1>5

LEMMA NextIInv == IInv /\ [Next]_vars => IInv'
BY NextTables, NextConverted DEF IInv

LEMMA SpecIInv == Spec => []IInv
BY InitIInv, NextIInv, PTL DEF Spec

\* The types; what is stored of a parameter in use can be converted to a physical value.
THEOREM TypeCorrect == Spec => []TypeOK
<1>1. IInv => TypeOK
  <2>. SUFFICES ASSUME IInv PROVE TypeOK
    OBVIOUS
  <2>1. ASSUME NEW row, row \in Legacy \/ (row.parameter \in Known /\ InRange(row.value)),
               row.parameter \in Known
        PROVE  row.value \in DOMAIN calculatePhysical
    BY <2>1, BrokerAssumption DEF InRange
  <2>2. Good(committed.rows)
    BY DEF IInv, TablesInv, Good
  <2>. QED BY <2>1, <2>2 DEF IInv, TablesInv, ControlOK, ConvertedInv, Good, TypeOK
<1>. QED BY <1>1, SpecIInv, PTL

\* No sequence of requests leaves a value outside its range, neither in the tables nor in
\* the archive nor in a transaction that is still open.
THEOREM StoredValuesAlwaysFit == Spec => []StoredValuesFit
<1>1. IInv => StoredValuesFit
  BY DEF IInv, TablesInv, Good, StoredValuesFit
<1>. QED BY <1>1, SpecIInv, PTL

LEMMA DiesForOthers ==
  ASSUME IInv, executeSelect, pc' = "dead"
  PROVE  \E row \in Store!Selected(request[at], pending) :
           \/ row \in Legacy
           \/ row.parameter \notin written
           \/ ~(electronicToPhysic[row.parameter] \subseteq physicToElectronic[row.parameter])
<1>1. construct(request[at]) = request[at]
  <2>1. request[at] \in [command : STRING, configuration : STRING, parameter : STRING,
                         value : DOMAIN calculateElectronic]
    BY LinesTyped DEF IInv, executeSelect, Ready
  <2>. QED BY <2>1 DEF executeSelect, construct, GivesValue
<1>2. PICK row \in Store!Selected(request[at], pending) : ~Converts(row)
  BY <1>1 DEF executeSelect, NextLine, Ready, AtLine
<1>3. row \in pending.archive \union pending.rows
  BY <1>2 DEF Store!Selected
<1>4. row \in Legacy \/ row.parameter \in Known
  BY <1>3 DEF IInv, TablesInv, Good
<1>5. row.parameter \in written => physicToElectronic[row.parameter] \subseteq valued
  BY DEF IInv, ConvertedInv
<1>. QED BY <1>2, <1>4, <1>5 DEF Converts

\* A SELECT never ends the program for a row whose parameter was given a value since the
\* program started, if its two equations name the same other parameters.
THEOREM SelectsAlwaysSurvive == Spec => SelectsSurvive
<1>1. IInv /\ [Next]_vars =>
        [executeSelect /\ pc' = "dead" =>
           \E row \in Store!Selected(request[at], pending) :
             \/ row \in Legacy
             \/ row.parameter \notin written
             \/ ~(electronicToPhysic[row.parameter] \subseteq physicToElectronic[row.parameter])]_vars
  BY DiesForOthers
<1>. QED BY <1>1, SpecIInv, PTL DEF Spec, SelectsSurvive
-------------------------------------------------------------------------------
(* Numbers *)

Less == {p \in Nat \X Nat : p[1] < p[2]}

LEMMA LeastNumber ==
  ASSUME NEW T \in SUBSET Nat, T # {} PROVE \E x \in T : \A y \in T : x <= y
<1>1. IsWellFoundedOn(Less, Nat)
  BY NatLessThanWellFounded DEF OpToRel, Less
<1>2. PICK x \in T : \A y \in T : <<y, x>> \notin Less
  BY <1>1, WFMin
<1>3. ASSUME NEW y \in T PROVE x <= y
  <2>1. <<y, x>> \in Nat \X Nat /\ ~(<<y, x>>[1] < <<y, x>>[2])
    BY <1>2 DEF Less
  <2>. QED BY <2>1
<1>. QED BY <1>3

\* A set of numbers that has 0 and with each number the next one has all.
LEMMA Induction ==
  ASSUME NEW T, 0 \in T, \A n \in Nat : n \in T => n + 1 \in T PROVE Nat \subseteq T
<1>. SUFFICES ASSUME NEW m \in Nat, m \notin T PROVE FALSE
  OBVIOUS
<1>1. PICK x \in Nat \ T : \A y \in Nat \ T : x <= y
  BY LeastNumber
<1>2. x # 0 /\ x - 1 \in Nat /\ x - 1 + 1 = x
  BY <1>1
<1>. QED BY <1>1, <1>2

\* The powers of two count subsets, which is all the provers know of them.
LEMMA PowerType == ASSUME NEW n \in Nat PROVE 2 ^ n \in Nat \ {0}
<1>1. IsFiniteSet(1 .. n) /\ Cardinality(1 .. n) = n
  BY FS_Interval
<1>2. IsFiniteSet(SUBSET (1 .. n)) /\ Cardinality(SUBSET (1 .. n)) = 2 ^ n
  BY <1>1, FS_SUBSET
<1>3. SUBSET (1 .. n) # {}
  OBVIOUS
<1>. QED BY <1>2, <1>3, FS_CardinalityType, FS_EmptySet

LEMMA PowerStep == ASSUME NEW n \in Nat PROVE 2 ^ (n + 1) = 2 * 2 ^ n
<1>. DEFINE A == SUBSET (1 .. n)
            B == {T \cup {n + 1} : T \in A}
            f == [T \in A |-> T \cup {n + 1}]
<1>1. /\ IsFiniteSet(1 .. n) /\ Cardinality(1 .. n) = n
      /\ IsFiniteSet(1 .. n + 1) /\ Cardinality(1 .. n + 1) = n + 1
  BY FS_Interval
<1>2. /\ IsFiniteSet(A) /\ Cardinality(A) = 2 ^ n
      /\ Cardinality(SUBSET (1 .. n + 1)) = 2 ^ (n + 1)
  BY <1>1, FS_SUBSET
<1>3. f \in Bijection(A, B)
  <2>1. n + 1 \notin 1 .. n
    OBVIOUS
  <2>2. \A S, T \in A : S \cup {n + 1} = T \cup {n + 1} => S = T
    BY <2>1
  <2>3. f \in [A -> B] /\ \A t \in B : \E s \in A : f[s] = t
    OBVIOUS
  <2>. QED BY <2>2, <2>3 DEF Bijection, Injection, Surjection, IsInjective
<1>4. IsFiniteSet(B) /\ Cardinality(B) = 2 ^ n
  BY <1>2, <1>3, FS_Bijection DEF ExistsBijection
<1>5. A \cap B = {}
  OBVIOUS
<1>6. A \cup B = SUBSET (1 .. n + 1)
  <2>1. A \cup B \subseteq SUBSET (1 .. n + 1)
    <3>1. 1 .. n \subseteq 1 .. n + 1 /\ n + 1 \in 1 .. n + 1
      OBVIOUS
    <3>. QED BY <3>1
  <2>2. ASSUME NEW S \in SUBSET (1 .. n + 1) PROVE S \in A \cup B
    <3>1. CASE n + 1 \in S
      <4>1. S \ {n + 1} \in A /\ S = (S \ {n + 1}) \cup {n + 1}
        BY <3>1
      <4>. QED BY <4>1
    <3>2. CASE n + 1 \notin S
      BY <3>2
    <3>. QED BY <3>1, <3>2
  <2>. QED BY <2>1, <2>2
<1>7. Cardinality(A \cap B) = 0
  BY <1>5, FS_EmptySet
<1>8. Cardinality(A \cup B) = Cardinality(A) + Cardinality(B) - Cardinality(A \cap B)
  <2>. HIDE DEF A, B
  <2>. QED BY <1>2, <1>4, FS_Union
<1>9. 2 ^ n \in Nat
  BY PowerType
<1>10. 2 ^ (n + 1) = 2 ^ n + 2 ^ n - 0
  <2>. HIDE DEF A, B
  <2>. QED BY <1>2, <1>4, <1>6, <1>7, <1>8, Zenon
<1>11. \A c \in Nat : c + c - 0 = 2 * c
  OBVIOUS
<1>. QED BY <1>9, <1>10, <1>11, Zenon

LEMMA PowerSum == ASSUME NEW m \in Nat, NEW n \in Nat PROVE 2 ^ (m + n) = 2 ^ m * 2 ^ n
<1>. DEFINE T == {k \in Nat : 2 ^ (m + k) = 2 ^ m * 2 ^ k}
<1>0. \A k \in Nat : 2 ^ k \in Nat \ {0}
  BY PowerType
<1>1. 0 \in T
  <2>1. m + 0 = m /\ 2 ^ 0 = 1 /\ 2 ^ m \in Nat
    BY <1>0
  <2>. QED BY <2>1
<1>2. ASSUME NEW k \in Nat, k \in T PROVE k + 1 \in T
  <2>1. 2 ^ (m + k + 1) = 2 * 2 ^ (m + k) /\ 2 ^ (k + 1) = 2 * 2 ^ k
    BY PowerStep
  <2>2. 2 ^ (m + k) = 2 ^ m * 2 ^ k
    BY <1>2
  <2>3. \A a, b \in Nat : 2 * (a * b) = a * (2 * b)
    OBVIOUS
  <2>4. m + k + 1 = m + (k + 1)
    OBVIOUS
  <2>. QED BY <1>0, <2>1, <2>2, <2>3, <2>4
<1>. HIDE DEF T
<1>3. n \in T
  BY <1>1, <1>2, Induction
<1>. QED BY <1>3 DEF T

LEMMA Quotient ==
  ASSUME NEW a \in Int, NEW d \in Nat \ {0}, NEW q \in Int, q * d <= a, a < (q + 1) * d
  PROVE  a \div d = q
OBVIOUS

LEMMA DivideProduct == ASSUME NEW a \in Int, NEW d \in Nat \ {0} PROVE (a * d) \div d = a
OBVIOUS

LEMMA DivideTwice ==
  ASSUME NEW a \in Nat, NEW d \in Nat \ {0}, NEW e \in Nat \ {0}
  PROVE  a \div (d * e) = (a \div d) \div e
OBVIOUS

LEMMA HighestBit ==
  ASSUME NEW a \in Nat, NEW h \in Nat \ {0}
  PROVE  a % (2 * h) = (a % h) + ((a \div h) % 2) * h
<1>. DEFINE q == a \div h
            b == q % 2
            k == q \div 2
            r == a % h
<1>1. a = h * q + r /\ r \in 0 .. h - 1 /\ q \in Nat
  OBVIOUS
<1>2. q = 2 * k + b /\ b \in 0 .. 1 /\ k \in Nat
  BY <1>1
<1>. HIDE DEF q, b, k, r
<1>3. a = k * (2 * h) + (r + b * h)
  BY <1>1, <1>2
<1>4. r + b * h \in 0 .. 2 * h - 1
  BY <1>1, <1>2
<1>5. ASSUME NEW d \in Nat \ {0}, NEW j \in Nat, NEW s \in 0 .. d - 1, a = j * d + s PROVE a % d = s
  BY <1>5
<1>6. a % (2 * h) = r + b * h
  BY <1>2, <1>3, <1>4, <1>5, SMTT(30)
<1>. QED BY <1>6 DEF r, b, q

LEMMA Residue ==
  ASSUME NEW a \in Int, NEW d \in Nat \ {0}
  PROVE  /\ a % d \in 0 .. d - 1
         /\ a \in 0 .. d - 1 => a % d = a
OBVIOUS

LEMMA ResidueBelow == ASSUME NEW d \in Nat \ {0}, NEW r \in 0 .. d - 1 PROVE (r - d) % d = r
OBVIOUS
LEMMA TwosComplement ==
  ASSUME NEW h \in Nat \ {0}, NEW v \in -h .. h - 1
  PROVE  v = IF v % (2 * h) >= h THEN (v % (2 * h)) - 2 * h ELSE v % (2 * h)
<1>1. 2 * h \in Nat \ {0} /\ v \in Int
  OBVIOUS
<1>2. v >= 0 => v % (2 * h) = v
  <2>1. v >= 0 => v \in 0 .. 2 * h - 1
    OBVIOUS
  <2>. QED BY <1>1, <2>1, Residue
<1>3. v < 0 => v % (2 * h) = v + 2 * h
  <2>1. v < 0 => v + 2 * h \in 0 .. 2 * h - 1
    OBVIOUS
  <2>2. v < 0 => (v + 2 * h - 2 * h) % (2 * h) = v + 2 * h
    BY <1>1, <2>1, ResidueBelow
  <2>3. v + 2 * h - 2 * h = v
    OBVIOUS
  <2>. QED BY <2>2, <2>3
<1>. QED BY <1>2, <1>3

LEMMA Complement ==
  ASSUME NEW h \in Nat \ {0}, NEW r \in 0 .. h - 1, NEW b \in 0 .. 1
  PROVE  (r - b * h) % (2 * h) = r + b * h
<1>1. 2 * h \in Nat \ {0} /\ r \in 0 .. 2 * h - 1 /\ r + h \in 0 .. 2 * h - 1 /\ r \in Int
  OBVIOUS
<1>2. r % (2 * h) = r
  BY <1>1, Residue
<1>3. (r + h - 2 * h) % (2 * h) = r + h
  BY <1>1, ResidueBelow
<1>4. r + h - 2 * h = r - h
  OBVIOUS
<1>5. b = 0 => r - b * h = r /\ r + b * h = r
  OBVIOUS
<1>6. b = 1 => r - b * h = r - h /\ r + b * h = r + h
  OBVIOUS
<1>7. b = 0 \/ b = 1
  OBVIOUS
<1>. QED BY <1>2, <1>3, <1>4, <1>5, <1>6, <1>7
-------------------------------------------------------------------------------
(* Fields of registers *)

\* A value in the range of a field survives its way into the register and back, and stays
\* inside the bits of the field.
LEMMA FieldKeepsRange ==
  ASSUME NEW p, p.bitLength \in Nat \ {0}, p.startBit \in Nat, NEW v \in Int,
         IF p.signed THEN v \in -(2 ^ (p.bitLength - 1)) .. 2 ^ (p.bitLength - 1) - 1
                     ELSE v \in 0 .. 2 ^ p.bitLength - 1
  PROVE  /\ parseElectronic(p, convertElectronicToRaw(p, v)) = v
         /\ convertElectronicToRaw(p, v) \in 0 .. 2 ^ (p.startBit + p.bitLength) - 1
<1>. DEFINE d == 2 ^ p.startBit
            c == 2 ^ p.bitLength
            h == 2 ^ (p.bitLength - 1)
            u == IF p.signed THEN v % c ELSE v
<1>1. d \in Nat \ {0} /\ c \in Nat \ {0} /\ h \in Nat \ {0}
  BY PowerType
<1>2. c = 2 * h
  <2>1. p.bitLength - 1 \in Nat /\ p.bitLength - 1 + 1 = p.bitLength
    OBVIOUS
  <2>. QED BY <2>1, PowerStep
<1>3. 2 ^ (p.startBit + p.bitLength) = d * c
  BY PowerSum
<1>4. u \in 0 .. c - 1
  <2>. HIDE DEF c, h
  <2>1. IF p.signed THEN v \in -h .. h - 1 ELSE v \in 0 .. c - 1
    BY DEF h, c
  <2>. QED BY <1>1, <2>1, Residue
<1>5. convertElectronicToRaw(p, v) = u * d
  BY DEF convertElectronicToRaw
<1>6. (u * d) \div d = u /\ u % c = u
  <2>. HIDE DEF u, d, c
  <2>1. u \in Int
    BY <1>1, <1>4
  <2>2. (u * d) \div d = u
    BY <1>1, <2>1, DivideProduct
  <2>3. u % c = u
    BY <1>1, <1>4, <2>1, Residue
  <2>. QED BY <2>2, <2>3
<1>7. IF p.signed /\ u >= h THEN u - c = v ELSE u = v
  <2>1. CASE p.signed
    <3>. HIDE DEF c, h
    <3>1. v \in -h .. h - 1 /\ u = v % (2 * h)
      BY <1>2, <2>1 DEF h
    <3>2. v = IF v % (2 * h) >= h THEN (v % (2 * h)) - 2 * h ELSE v % (2 * h)
      BY <1>1, <3>1, TwosComplement
    <3>. HIDE DEF u
    <3>. QED BY <1>1, <1>2, <2>1, <3>1, <3>2
  <2>2. CASE ~p.signed
    BY <2>2
  <2>. QED BY <2>1, <2>2
<1>8. parseElectronic(p, u * d) = v
  <2>1. parseElectronic(p, u * d) = IF p.signed /\ u >= h THEN u - c ELSE u
    BY <1>6 DEF parseElectronic
  <2>. QED BY <1>7, <2>1
<1>9. u * d \in 0 .. d * c - 1
  <2>. HIDE DEF u, d, c
  <2>1. u * d <= (c - 1) * d
    BY <1>1, <1>4
  <2>2. (c - 1) * d = d * c - d
    BY <1>1
  <2>. QED BY <1>1, <1>4, <2>1, <2>2
<1>. QED BY <1>3, <1>5, <1>8, <1>9

\* The value the tool reads from the bits first to last of a word is the one that FRED reads,
\* and the one whose bits FRED writes.
LEMMA ReadingsAgree ==
  ASSUME NEW p, NEW word \in Nat, p.first \in Nat, p.last \in Nat, p.first <= p.last, ~p.trigger
  PROVE  LET bits == p.last - p.first + 1
             field == [signed |-> p.signed, bitLength |-> bits, startBit |-> p.first]
             value == get_electronic_value(p, word)
         IN  /\ value = parseElectronic(field, word)
             /\ convertElectronicToRaw(field, value) = ((word \div 2 ^ p.first) % 2 ^ bits) * 2 ^ p.first
<1>. DEFINE bits == p.last - p.first + 1
            field == [signed |-> p.signed, bitLength |-> bits, startBit |-> p.first]
            value == get_electronic_value(p, word)
            d == 2 ^ p.first
            c == 2 ^ bits
            h == 2 ^ (bits - 1)
            x == word \div d
            y == x % c
            b == (x \div h) % 2
<1>1. bits - 1 \in Nat /\ bits - 1 + 1 = bits /\ p.first + (bits - 1) = p.last /\ bits \in Nat
  OBVIOUS
<1>2. d \in Nat \ {0} /\ c \in Nat \ {0} /\ h \in Nat \ {0} /\ c = 2 * h
  BY <1>1, PowerType, PowerStep
<1>3. 2 ^ p.last = d * h
  BY <1>1, PowerSum
<1>4. x \in Nat
  <2>. HIDE DEF d
  <2>. QED BY <1>2
<1>5. word \div 2 ^ p.last = x \div h
  <2>. HIDE DEF d, h
  <2>1. word \div (d * h) = (word \div d) \div h
    BY <1>2, DivideTwice
  <2>. QED BY <1>3, <2>1
<1>6. y = (x % h) + b * h /\ b \in 0 .. 1 /\ x % h \in 0 .. h - 1
  <2>. HIDE DEF x, c, h
  <2>1. b \in 0 .. 1
    <3>1. x \div h \in Nat
      BY <1>2, <1>4
    <3>. QED BY <3>1
  <2>2. x % (2 * h) = (x % h) + b * h
    BY <1>2, <1>4, HighestBit
  <2>3. x % h \in 0 .. h - 1
    BY <1>2, <1>4
  <2>. QED BY <1>2, <2>1, <2>2, <2>3
<1>7. value = IF p.signed THEN (x % h) - b * h ELSE y
  BY <1>5 DEF get_electronic_value
<1>8. parseElectronic(field, word) = IF p.signed /\ y >= h THEN y - c ELSE y
  BY DEF parseElectronic
<1>9. value = parseElectronic(field, word)
  <2>. HIDE DEF value, y, b, x, h, c
  <2>. QED BY <1>2, <1>6, <1>7, <1>8
<1>10. convertElectronicToRaw(field, value) = (IF p.signed THEN value % c ELSE value) * d
  BY DEF convertElectronicToRaw
<1>11. (IF p.signed THEN value % c ELSE value) = y
  <2>1. CASE p.signed
    <3>. HIDE DEF y, b, x, h, c
    <3>1. ((x % h) - b * h) % (2 * h) = (x % h) + b * h
      BY <1>2, <1>6, Complement
    <3>. QED BY <1>2, <1>6, <1>7, <2>1, <3>1
  <2>2. CASE ~p.signed
    BY <1>7, <2>2
  <2>. QED BY <2>1, <2>2
<1>. QED BY <1>9, <1>10, <1>11

\* The signature of a trigger is all of the word but its lowest seven bits.
LEMMA SignaturesAgree ==
  ASSUME NEW p, NEW word \in U32, p.trigger
  PROVE  LET field == [signed |-> FALSE, bitLength |-> 25, startBit |-> 7]
             value == get_electronic_value(p, word)
         IN  /\ value = parseElectronic(field, word)
             /\ convertElectronicToRaw(field, value) = ((word \div 2 ^ 7) % 2 ^ 25) * 2 ^ 7
<1>. DEFINE field == [signed |-> FALSE, bitLength |-> 25, startBit |-> 7]
<1>1. 2 ^ 4 = 16 /\ 2 ^ 7 = 128 /\ 2 ^ 8 = 256 /\ 2 ^ 16 = 65536 /\ 2 ^ 25 = 33554432
  <2>1. 2 ^ 0 = 1 /\ 2 ^ 1 = 2 /\ 2 ^ 2 = 4 /\ 2 ^ 3 = 8
    <3>1. 2 ^ 0 = 1
      OBVIOUS
    <3>2. 2 ^ (0 + 1) = 2 * 2 ^ 0 /\ 2 ^ (1 + 1) = 2 * 2 ^ 1 /\ 2 ^ (2 + 1) = 2 * 2 ^ 2
      BY PowerStep
    <3>. QED BY <3>1, <3>2
  <2>2. 2 ^ (3 + 1) = 2 * 2 ^ 3 /\ 2 ^ (3 + 4) = 2 ^ 3 * 2 ^ 4 /\ 2 ^ (4 + 4) = 2 ^ 4 * 2 ^ 4
    BY PowerStep, PowerSum
  <2>3. 2 ^ (8 + 8) = 2 ^ 8 * 2 ^ 8 /\ 2 ^ (8 + 1) = 2 * 2 ^ 8 /\ 2 ^ (16 + 9) = 2 ^ 16 * 2 ^ 9
    BY PowerStep, PowerSum
  <2>4. 2 ^ 4 = 16 /\ 2 ^ 7 = 128
    BY <2>1, <2>2
  <2>5. 2 ^ 8 = 256 /\ 2 ^ 9 = 512
    BY <2>2, <2>3, <2>4
  <2>6. 2 ^ 16 = 65536
    BY <2>3, <2>5
  <2>. QED BY <2>3, <2>4, <2>5, <2>6
<1>2. word \in Nat /\ word \div 65536 < 65536
  BY <1>1 DEF U32
<1>3. word \div 128 \in Nat /\ word \div 128 < 33554432
  BY <1>2
<1>4. get_electronic_value(p, word) = word \div 128
  BY <1>1 DEF get_electronic_value
<1>5. (word \div 128) % 33554432 = word \div 128
  BY <1>3
<1>6. parseElectronic(field, word) = (word \div 128) % 33554432
  BY <1>1 DEF parseElectronic
<1>7. convertElectronicToRaw(field, word \div 128) = (word \div 128) * 128
  BY <1>1 DEF convertElectronicToRaw
<1>. QED BY <1>1, <1>4, <1>5, <1>6, <1>7

\* Either way, for every parameter of a line that is valid.
LEMMA FieldsAgree ==
  ASSUME NEW p, NEW word \in U32, p.first \in Nat, p.last \in Nat, p.first <= p.last
  PROVE  LET field == FieldOf(p)
             value == get_electronic_value(p, word)
         IN  /\ value = parseElectronic(field, word)
             /\ convertElectronicToRaw(field, value)
                  = ((word \div 2 ^ field.startBit) % 2 ^ field.bitLength) * 2 ^ field.startBit
<1>1. CASE p.trigger
  BY <1>1, SignaturesAgree DEF FieldOf
<1>2. CASE ~p.trigger
  BY <1>2, ReadingsAgree DEF FieldOf, U32
<1>. QED BY <1>1, <1>2

\* The spaces of ten PMs of side A end where those of side C begin (FitData.h:17).
RegisterAt(x, i, base) == x + (i * 512 + base)

InSpace(x, i, base) == x \in 0 .. 511 /\ i \in 0 .. 9 /\ base \in {512, 5632}

LEMMA SpacesApart ==
  ASSUME NEW x, NEW i, NEW a, InSpace(x, i, a), NEW y, NEW k, NEW c, InSpace(y, k, c),
         RegisterAt(x, i, a) = RegisterAt(y, k, c)
  PROVE  i = k /\ a = c
<1>1. /\ x \in 0 .. 511 /\ i \in 0 .. 9 /\ a \in {512, 5632}
      /\ y \in 0 .. 511 /\ k \in 0 .. 9 /\ c \in {512, 5632}
      /\ x + (i * 512 + a) = y + (k * 512 + c)
  BY DEF InSpace, RegisterAt
<1>2. CASE a = c
  <2>1. x + i * 512 = y + k * 512
    BY <1>1, <1>2
  <2>2. ~(i + 1 <= k)
    BY <1>1, <2>1
  <2>3. ~(k + 1 <= i)
    BY <1>1, <2>1
  <2>. QED BY <1>1, <1>2, <2>2, <2>3
<1>3. CASE a = 512 /\ c = 5632
  <2>1. x + i * 512 <= 511 + 4608 /\ y + k * 512 >= 0
    BY <1>1
  <2>2. x + i * 512 = y + k * 512 + 5120
    BY <1>1, <1>3
  <2>. QED BY <1>1, <2>1, <2>2
<1>4. CASE a = 5632 /\ c = 512
  <2>1. y + k * 512 <= 511 + 4608 /\ x + i * 512 >= 0
    BY <1>1
  <2>2. y + k * 512 = x + i * 512 + 5120
    BY <1>1, <1>4
  <2>. QED BY <1>1, <2>1, <2>2
<1>. QED BY <1>1, <1>2, <1>3, <1>4
-------------------------------------------------------------------------------
(* The tool *)

\* A parameter comes from a line of its register that has been read.
Seen(type, i) ==
  /\ i \in DOMAIN csv[type]
  /\ stage = type => i <= line
  /\ stage = "TCM" => type = "TCM"

ParameterOf(row) ==
  [first |-> row.first, last |-> row.last, signed |-> row.sign = "Y",
   name |-> row.name, trigger |-> row.trigger]

MapsInv ==
  /\ csv \in TableSets /\ maps = [type \in Types |-> maps[type]]
  /\ \A type \in Types : \A a \in DOMAIN maps[type] : \A p \in maps[type][a] :
       \E i \in DOMAIN csv[type] :
         /\ Seen(type, i) /\ csv[type][i].address = a
         /\ p = ParameterOf(csv[type][i]) /\ Valid(csv[type][i])

\* What an output was made of, and that it was made when the tables were complete.
SqlInv ==
  /\ stage \in Types \cup {"files", "saving", "panicked"} /\ line \in Nat
  /\ left \subseteq InputFiles
  /\ stage \in Types => sql = Empty
  /\ DOMAIN sql = DOMAIN inputMap /\ "none" \notin DOMAIN sql /\ cut \subseteq DOMAIN sql
  /\ IF stage = "saving" THEN path \in DOMAIN sql ELSE path = "none"
  /\ \A s \in DOMAIN sql : /\ sql[s] \subseteq convert(inputMap[s])
                           /\ s \in cut \/ sql[s] = {} \/ sql[s] = convert(inputMap[s])
  /\ \A s \in DOMAIN inputMap : \A b \in DOMAIN inputMap[s] : \A a \in DOMAIN inputMap[s][b] :
       inputMap[s][b][a] \in U32

ParserInv == MapsInv /\ SqlInv /\ FieldsDisjoint

LEMMA LineType ==
  ASSUME csv \in TableSets, NEW type \in Types, NEW i \in DOMAIN csv[type]
  PROVE  /\ i \in Nat /\ DOMAIN csv[type] = 1 .. Len(csv[type]) /\ Len(csv[type]) \in Nat
         /\ csv[type][i].first \in Nat /\ csv[type][i].last \in Nat
<1>. DEFINE Lines == [address : Nat, first : Nat, last : Nat, sign : STRING, name : STRING,
                     trigger : BOOLEAN]
<1>1. csv[type] \in Seq(Lines)
  BY ConfigurationParserAssumption
<1>2. csv[type][i] \in Lines /\ DOMAIN csv[type] = 1 .. Len(csv[type]) /\ Len(csv[type]) \in Nat
  <2>. HIDE DEF Lines
  <2>. QED BY <1>1
<1>. QED BY <1>2

LEMMA InitParserInv == InitParser => ParserInv
<1>. SUFFICES ASSUME InitParser PROVE ParserInv
  OBVIOUS
<1>1. MapsInv
  BY DEF InitParser, MapsInv, Empty
<1>2. SqlInv
  BY DEF InitParser, SqlInv, Empty, Types
<1>3. FieldsDisjoint
  BY DEF InitParser, FieldsDisjoint, Empty
<1>. QED BY <1>1, <1>2, <1>3 DEF ParserInv

\* The parameters of a register that end before each other begin: the last one is next to one
\* that comes after all of them.
LEMMA LastOfRegister ==
  ASSUME NEW register, register # {},
         \A q \in register : q.first \in Nat /\ q.first <= 31 /\ q.last \in Nat /\ q.first <= q.last,
         \A q, r \in register : q = r \/ q.last < r.first \/ r.last < q.first,
         NEW p, \A q \in register : Before(q, p)
  PROVE  \E m \in Previous(register, p) : \A q \in register : q.last <= m.last
<1>. DEFINE Room == {31 - q.first : q \in register}
<1>1. Room \subseteq Nat /\ Room # {}
  OBVIOUS
<1>2. PICK x \in Room : \A y \in Room : x <= y
  <2>. HIDE DEF Room
  <2>. QED BY <1>1, LeastNumber
<1>3. PICK m \in register : x = 31 - m.first
  OBVIOUS
<1>4. ASSUME NEW q \in register PROVE q.first <= m.first
  <2>1. 31 - m.first <= 31 - q.first
    BY <1>2, <1>3
  <2>. QED BY <2>1
<1>5. ASSUME NEW q \in register PROVE q = m \/ (q.last < m.first /\ q.last <= m.last)
  BY <1>4, <1>5
<1>6. ASSUME NEW q \in register PROVE q = m \/ Before(q, m)
  BY <1>5, <1>6 DEF Before
<1>7. m \in Previous(register, p)
  BY <1>6 DEF Previous
<1>. QED BY <1>5, <1>7

LEMMA InsertKeepsDisjoint ==
  ASSUME ParserInv, NEW type \in Types, ReadLine(type), Valid(csv[type][line + 1]),
         NEW a \in DOMAIN maps'[type], InOrderOf(csv[type], a)
  PROVE  \A p, q \in maps'[type][a] : p = q \/ p.last < q.first \/ q.last < p.first
<1>. DEFINE row == csv[type][line + 1]
            old == IF row.address \in DOMAIN maps[type] THEN maps[type][row.address] ELSE {}
            p == ParameterOf(row)
<1>1. /\ line + 1 \in DOMAIN csv[type] /\ stage = type /\ line \in Nat /\ csv \in TableSets
      /\ row.first \in Nat /\ row.last \in Nat
  <2>1. csv \in TableSets /\ line \in Nat /\ stage = type /\ line < Len(csv[type])
    BY DEF ParserInv, MapsInv, SqlInv, ReadLine
  <2>2. DOMAIN csv[type] = 1 .. Len(csv[type]) /\ Len(csv[type]) \in Nat
    BY <2>1, ConfigurationParserAssumption
  <2>3. line + 1 \in DOMAIN csv[type]
    BY <2>1, <2>2
  <2>. QED BY <2>1, <2>3, LineType
<1>2. maps'[type] = insert_parameter(maps[type], row)
  BY DEF ReadLine, ParserInv, MapsInv
<1>3. CASE a # row.address
  <2>1. a \in DOMAIN maps[type] /\ maps'[type][a] = maps[type][a]
    BY <1>2, <1>3 DEF insert_parameter
  <2>. QED BY <2>1 DEF ParserInv, FieldsDisjoint
<1>4. CASE a = row.address
  <2>1. maps'[type][a] = IF Accepts(old, p) THEN old \cup {p} ELSE old
    BY <1>2, <1>4 DEF insert_parameter, ParameterOf
  <2>2. \A q, r \in old : q = r \/ q.last < r.first \/ r.last < q.first
    BY <1>4 DEF ParserInv, FieldsDisjoint
  <2>3. ASSUME Accepts(old, p), NEW q \in old PROVE q.last < p.first
    <3>1. ASSUME NEW r \in old
          PROVE  /\ r.first \in Nat /\ r.last \in Nat /\ r.first <= r.last /\ r.first <= 31
                 /\ Before(r, p)
      <4>1. PICK i \in DOMAIN csv[type] :
              /\ Seen(type, i) /\ csv[type][i].address = row.address
              /\ r = ParameterOf(csv[type][i]) /\ Valid(csv[type][i])
        BY <1>1, <3>1 DEF ParserInv, MapsInv
      <4>2. r.first = csv[type][i].first /\ r.last = csv[type][i].last
        BY <4>1 DEF ParameterOf
      <4>3. i \in Nat /\ r.first \in Nat /\ r.last \in Nat /\ i <= line
        BY <1>1, <4>1, <4>2, LineType DEF Seen
      <4>4. i < line + 1
        BY <1>1, <4>3
      <4>5. ~Before(row, csv[type][i])
        BY <1>1, <1>4, <4>1, <4>4 DEF InOrderOf
      <4>6. ~(r.first = row.first /\ r.last = row.last)
        BY <2>3, <3>1 DEF Accepts, Same, ParameterOf
      <4>7. Before(r, p)
        BY <1>1, <4>2, <4>3, <4>5, <4>6 DEF Before, ParameterOf
      <4>8. r.first <= r.last /\ r.last <= 31
        BY <4>1, <4>2 DEF Valid
      <4>9. r.first <= 31
        BY <4>3, <4>8
      <4>. QED BY <4>3, <4>7, <4>8, <4>9
    <3>2. PICK m \in Previous(old, p) : \A r \in old : r.last <= m.last
      <4>. HIDE DEF old, p
      <4>. QED BY <2>2, <2>3, <3>1, LastOfRegister
    <3>3. m \in old /\ m.last < p.first
      BY <2>3, <3>2 DEF Accepts, Previous
    <3>4. q.last \in Nat /\ m.last \in Nat /\ p.first \in Nat
      BY <1>1, <3>1, <3>3 DEF ParameterOf
    <3>. QED BY <2>3, <3>2, <3>3, <3>4
  <2>. QED BY <2>1, <2>2, <2>3
<1>. QED BY <1>3, <1>4

LEMMA LinesKeepMaps ==
  ASSUME ParserInv, NEW type \in Types, ReadLine(type) PROVE MapsInv' /\ FieldsDisjoint'
<1>1. csv \in TableSets /\ line \in Nat /\ stage = type /\ line < Len(csv[type]) /\ csv' = csv
  BY DEF ParserInv, MapsInv, SqlInv, ReadLine
<1>2. CASE ~Valid(csv[type][line + 1])
  <2>1. stage' = "panicked" /\ maps' = maps /\ csv' = csv
    BY <1>2 DEF ReadLine
  <2>2. \A t \in Types : \A i : Seen(t, i) => Seen(t, i)'
    BY <2>1 DEF Seen, Types
  <2>3. MapsInv'
    BY <2>1, <2>2 DEF ParserInv, MapsInv
  <2>. QED BY <2>1, <2>3 DEF ParserInv, FieldsDisjoint
<1>3. CASE Valid(csv[type][line + 1])
  <2>. DEFINE row == csv[type][line + 1]
  <2>1. /\ maps' = [maps EXCEPT ![type] = insert_parameter(@, row)]
        /\ line' = line + 1 /\ stage' = stage
    BY <1>3 DEF ReadLine
  <2>2. line + 1 \in DOMAIN csv[type] /\ DOMAIN csv[type] \subseteq Nat
    <3>1. DOMAIN csv[type] = 1 .. Len(csv[type]) /\ Len(csv[type]) \in Nat
      BY <1>1, ConfigurationParserAssumption
    <3>. QED BY <1>1, <3>1
  <2>3. ASSUME NEW i, i = line + 1 PROVE Seen(type, i)'
    BY <1>1, <2>1, <2>2, <2>3 DEF Seen
  <2>4. \A t \in Types : \A i : Seen(t, i) => Seen(t, i)'
    <3>. SUFFICES ASSUME NEW t \in Types, NEW i, Seen(t, i) PROVE Seen(t, i)'
      OBVIOUS
    <3>1. t = type => i \in Nat /\ i <= line /\ i <= line + 1
      BY <1>1, <2>2 DEF Seen
    <3>. QED BY <1>1, <2>1, <3>1 DEF Seen
  <2>5. /\ maps' = [t \in Types |-> maps'[t]]
        /\ maps'[type] = insert_parameter(maps[type], row)
        /\ \A t \in Types \ {type} : maps'[t] = maps[t]
    BY <2>1 DEF ParserInv, MapsInv
  <2>6. ASSUME NEW a \in DOMAIN maps'[type], NEW p \in maps'[type][a]
        PROVE  \/ a \in DOMAIN maps[type] /\ p \in maps[type][a]
               \/ a = row.address /\ p = ParameterOf(row)
    <3>1. CASE a # row.address
      BY <2>5, <2>6, <3>1 DEF insert_parameter
    <3>2. CASE a = row.address
      <4>. DEFINE old == IF row.address \in DOMAIN maps[type] THEN maps[type][row.address] ELSE {}
      <4>1. maps'[type][a] = IF Accepts(old, ParameterOf(row)) THEN old \cup {ParameterOf(row)} ELSE old
        BY <2>5, <3>2 DEF insert_parameter, ParameterOf
      <4>. QED BY <2>6, <3>2, <4>1
    <3>. QED BY <3>1, <3>2
  <2>7. MapsInv'
    <3>1. ASSUME NEW t \in Types, NEW a \in DOMAIN maps'[t], NEW p \in maps'[t][a]
          PROVE  \E i \in DOMAIN csv[t] :
                   /\ Seen(t, i)' /\ csv[t][i].address = a
                   /\ p = ParameterOf(csv[t][i]) /\ Valid(csv[t][i])
      <4>1. CASE a \in DOMAIN maps[t] /\ p \in maps[t][a]
        BY <2>4, <4>1 DEF ParserInv, MapsInv
      <4>2. CASE t = type /\ a = row.address /\ p = ParameterOf(row)
        <5>1. PICK i \in DOMAIN csv[type] : i = line + 1
          BY <2>2
        <5>2. csv[type][i] = row /\ Seen(type, i)'
          BY <2>3, <5>1
        <5>. QED BY <1>3, <4>2, <5>1, <5>2
      <4>. QED BY <2>5, <2>6, <3>1, <4>1, <4>2
    <3>. QED BY <1>1, <2>5, <3>1 DEF MapsInv
  <2>8. FieldsDisjoint'
    <3>1. ASSUME NEW t \in Types, NEW a \in DOMAIN maps'[t], InOrderOf(csv[t], a)
          PROVE  \A p, q \in maps'[t][a] : p = q \/ p.last < q.first \/ q.last < p.first
      <4>1. CASE t = type
        BY <1>3, <3>1, <4>1, InsertKeepsDisjoint
      <4>2. CASE t # type
        BY <2>5, <3>1, <4>2 DEF ParserInv, FieldsDisjoint
      <4>. QED BY <4>1, <4>2
    <3>. QED BY <1>1, <3>1 DEF FieldsDisjoint
  <2>. QED BY <2>7, <2>8
<1>. QED BY <1>2, <1>3

LEMMA TableReadKeepsMaps ==
  ASSUME ParserInv, NEW type \in Types, TableRead(type) PROVE MapsInv' /\ FieldsDisjoint'
<1>1. csv \in TableSets /\ stage = type /\ line = Len(csv[type]) /\ UNCHANGED <<csv, maps>>
  BY DEF ParserInv, MapsInv, TableRead
<1>2. ASSUME NEW t \in Types, NEW i \in DOMAIN csv[t], Seen(t, i), NEW a \in DOMAIN maps[t],
             NEW p \in maps[t][a]
      PROVE  Seen(t, i)'
  BY <1>1, <1>2 DEF Seen, TableRead, Types
<1>. QED BY <1>1, <1>2 DEF ParserInv, MapsInv, FieldsDisjoint

LEMMA FileStepsKeepMaps ==
  ASSUME ParserInv, UNCHANGED <<csv, line, maps>>, stage' \in {"files", "saving", "panicked"}
  PROVE  MapsInv' /\ FieldsDisjoint'
<1>1. \A t \in Types : \A i : Seen(t, i) => Seen(t, i)'
  BY DEF Seen, Types
<1>. QED BY <1>1 DEF ParserInv, MapsInv, FieldsDisjoint

LEMMA ConfigType ==
  ASSUME NEW file \in InputFiles, Readable(file), NEW s \in DOMAIN file.sections,
         NEW config \in parse_board_config(file.sections[s]), NEW a \in DOMAIN config
  PROVE  config[a] \in U32
<1>. DEFINE section == file.sections[s]
<1>1. PICK n \in DOMAIN section : config[a] = section[n][1]
  BY DEF parse_board_config
<1>2. section[n] \in Seq(U32) /\ section[n] # <<>>
  BY ConfigurationParserAssumption DEF Readable
<1>. HIDE DEF section
<1>3. section[n][1] \in U32
  BY <1>2
<1>. QED BY <1>1, <1>3

LEMMA CreateKeepsSql == ASSUME ParserInv, NEW file \in InputFiles, Create(file) PROVE SqlInv'
<1>. DEFINE Of(b) == file.sections[CHOOSE s \in DOMAIN file.sections : parse_board_name(s) = b]
            Boards == {parse_board_name(s) : s \in DOMAIN file.sections}
            Configs == UNION {parse_board_config(Of(b)) : b \in Boards}
<1>1. PICK map \in [Boards -> Configs] :
        /\ \A b \in Boards : map[b] \in parse_board_config(Of(b))
        /\ inputMap' = Overwrite(inputMap, file.stem, map)
  BY DEF Create
<1>2. ASSUME NEW b \in DOMAIN map, NEW a \in DOMAIN map[b] PROVE map[b][a] \in U32
  <2>1. b \in Boards
    OBVIOUS
  <2>2. PICK s \in DOMAIN file.sections : Of(b) = file.sections[s]
    <3>1. \E s \in DOMAIN file.sections : parse_board_name(s) = b
      BY <2>1
    <3>. QED BY <3>1
  <2>. HIDE DEF Of, Boards, Configs
  <2>3. map[b] \in parse_board_config(file.sections[s]) /\ Readable(file)
    BY <1>1, <2>1, <2>2 DEF Create
  <2>. QED BY <1>2, <2>3, ConfigType
<1>. HIDE DEF Of, Boards, Configs
<1>3. /\ stage = "files" /\ stage' = "saving" /\ path' = file.stem /\ line' = line
      /\ left' = left \ {file} /\ maps' = maps
      /\ sql' = Overwrite(sql, file.stem, {}) /\ cut' = cut \ {file.stem}
  BY DEF Create
<1>4. /\ DOMAIN sql' = DOMAIN sql \cup {file.stem} /\ DOMAIN inputMap' = DOMAIN inputMap \cup {file.stem}
      /\ sql'[file.stem] = {} /\ inputMap'[file.stem] = map
      /\ \A s \in DOMAIN sql \ {file.stem} : sql'[s] = sql[s]
      /\ \A s \in DOMAIN inputMap \ {file.stem} : inputMap'[s] = inputMap[s]
  BY <1>1, <1>3 DEF Overwrite
<1>5. file.stem # "none"
  BY ConfigurationParserAssumption
<1>6. \A s \in DOMAIN sql' :
        /\ sql'[s] \subseteq convert(inputMap[s])'
        /\ s \in cut' \/ sql'[s] = {} \/ sql'[s] = convert(inputMap[s])'
  <2>. SUFFICES ASSUME NEW s \in DOMAIN sql', s # file.stem
                PROVE  /\ sql'[s] \subseteq convert(inputMap[s])'
                       /\ s \in cut' \/ sql'[s] = {} \/ sql'[s] = convert(inputMap[s])'
    BY <1>4
  <2>1. s \in DOMAIN sql /\ s \in DOMAIN inputMap /\ inputMap'[s] = inputMap[s] /\ sql'[s] = sql[s]
    BY <1>4 DEF ParserInv, SqlInv
  <2>2. convert(inputMap[s])' = convert(inputMap[s])
    BY <1>3, <2>1 DEF convert, AllKnown, parse_board
  <2>. QED BY <1>3, <2>1, <2>2 DEF ParserInv, SqlInv
<1>7. \A s \in DOMAIN inputMap' : \A b \in DOMAIN inputMap'[s] :
        \A a \in DOMAIN inputMap'[s][b] : inputMap'[s][b][a] \in U32
  BY <1>2, <1>4 DEF ParserInv, SqlInv
<1>. QED BY <1>3, <1>4, <1>5, <1>6, <1>7 DEF ParserInv, SqlInv, Types

\* What a failing write leaves is a part of what the whole would be.
LEMMA UntilIsPart ==
  ASSUME NEW map, AllKnown(map), NEW b \in DOMAIN map, NEW before \in SUBSET (DOMAIN map \ {b}),
         NEW a \in DOMAIN map[b], NEW p \in maps[get_board_type(b)][a]
  PROVE  convertedUntil(map, before, b, a, p) \subseteq convert(map)
<1>. DEFINE All(c) == parse_board(c, map[c], DOMAIN map[c])
            Earlier == {q \in maps[get_board_type(b)][a] : Before(q, p)}
            First == UNION {All(c) : c \in before}
            Second == parse_board(b, map[b], {d \in DOMAIN map[b] : d < a})
            Third == parse_register(b, Earlier, map[b][a])
            Fourth == parse_register(b, maps[get_board_type(b)][a], map[b][a])
<1>1. convert(map) = UNION {All(c) : c \in DOMAIN map}
  BY DEF convert
<1>2. All(b) \subseteq convert(map)
  BY <1>1
<1>3. First \subseteq convert(map)
  BY <1>1
<1>4. Second \subseteq All(b)
  BY DEF parse_board
<1>5. Third \subseteq Fourth
  BY DEF parse_register
<1>6. Fourth \subseteq All(b)
  BY DEF parse_board
<1>7. ASSUME NEW r \in convertedUntil(map, before, b, a, p)
      PROVE  r \in First \/ r \in Second \/ r \in Third
  BY <1>7 DEF convertedUntil
<1>. HIDE DEF All, First, Second, Third, Fourth
<1>. QED BY <1>2, <1>3, <1>4, <1>5, <1>6, <1>7

LEMMA SaveKeepsSql == ASSUME ParserInv, Save \/ SaveFails PROVE SqlInv'
<1>1. /\ stage = "saving" /\ stage' = "files" /\ path \in DOMAIN sql /\ path' = "none"
      /\ UNCHANGED <<maps, line, left, inputMap>>
  BY DEF Save, SaveFails, Saved, ParserInv, SqlInv
<1>2. \E part : /\ sql' = [sql EXCEPT ![path] = part] /\ part \subseteq convert(inputMap[path])
               /\ \/ cut' = cut /\ part = convert(inputMap[path])
                  \/ cut' = cut \cup {path}
  <2>1. CASE Save
    BY <2>1 DEF Save
  <2>2. CASE SaveFails
    <3>. DEFINE map == inputMap[path]
    <3>1. PICK b \in DOMAIN map : \E before \in SUBSET (DOMAIN map \ {b}) : \E a \in DOMAIN map[b] :
            \E p \in maps[get_board_type(b)][a] :
              sql' = [sql EXCEPT ![path] = convertedUntil(map, before, b, a, p)]
      BY <2>2 DEF SaveFails
    <3>2. PICK before \in SUBSET (DOMAIN map \ {b}) : \E a \in DOMAIN map[b] :
            \E p \in maps[get_board_type(b)][a] :
              sql' = [sql EXCEPT ![path] = convertedUntil(map, before, b, a, p)]
      BY <3>1
    <3>3. PICK a \in DOMAIN map[b] : \E p \in maps[get_board_type(b)][a] :
            sql' = [sql EXCEPT ![path] = convertedUntil(map, before, b, a, p)]
      BY <3>2
    <3>4. PICK p \in maps[get_board_type(b)][a] :
            sql' = [sql EXCEPT ![path] = convertedUntil(map, before, b, a, p)]
      BY <3>3
    <3>5. AllKnown(map) /\ cut' = cut \cup {path}
      BY <2>2 DEF SaveFails
    <3>6. convertedUntil(map, before, b, a, p) \subseteq convert(map)
      BY <3>5, UntilIsPart
    <3>. QED BY <3>4, <3>5, <3>6
  <2>. QED BY <2>1, <2>2
<1>3. \A s : convert(inputMap[s])' = convert(inputMap[s])
  BY <1>1 DEF convert, AllKnown, parse_board
<1>4. PICK part : /\ sql' = [sql EXCEPT ![path] = part] /\ part \subseteq convert(inputMap[path])
                  /\ \/ cut' = cut /\ part = convert(inputMap[path])
                     \/ cut' = cut \cup {path}
  BY <1>2
<1>5. \A s \in DOMAIN sql' : /\ sql'[s] \subseteq convert(inputMap[s])
                             /\ s \in cut' \/ sql'[s] = {} \/ sql'[s] = convert(inputMap[s])
  BY <1>1, <1>4 DEF ParserInv, SqlInv
<1>. QED BY <1>1, <1>3, <1>4, <1>5 DEF ParserInv, SqlInv, Types

LEMMA NextParserInv == ParserInv /\ [NextParser]_parserVars => ParserInv'
<1>. SUFFICES ASSUME ParserInv, [NextParser]_parserVars PROVE ParserInv'
  OBVIOUS
<1>1. ASSUME NEW type \in Types, ReadLine(type) PROVE ParserInv'
  <2>1. SqlInv'
    BY <1>1 DEF ReadLine, outputs, ParserInv, SqlInv, Types, Empty
  <2>. QED BY <1>1, <2>1, LinesKeepMaps DEF ParserInv
<1>2. ASSUME NEW type \in Types, TableRead(type) PROVE ParserInv'
  <2>1. SqlInv'
    BY <1>2 DEF TableRead, outputs, ParserInv, SqlInv, Types, Empty
  <2>. QED BY <1>2, <2>1, TableReadKeepsMaps DEF ParserInv
<1>3. ASSUME NEW file \in InputFiles, PassOver(file) \/ Panic(file) PROVE ParserInv'
  <2>1. SqlInv'
    <3>1. \A s : convert(inputMap[s])' = convert(inputMap[s])
      <4>1. UNCHANGED <<maps, inputMap>>
        BY <1>3 DEF PassOver, Panic, outputs
      <4>. QED BY <4>1 DEF convert, AllKnown, parse_board
    <3>. QED BY <1>3, <3>1 DEF PassOver, Panic, outputs, ParserInv, SqlInv, Types
  <2>2. UNCHANGED <<csv, line, maps>> /\ stage' \in {"files", "panicked"}
    BY <1>3 DEF PassOver, Panic
  <2>. QED BY <2>1, <2>2, FileStepsKeepMaps DEF ParserInv
<1>4. ASSUME NEW file \in InputFiles, Create(file) PROVE ParserInv'
  <2>1. UNCHANGED <<csv, line, maps>> /\ stage' = "saving"
    BY <1>4 DEF Create
  <2>. QED BY <1>4, <2>1, CreateKeepsSql, FileStepsKeepMaps DEF ParserInv
<1>5. CASE Save \/ SaveFails
  <2>1. UNCHANGED <<csv, line, maps>> /\ stage' = "files"
    BY <1>5 DEF Save, SaveFails, Saved
  <2>. QED BY <1>5, <2>1, SaveKeepsSql, FileStepsKeepMaps DEF ParserInv
<1>6. CASE UNCHANGED parserVars
  BY <1>6, SMTT(30) DEF parserVars, outputs, ParserInv, MapsInv, Seen, SqlInv, FieldsDisjoint, convert, AllKnown, parse_board
<1>. QED BY <1>1, <1>2, <1>3, <1>4, <1>5, <1>6 DEF NextParser

LEMMA ParserSpecInv == ParserSpec => []ParserInv
BY InitParserInv, NextParserInv, PTL DEF ParserSpec

\* The types of the tool.
LEMMA ParserTypes == ParserInv => ParserTypeOK
BY DEF ParserInv, MapsInv, SqlInv, ParserTypeOK

\* For tables of any length: comparing each parameter with the one before it is enough to
\* keep the fields of a register apart, when its lines come in their order.
THEOREM FieldsAlwaysDisjoint == ParserSpec => []FieldsDisjoint
<1>1. ParserInv => FieldsDisjoint
  BY DEF ParserInv
<1>. QED BY <1>1, ParserSpecInv, PTL

\* For any tables and files: an output has the parameters of a part of its registers only if a
\* write failed, and none if there is a register that nobody knows.
THEOREM SqlAlwaysWhole == ParserSpec => []SqlIsWhole
<1>1. ParserInv => SqlIsWhole
  <2>. SUFFICES ASSUME ParserInv, NEW s \in DOMAIN sql, sql[s] # {},
                       NEW b \in DOMAIN inputMap[s], NEW a \in DOMAIN inputMap[s][b]
                PROVE  /\ a \in DOMAIN maps[get_board_type(b)]
                       /\ s \notin cut => \A p \in maps[get_board_type(b)][a] :
                            \E e \in sql[s] : e.board = b /\ e.name = p.name
    BY DEF SqlIsWhole
  <2>. DEFINE map == inputMap[s]
  <2>1. sql[s] \subseteq convert(map) /\ (s \in cut \/ sql[s] = convert(map))
    BY DEF ParserInv, SqlInv
  <2>2. AllKnown(map) /\ convert(map) = UNION {parse_board(c, map[c], DOMAIN map[c]) : c \in DOMAIN map}
    BY <2>1 DEF convert
  <2>3. a \in DOMAIN maps[get_board_type(b)]
    BY <2>2 DEF AllKnown
  <2>4. parse_register(b, maps[get_board_type(b)][a], map[b][a]) \subseteq convert(map)
    <3>1. parse_board(b, map[b], DOMAIN map[b]) \subseteq convert(map)
      BY <2>2
    <3>2. parse_register(b, maps[get_board_type(b)][a], map[b][a]) \subseteq parse_board(b, map[b], DOMAIN map[b])
      BY DEF parse_board
    <3>. QED BY <3>1, <3>2
  <2>5. ASSUME s \notin cut, NEW p \in maps[get_board_type(b)][a]
        PROVE  \E e \in sql[s] : e.board = b /\ e.name = p.name
    <3>. DEFINE e == [board |-> b, name |-> p.name, value |-> get_electronic_value(p, map[b][a])]
    <3>1. e \in parse_register(b, maps[get_board_type(b)][a], map[b][a])
      BY DEF parse_register
    <3>2. e \in sql[s] /\ e.board = b /\ e.name = p.name
      BY <2>1, <2>4, <2>5, <3>1
    <3>. QED BY <3>2
  <2>. QED BY <2>3, <2>5
<1>. QED BY <1>1, ParserSpecInv, PTL

\* For any fields and words, those of the signatures of triggers included: what the tool stores
\* is what FRED reads and writes.
THEOREM RegistersAlwaysReproduced == ParserSpec => []RegistersReproduced
<1>1. ParserInv => RegistersReproduced
  <2>. SUFFICES ASSUME ParserInv, NEW s \in DOMAIN sql, NEW b \in DOMAIN inputMap[s],
                       NEW a \in DOMAIN inputMap[s][b] \cap DOMAIN maps[get_board_type(b)],
                       NEW p \in maps[get_board_type(b)][a], NEW e \in sql[s],
                       e.board = b, e.name = p.name,
                       NamedOnce(csv[get_board_type(b)], p.name)
                PROVE  LET field == FieldOf(p)
                           word == inputMap[s][b][a]
                       IN  /\ e.value = parseElectronic(field, word)
                           /\ convertElectronicToRaw(field, e.value)
                                = ((word \div 2 ^ field.startBit) % 2 ^ field.bitLength) * 2 ^ field.startBit
    BY DEF RegistersReproduced
  <2>. DEFINE map == inputMap[s]
              type == get_board_type(b)
  <2>1. type \in Types
    BY DEF get_board_type, Types
  <2>2. AllKnown(map) /\ e \in UNION {parse_board(c, map[c], DOMAIN map[c]) : c \in DOMAIN map}
    <3>1. e \in convert(map)
      BY DEF ParserInv, SqlInv
    <3>. QED BY <3>1 DEF convert
  <2>3. PICK c \in DOMAIN map : \E d \in DOMAIN map[c] :
           e \in parse_register(c, maps[get_board_type(c)][d], map[c][d])
    BY <2>2 DEF parse_board
  <2>4. PICK d \in DOMAIN map[c] : e \in parse_register(c, maps[get_board_type(c)][d], map[c][d])
    BY <2>3
  <2>5. PICK q \in maps[get_board_type(c)][d] :
          e = [board |-> c, name |-> q.name, value |-> get_electronic_value(q, map[c][d])]
    BY <2>4 DEF parse_register
  <2>6. c = b /\ q.name = p.name /\ e.value = get_electronic_value(q, map[b][d])
    BY <2>5
  <2>7. d \in DOMAIN maps[type]
    BY <2>2, <2>4, <2>6 DEF AllKnown
  <2>8. PICK i \in DOMAIN csv[type] :
          csv[type][i].address = a /\ p = ParameterOf(csv[type][i]) /\ Valid(csv[type][i])
    BY <2>1 DEF ParserInv, MapsInv
  <2>9. PICK k \in DOMAIN csv[type] : csv[type][k].address = d /\ q = ParameterOf(csv[type][k])
    BY <2>1, <2>5, <2>6, <2>7 DEF ParserInv, MapsInv
  <2>10. i = k
    <3>1. csv[type][i].name = p.name /\ csv[type][k].name = p.name
      BY <2>6, <2>8, <2>9 DEF ParameterOf
    <3>. QED BY <3>1 DEF NamedOnce
  <2>11. q = p /\ d = a
    BY <2>8, <2>9, <2>10
  <2>12. map[b][a] \in U32
    BY DEF ParserInv, SqlInv
  <2>13. p.first \in Nat /\ p.last \in Nat /\ p.first <= p.last
    BY <2>1, <2>8, LineType DEF ParserInv, MapsInv, ParameterOf, Valid
  <2>. QED BY <2>6, <2>11, <2>12, <2>13, FieldsAgree
<1>. QED BY <1>1, ParserSpecInv, PTL
-------------------------------------------------------------------------------
(* Rows *)

LEMMA FirstExists ==
  ASSUME NEW S, NEW rows \in Seq(S), NEW n \in NamesOf(rows)
  PROVE  \E i \in DOMAIN rows :
           /\ FirstOf(rows, n) = rows[i] /\ rows[i].name = n
           /\ \A k \in DOMAIN rows : rows[k].name = n => i <= k
<1>. DEFINE T == {i \in DOMAIN rows : rows[i].name = n}
<1>1. T \subseteq Nat /\ T # {}
  BY DEF NamesOf
<1>2. \E i \in T : \A k \in T : i <= k
  <2>. HIDE DEF T
  <2>. QED BY <1>1, LeastNumber
<1>3. \E i \in DOMAIN rows : rows[i].name = n /\ \A k \in DOMAIN rows : rows[k].name = n => i <= k
  BY <1>2
<1>. QED BY <1>3 DEF FirstOf

LEMMA DeviceExists ==
  ASSUME NEW rows \in Seq(DeviceRows), NEW n \in NamesOf(rows)
  PROVE  \E i \in DOMAIN rows :
           /\ DeviceOf(rows, n) = rows[i] /\ rows[i].name = n
           /\ \A k \in DOMAIN rows : rows[k].name = n /\ rows[k].type = "TCM" => rows[i].type = "TCM"
<1>. DEFINE T == {i \in DOMAIN rows : rows[i].name = n}
            U == {i \in T : rows[i].type = "TCM"}
<1>1. T \subseteq Nat /\ T # {} /\ U \subseteq Nat
  BY DEF NamesOf
<1>2. \A i \in DOMAIN rows : rows[i].type \in {"TCM", "PM"}
  <2>. \A i \in DOMAIN rows : rows[i] \in DeviceRows
    OBVIOUS
  <2>. QED BY DEF DeviceRows
<1>3. (\E i \in T : \A k \in T : i <= k) /\ (U # {} => \E i \in U : \A k \in U : i <= k)
  <2>. HIDE DEF T, U
  <2>. QED BY <1>1, LeastNumber
<1>4. \E i \in DOMAIN rows : rows[i].name = n /\ \A k \in DOMAIN rows :
        rows[k].name = n => IF rows[k].type = rows[i].type THEN i <= k ELSE rows[i].type = "TCM"
  <2>1. CASE U = {}
    BY <1>2, <1>3, <2>1
  <2>2. CASE U # {}
    BY <1>2, <1>3, <2>2
  <2>. QED BY <2>1, <2>2
<1>5. PICK i \in DOMAIN rows : DeviceOf(rows, n) = rows[i] /\ rows[i].name = n /\ \A k \in DOMAIN rows :
        rows[k].name = n => IF rows[k].type = rows[i].type THEN i <= k ELSE rows[i].type = "TCM"
  BY <1>4 DEF DeviceOf
<1>. QED BY <1>5
-------------------------------------------------------------------------------
(* Equations *)

Entries == [value : Int, variables : Seq(STRING), constant : Int]

\* An environment whose equations can be computed.
Equations(env) == \A n \in DOMAIN env : env[n] \in Entries /\ Computable(env, n)

\* The value of an equation depends on its constant and the values of its operands.
LEMMA CalculateSame ==
  ASSUME NEW e, NEW f, NEW n, NEW m, f[m].variables = e[n].variables, f[m].constant = e[n].constant,
         e[n].variables \in Seq(STRING),
         \A i \in DOMAIN e[n].variables : f[e[n].variables[i]].value = e[e[n].variables[i]].value
  PROVE  calculate(f, m) = calculate(e, n)
<1>. DEFINE L == Len(e[n].variables)
     P(s) == s = [i \in 0 .. L |->
               IF i = 0 THEN e[n].constant ELSE s[i - 1] + e[e[n].variables[i]].value]
     Q(s) == s = [i \in 0 .. L |->
               IF i = 0 THEN f[m].constant ELSE s[i - 1] + f[f[m].variables[i]].value]
<1>1. \A s : P(s) <=> Q(s)
  <2>. TAKE s
  <2>1. \A i \in 0 .. L : i # 0 => i \in DOMAIN e[n].variables
    OBVIOUS
  <2>. QED BY <2>1
<1>2. (CHOOSE s : P(s)) = (CHOOSE s : Q(s))
  <2>. HIDE DEF P, Q
  <2>. QED BY <1>1
<1>3. calculate(e, n) = (CHOOSE s : P(s))[L]
  BY DEF calculate
<1>4. calculate(f, m) = (CHOOSE s : Q(s))[L]
  BY DEF calculate
<1>. QED BY <1>2, <1>3, <1>4

LEMMA CalculateType ==
  ASSUME NEW env, Equations(env), NEW n \in DOMAIN env
  PROVE  /\ calculate(env, n) \in Int
         /\ env[n].variables = <<>> => calculate(env, n) = env[n].constant
<1>. DEFINE variables == env[n].variables
            L == Len(variables)
            Sum(s, l) == s = [i \in 0 .. l |->
                           IF i = 0 THEN env[n].constant ELSE s[i - 1] + env[variables[i]].value]
            T == {l \in Nat : l <= L => \E s : Sum(s, l) /\ s[l] \in Int}
<1>1. /\ variables \in Seq(STRING) /\ L \in Nat /\ env[n].constant \in Int
      /\ \A i \in 1 .. L : env[variables[i]].value \in Int
  BY DEF Equations, Computable, Entries
<1>2. 0 \in T
  <2>. DEFINE s == [i \in 0 .. 0 |-> env[n].constant]
  <2>1. Sum(s, 0) /\ s[0] \in Int
    BY <1>1
  <2>. QED BY <2>1
<1>3. ASSUME NEW l \in Nat, l \in T PROVE l + 1 \in T
  <2>. HIDE DEF Sum, L
  <2>. SUFFICES ASSUME l + 1 <= L PROVE \E s : Sum(s, l + 1) /\ s[l + 1] \in Int
    OBVIOUS
  <2>. USE DEF Sum, L
  <2>1. PICK s : Sum(s, l) /\ s[l] \in Int
    BY <1>1, <1>3
  <2>. DEFINE v == s[l] + env[variables[l + 1]].value
              t == [i \in 0 .. l + 1 |-> IF i <= l THEN s[i] ELSE v]
  <2>2. v \in Int
    BY <1>1, <2>1
  <2>3. \A i \in 0 .. l : t[i] = s[i]
    OBVIOUS
  <2>4. t[l + 1] = v
    OBVIOUS
  <2>5. \A i \in 0 .. l + 1 :
          t[i] = IF i = 0 THEN env[n].constant ELSE t[i - 1] + env[variables[i]].value
    <3>. TAKE i \in 0 .. l + 1
    <3>1. CASE i = l + 1
      BY <2>3, <2>4, <3>1
    <3>2. CASE i = 0
      BY <2>1, <2>3, <3>2
    <3>3. CASE i \in 1 .. l
      <4>1. s[i] = s[i - 1] + env[variables[i]].value
        <5>. HIDE DEF v, t, T
        <5>1. \A k \in 0 .. l : s[k] = IF k = 0 THEN env[n].constant ELSE s[k - 1] + env[variables[k]].value
          BY <2>1
        <5>. QED BY <3>3, <5>1
      <4>. QED BY <2>3, <3>3, <4>1
    <3>. QED BY <3>1, <3>2, <3>3
  <2>6. t = [i \in 0 .. l + 1 |->
              IF i = 0 THEN env[n].constant ELSE t[i - 1] + env[variables[i]].value]
    <3>. HIDE DEF v
    <3>. QED BY <2>5
  <2>. QED BY <2>2, <2>4, <2>6
<1>4. L \in T
  <2>. HIDE DEF T
  <2>. QED BY <1>1, <1>2, <1>3, Induction
<1>5. PICK z : Sum(z, L) /\ z[L] \in Int
  <2>. SUFFICES ASSUME TRUE PROVE \E s : Sum(s, L) /\ s[L] \in Int
    OBVIOUS
  <2>. HIDE DEF Sum
  <2>. QED BY <1>1, <1>4
<1>. DEFINE c == CHOOSE s : Sum(s, L)
<1>6. Sum(c, L)
  BY <1>5
<1>7. calculate(env, n) = c[L]
  BY DEF calculate
<1>. DEFINE U == {l \in Nat : l <= L => c[l] \in Int}
<1>8. \A i \in 0 .. L : c[i] = IF i = 0 THEN env[n].constant ELSE c[i - 1] + env[variables[i]].value
  <2>. HIDE DEF c
  <2>. QED BY <1>6
<1>9. L \in U
  <2>. HIDE DEF c
  <2>1. 0 \in U
    BY <1>1, <1>8
  <2>2. ASSUME NEW l \in Nat, l \in U PROVE l + 1 \in U
    <3>. SUFFICES ASSUME l + 1 <= L PROVE c[l + 1] \in Int
      OBVIOUS
    <3>1. c[l + 1] = c[l] + env[variables[l + 1]].value /\ c[l] \in Int
      BY <1>1, <1>8, <2>2
    <3>. QED BY <1>1, <3>1
  <2>. HIDE DEF U
  <2>. QED BY <1>1, <2>1, <2>2, Induction
<1>10. variables = <<>> => c[L] = env[n].constant
  <2>. HIDE DEF c
  <2>. QED BY <1>1, <1>8
<1>11. c[L] \in Int
  <2>. HIDE DEF c
  <2>. QED BY <1>1, <1>9
<1>. QED BY <1>7, <1>10, <1>11

\* updateVariable changes one value.
LEMMA UpdateVariable ==
  ASSUME NEW env, Equations(env), NEW n \in DOMAIN env
  PROVE  LET f == updateVariable(env, n) IN
         /\ DOMAIN f = DOMAIN env /\ Equations(f)
         /\ f[n].value = calculate(env, n)
         /\ \A m \in DOMAIN env : /\ m # n => f[m] = env[m]
                                  /\ f[m].variables = env[m].variables
                                  /\ f[m].constant = env[m].constant
<1>. DEFINE f == updateVariable(env, n)
<1>1. DOMAIN f = DOMAIN env /\ f[n] = [env[n] EXCEPT !.value = calculate(env, n)]
      /\ \A m \in DOMAIN env : m # n => f[m] = env[m]
  BY DEF updateVariable
<1>2. /\ f[n] \in Entries /\ f[n].variables = env[n].variables /\ f[n].constant = env[n].constant
      /\ f[n].value = calculate(env, n)
  <2>1. calculate(env, n) \in Int
    BY CalculateType
  <2>. QED BY <1>1, <2>1 DEF Equations, Entries
<1>3. Equations(f)
  BY <1>1, <1>2 DEF Equations, Computable
<1>. QED BY <1>1, <1>2, <1>3

\* A variable that is constant, or computed by one of the first k rows.
Settled(rows, k, n) ==
  n \in NamesOf(rows) /\ (FirstOf(rows, n).variables = <<>> \/ \E j \in 1 .. k : rows[j].name = n)

\* No operand of a variable is computed by its first row or later.
LEMMA OperandsSettled ==
  ASSUME NEW rows \in Seq(EnvironmentRows), OperandsFirst(rows), NEW k \in Nat, k <= Len(rows),
         NEW n, Settled(rows, k, n), NEW i \in DOMAIN FirstOf(rows, n).variables,
         FirstOf(rows, n).variables[i] \in NamesOf(rows)
  PROVE  k > 0 /\ Settled(rows, k - 1, FirstOf(rows, n).variables[i])
<1>1. PICK f \in DOMAIN rows :
        /\ FirstOf(rows, n) = rows[f] /\ \A j \in DOMAIN rows : rows[j].name = n => f <= j
  BY FirstExists DEF Settled
<1>2. FirstOf(rows, n).variables # <<>>
  <2>1. rows[f] \in EnvironmentRows
    OBVIOUS
  <2>2. rows[f].variables \in Seq(STRING)
    BY <2>1 DEF EnvironmentRows
  <2>. QED BY <1>1, <2>2
<1>3. PICK j \in 1 .. k : rows[j].name = n
  BY <1>2 DEF Settled
<1>4. f <= k /\ f \in Nat
  BY <1>1, <1>3
<1>. DEFINE operand == rows[f].variables[i]
<1>5. FirstOf(rows, operand).variables = <<>> \/ \E l \in 1 .. f - 1 : rows[l].name = operand
  BY <1>1 DEF OperandsFirst
<1>. QED BY <1>1, <1>3, <1>4, <1>5 DEF Settled

LEMMA NotItsOwnOperand ==
  ASSUME NEW rows \in Seq(EnvironmentRows), OperandsFirst(rows), NEW n \in NamesOf(rows),
         NEW i \in DOMAIN FirstOf(rows, n).variables
  PROVE  FirstOf(rows, n).variables[i] # n
<1>1. PICK f \in DOMAIN rows :
        /\ FirstOf(rows, n) = rows[f] /\ \A j \in DOMAIN rows : rows[j].name = n => f <= j
  BY FirstExists
<1>2. FirstOf(rows, n).variables # <<>>
  <2>1. rows[f] \in EnvironmentRows
    OBVIOUS
  <2>2. rows[f].variables \in Seq(STRING)
    BY <2>1 DEF EnvironmentRows
  <2>. QED BY <1>1, <2>2
<1>3. f \in Nat /\ f <= Len(rows)
  OBVIOUS
<1>4. SUFFICES ASSUME rows[f].variables[i] = n PROVE FALSE
  BY <1>1
<1>5. FirstOf(rows, n).variables = <<>> \/ \E l \in 1 .. f - 1 : rows[l].name = n
  BY <1>1, <1>4 DEF OperandsFirst
<1>. QED BY <1>1, <1>2, <1>3, <1>5

\* The rows of the environment give the entries their equations.
OfRows(rows, env) ==
  /\ DOMAIN env = NamesOf(rows) /\ Equations(env)
  /\ \A n \in NamesOf(rows) : /\ env[n].variables = FirstOf(rows, n).variables
                              /\ env[n].constant = FirstOf(rows, n).constant

\* The equations of the variables settled by the first k rows hold.
ComputedUpTo(rows, env, k) ==
  /\ OfRows(rows, env)
  /\ OperandsFirst(rows) => \A n : Settled(rows, k, n) => env[n].value = calculate(env, n)

\* Computing the entry of the next row settles its variable and leaves the others settled.
LEMMA ComputeRow ==
  ASSUME NEW rows \in Seq(EnvironmentRows), NEW k \in Nat, k + 1 <= Len(rows), NEW env,
         ComputedUpTo(rows, env, k)
  PROVE  ComputedUpTo(rows, updateVariable(env, rows[k + 1].name), k + 1)
<1>. USE DEF ComputedUpTo
<1>. DEFINE m == rows[k + 1].name
            f == updateVariable(env, m)
<1>1. m \in NamesOf(rows)
  BY DEF NamesOf
<1>2. /\ DOMAIN f = DOMAIN env /\ Equations(f) /\ f[m].value = calculate(env, m)
      /\ \A n \in DOMAIN env : /\ n # m => f[n] = env[n]
                               /\ f[n].variables = env[n].variables /\ f[n].constant = env[n].constant
  BY <1>1, UpdateVariable DEF OfRows
<1>. HIDE DEF f
<1>3. OfRows(rows, f)
  BY <1>2 DEF OfRows
<1>4. ASSUME OperandsFirst(rows), NEW n, Settled(rows, k + 1, n) PROVE f[n].value = calculate(f, n)
  <2>1. n \in NamesOf(rows) /\ n \in DOMAIN env
    BY <1>4 DEF Settled, OfRows
  <2>. DEFINE variables == env[n].variables
  <2>2. variables \in Seq(STRING) /\ \A i \in DOMAIN variables : variables[i] \in NamesOf(rows)
    BY <2>1 DEF OfRows, Equations, Computable, Entries
  <2>3. \A i \in DOMAIN variables : Settled(rows, k, variables[i])
    <3>. TAKE i \in DOMAIN variables
    <3>1. variables = FirstOf(rows, n).variables
      BY <2>1 DEF OfRows
    <3>2. Settled(rows, k + 1 - 1, variables[i]) /\ k + 1 \in Nat
      BY <1>4, <2>2, <3>1, OperandsSettled, SMTT(30)
    <3>. QED BY <3>2
  <2>4. Settled(rows, k, m) => f[m].value = env[m].value
    BY <1>2, <1>4
  <2>5. \A x \in DOMAIN env : Settled(rows, k, x) => f[x].value = env[x].value
    BY <1>2, <2>4
  <2>6. calculate(f, n) = calculate(env, n)
    <3>1. \A i \in DOMAIN variables : f[variables[i]].value = env[variables[i]].value
      BY <2>2, <2>3, <2>5 DEF OfRows
    <3>. QED BY <1>2, <2>1, <2>2, <3>1, CalculateSame
  <2>7. CASE n = m
    BY <1>2, <2>6, <2>7
  <2>8. CASE n # m
    <3>1. Settled(rows, k, n)
      BY <1>4, <2>8 DEF Settled
    <3>. QED BY <1>2, <1>4, <2>1, <2>6, <2>8, <3>1
  <2>. QED BY <2>7, <2>8
<1>. QED BY <1>3, <1>4 DEF f

LEMMA EnteredRows ==
  ASSUME NEW rows \in Seq(EnvironmentRows), garbage \in Int,
         \A n \in NamesOf(rows) : Computable(Entered(rows), n)
  PROVE  ComputedUpTo(rows, Entered(rows), 0)
<1>. DEFINE env == Entered(rows)
<1>1. DOMAIN env = NamesOf(rows)
  BY DEF Entered
<1>2. ASSUME NEW n \in NamesOf(rows)
      PROVE  /\ env[n] \in Entries /\ env[n].variables = FirstOf(rows, n).variables
             /\ env[n].constant = FirstOf(rows, n).constant
             /\ FirstOf(rows, n).variables = <<>> => env[n].value = env[n].constant
  <2>1. FirstOf(rows, n) \in EnvironmentRows
    BY FirstExists
  <2>2. env[n] = [value |-> IF FirstOf(rows, n).variables = <<>> THEN FirstOf(rows, n).constant ELSE garbage,
                  variables |-> FirstOf(rows, n).variables, constant |-> FirstOf(rows, n).constant]
    BY DEF Entered
  <2>. QED BY <2>1, <2>2 DEF EnvironmentRows, Entries
<1>. HIDE DEF env
<1>3. OfRows(rows, env)
  BY <1>1, <1>2 DEF OfRows, Equations, env
<1>4. ASSUME NEW n, Settled(rows, 0, n) PROVE env[n].value = calculate(env, n)
  <2>1. n \in NamesOf(rows) /\ FirstOf(rows, n).variables = <<>>
    BY <1>4 DEF Settled
  <2>. QED BY <1>2, <1>3, <2>1, CalculateType DEF OfRows
<1>. QED BY <1>3, <1>4 DEF env, ComputedUpTo

\* When all rows have been computed, all equations hold whose operands come first.
LEMMA ComputedRows ==
  ASSUME NEW rows \in Seq(EnvironmentRows), garbage \in Int,
         \A n \in NamesOf(rows) : Computable(Entered(rows), n)
  PROVE  LET env == Computed(rows, Len(rows)) IN
         /\ OfRows(rows, env)
         /\ OperandsFirst(rows) => \A n \in NamesOf(rows) : env[n].value = calculate(env, n)
<1>. DEFINE L == Len(rows)
            Steps(env, l) == env = [k \in 0 .. l |-> IF k = 0 THEN Entered(rows)
                                                    ELSE updateVariable(env[k - 1], rows[k].name)]
            T == {l \in Nat : l <= L => \E env : Steps(env, l)}
<1>1. L \in Nat
  OBVIOUS
<1>2. 0 \in T
  <2>. DEFINE env == [k \in 0 .. 0 |-> Entered(rows)]
  <2>1. Steps(env, 0)
    OBVIOUS
  <2>. QED BY <2>1
<1>3. ASSUME NEW l \in Nat, l \in T PROVE l + 1 \in T
  <2>. SUFFICES ASSUME l + 1 <= L PROVE \E env : Steps(env, l + 1)
    OBVIOUS
  <2>1. PICK e : Steps(e, l)
    BY <1>1, <1>3
  <2>2. \A k \in 0 .. l : e[k] = IF k = 0 THEN Entered(rows) ELSE updateVariable(e[k - 1], rows[k].name)
    BY <2>1
  <2>. DEFINE last == updateVariable(e[l], rows[l + 1].name)
              f == [k \in 0 .. l + 1 |-> IF k <= l THEN e[k] ELSE last]
  <2>. HIDE DEF last
  <2>3. /\ \A k \in 0 .. l : f[k] = e[k]
        /\ f[l + 1] = last
    OBVIOUS
  <2>4. ASSUME NEW k \in 0 .. l + 1
        PROVE  f[k] = IF k = 0 THEN Entered(rows) ELSE updateVariable(f[k - 1], rows[k].name)
    <3>. HIDE DEF f, T
    <3>1. CASE k = 0
      BY <2>2, <2>3, <3>1
    <3>2. CASE k \in 1 .. l
      BY <2>2, <2>3, <3>2
    <3>3. CASE k = l + 1
      BY <2>3, <3>3 DEF last
    <3>. QED BY <3>1, <3>2, <3>3
  <2>5. Steps(f, l + 1)
    BY <2>4
  <2>. QED BY <2>5
<1>4. L \in T
  <2>. HIDE DEF T
  <2>. QED BY <1>1, <1>2, <1>3, Induction
<1>. DEFINE all == CHOOSE env : Steps(env, L)
<1>5. Steps(all, L)
  <2>1. \E env : Steps(env, L)
    BY <1>1, <1>4
  <2>. HIDE DEF Steps
  <2>. QED BY <2>1
<1>6. Computed(rows, L) = all[L]
  BY DEF Computed
<1>. HIDE DEF all
<1>7. \A k \in 0 .. L : all[k] = IF k = 0 THEN Entered(rows) ELSE updateVariable(all[k - 1], rows[k].name)
  BY <1>5
<1>. HIDE DEF Steps, T
<1>. DEFINE U == {k \in Nat : k <= L => ComputedUpTo(rows, all[k], k)}
<1>8. 0 \in U
  <2>1. all[0] = Entered(rows)
    BY <1>1, <1>7
  <2>. QED BY <2>1, EnteredRows
<1>9. ASSUME NEW k \in Nat, k \in U PROVE k + 1 \in U
  <2>. SUFFICES ASSUME k + 1 <= L PROVE ComputedUpTo(rows, all[k + 1], k + 1)
    OBVIOUS
  <2>1. k <= L /\ ComputedUpTo(rows, all[k], k)
    BY <1>1, <1>9
  <2>2. all[k + 1] = updateVariable(all[k], rows[k + 1].name)
    BY <1>1, <1>7
  <2>. QED BY <2>1, <2>2, ComputeRow
<1>10. ComputedUpTo(rows, all[L], L)
  <2>1. L \in U
    <3>. HIDE DEF U
    <3>. QED BY <1>1, <1>8, <1>9, Induction
  <2>. QED BY <1>1, <2>1
<1>11. \A n \in NamesOf(rows) : Settled(rows, L, n)
  BY DEF Settled, NamesOf
<1>12. PICK env : env = Computed(rows, Len(rows))
  OBVIOUS
<1>13. ComputedUpTo(rows, env, L)
  BY <1>6, <1>10, <1>12
<1>. QED BY <1>11, <1>12, <1>13 DEF ComputedUpTo
-------------------------------------------------------------------------------
(* What the constructor of FitData finds *)

Fetched == {"histograms", "devices", "ready"}

TemplatesInv ==
  /\ DOMAIN templates \subseteq {"TCM", "PM"}
  /\ "TCM" \in DOMAIN templates => templates["TCM"] = parseTemplateBoard(db.tcm)
  /\ "PM" \in DOMAIN templates => templates["PM"] = parseTemplateBoard(db.pm)
  /\ fetch = "PM" => "TCM" \in DOMAIN templates
  /\ fetch \in {"environment"} \cup Fetched => DOMAIN templates = {"TCM", "PM"}

BoardsInv ==
  /\ fetch \in {"TCM", "PM", "environment", "histograms", "devices"} => boards = NoEntries
  /\ boards # NoEntries => fetch = "ready"
  /\ fetch = "ready" =>
       /\ boards = [n \in NamesOf(db.devices) |-> constructBoardFromTemplate(DeviceOf(db.devices, n))]
       /\ \E i \in DOMAIN db.devices : db.devices[i].type = "TCM"
  /\ fetch \in {"devices", "ready"} =>
       \A n \in DOMAIN histograms : histograms[n].neg # <<>> /\ histograms[n].pos # <<>>

\* The environment has the variables of the rows, and may have others.
FromRows ==
  /\ Required \subseteq NamesOf(db.environment) /\ NamesOf(db.environment) \subseteq DOMAIN environment
  /\ \A n \in NamesOf(db.environment) :
       /\ environment[n].variables = FirstOf(db.environment, n).variables
       /\ \A i \in DOMAIN environment[n].variables : environment[n].variables[i] \in NamesOf(db.environment)

Agrees(n) == environment[n].value = calculate(environment, n)

\* Which variables are what their equations say while BoardStatus updates them.
Follows == OperandsFirst(db.environment) /\ Derived[2] \notin Operands(Derived[1]) =>
  \A n \in NamesOf(db.environment) \ {SYSTEM_CLOCK} :
    IF n = "TDC" THEN update \in 0 .. 1 => Agrees(n)
    ELSE IF n = "BC_INTERVAL" THEN update = 0 => Agrees(n)
    ELSE Operands(n) \cap {SYSTEM_CLOCK, "TDC", "BC_INTERVAL"} = {} => Agrees(n)

FitDataInv ==
  /\ db \in Databases /\ garbage \in Int /\ clock \in Clocks /\ switches \in Nat
  /\ update \in 0 .. 2 /\ (update # 0 => fetch = "ready")
  /\ fetch \in {"TCM", "PM", "environment", "exit"} \cup Fetched
  /\ TemplatesInv /\ BoardsInv
  /\ Equations(environment)
  /\ fetch \in Fetched => FromRows /\ Follows

LEMMA RowTypes ==
  ASSUME db \in Databases
  PROVE  /\ db.tcm \in Seq(ParameterRows) /\ db.pm \in Seq(ParameterRows)
         /\ db.environment \in Seq(EnvironmentRows) /\ db.histograms \in Seq(HistogramRows)
         /\ db.devices \in Seq(DeviceRows)
BY FitDataAssumption

LEMMA InitFitDataInv == InitFitData => FitDataInv
<1>. SUFFICES ASSUME InitFitData PROVE FitDataInv
  OBVIOUS
<1>1. TemplatesInv /\ BoardsInv
  BY DEF InitFitData, TemplatesInv, BoardsInv, NoEntries, Fetched
<1>2. Equations(environment)
  BY DEF InitFitData, Equations, NoEntries
<1>. QED BY <1>1, <1>2 DEF InitFitData, FitDataInv, Fetched

LEMMA FetchBoardsInv ==
  ASSUME FitDataInv,
         fetchBoardParameters("TCM", db.tcm, "PM") \/ fetchBoardParameters("PM", db.pm, "environment")
  PROVE  FitDataInv'
<1>1. /\ UNCHANGED <<db, garbage, environment, histograms, boards, update, clock, switches>>
      /\ fetch \in {"TCM", "PM"} /\ fetch' \in {"PM", "environment", "exit"} /\ update = 0
  BY DEF fetchBoardParameters, FitDataInv, Exit, Fetch
<1>2. BoardsInv'
  BY <1>1 DEF FitDataInv, BoardsInv
<1>3. TemplatesInv'
  BY <1>1 DEF FitDataInv, TemplatesInv, fetchBoardParameters, Exit, Fetch, With, Fetched
<1>4. Equations(environment)'
  BY <1>1 DEF FitDataInv, Equations, Computable
<1>. QED BY <1>1, <1>2, <1>3, <1>4 DEF FitDataInv, Fetched

LEMMA WithReset ==
  ASSUME NEW env, Equations(env), NEW entry \in Entries, entry.variables = <<>>, NEW n
  PROVE  LET f == With(env, n, entry) IN
         /\ DOMAIN f = DOMAIN env \cup {n} /\ Equations(f)
         /\ \A m \in DOMAIN env : f[m] = env[m] /\ calculate(f, m) = calculate(env, m)
<1>. DEFINE f == With(env, n, entry)
<1>1. DOMAIN f = DOMAIN env \cup {n} /\ \A m \in DOMAIN env : f[m] = env[m]
  BY DEF With
<1>2. n \notin DOMAIN env => f[n] = entry
  BY DEF With
<1>. HIDE DEF f
<1>3. Equations(f)
  BY <1>1, <1>2 DEF Equations, Computable
<1>4. ASSUME NEW m \in DOMAIN env PROVE calculate(f, m) = calculate(env, m)
  <2>1. f[m] = env[m] /\ env[m].variables \in Seq(STRING)
        /\ \A i \in DOMAIN env[m].variables : f[env[m].variables[i]] = env[env[m].variables[i]]
    BY <1>1 DEF Equations, Computable, Entries
  <2>. QED BY <2>1, CalculateSame
<1>. QED BY <1>1, <1>3, <1>4 DEF f

LEMMA FetchEnvironmentInv == ASSUME FitDataInv, fetchEnvironment PROVE FitDataInv'
<1>. DEFINE rows == db.environment
<1>1. /\ UNCHANGED <<db, garbage, templates, histograms, boards, update, clock, switches>>
      /\ fetch = "environment" /\ fetch' \in {"histograms", "exit"} /\ update = 0
      /\ rows \in Seq(EnvironmentRows) /\ garbage \in Int
  BY RowTypes DEF fetchEnvironment, FitDataInv, Exit, Fetch, fetched
<1>2. TemplatesInv' /\ BoardsInv'
  BY <1>1 DEF FitDataInv, BoardsInv, TemplatesInv, Fetched
<1>3. CASE fetch' = "exit"
  <2>1. UNCHANGED environment
    BY <1>3 DEF fetchEnvironment, Fetch
  <2>2. Equations(environment)'
    BY <2>1 DEF FitDataInv, Equations, Computable
  <2>. QED BY <1>1, <1>2, <1>3, <2>2 DEF FitDataInv, Fetched
<1>4. CASE fetch' = "histograms"
  <2>. DEFINE entry == [value |-> garbage, variables |-> <<>>, constant |-> 0]
              env == Computed(rows, Len(rows))
  <2>1. /\ \A n \in NamesOf(rows) : Computable(Entered(rows), n)
        /\ Required \subseteq NamesOf(rows)
        /\ environment' = With(env, "RESET_SYSTEM", entry)
    BY <1>4 DEF fetchEnvironment, Exit
  <2>2. /\ OfRows(rows, env)
        /\ OperandsFirst(rows) => \A n \in NamesOf(rows) : env[n].value = calculate(env, n)
    BY <1>1, <2>1, ComputedRows
  <2>3. entry \in Entries /\ entry.variables = <<>>
    BY <1>1 DEF Entries
  <2>. HIDE DEF entry, env
  <2>4. /\ DOMAIN environment' = DOMAIN env \cup {"RESET_SYSTEM"} /\ Equations(environment')
        /\ \A n \in NamesOf(rows) : environment'[n] = env[n]
                                    /\ calculate(environment', n) = calculate(env, n)
    <3>1. DOMAIN env = NamesOf(rows) /\ Equations(env)
      BY <2>2 DEF OfRows
    <3>2. LET f == With(env, "RESET_SYSTEM", entry) IN
          /\ DOMAIN f = DOMAIN env \cup {"RESET_SYSTEM"} /\ Equations(f)
          /\ \A m \in DOMAIN env : f[m] = env[m] /\ calculate(f, m) = calculate(env, m)
      BY <2>3, <3>1, WithReset
    <3>. QED BY <2>1, <3>1, <3>2
  <2>5. OperandsFirst(rows) => \A n \in NamesOf(rows) : Agrees(n)'
    BY <2>2, <2>4 DEF Agrees
  <2>6. FromRows'
    <3>1. ASSUME NEW n \in NamesOf(rows)
          PROVE  /\ environment'[n].variables = FirstOf(rows, n).variables
                 /\ \A i \in DOMAIN environment'[n].variables :
                      environment'[n].variables[i] \in NamesOf(rows)
      BY <2>2, <2>4 DEF OfRows, Equations, Computable
    <3>. QED BY <1>1, <2>1, <2>2, <2>4, <3>1 DEF FromRows, OfRows
  <2>7. Follows'
    BY <1>1, <2>5 DEF Follows
  <2>. QED BY <1>1, <1>2, <1>4, <2>4, <2>6, <2>7 DEF FitDataInv, Fetched
<1>. QED BY <1>1, <1>3, <1>4

\* Entries that are added change nothing for the variables of the rows.
LEMMA EntriesAdded ==
  ASSUME FitDataInv, fetch \in Fetched, fetch' \in Fetched, UNCHANGED <<db, update>>,
         NEW more, DOMAIN environment' = DOMAIN environment \cup more,
         \A n \in DOMAIN environment : environment'[n] = environment[n],
         \A n \in more \ DOMAIN environment :
            environment'[n] \in Entries /\ environment'[n].variables = <<>>
  PROVE  Equations(environment') /\ FromRows' /\ Follows'
<1>1. Equations(environment')
  BY DEF FitDataInv, Equations, Computable
<1>2. FromRows'
  BY DEF FitDataInv, FromRows
<1>3. \A n \in DOMAIN environment : calculate(environment', n) = calculate(environment, n)
  BY CalculateSame DEF FitDataInv, Equations, Computable, Entries
<1>4. \A n \in NamesOf(db.environment) : Agrees(n) => Agrees(n)'
  BY <1>3 DEF Agrees, FitDataInv, FromRows
<1>5. \A n \in NamesOf(db.environment) : Operands(n)' = Operands(n)
  BY DEF Operands, FitDataInv, FromRows
<1>6. "TDC" \in NamesOf(db.environment)
  BY FitDataAssumption DEF FitDataInv, FromRows
<1>. QED BY <1>1, <1>2, <1>4, <1>5, <1>6 DEF Follows, FitDataInv, Derived

LEMMA FetchHistogramsInv == ASSUME FitDataInv, fetchPmHistogramStructure PROVE FitDataInv'
<1>1. /\ UNCHANGED <<db, garbage, templates, environment, boards, update, clock, switches>>
      /\ fetch = "histograms" /\ fetch' \in {"devices", "exit"} /\ update = 0
      /\ fetch' = "devices" =>
           \A n \in DOMAIN histograms' : histograms'[n].neg # <<>> /\ histograms'[n].pos # <<>>
  BY DEF fetchPmHistogramStructure, FitDataInv, Exit, Fetch
<1>2. TemplatesInv' /\ BoardsInv'
  BY <1>1 DEF FitDataInv, BoardsInv, TemplatesInv, Fetched
<1>3. Equations(environment')
  BY <1>1 DEF FitDataInv
<1>4. fetch' \in Fetched => FromRows' /\ Follows'
  <2>1. \A n : calculate(environment, n)' = calculate(environment, n)
    BY <1>1 DEF calculate
  <2>2. \A n : (Agrees(n)' <=> Agrees(n)) /\ Operands(n)' = Operands(n)
    BY <1>1, <2>1 DEF Agrees, Operands
  <2>3. FromRows /\ Follows
    BY <1>1 DEF FitDataInv, Fetched
  <2>4. FromRows'
    BY <1>1, <2>3 DEF FromRows
  <2>5. Follows'
    BY <1>1, <2>2, <2>3 DEF Follows
  <2>. QED BY <2>4, <2>5
<1>. QED BY <1>1, <1>2, <1>3, <1>4 DEF FitDataInv, Fetched

LEMMA FetchDevicesInv == ASSUME FitDataInv, fetchConnectedDevices PROVE FitDataInv'
<1>1. /\ UNCHANGED <<db, garbage, templates, histograms, update, clock, switches>>
      /\ fetch = "devices" /\ fetch' \in {"ready", "exit"} /\ update = 0 /\ garbage \in Int
  BY DEF fetchConnectedDevices, FitDataInv, Exit, Fetch
<1>2. TemplatesInv'
  BY <1>1 DEF FitDataInv, TemplatesInv, Fetched
<1>3. BoardsInv'
  <2>1. fetch' = "exit" => UNCHANGED boards
    BY DEF fetchConnectedDevices, Fetch
  <2>2. fetch' = "ready" =>
          /\ boards' = [n \in NamesOf(db.devices) |-> constructBoardFromTemplate(DeviceOf(db.devices, n))]
          /\ \E i \in DOMAIN db.devices : db.devices[i].type = "TCM"
    BY DEF fetchConnectedDevices, Exit
  <2>3. \A device : constructBoardFromTemplate(device)' = constructBoardFromTemplate(device)
    BY <1>1 DEF constructBoardFromTemplate
  <2>. QED BY <1>1, <2>1, <2>2, <2>3 DEF FitDataInv, BoardsInv
<1>4. CASE fetch' = "exit"
  <2>1. UNCHANGED environment
    BY <1>4 DEF fetchConnectedDevices, Fetch
  <2>. QED BY <1>1, <1>2, <1>3, <1>4, <2>1 DEF FitDataInv, Fetched
<1>5. CASE fetch' = "ready"
  <2>. DEFINE more == NamesOf(db.devices)
  <2>1. environment' = [n \in DOMAIN environment \cup more |->
               IF n \in DOMAIN environment THEN environment[n]
               ELSE [value |-> garbage, variables |-> <<>>,
                     constant |-> IF DeviceOf(db.devices, n).connected \/ DeviceOf(db.devices, n).type = "TCM"
                                  THEN 1 ELSE 0]]
    BY <1>5 DEF fetchConnectedDevices, Exit
  <2>2. \A n \in more \ DOMAIN environment :
            environment'[n] \in Entries /\ environment'[n].variables = <<>>
    BY <1>1, <2>1 DEF Entries
  <2>3. /\ DOMAIN environment' = DOMAIN environment \cup more
        /\ \A n \in DOMAIN environment : environment'[n] = environment[n]
    BY <2>1
  <2>. HIDE DEF more
  <2>4. Equations(environment') /\ FromRows' /\ Follows'
    BY <1>1, <1>5, <2>2, <2>3, EntriesAdded DEF Fetched
  <2>. QED BY <1>1, <1>2, <1>3, <1>5, <2>4 DEF FitDataInv, Fetched
<1>. QED BY <1>1, <1>4, <1>5

LEMMA SwitchClockInv == ASSUME FitDataInv, SwitchClock PROVE FitDataInv'
<1>1. /\ UNCHANGED <<db, garbage, fetch, templates, histograms, boards, environment, update>>
      /\ switches' \in Nat /\ clock' \in Clocks
  BY DEF SwitchClock, FitDataInv, fetched
<1>2. TemplatesInv' /\ BoardsInv'
  BY <1>1 DEF FitDataInv, TemplatesInv, BoardsInv, constructBoardFromTemplate
<1>3. \A n : calculate(environment, n)' = calculate(environment, n)
  BY <1>1 DEF calculate
<1>4. \A n : (Agrees(n)' <=> Agrees(n)) /\ Operands(n)' = Operands(n)
  BY <1>1, <1>3 DEF Agrees, Operands
<1>5. fetch \in Fetched => FromRows' /\ Follows'
  BY <1>1, <1>4 DEF FitDataInv, FromRows, Follows
<1>. QED BY <1>1, <1>2, <1>5 DEF FitDataInv, Fetched

\* The value of one variable changes: what is computed from others stays as it is.
LEMMA ValueChanged ==
  ASSUME FitDataInv, fetch \in Fetched, UNCHANGED db, NEW changed \in DOMAIN environment,
         DOMAIN environment' = DOMAIN environment, Equations(environment'),
         \A n \in DOMAIN environment : /\ n # changed => environment'[n] = environment[n]
                                       /\ environment'[n].variables = environment[n].variables
                                       /\ environment'[n].constant = environment[n].constant
  PROVE  /\ FromRows' /\ \A n \in DOMAIN environment : Operands(n)' = Operands(n)
         /\ \A n \in DOMAIN environment :
              changed \notin Operands(n) => calculate(environment', n) = calculate(environment, n)
         /\ \A n \in NamesOf(db.environment) :
              n # changed /\ changed \notin Operands(n) /\ Agrees(n) => Agrees(n)'
<1>1. FromRows'
  BY DEF FitDataInv, FromRows
<1>2. \A n \in DOMAIN environment : Operands(n)' = Operands(n)
  BY DEF Operands
<1>3. ASSUME NEW n \in DOMAIN environment, changed \notin Operands(n)
      PROVE  calculate(environment', n) = calculate(environment, n)
  <2>1. environment[n].variables \in Seq(STRING)
        /\ \A i \in DOMAIN environment[n].variables :
             environment'[environment[n].variables[i]] = environment[environment[n].variables[i]]
    BY <1>3 DEF FitDataInv, Equations, Computable, Entries, Operands
  <2>. QED BY <2>1, CalculateSame
<1>4. NamesOf(db.environment) \subseteq DOMAIN environment
  BY DEF FitDataInv, FromRows
<1>. QED BY <1>1, <1>2, <1>3, <1>4 DEF Agrees

LEMMA SetSystemClockInv == ASSUME FitDataInv, SetSystemClock PROVE FitDataInv'
<1>1. /\ UNCHANGED <<db, garbage, fetch, templates, histograms, boards, clock, switches>>
      /\ fetch = "ready" /\ update = 0 /\ update' = 2
      /\ environment' = [environment EXCEPT ![SYSTEM_CLOCK].value = environment[clock].value]
  BY DEF SetSystemClock, fetched, Derived
<1>2. TemplatesInv' /\ BoardsInv'
  BY <1>1 DEF FitDataInv, TemplatesInv, BoardsInv, constructBoardFromTemplate
<1>3. FromRows /\ Follows /\ fetch \in Fetched
  BY <1>1 DEF FitDataInv, Fetched
<1>4. SYSTEM_CLOCK \in DOMAIN environment /\ clock \in DOMAIN environment
  BY <1>3, FitDataAssumption DEF FromRows, FitDataInv
<1>5. /\ DOMAIN environment' = DOMAIN environment
      /\ environment'[SYSTEM_CLOCK] = [environment[SYSTEM_CLOCK] EXCEPT !.value = environment[clock].value]
      /\ \A n \in DOMAIN environment : n # SYSTEM_CLOCK => environment'[n] = environment[n]
  BY <1>1, <1>4
<1>6. \A n \in DOMAIN environment :
        /\ environment'[n] \in Entries /\ environment'[n].variables = environment[n].variables
        /\ environment'[n].constant = environment[n].constant
  BY <1>4, <1>5, ZenonT(30) DEF FitDataInv, Equations, Entries
<1>7. Equations(environment')
  BY <1>5, <1>6 DEF FitDataInv, Equations, Computable
<1>8. /\ FromRows' /\ \A n \in DOMAIN environment : Operands(n)' = Operands(n)
      /\ \A n \in NamesOf(db.environment) :
           n # SYSTEM_CLOCK /\ SYSTEM_CLOCK \notin Operands(n) /\ Agrees(n) => Agrees(n)'
  BY <1>1, <1>3, <1>4, <1>5, <1>6, <1>7, ValueChanged
<1>9. "TDC" \in NamesOf(db.environment) /\ NamesOf(db.environment) \subseteq DOMAIN environment
  BY <1>3, FitDataAssumption DEF FromRows
<1>10. Follows'
  BY <1>1, <1>3, <1>8, <1>9 DEF Follows, Derived
<1>. QED BY <1>1, <1>2, <1>7, <1>8, <1>10 DEF FitDataInv, Fetched

LEMMA UpdateDerivedInv == ASSUME FitDataInv, UpdateDerived PROVE FitDataInv'
<1>. DEFINE rows == db.environment
<1>. PICK n : n = Derived[Len(Derived) + 1 - update]
  OBVIOUS
<1>1. /\ UNCHANGED <<db, garbage, fetch, templates, histograms, boards, clock, switches>>
      /\ fetch = "ready" /\ fetch \in Fetched /\ update \in 1 .. 2
  BY DEF UpdateDerived, fetched, FitDataInv, Fetched
<1>2. n = IF update = 2 THEN "TDC" ELSE "BC_INTERVAL"
  <2>1. Len(Derived) = 2 /\ Derived[1] = "TDC" /\ Derived[2] = "BC_INTERVAL"
    BY DEF Derived
  <2>. QED BY <1>1, <2>1
<1>3. TemplatesInv' /\ BoardsInv'
  BY <1>1 DEF FitDataInv, TemplatesInv, BoardsInv, constructBoardFromTemplate
<1>4. FromRows /\ Follows
  BY <1>1 DEF FitDataInv
<1>5. "TDC" \in NamesOf(rows) /\ NamesOf(rows) \subseteq DOMAIN environment
  BY <1>4, FitDataAssumption DEF FromRows
<1>6. CASE n \in DOMAIN environment
  <2>1. environment' = updateVariable(environment, n) /\ update' = update - 1
    BY <1>6 DEF UpdateDerived
  <2>2. /\ DOMAIN environment' = DOMAIN environment /\ Equations(environment')
        /\ environment'[n].value = calculate(environment, n)
        /\ \A m \in DOMAIN environment : /\ m # n => environment'[m] = environment[m]
                                         /\ environment'[m].variables = environment[m].variables
                                         /\ environment'[m].constant = environment[m].constant
    BY <1>6, <2>1, UpdateVariable DEF FitDataInv
  <2>3. /\ FromRows' /\ \A m \in DOMAIN environment : Operands(m)' = Operands(m)
        /\ n \notin Operands(n) => calculate(environment', n) = calculate(environment, n)
        /\ \A m \in NamesOf(rows) : m # n /\ n \notin Operands(m) /\ Agrees(m) => Agrees(m)'
    BY <1>1, <1>6, <2>2, ValueChanged
  <2>4. OperandsFirst(rows) /\ n \in NamesOf(rows) => Agrees(n)'
    <3>. SUFFICES ASSUME OperandsFirst(rows), n \in NamesOf(rows) PROVE Agrees(n)'
      OBVIOUS
    <3>1. rows \in Seq(EnvironmentRows)
      BY RowTypes DEF FitDataInv
    <3>2. n \notin Operands(n)
      BY <1>4, <3>1, NotItsOwnOperand DEF Operands, FromRows
    <3>. QED BY <2>2, <2>3, <3>2 DEF Agrees
  <2>5. Follows'
    BY <1>1, <1>2, <1>4, <1>5, <2>1, <2>3, <2>4 DEF Follows, Derived
  <2>6. update' \in 0 .. 2
    BY <1>1, <2>1
  <2>. QED BY <1>1, <1>3, <2>2, <2>3, <2>5, <2>6 DEF FitDataInv
<1>7. CASE n \notin DOMAIN environment
  <2>1. update' = 0 /\ UNCHANGED environment
    BY <1>7 DEF UpdateDerived
  <2>2. update = 1 /\ "BC_INTERVAL" \notin NamesOf(rows)
    BY <1>1, <1>2, <1>5, <1>7
  <2>3. \A m : calculate(environment, m)' = calculate(environment, m)
    BY <2>1 DEF calculate
  <2>4. \A m : (Agrees(m)' <=> Agrees(m)) /\ Operands(m)' = Operands(m)
    BY <2>1, <2>3 DEF Agrees, Operands
  <2>5. FromRows' /\ Follows'
    BY <1>1, <1>4, <2>1, <2>2, <2>4 DEF FromRows, Follows
  <2>. QED BY <1>1, <1>3, <2>1, <2>5 DEF FitDataInv
<1>. QED BY <1>6, <1>7

LEMMA NextFitDataInv == ASSUME FitDataInv, FetchStep \/ EnvironmentStep \/ UNCHANGED fitDataVars
                        PROVE  FitDataInv'
<1>1. CASE NoDatabase
  <2>1. /\ UNCHANGED <<db, garbage, templates, histograms, boards, environment, update, clock, switches>>
        /\ fetch = "TCM" /\ fetch' = "exit"
    BY <1>1 DEF NoDatabase, Exit, fetched
  <2>2. TemplatesInv' /\ BoardsInv'
    BY <2>1 DEF FitDataInv, TemplatesInv, BoardsInv, Fetched
  <2>. QED BY <2>1, <2>2 DEF FitDataInv, Fetched
<1>2. CASE UNCHANGED fitDataVars
  <2>1. /\ UNCHANGED <<db, garbage, fetch, templates, histograms, boards, environment, update, clock, switches>>
    BY <1>2 DEF fitDataVars, fetched
  <2>2. TemplatesInv' /\ BoardsInv'
    BY <2>1 DEF FitDataInv, TemplatesInv, BoardsInv, constructBoardFromTemplate
  <2>3. \A n : calculate(environment, n)' = calculate(environment, n)
    BY <2>1 DEF calculate
  <2>4. \A n : (Agrees(n)' <=> Agrees(n)) /\ Operands(n)' = Operands(n)
    BY <2>1, <2>3 DEF Agrees, Operands
  <2>5. fetch \in Fetched => FromRows' /\ Follows'
    BY <2>1, <2>4 DEF FitDataInv, FromRows, Follows
  <2>. QED BY <2>1, <2>2, <2>5 DEF FitDataInv
<1>. QED BY <1>1, <1>2, FetchBoardsInv, FetchEnvironmentInv, FetchHistogramsInv, FetchDevicesInv,
            SwitchClockInv, SetSystemClockInv, UpdateDerivedInv DEF FetchStep, EnvironmentStep

LEMMA BoardDataFitInv == BoardDataSpec => []FitDataInv
<1>1. InitBoardData => FitDataInv
  BY InitFitDataInv DEF InitBoardData
<1>2. FitDataInv /\ [NextBoardData]_boardDataVars => FitDataInv'
  <2>. SUFFICES ASSUME FitDataInv, [NextBoardData]_boardDataVars
                PROVE  FetchStep \/ EnvironmentStep \/ UNCHANGED fitDataVars
    BY NextFitDataInv
  <2>. QED BY DEF NextBoardData, Reading, StartPmHistograms, PmStep, TcmStep, Following, ToolStep, boardDataVars
<1>. QED BY <1>1, <1>2, PTL DEF BoardDataSpec

\* The parameters of a template, and which rows they come from.
LEMMA TemplateParameter ==
  ASSUME NEW rows \in Seq(ParameterRows), NEW n \in DOMAIN parseTemplateBoard(rows)
  PROVE  /\ FirstOf(rows, n) \in ParameterRows
         /\ parseTemplateBoard(rows)[n] = parseParameter(FirstOf(rows, n))
         /\ parseTemplateBoard(rows)[n].baseAddress \in Nat
<1>1. n \in NamesOf(rows) /\ parseTemplateBoard(rows)[n] = parseParameter(FirstOf(rows, n))
  BY DEF parseTemplateBoard
<1>2. FirstOf(rows, n) \in ParameterRows
  BY <1>1, FirstExists
<1>3. parseParameter(FirstOf(rows, n)).baseAddress = FirstOf(rows, n).base
  BY <1>2 DEF parseParameter, ParametersRow, ParameterRows
<1>. QED BY <1>1, <1>2, <1>3 DEF ParameterRows

\* The boards of the program: a TCM at 0, a PM where its side and its number say.
LEMMA BoardAddresses ==
  ASSUME FitDataInv, fetch = "ready", NEW b \in DOMAIN boards
  PROVE  LET device == DeviceOf(db.devices, b) IN
         /\ b \in NamesOf(db.devices) /\ device \in DeviceRows
         /\ boards[b] = constructBoardFromTemplate(device)
         /\ AddressOf(device) \in Nat
<1>1. /\ b \in NamesOf(db.devices) /\ boards[b] = constructBoardFromTemplate(DeviceOf(db.devices, b))
  BY DEF FitDataInv, BoardsInv
<1>2. DeviceOf(db.devices, b) \in DeviceRows
  BY <1>1, RowTypes, DeviceExists DEF FitDataInv
<1>3. AddressOf(DeviceOf(db.devices, b)) \in Nat
  BY <1>2 DEF AddressOf, DeviceRows, AddressSpaceSizePM, BaseAddress
<1>. QED BY <1>1, <1>2, <1>3

\* For any boards: the registers of two PMs are apart, since the addresses of ten PMs of side A
\* end where those of side C begin.
THEOREM RegistersAlwaysApart == BoardDataSpec => []RegistersApart
<1>1. FitDataInv => RegistersApart
  <2>. SUFFICES ASSUME FitDataInv, NEW m \in DOMAIN boards, NEW n \in DOMAIN boards,
                       boards[m].type = "PM", boards[n].type = "PM",
                       <<boards[m].side, boards[m].digit>> # <<boards[n].side, boards[n].digit>>,
                       NEW p \in DOMAIN boards[m].parameters, NEW q \in DOMAIN boards[n].parameters,
                       templates["PM"][p].baseAddress < AddressSpaceSizePM,
                       templates["PM"][q].baseAddress < AddressSpaceSizePM,
                       boards[m].parameters[p].baseAddress = boards[n].parameters[q].baseAddress
                PROVE  FALSE
    BY DEF RegistersApart
  <2>1. fetch = "ready" /\ templates["PM"] = parseTemplateBoard(db.pm)
    BY DEF FitDataInv, BoardsInv, TemplatesInv, NoEntries, Fetched
  <2>2. ASSUME NEW b \in DOMAIN boards, boards[b].type = "PM", NEW r \in DOMAIN boards[b].parameters
        PROVE  /\ boards[b].side \in {"A", "C"} /\ boards[b].digit \in 0 .. 9
               /\ templates["PM"][r].baseAddress \in Nat
               /\ boards[b].parameters[r].baseAddress = templates["PM"][r].baseAddress
                    + (boards[b].digit * 512 + (IF boards[b].side = "A" THEN 512 ELSE 5632))
    <3>. DEFINE device == DeviceOf(db.devices, b)
    <3>1. device \in DeviceRows /\ boards[b] = constructBoardFromTemplate(device)
      BY <2>1, BoardAddresses
    <3>. HIDE DEF device
    <3>2. /\ boards[b].side = device.side /\ boards[b].digit = device.digit /\ device.type = "PM"
          /\ boards[b].parameters = [x \in DOMAIN templates["PM"] |->
               [templates["PM"][x] EXCEPT !.baseAddress = @ + AddressOf(device)]]
      BY <2>2, <3>1 DEF constructBoardFromTemplate
    <3>3. AddressOf(device) = device.digit * 512 + (IF device.side = "A" THEN 512 ELSE 5632)
      BY <3>2 DEF AddressOf, AddressSpaceSizePM, BaseAddress
    <3>4. r \in DOMAIN parseTemplateBoard(db.pm) /\ db.pm \in Seq(ParameterRows)
      BY <2>1, <2>2, <3>2, RowTypes DEF FitDataInv
    <3>5. templates["PM"][r] = parseParameter(FirstOf(db.pm, r)) /\ templates["PM"][r].baseAddress \in Nat
      BY <2>1, <3>4, TemplateParameter
    <3>6. boards[b].parameters[r].baseAddress = templates["PM"][r].baseAddress + AddressOf(device)
      BY <2>1, <3>2, <3>4, <3>5 DEF parseParameter
    <3>. QED BY <3>1, <3>2, <3>3, <3>5, <3>6 DEF DeviceRows
  <2>. DEFINE x == templates["PM"][p].baseAddress
              y == templates["PM"][q].baseAddress
              i == boards[m].digit
              k == boards[n].digit
              a == IF boards[m].side = "A" THEN 512 ELSE 5632
              c == IF boards[n].side = "A" THEN 512 ELSE 5632
  <2>3. /\ boards[m].side \in {"A", "C"} /\ i \in 0 .. 9 /\ x \in Nat
        /\ boards[m].parameters[p].baseAddress = RegisterAt(x, i, a)
    BY <2>2 DEF RegisterAt
  <2>4. /\ boards[n].side \in {"A", "C"} /\ k \in 0 .. 9 /\ y \in Nat
        /\ boards[n].parameters[q].baseAddress = RegisterAt(y, k, c)
    BY <2>2 DEF RegisterAt
  <2>5. x \in 0 .. 511 /\ y \in 0 .. 511
    <3>1. x < 512 /\ y < 512
      BY DEF AddressSpaceSizePM
    <3>. HIDE DEF x, y
    <3>. QED BY <2>3, <2>4, <3>1
  <2>6. InSpace(x, i, a) /\ InSpace(y, k, c)
    <3>1. a \in {512, 5632} /\ c \in {512, 5632}
      OBVIOUS
    <3>2. i \in 0 .. 9 /\ k \in 0 .. 9
      BY <2>3, <2>4
    <3>. HIDE DEF x, y, i, k, a, c
    <3>. QED BY <2>5, <3>1, <3>2 DEF InSpace
  <2>7. i = k /\ a = c
    <3>. HIDE DEF x, y, i, k, a, c
    <3>1. RegisterAt(x, i, a) = RegisterAt(y, k, c)
      BY <2>3, <2>4
    <3>. QED BY <2>6, <3>1, SpacesApart
  <2>8. boards[m].side = boards[n].side
    BY <2>3, <2>4, <2>7
  <2>. QED BY <2>7, <2>8
<1>. QED BY <1>1, BoardDataFitInv, PTL

\* For any registers: what fits into a field by the limits FRED gives it can be written and read.
THEOREM FieldsAlwaysHoldTheirRange == BoardDataSpec => []FieldsHoldTheirRange
<1>1. FitDataInv => FieldsHoldTheirRange
  <2>. SUFFICES ASSUME FitDataInv, NEW type \in DOMAIN templates, NEW n \in DOMAIN templates[type]
                PROVE  LET p == templates[type][n]
                           row == FirstOf(IF type = "TCM" THEN db.tcm ELSE db.pm, n)
                       IN  row.min = <<>> /\ row.max = <<>> /\ row.first <= row.last =>
                             \A v \in p.minValue .. p.maxValue :
                               /\ parseElectronic(p, convertElectronicToRaw(p, v)) = v
                               /\ convertElectronicToRaw(p, v) \in 0 .. 2 ^ (p.startBit + p.bitLength) - 1
    BY DEF FieldsHoldTheirRange
  <2>. DEFINE p == templates[type][n]
              rows == IF type = "TCM" THEN db.tcm ELSE db.pm
              row == FirstOf(rows, n)
              bits == row.last - row.first + 1
  <2>1. rows \in Seq(ParameterRows) /\ templates[type] = parseTemplateBoard(rows)
    BY RowTypes DEF FitDataInv, TemplatesInv
  <2>2. row \in ParameterRows /\ p = parseParameter(row)
    BY <2>1, TemplateParameter
  <2>. HIDE DEF row
  <2>. SUFFICES ASSUME row.min = <<>>, row.max = <<>>, row.first <= row.last,
                       NEW v \in p.minValue .. p.maxValue
                PROVE  /\ parseElectronic(p, convertElectronicToRaw(p, v)) = v
                       /\ convertElectronicToRaw(p, v) \in 0 .. 2 ^ (p.startBit + p.bitLength) - 1
    BY DEF row
  <2>3. /\ p.bitLength = bits /\ p.startBit = row.first /\ p.signed = row.signed
        /\ p.minValue = DefaultMin(row.signed, bits) /\ p.maxValue = DefaultMax(row.signed, bits)
    BY <2>2 DEF parseParameter, ParametersRow, parse, ParameterRows
  <2>4. bits \in Nat \ {0} /\ row.first \in Nat /\ row.signed \in BOOLEAN
    BY <2>2 DEF ParameterRows
  <2>. HIDE DEF p, bits
  <2>5. bits - 1 \in Nat /\ 2 ^ bits \in Nat /\ 2 ^ (bits - 1) \in Nat
    BY <2>4, PowerType
  <2>6. IF p.signed THEN v \in -(2 ^ (bits - 1)) .. 2 ^ (bits - 1) - 1 ELSE v \in 0 .. 2 ^ bits - 1
    BY <2>3 DEF DefaultMin, DefaultMax
  <2>. QED BY <2>3, <2>4, <2>6, FieldKeepsRange, SMTT(30)
<1>. QED BY <1>1, BoardDataFitInv, PTL

\* For any equations, of any number of operands: variables are what their equations say after
\* the constructor, and again after each cycle of BoardStatus.
THEOREM EnvironmentAlwaysAgrees == BoardDataSpec => []EnvironmentAgrees
<1>1. FitDataInv => EnvironmentAgrees
  BY DEF FitDataInv, Follows, EnvironmentAgrees, Agrees, Derived, Fetched
<1>. QED BY <1>1, BoardDataFitInv, PTL

\* The types of FitData.
LEMMA FitDataTypes == FitDataInv => FitDataTypeOK
<1>. SUFFICES ASSUME FitDataInv PROVE FitDataTypeOK
  OBVIOUS
<1>1. \A n \in DOMAIN environment : environment[n].value \in Int
  BY DEF FitDataInv, Equations, Entries
<1>2. \A n \in DOMAIN boards : boards[n].address \in Nat
  <2>. TAKE n \in DOMAIN boards
  <2>1. fetch = "ready"
    BY DEF FitDataInv, BoardsInv, NoEntries
  <2>. QED BY <2>1, BoardAddresses DEF constructBoardFromTemplate
<1>3. ASSUME fetch = "ready" PROVE \E n \in DOMAIN boards : boards[n].type = "TCM"
  <2>1. PICK i \in DOMAIN db.devices : db.devices[i].type = "TCM"
    BY <1>3 DEF FitDataInv, BoardsInv
  <2>. DEFINE n == db.devices[i].name
  <2>2. n \in NamesOf(db.devices) /\ db.devices \in Seq(DeviceRows)
    BY RowTypes DEF NamesOf, FitDataInv
  <2>3. DeviceOf(db.devices, n).type = "TCM"
    BY <2>1, <2>2, DeviceExists
  <2>4. n \in DOMAIN boards
    BY <1>3, <2>2 DEF FitDataInv, BoardsInv
  <2>5. boards[n] = constructBoardFromTemplate(DeviceOf(db.devices, n))
    BY <1>3, <2>4, BoardAddresses
  <2>. QED BY <2>3, <2>4, <2>5 DEF constructBoardFromTemplate
<1>4. Len(Derived) = 2
  BY DEF Derived
<1>. QED BY <1>1, <1>2, <1>3, <1>4 DEF FitDataTypeOK, FitDataInv, TemplatesInv, BoardsInv, Fetched
-------------------------------------------------------------------------------
(* Blocks of words *)

\* The words of n addresses, read at one time.
WordsFrom(from, n, time_) == [i \in 1 .. n |-> Word(from + i - 1, time_)]

Join(s, t) == s \o t

WordType == [at : Nat, time : Nat]

LEMMA WordsType ==
  ASSUME NEW from \in Nat, NEW n \in Nat, NEW t \in Nat
  PROVE  /\ WordsFrom(from, n, t) \in Seq(WordType) /\ Len(WordsFrom(from, n, t)) = n
         /\ \A i \in 1 .. n : WordsFrom(from, n, t)[i] = Word(from + i - 1, t)
<1>. DEFINE x == WordsFrom(from, n, t)
<1>1. ASSUME NEW i \in 1 .. n PROVE x[i] = Word(from + i - 1, t) /\ Word(from + i - 1, t) \in WordType
  <2>1. from + i - 1 \in Nat
    OBVIOUS
  <2>. QED BY <2>1 DEF WordsFrom, Word, WordType
<1>2. x \in [1 .. n -> WordType]
  BY <1>1 DEF WordsFrom
<1>. HIDE DEF x
<1>3. x \in Seq(WordType)
  BY <1>2, SeqDef
<1>4. Len(x) = n
  BY <1>2, <1>3, LenProperties
<1>. QED BY <1>1, <1>3, <1>4 DEF x

LEMMA WordsJoin ==
  ASSUME NEW from \in Nat, NEW m \in Nat, NEW n \in Nat, NEW t \in Nat
  PROVE  Join(WordsFrom(from, m, t), WordsFrom(from + m, n, t)) = WordsFrom(from, m + n, t)
<1>. DEFINE x == WordsFrom(from, m, t)
            y == WordsFrom(from + m, n, t)
            z == WordsFrom(from, m + n, t)
<1>1. /\ x \in Seq(WordType) /\ Len(x) = m /\ \A i \in 1 .. m : x[i] = Word(from + i - 1, t)
      /\ y \in Seq(WordType) /\ Len(y) = n /\ \A i \in 1 .. n : y[i] = Word(from + m + i - 1, t)
      /\ z \in Seq(WordType) /\ Len(z) = m + n /\ \A i \in 1 .. m + n : z[i] = Word(from + i - 1, t)
  <2>1. from + m \in Nat /\ m + n \in Nat
    OBVIOUS
  <2>. QED BY <2>1, WordsType, ZenonT(30)
<1>. HIDE DEF x, y, z
<1>. DEFINE xy == Join(x, y)
<1>2. /\ xy \in Seq(WordType) /\ Len(xy) = m + n
      /\ \A i \in 1 .. m + n : xy[i] = IF i <= m THEN x[i] ELSE y[i - m]
  BY <1>1, ConcatProperties DEF Join
<1>. HIDE DEF xy
<1>3. ASSUME NEW i \in 1 .. m + n PROVE xy[i] = z[i]
  <2>1. CASE i <= m
    <3>1. i \in 1 .. m
      BY <2>1
    <3>2. x[i] = Word(from + i - 1, t) /\ z[i] = Word(from + i - 1, t)
      BY <1>1, <3>1
    <3>. QED BY <1>2, <2>1, <3>2
  <2>2. CASE i > m
    <3>1. i - m \in 1 .. n /\ from + m + (i - m) - 1 = from + i - 1 /\ ~(i <= m)
      BY <2>2
    <3>2. y[i - m] = Word(from + m + (i - m) - 1, t) /\ z[i] = Word(from + i - 1, t)
      BY <1>1, <3>1
    <3>. QED BY <1>2, <3>1, <3>2
  <2>. QED BY <2>1, <2>2
<1>4. xy = z
  BY <1>1, <1>2, <1>3, SeqEqual
<1>. QED BY <1>4 DEF x, y, z, xy

\* What FlattenSeq joins, one sequence after the other.
LEMMA FlattenDefined ==
  ASSUME NEW seqs, NEW N \in Nat \ {0}, Len(seqs) = N
  PROVE  \E c : /\ FlattenSeq(seqs) = c[N] /\ c[1] = seqs[1]
                /\ \A k \in 2 .. N : c[k] = Join(c[k - 1], seqs[k])
<1>. DEFINE Flat(f, n) == f = [k \in 1 .. n |-> IF k = 1 THEN seqs[k] ELSE Join(f[k - 1], seqs[k])]
            T == {n \in Nat : \E f : Flat(f, n)}
<1>1. 0 \in T
  <2>. DEFINE f == [k \in 1 .. 0 |-> seqs[k]]
  <2>1. Flat(f, 0)
    OBVIOUS
  <2>. QED BY <2>1
<1>2. ASSUME NEW n \in Nat, n \in T PROVE n + 1 \in T
  <2>1. PICK f : Flat(f, n)
    BY <1>2
  <2>2. \A k \in 1 .. n : f[k] = IF k = 1 THEN seqs[k] ELSE Join(f[k - 1], seqs[k])
    BY <2>1
  <2>. DEFINE new == IF n = 0 THEN seqs[1] ELSE Join(f[n], seqs[n + 1])
  <2>. HIDE DEF new
  <2>. DEFINE g == [k \in 1 .. n + 1 |-> IF k <= n THEN f[k] ELSE new]
  <2>3. (\A k \in 1 .. n : g[k] = f[k]) /\ g[n + 1] = new
    OBVIOUS
  <2>4. ASSUME NEW k \in 1 .. n + 1 PROVE g[k] = IF k = 1 THEN seqs[k] ELSE Join(g[k - 1], seqs[k])
    <3>. HIDE DEF g, T, Flat
    <3>1. CASE k = n + 1 /\ n = 0
      BY <2>3, <3>1 DEF new
    <3>2. CASE k = n + 1 /\ n # 0
      <4>1. k - 1 = n /\ n \in 1 .. n /\ k # 1
        BY <3>2
      <4>. QED BY <2>3, <3>2, <4>1 DEF new
    <3>3. CASE k \in 1 .. n
      <4>1. k # 1 => k - 1 \in 1 .. n
        BY <3>3
      <4>. QED BY <2>2, <2>3, <3>3, <4>1
    <3>. QED BY <3>1, <3>2, <3>3
  <2>5. Flat(g, n + 1)
    BY <2>4
  <2>. HIDE DEF Flat, g
  <2>. QED BY <2>5
<1>3. N \in T
  <2>. HIDE DEF T
  <2>. QED BY <1>1, <1>2, Induction
<1>. DEFINE c == CHOOSE f : Flat(f, N)
<1>4. Flat(c, N)
  <2>1. \E f : Flat(f, N)
    BY <1>3
  <2>. HIDE DEF Flat
  <2>. QED BY <2>1
<1>5. FlattenSeq(seqs) = c[N]
  BY DEF FlattenSeq, Join
<1>. HIDE DEF c
<1>6. \A k \in 1 .. N : c[k] = IF k = 1 THEN seqs[k] ELSE Join(c[k - 1], seqs[k])
  BY <1>4
<1>7. \A k \in 2 .. N : c[k] = Join(c[k - 1], seqs[k])
  BY <1>6
<1>8. c[1] = seqs[1]
  BY <1>6
<1>. HIDE DEF Flat, T
<1>. QED BY <1>5, <1>7, <1>8

\* A block of any size, cut into packets of any size, is read whole and in order.
LEMMA MemoryBlock ==
  ASSUME NEW base \in Nat, NEW size \in Nat, NEW t \in Nat
  PROVE  MemoryAnswer(Packets(base, TRUE, size), t) = WordsFrom(base, size, t)
<1>. DEFINE full == size \div MaxBlock
            rest == size % MaxBlock
            packets == Packets(base, TRUE, size)
            n(k) == IF k <= full THEN MaxBlock ELSE rest
            frames == [k \in DOMAIN packets |-> [i \in 1 .. packets[k].size |-> Word(packets[k].at + i - 1, t)]]
<1>1. full \in Nat /\ rest \in Nat /\ size = full * MaxBlock + rest /\ MaxBlock \in Nat \ {0}
  BY BlockReadAssumption
<1>. HIDE DEF full, rest
<1>2. /\ DOMAIN packets = 1 .. full + 1
      /\ \A k \in 1 .. full + 1 : packets[k].at = base + (k - 1) * MaxBlock /\ packets[k].size = n(k)
  BY DEF Packets, full, rest
<1>3. MemoryAnswer(Packets(base, TRUE, size), t) = FlattenSeq(frames)
  BY DEF MemoryAnswer
<1>. HIDE DEF packets
<1>4. frames = [k \in 1 .. full + 1 |-> WordsFrom(base + (k - 1) * MaxBlock, n(k), t)]
  BY <1>2 DEF WordsFrom
<1>. HIDE DEF frames
<1>5. /\ Len(frames) = full + 1 /\ full + 1 \in Nat \ {0} /\ full + 1 - 1 = full
      /\ \A k \in 1 .. full + 1 : frames[k] = WordsFrom(base + (k - 1) * MaxBlock, n(k), t)
  BY <1>1, <1>4
<1>6. PICK c : /\ FlattenSeq(frames) = c[full + 1] /\ c[1] = frames[1]
               /\ \A k \in 2 .. full + 1 : c[k] = Join(c[k - 1], frames[k])
  BY <1>5, FlattenDefined
<1>. DEFINE T == {j \in Nat : j <= full => c[j + 1] = WordsFrom(base, j * MaxBlock + n(j + 1), t)}
<1>7. 0 \in T
  <2>1. 0 * MaxBlock = 0 /\ n(1) \in Nat /\ 1 \in 1 .. full + 1 /\ 1 - 1 = 0 /\ 0 + 1 = 1
    BY <1>1
  <2>2. frames[1] = WordsFrom(base + 0 * MaxBlock, n(1), t)
    BY <1>5, <2>1
  <2>3. base + 0 * MaxBlock = base /\ 0 * MaxBlock + n(1) = n(1)
    BY <2>1
  <2>. HIDE DEF n
  <2>4. c[1] = WordsFrom(base, 0 * MaxBlock + n(1), t)
    BY <1>6, <2>2, <2>3
  <2>. QED BY <2>1, <2>4
<1>8. ASSUME NEW j \in Nat, j \in T PROVE j + 1 \in T
  <2>. SUFFICES ASSUME j + 1 <= full
                PROVE  c[j + 1 + 1] = WordsFrom(base, (j + 1) * MaxBlock + n(j + 1 + 1), t)
    OBVIOUS
  <2>1. PICK i \in 2 .. full + 1 : i = j + 1 + 1 /\ i - 1 = j + 1
    BY <1>1
  <2>2. PICK m \in Nat : m = (j + 1) * MaxBlock
    BY <1>1
  <2>3. PICK k \in Nat : k = n(i)
    BY <1>1
  <2>4. j * MaxBlock + n(j + 1) = m
    <3>1. MaxBlock \in Int /\ j + 1 <= full
      BY <1>1
    <3>. QED BY <2>2, <3>1
  <2>. HIDE DEF n
  <2>5. c[i - 1] = WordsFrom(base, m, t)
    BY <1>1, <1>8, <2>1, <2>4
  <2>. HIDE DEF T
  <2>6. frames[i] = WordsFrom(base + m, k, t)
    BY <1>5, <2>1, <2>2, <2>3
  <2>7. c[i] = Join(c[i - 1], frames[i])
    BY <1>6
  <2>8. Join(WordsFrom(base, m, t), WordsFrom(base + m, k, t)) = WordsFrom(base, m + k, t)
    BY WordsJoin
  <2>9. c[i] = WordsFrom(base, m + k, t)
    BY <2>5, <2>6, <2>7, <2>8
  <2>. QED BY <2>1, <2>2, <2>3, <2>9
<1>9. c[full + 1] = WordsFrom(base, full * MaxBlock + n(full + 1), t)
  <2>1. full \in T
    <3>. HIDE DEF T
    <3>. QED BY <1>1, <1>7, <1>8, Induction
  <2>. HIDE DEF n
  <2>. QED BY <1>1, <2>1
<1>10. full * MaxBlock + n(full + 1) = size
  BY <1>1
<1>. HIDE DEF n, T
<1>. QED BY <1>3, <1>6, <1>9, <1>10
-------------------------------------------------------------------------------
(* The histograms of the TCM *)

LEMMA MemoryType ==
  /\ Len(Memory) \in Nat /\ Len(Memory) > 1 /\ DOMAIN Memory = 1 .. Len(Memory)
  /\ \A h \in DOMAIN Memory : Memory[h].base \in Nat /\ Memory[h].count \in Nat \ {0}
<1>. DEFINE Places == [base : Nat, count : Nat \ {0}]
<1>1. Memory \in Seq(Places) /\ Len(Memory) > 1
  BY TcmHistogramsAssumption
<1>2. Len(Memory) \in Nat /\ DOMAIN Memory = 1 .. Len(Memory) /\ \A h \in DOMAIN Memory : Memory[h] \in Places
  <2>. HIDE DEF Places
  <2>. QED BY <1>1
<1>. QED BY <1>1, <1>2

\* Histograms lie in the memory in their order.
LEMMA MemoryOrder ==
  \A h \in DOMAIN Memory : \A k \in DOMAIN Memory :
    h < k => Memory[h].base + Memory[h].count <= Memory[k].base
<1>. DEFINE L == Len(Memory)
            T == {d \in Nat : \A h \in 1 .. L : h + d + 1 <= L =>
                    Memory[h].base + Memory[h].count <= Memory[h + d + 1].base}
<1>1. /\ L \in Nat /\ DOMAIN Memory = 1 .. L
      /\ \A h \in 1 .. L : Memory[h].base \in Nat /\ Memory[h].count \in Nat
      /\ \A h \in 2 .. L : Memory[h].base >= Memory[h - 1].base + Memory[h - 1].count
  BY MemoryType, TcmHistogramsAssumption
<1>2. 0 \in T
  <2>. SUFFICES ASSUME NEW h \in 1 .. L, h + 0 + 1 <= L
                PROVE  Memory[h].base + Memory[h].count <= Memory[h + 0 + 1].base
    OBVIOUS
  <2>1. h + 0 + 1 \in 2 .. L /\ h + 0 + 1 - 1 = h
    BY <1>1
  <2>. QED BY <1>1, <2>1
<1>3. ASSUME NEW d \in Nat, d \in T PROVE d + 1 \in T
  <2>. SUFFICES ASSUME NEW h \in 1 .. L, h + (d + 1) + 1 <= L
                PROVE  Memory[h].base + Memory[h].count <= Memory[h + (d + 1) + 1].base
    OBVIOUS
  <2>1. PICK k \in 2 .. L : k = h + (d + 1) + 1 /\ k - 1 = h + d + 1 /\ k - 1 \in 1 .. L
    BY <1>1
  <2>2. Memory[h].base + Memory[h].count <= Memory[k - 1].base
    BY <1>1, <1>3, <2>1
  <2>3. Memory[k].base >= Memory[k - 1].base + Memory[k - 1].count
    BY <1>1
  <2>4. Memory[k - 1].base \in Nat /\ Memory[k - 1].count \in Nat /\ Memory[k].base \in Nat
        /\ Memory[h].base \in Nat /\ Memory[h].count \in Nat
    <3>1. k \in 1 .. L /\ k - 1 \in 1 .. L
      BY <1>1, <2>1
    <3>. HIDE DEF T
    <3>. QED BY <1>1, <3>1
  <2>. HIDE DEF T
  <2>5. PICK b1 \in Nat, n1 \in Nat, b2 \in Nat, n2 \in Nat, b3 \in Nat :
          /\ b1 = Memory[h].base /\ n1 = Memory[h].count
          /\ b2 = Memory[k - 1].base /\ n2 = Memory[k - 1].count /\ b3 = Memory[k].base
    BY <2>4
  <2>6. b1 + n1 <= b2 /\ b2 + n2 <= b3
    BY <2>2, <2>3, <2>5
  <2>7. b1 + n1 <= b3
    BY <2>6
  <2>. QED BY <2>1, <2>5, <2>7
<1>4. Nat \subseteq T
  <2>. HIDE DEF T
  <2>. QED BY <1>2, <1>3, Induction
<1>. SUFFICES ASSUME NEW h \in 1 .. L, NEW k \in 1 .. L, h < k
              PROVE  Memory[h].base + Memory[h].count <= Memory[k].base
  BY <1>1
<1>5. PICK d \in Nat : k = h + d + 1
  <2>1. k - h - 1 \in Nat /\ k = h + (k - h - 1) + 1
    BY <1>1
  <2>. QED BY <2>1
<1>6. d \in T
  BY <1>4
<1>. QED BY <1>1, <1>5, <1>6

Part(words, from, n) == SubSeq(words, from + 1, from + n)

\* What the answer brings for a histogram inside of the block.
LEMMA WordsInBlock ==
  ASSUME NEW start \in Nat, NEW size \in Nat, NEW t \in Nat, NEW from \in Nat, NEW n \in Nat,
         from + n <= size
  PROVE  Part(WordsFrom(start, size, t), from, n) = WordsFrom(start + from, n, t)
<1>. DEFINE w == WordsFrom(start, size, t)
            x == SubSeq(w, from + 1, from + n)
            y == WordsFrom(start + from, n, t)
<1>1. /\ w \in Seq(WordType) /\ Len(w) = size
      /\ \A i \in 1 .. size : w[i] = Word(start + i - 1, t) /\ w[i] \in WordType
      /\ y \in Seq(WordType) /\ Len(y) = n
      /\ \A i \in 1 .. n : y[i] = Word(start + from + i - 1, t)
  <2>1. start + from \in Nat
    OBVIOUS
  <2>2. w \in Seq(WordType) /\ Len(w) = size /\ \A i \in 1 .. size : w[i] = Word(start + i - 1, t)
    BY WordsType
  <2>3. \A i \in 1 .. size : w[i] \in WordType
    <3>. HIDE DEF w
    <3>. QED BY <2>2
  <2>4. y \in Seq(WordType) /\ Len(y) = n /\ \A i \in 1 .. n : y[i] = Word(start + from + i - 1, t)
    BY <2>1, WordsType
  <2>. QED BY <2>2, <2>3, <2>4
<1>. HIDE DEF w, y
<1>2. /\ x \in Seq(WordType) /\ Len(x) = n
      /\ \A i \in 1 .. n : x[i] = w[from + 1 + i - 1]
  <2>1. from + 1 \in Int /\ from + n \in Int /\ from + n - (from + 1) + 1 = n
        /\ \A i \in from + 1 .. from + n : w[i] \in WordType
    BY <1>1
  <2>2. /\ x \in Seq(WordType)
        /\ Len(x) = IF from + 1 <= from + n THEN from + n - (from + 1) + 1 ELSE 0
        /\ \A i \in 1 .. from + n - (from + 1) + 1 : x[i] = w[from + 1 + i - 1]
    BY <2>1, SubSeqProperties
  <2>. HIDE DEF x
  <2>3. from + n - (from + 1) + 1 = n /\ (from + 1 <= from + n <=> n # 0)
    OBVIOUS
  <2>4. Len(x) = n
    BY <2>2, <2>3
  <2>. QED BY <2>2, <2>3, <2>4
<1>. HIDE DEF x
<1>3. ASSUME NEW i \in 1 .. n PROVE x[i] = y[i]
  <2>1. PICK k \in 1 .. size : k = from + 1 + i - 1 /\ start + k - 1 = start + from + i - 1
    OBVIOUS
  <2>2. x[i] = w[k]
    BY <1>2, <2>1
  <2>. QED BY <1>1, <2>1, <2>2
<1>4. x = y
  BY <1>1, <1>2, <1>3, SeqEqual
<1>. QED BY <1>4 DEF x, y, w, Part

\* What is known of the counter: without doubt, all that is stored or waits to be is what is
\* selected, and so is what the service has written itself until somebody else changes it.
CounterInv ==
  /\ ~tcmDoubt => /\ \A k \in TcmClients : tcmAnswers[k] \in {"none", counter}
                  /\ tcmPc = "store" => tcmRequest = counter
                  /\ CounterAwaited \/ storedCounter \in {"unknown", counter}
  /\ tcmPc = "store" /\ ~tcmUnsure => tcmRequest = counter
  /\ tcmPc # "idle" => tcmAnswer = "none"
  /\ SelectionsAreTrue

TcmInv == TcmTypeOK /\ TcmWordsInPlace /\ CounterInv

LEMMA InitTcmInv == InitTcm => TcmInv
<1>. SUFFICES ASSUME InitTcm PROVE TcmInv
  OBVIOUS
<1>1. /\ tcmData \in [DOMAIN Memory -> Seq([at : Nat, time : Nat])]
      /\ \A h \in DOMAIN Memory : Len(tcmData[h]) \in {0, Memory[h].count}
  BY EmptySeq DEF InitTcm
<1>2. /\ tcmPc = "idle" /\ tcmAnswer = "none" /\ firstRead = 1 /\ storedCounter = "unknown"
      /\ tcmAnswers = [k \in TcmClients |-> "none"] /\ counter \in Counters /\ tcmRequest = "0"
      /\ tcmDoubt = FALSE /\ tcmUnsure = FALSE /\ tcmTime = 0 /\ tcmActions = 0
  BY DEF InitTcm
<1>3. TcmTypeOK
  <2>1. tcmAnswers \in [TcmClients -> Counters \cup {"none"}] /\ tcmRequest \in Counters
    BY <1>2, TcmHistogramsAssumption
  <2>4. tcmDoubt \in BOOLEAN /\ tcmUnsure \in BOOLEAN
    BY <1>2, Zenon
  <2>2. tcmTime \in Nat /\ tcmActions \in Nat /\ firstRead \in 1 .. 2
    BY <1>2
  <2>3. /\ tcmPc \in {"idle", "select", "store", "block"}
        /\ tcmAnswer \in {"none", "read", "selected", "OK", "lost"}
        /\ storedCounter \in Counters \cup {"unknown"} /\ counter \in Counters
    BY <1>2
  <2>. QED BY <1>1, <2>1, <2>2, <2>4, <2>3, Zenon DEF TcmTypeOK
<1>4. TcmWordsInPlace
  BY <1>2 DEF TcmWordsInPlace
<1>5. CounterInv
  BY <1>2 DEF CounterInv, SelectionsAreTrue
<1>. QED BY <1>3, <1>4, <1>5 DEF TcmInv

\* A sequence with the counter leaves no doubt if its answer is the only one, and else only if
\* it has changed nothing.
LEMMA CounterExecuted ==
  ASSUME NEW c \in Counters, NEW answered \in BOOLEAN, ExecuteCounter(c, answered)
  PROVE  /\ counter' = c
         /\ tcmDoubt \in BOOLEAN => tcmDoubt' \in BOOLEAN
         /\ ~tcmDoubt' => (answered /\ ~CounterAwaited) \/ (~tcmDoubt /\ c = counter)
BY DEF ExecuteCounter

\* Whatever the service does with the counter, what is published of the histograms stays.
LEMMA WordsStay ==
  ASSUME TcmInv, UNCHANGED <<tcmData, firstRead, tcmTime>>, tcmAnswer' \in {tcmAnswer, "none", "selected", "lost"},
         tcmPc' \in {"idle", "select", "store", "block"}, tcmActions' \in {tcmActions, tcmActions + 1},
         storedCounter' \in Counters \cup {"unknown"}, counter' \in Counters,
         tcmAnswers' \in [TcmClients -> Counters \cup {"none"}], tcmRequest' \in Counters,
         tcmDoubt' \in BOOLEAN, tcmUnsure' \in BOOLEAN
  PROVE  TcmTypeOK' /\ TcmWordsInPlace'
<1>1. TcmTypeOK'
  BY DEF TcmInv, TcmTypeOK
<1>2. TcmWordsInPlace'
  BY DEF TcmInv, TcmWordsInPlace
<1>. QED BY <1>1, <1>2

LEMMA ReadHistograms == ASSUME TcmInv, readAndStoreHistograms PROVE TcmInv'
<1>1. /\ tcmTime \in Nat /\ tcmPc = "block" /\ tcmPc' = "idle" /\ firstRead \in 1 .. 2
      /\ UNCHANGED <<firstRead, tcmTime, tcmActions>>
      /\ UNCHANGED <<storedCounter, tcmAnswers, counter, tcmRequest, tcmDoubt, tcmUnsure>>
  BY DEF readAndStoreHistograms, TcmInv, TcmTypeOK, selection
<1>2. PICK L \in Nat : L > 1 /\ L = Len(Memory) /\ DOMAIN Memory = 1 .. L
  BY MemoryType
<1>3. PICK first \in 1 .. 2 : first = firstRead
  BY <1>1
<1>4. /\ \A h \in 1 .. L : /\ Memory[h].base \in Nat /\ Memory[h].count \in Nat \ {0}
                           /\ Memory[h].base + Memory[h].count \in Nat
      /\ \A h \in 1 .. L : \A k \in 1 .. L : h < k => Memory[h].base + Memory[h].count <= Memory[k].base
  BY <1>2, MemoryType, MemoryOrder, SMTT(30)
<1>5. first \in 1 .. L /\ L \in 1 .. L /\ Last(Memory) = Memory[L]
  BY <1>2 DEF Last
<1>6. PICK start \in Nat : start = Memory[first].base
  BY <1>4, <1>5
<1>7. PICK end \in Nat : end = Memory[L].base + Memory[L].count
  BY <1>4, <1>5
<1>8. ASSUME NEW h \in first .. L
      PROVE  Memory[h].base >= start /\ Memory[h].base + Memory[h].count <= end
  <2>1. h \in 1 .. L
    OBVIOUS
  <2>2. PICK b \in Nat, n \in Nat : b = Memory[h].base /\ n = Memory[h].count
    BY <1>4, <2>1
  <2>3. b >= start
    <3>1. CASE h = first
      BY <1>6, <2>2, <3>1
    <3>2. CASE first < h
      <4>1. Memory[first].base + Memory[first].count <= Memory[h].base /\ Memory[first].count \in Nat
        BY <1>4, <1>5, <2>1, <3>2
      <4>. QED BY <1>6, <2>2, <4>1
    <3>. QED BY <3>1, <3>2
  <2>4. b + n <= end
    <3>1. CASE h = L
      BY <1>7, <2>2, <3>1
    <3>2. CASE h < L
      <4>1. /\ Memory[h].base + Memory[h].count <= Memory[L].base
            /\ Memory[L].count \in Nat /\ Memory[L].base \in Nat
        BY <1>4, <1>5, <2>1, <3>2
      <4>. QED BY <1>7, <2>2, <4>1
    <3>. QED BY <3>1, <3>2
  <2>. QED BY <2>2, <2>3, <2>4
<1>9. PICK size \in Nat : size = end - start
  <2>1. first \in first .. L
    BY <1>5
  <2>2. Memory[first].base + Memory[first].count <= end /\ Memory[first].count \in Nat
    BY <1>4, <1>5, <1>8, <2>1
  <2>3. end - start \in Nat
    BY <1>6, <2>2
  <2>. QED BY <2>3
<1>10. PICK words : words = MemoryAnswer(Packets(start, TRUE, size), tcmTime)
  OBVIOUS
<1>11. words = WordsFrom(start, size, tcmTime)
  BY <1>1, <1>10, MemoryBlock
<1>12. tcmData' = parseHistogramData(words, start) /\ tcmAnswer' = "read"
  <2>1. Complete(words, size)
    BY <1>1, <1>11, WordsType DEF Complete
  <2>2. Memory[firstRead].base = start /\ Last(Memory).base + Last(Memory).count - start = size
    <3>1. Last(Memory).base \in Nat /\ Last(Memory).count \in Nat
      BY <1>4, <1>5
    <3>2. PICK b \in Nat, n \in Nat : b = Last(Memory).base /\ n = Last(Memory).count
      BY <3>1
    <3>3. b + n - start = size
      BY <1>5, <1>7, <1>9, <3>2
    <3>. QED BY <1>3, <1>6, <3>2, <3>3
  <2>. QED BY <1>10, <2>1, <2>2 DEF readAndStoreHistograms
<1>13. ASSUME NEW h \in first .. L
       PROVE  tcmData'[h] = WordsFrom(Memory[h].base, Memory[h].count, tcmTime)
  <2>1. h \in 1 .. L /\ h \in DOMAIN Memory
    BY <1>2
  <2>2. PICK b \in Nat, n \in Nat : b = Memory[h].base /\ n = Memory[h].count
    BY <1>4, <2>1
  <2>3. PICK from \in Nat : from = b - start /\ start + from = b /\ from + n <= size
    <3>1. b >= start /\ b + n <= end
      BY <1>8, <2>2
    <3>2. b - start \in Nat /\ start + (b - start) = b /\ (b - start) + n <= size
      BY <1>9, <3>1
    <3>. QED BY <3>2
  <2>4. tcmData'[h] = Part(words, from, n)
    <3>1. tcmData'[h] = IF b - start < 0 THEN <<>> ELSE Part(words, b - start, n)
      BY <1>12, <2>1, <2>2 DEF parseHistogramData, Part
    <3>. QED BY <2>3, <3>1
  <2>5. Part(WordsFrom(start, size, tcmTime), from, n) = WordsFrom(start + from, n, tcmTime)
    BY <1>1, <2>3, WordsInBlock
  <2>. QED BY <1>11, <2>2, <2>3, <2>4, <2>5
<1>14. ASSUME first = 2 PROVE tcmData'[1] = <<>>
  <2>1. 1 \in 1 .. L /\ 2 \in 1 .. L /\ 1 \in DOMAIN Memory
    BY <1>2
  <2>2. PICK b \in Nat : b = Memory[1].base /\ b < start
    BY <1>4, <1>6, <1>14, <2>1
  <2>3. tcmData'[1] = IF b - start < 0 THEN <<>> ELSE Part(words, b - start, Memory[1].count)
    BY <1>12, <2>1, <2>2 DEF parseHistogramData, Part
  <2>. QED BY <2>2, <2>3
<1>15. \A h \in DOMAIN Memory : h \in first .. L \/ (h = 1 /\ first = 2)
  BY <1>2
<1>16. TcmWordsInPlace'
  <2>. SUFFICES ASSUME NEW h \in DOMAIN Memory
                PROVE  IF h < first THEN tcmData'[h] = <<>>
                       ELSE tcmData'[h] = [k \in 1 .. Memory[h].count |-> Word(Memory[h].base + k - 1, tcmTime)]
    BY <1>1, <1>3 DEF TcmWordsInPlace
  <2>1. CASE h \in first .. L
    <3>1. tcmData'[h] = [k \in 1 .. Memory[h].count |-> Word(Memory[h].base + k - 1, tcmTime)]
      BY <1>13, <2>1 DEF WordsFrom
    <3>2. ~(h < first)
      BY <2>1
    <3>. QED BY <3>1, <3>2
  <2>2. CASE h = 1 /\ first = 2
    BY <1>14, <2>2
  <2>. QED BY <1>15, <2>1, <2>2
<1>17. /\ tcmData' \in [DOMAIN Memory -> Seq([at : Nat, time : Nat])]
       /\ \A h \in DOMAIN Memory : Len(tcmData'[h]) \in {0, Memory[h].count}
  <2>1. ASSUME NEW h \in DOMAIN Memory
        PROVE  tcmData'[h] \in Seq(WordType) /\ Len(tcmData'[h]) \in {0, Memory[h].count}
    <3>1. CASE h \in first .. L
      <4>1. Memory[h].base \in Nat /\ Memory[h].count \in Nat
        BY <1>2, <1>4
      <4>2. tcmData'[h] = WordsFrom(Memory[h].base, Memory[h].count, tcmTime)
        BY <1>13, <3>1
      <4>3. PICK b \in Nat, n \in Nat, t \in Nat :
              b = Memory[h].base /\ n = Memory[h].count /\ t = tcmTime
        BY <1>1, <4>1
      <4>4. WordsFrom(b, n, t) \in Seq(WordType) /\ Len(WordsFrom(b, n, t)) = n
        BY WordsType
      <4>. QED BY <4>2, <4>3, <4>4
    <3>2. CASE h = 1 /\ first = 2
      BY <1>14, <3>2, EmptySeq
    <3>. QED BY <1>15, <3>1, <3>2
  <2>2. tcmData' = [h \in DOMAIN Memory |-> tcmData'[h]]
    BY <1>12 DEF parseHistogramData
  <2>. QED BY <2>1, <2>2 DEF WordType
<1>18. TcmTypeOK'
  BY <1>1, <1>12, <1>17 DEF TcmInv, TcmTypeOK
<1>19. CounterInv'
  BY <1>1, <1>12 DEF TcmInv, CounterInv, CounterAwaited, SelectionsAreTrue
<1>. QED BY <1>16, <1>18, <1>19 DEF TcmInv

\* A step that publishes no selection and leaves the counter alone.
LEMMA CounterStays ==
  ASSUME CounterInv, UNCHANGED <<storedCounter, tcmAnswers, counter, tcmRequest, tcmDoubt, tcmUnsure>>,
         tcmPc \in {"idle", "block"}, tcmPc' \in {"idle", "block"}, tcmAnswer' # "selected",
         tcmPc' = "block" => tcmAnswer' = "none"
  PROVE  CounterInv'
BY DEF CounterInv, CounterAwaited, SelectionsAreTrue

\* A request of a counter: what is stored without doubt is what is selected.
LEMMA SetCounter == ASSUME TcmInv, NEW c \in Counters, setCounterId(c) PROVE TcmInv'
<1>1. /\ UNCHANGED <<tcmData, firstRead, storedCounter, tcmAnswers, counter, tcmDoubt, tcmTime>>
      /\ tcmPc = "idle" /\ tcmRequest' = c /\ tcmUnsure' = (tcmDoubt \/ CounterAwaited)
      /\ tcmActions' = tcmActions + 1
      /\ \/ storedCounter = c /\ tcmAnswer' = "selected" /\ tcmPc' = "idle"
         \/ tcmAnswer' = "none" /\ tcmPc' = "select"
  BY DEF setCounterId, ActTcm
<1>2. tcmUnsure' \in BOOLEAN
  BY <1>1 DEF CounterAwaited, TcmInv, TcmTypeOK
<1>3. TcmTypeOK' /\ TcmWordsInPlace'
  BY <1>1, <1>2, WordsStay DEF TcmInv, TcmTypeOK
<1>4. c # "unknown"
  BY TcmHistogramsAssumption
<1>5. CounterAwaited' <=> CounterAwaited
  BY <1>1 DEF CounterAwaited
<1>6. ~tcmUnsure' => ~tcmDoubt /\ ~CounterAwaited
  BY <1>1
<1>7. ~tcmDoubt' =>
        /\ \A k \in TcmClients : tcmAnswers'[k] \in {"none", counter'}
        /\ CounterAwaited' \/ storedCounter' \in {"unknown", counter'}
  BY <1>1, <1>5 DEF TcmInv, CounterInv
<1>8. SelectionsAreTrue'
  BY <1>1, <1>4, <1>6 DEF TcmInv, CounterInv, SelectionsAreTrue
<1>9. tcmPc' # "store" /\ (tcmPc' # "idle" => tcmAnswer' = "none")
  BY <1>1
<1>10. CounterInv'
  BY <1>7, <1>8, <1>9 DEF CounterInv
<1>. QED BY <1>3, <1>10 DEF TcmInv

\* The service writes the counter, and stores what it has read back.
LEMMA SelectSteps == ASSUME TcmInv, SelectCounter \/ SelectCounterFails \/ StoreCounter PROVE TcmInv'
<1>1. CASE SelectCounter
  <2>1. /\ UNCHANGED <<tcmData, tcmAnswer, firstRead, storedCounter, tcmAnswers, tcmRequest, tcmTime,
                        tcmActions>>
        /\ tcmPc = "select" /\ tcmPc' = "store" /\ tcmUnsure' = FALSE
        /\ ExecuteCounter(tcmRequest, TRUE) /\ tcmRequest \in Counters
    BY <1>1 DEF SelectCounter, TcmInv, TcmTypeOK
  <2>2. /\ counter' = tcmRequest /\ tcmDoubt' \in BOOLEAN
        /\ ~tcmDoubt' => ~CounterAwaited \/ (~tcmDoubt /\ tcmRequest = counter)
    BY <2>1, CounterExecuted DEF TcmInv, TcmTypeOK
  <2>3. TcmTypeOK' /\ TcmWordsInPlace'
    BY <2>1, <2>2, WordsStay DEF TcmInv, TcmTypeOK
  <2>4. CounterInv'
    BY <2>1, <2>2 DEF TcmInv, CounterInv, CounterAwaited, SelectionsAreTrue
  <2>. QED BY <2>3, <2>4 DEF TcmInv
<1>2. CASE SelectCounterFails
  <2>1. PICK c \in Counters : ExecuteCounter(c, FALSE)
    BY <1>2, TcmHistogramsAssumption DEF SelectCounterFails, TcmInv, TcmTypeOK
  <2>2. /\ UNCHANGED <<tcmData, firstRead, storedCounter, tcmAnswers, tcmRequest, tcmUnsure, tcmTime,
                        tcmActions>>
        /\ tcmPc = "select" /\ tcmPc' = "idle" /\ tcmAnswer' = "lost"
    BY <1>2 DEF SelectCounterFails
  <2>3. counter' = c /\ tcmDoubt' \in BOOLEAN /\ (~tcmDoubt' => ~tcmDoubt /\ c = counter)
    BY <2>1, CounterExecuted DEF TcmInv, TcmTypeOK
  <2>4. TcmTypeOK' /\ TcmWordsInPlace'
    BY <2>2, <2>3, WordsStay DEF TcmInv, TcmTypeOK
  <2>5. CounterInv'
    BY <2>2, <2>3 DEF TcmInv, CounterInv, CounterAwaited, SelectionsAreTrue
  <2>. QED BY <2>4, <2>5 DEF TcmInv
<1>3. CASE StoreCounter
  <2>1. /\ UNCHANGED <<tcmData, firstRead, tcmAnswers, counter, tcmRequest, tcmDoubt, tcmUnsure,
                        tcmTime, tcmActions>>
        /\ tcmPc = "store" /\ tcmPc' = "idle" /\ tcmAnswer' = "selected" /\ storedCounter' = tcmRequest
    BY <1>3 DEF StoreCounter
  <2>2. TcmTypeOK' /\ TcmWordsInPlace'
    BY <2>1, WordsStay DEF TcmInv, TcmTypeOK
  <2>3. CounterInv'
    BY <2>1 DEF TcmInv, CounterInv, CounterAwaited, SelectionsAreTrue
  <2>. QED BY <2>2, <2>3 DEF TcmInv
<1>. QED BY <1>1, <1>2, <1>3

\* Another service writes or reads the counter, and stores what it was told.
LEMMA OtherSteps ==
  ASSUME TcmInv, NEW k \in TcmClients, OtherExecutes(k) \/ OtherStores(k) PROVE TcmInv'
<1>1. CASE OtherExecutes(k)
  <2>1. PICK c \in Counters, answered \in BOOLEAN :
          /\ ExecuteCounter(c, answered) /\ tcmUnsure' = (tcmUnsure \/ c # counter)
          /\ tcmAnswers' = IF answered THEN [tcmAnswers EXCEPT ![k] = c] ELSE tcmAnswers
    BY <1>1 DEF OtherExecutes
  <2>2. /\ UNCHANGED <<tcmPc, tcmData, tcmAnswer, firstRead, storedCounter, tcmRequest, tcmTime>>
        /\ tcmAnswers[k] = "none" /\ tcmActions' = tcmActions + 1
    BY <1>1 DEF OtherExecutes, ActTcm
  <2>3. /\ counter' = c /\ tcmDoubt' \in BOOLEAN
        /\ ~tcmDoubt' => (answered /\ ~CounterAwaited) \/ (~tcmDoubt /\ c = counter)
    BY <2>1, CounterExecuted DEF TcmInv, TcmTypeOK
  <2>4. tcmAnswers' \in [TcmClients -> Counters \cup {"none"}] /\ tcmUnsure' \in BOOLEAN /\ c # "none"
    BY <2>1, TcmHistogramsAssumption DEF TcmInv, TcmTypeOK
  <2>5. TcmTypeOK' /\ TcmWordsInPlace'
    BY <2>2, <2>3, <2>4, WordsStay DEF TcmInv, TcmTypeOK
  <2>6. /\ answered => tcmAnswers'[k] = c
        /\ \A j \in TcmClients : tcmAnswers'[j] \in {tcmAnswers[j], c}
        /\ \A j \in TcmClients \ {k} : tcmAnswers'[j] = tcmAnswers[j]
        /\ ~answered => tcmAnswers' = tcmAnswers
    BY <2>1 DEF TcmInv, TcmTypeOK
  <2>7. CounterInv'
    <3>1. ASSUME ~tcmDoubt', answered, ~CounterAwaited PROVE CounterInv'
      BY <2>1, <2>2, <2>3, <2>4, <2>6, <3>1 DEF TcmInv, CounterInv, CounterAwaited, SelectionsAreTrue
    <3>2. ASSUME ~tcmDoubt, c = counter PROVE CounterInv'
      <4>1. CounterAwaited => CounterAwaited'
        BY <2>2, <2>4, <2>6 DEF CounterAwaited
      <4>. QED BY <2>1, <2>2, <2>3, <2>6, <3>2, <4>1 DEF TcmInv, CounterInv, SelectionsAreTrue
    <3>3. ASSUME tcmDoubt' PROVE CounterInv'
      BY <2>1, <2>2, <2>3, <3>3 DEF TcmInv, CounterInv, SelectionsAreTrue
    <3>. QED BY <2>3, <3>1, <3>2, <3>3
  <2>. QED BY <2>5, <2>7 DEF TcmInv
<1>2. CASE OtherStores(k)
  <2>1. /\ UNCHANGED <<tcmPc, tcmData, tcmAnswer, firstRead, counter, tcmRequest, tcmDoubt, tcmUnsure,
                        tcmTime, tcmActions>>
        /\ tcmAnswers[k] # "none" /\ storedCounter' = tcmAnswers[k]
        /\ tcmAnswers' = [tcmAnswers EXCEPT ![k] = "none"]
    BY <1>2 DEF OtherStores
  <2>2. /\ tcmAnswers' \in [TcmClients -> Counters \cup {"none"}]
        /\ \A j \in TcmClients : tcmAnswers'[j] \in {tcmAnswers[j], "none"}
    BY <2>1 DEF TcmInv, TcmTypeOK
  <2>3. TcmTypeOK' /\ TcmWordsInPlace'
    BY <2>1, <2>2, WordsStay DEF TcmInv, TcmTypeOK
  <2>4. CounterInv'
    BY <2>1, <2>2 DEF TcmInv, CounterInv, SelectionsAreTrue
  <2>. QED BY <2>3, <2>4 DEF TcmInv
<1>. QED BY <1>1, <1>2

LEMMA NextTcmInv == ASSUME TcmInv, NextTcm \/ UNCHANGED tcmVars PROVE TcmInv'
<1>1. CASE ResetTcm \/ BeginTcmRead \/ ReadTcmFails
  <2>1. /\ UNCHANGED <<tcmData, storedCounter, tcmAnswers, counter, tcmRequest, tcmDoubt, tcmUnsure>>
        /\ tcmTime' \in {tcmTime, tcmTime + 1} /\ tcmActions' \in {tcmActions, tcmActions + 1}
        /\ tcmPc \in {"idle", "block"} /\ firstRead' \in {firstRead, 1, 2}
        /\ \/ tcmPc' = "idle" /\ tcmAnswer' \in {"OK", "lost"}
           \/ tcmPc' = "block" /\ tcmAnswer' = "none"
    BY <1>1 DEF ResetTcm, BeginTcmRead, ReadTcmFails, ActTcm, selection
  <2>2. TcmTypeOK' /\ TcmWordsInPlace'
    BY <2>1 DEF TcmInv, TcmTypeOK, TcmWordsInPlace
  <2>3. CounterInv'
    BY <2>1, CounterStays DEF TcmInv
  <2>. QED BY <2>2, <2>3 DEF TcmInv
<1>2. ASSUME NEW c \in Counters, setCounterId(c) PROVE TcmInv'
  BY <1>2, SetCounter
<1>3. CASE SelectCounter \/ SelectCounterFails \/ StoreCounter
  BY <1>3, SelectSteps
<1>4. CASE readAndStoreHistograms
  BY <1>4, ReadHistograms
<1>5. ASSUME NEW k \in TcmClients, OtherExecutes(k) \/ OtherStores(k) PROVE TcmInv'
  BY <1>5, OtherSteps
<1>6. CASE UNCHANGED tcmVars
  <2>1. UNCHANGED <<tcmPc, tcmData, tcmAnswer, firstRead, storedCounter, tcmAnswers, counter, tcmRequest,
                    tcmDoubt, tcmUnsure, tcmTime, tcmActions>>
    BY <1>6 DEF tcmVars, selection
  <2>2. TcmTypeOK' /\ TcmWordsInPlace'
    BY <2>1 DEF TcmInv, TcmTypeOK, TcmWordsInPlace
  <2>3. CounterInv'
    BY <2>1 DEF TcmInv, CounterInv, CounterAwaited, SelectionsAreTrue
  <2>. QED BY <2>2, <2>3 DEF TcmInv
<1>. QED BY <1>1, <1>2, <1>3, <1>4, <1>5, <1>6 DEF NextTcm

LEMMA BoardDataTcmInv == BoardDataSpec => []TcmInv
<1>1. InitBoardData => TcmInv
  BY InitTcmInv DEF InitBoardData
<1>2. TcmInv /\ [NextBoardData]_boardDataVars => TcmInv'
  <2>. SUFFICES ASSUME TcmInv, [NextBoardData]_boardDataVars PROVE NextTcm \/ UNCHANGED tcmVars
    BY NextTcmInv
  <2>. QED BY DEF NextBoardData, Reading, StartPmHistograms, PmStep, TcmStep, Following, ToolStep, boardDataVars
<1>. QED BY <1>1, <1>2, PTL DEF BoardDataSpec

\* For any histograms in the memory, packets of any size, any counters and any other services:
\* what the TCM publishes are the words of each histogram, what is stored of the counter is true
\* when nobody has a reason to doubt it, and so are the answers to COUNTER.
THEOREM TcmAnswersAlwaysTrue == BoardDataSpec => []TcmAnswersAreTrue
<1>1. TcmInv => TcmAnswersAreTrue
  BY DEF TcmInv, CounterInv, TcmAnswersAreTrue, StoredCounterIsTrue
<1>. QED BY <1>1, BoardDataTcmInv, PTL

\* The types of the service of a TCM.
LEMMA TcmTypes == TcmInv => TcmTypeOK
BY DEF TcmInv
-------------------------------------------------------------------------------
(* The filter of a PM *)

\* Without doubt of a field, all that is stored of it or waits to be is what the board has; and
\* what a request has found or written is so until another service changes it.
FilterTypes ==
  /\ wanted \in BcIds \cup {"OFF"} /\ alreadySet \in BOOLEAN
  /\ stored \in [on : {"0", "1", "unknown"}, bcid : BcIds \cup {"unknown"}] /\ filter \in Filters
  /\ doubt \subseteq Fields /\ unsure \subseteq Fields
  /\ answers \in [PmClients -> UNION {[fs -> {"0", "1"} \cup BcIds] : fs \in SUBSET Fields}]
  /\ \A k \in PmClients :
       /\ "on" \in DOMAIN answers[k] => answers[k].on \in {"0", "1"}
       /\ "bcid" \in DOMAIN answers[k] => answers[k].bcid \in BcIds

\* What the service is about to store of a field.
Own(field) == IF field = "on" THEN FilterOn ELSE wanted
OwnWaits(field) ==
  \/ pmPc = "storeOn" /\ field = "on"
  \/ pmPc = "storeBcid" /\ field = "bcid"

FieldInv(field) == field \notin doubt =>
  /\ \A k \in PmClients : field \in DOMAIN answers[k] => answers[k][field] = filter[field]
  /\ OwnWaits(field) => filter[field] = Own(field)
  /\ Awaited(field) \/ stored[field] \in {"unknown", filter[field]}

\* The field is sure to have what the request wants.
Has(field) == field \notin unsure => filter[field] = Own(field)

RequestInv ==
  /\ pmPc \in {"filterOn", "storeOn", "filterBcid", "storeBcid"} => pmAnswer # "filtered"
  /\ pmPc \in {"filterBcid", "storeBcid"} => wanted # "OFF"
  /\ pmPc \in {"storeOn", "filterBcid", "storeBcid"} => Has("on")
  /\ pmPc = "storeBcid" => Has("bcid")
  /\ pmPc \in {"filterOn", "storeOn"} /\ alreadySet /\ wanted # "OFF" => Has("bcid")
  /\ pmAnswer = "filtered" => Has("on") /\ (wanted # "OFF" => Has("bcid"))

FilterInv == FilterTypes /\ FieldInv("on") /\ FieldInv("bcid") /\ RequestInv

filterVars == <<wanted, alreadySet, stored, answers, filter, doubt, unsure, pmPc, pmAnswer>>

\* The invariant speaks of the request and the filter only.
LEMMA FilterInvSame ==
  ASSUME FilterInv, UNCHANGED filterVars
  PROVE  FilterInv'
<1>1. UNCHANGED <<wanted, alreadySet, stored, answers, filter, doubt, unsure, pmPc, pmAnswer>>
  BY DEF filterVars
<1>2. FilterTypes'
  BY <1>1 DEF FilterInv, FilterTypes
<1>3. FieldInv("on")' /\ FieldInv("bcid")'
  BY <1>1 DEF FilterInv, FieldInv, OwnWaits, Own, FilterOn, Awaited
<1>4. RequestInv'
  BY <1>1 DEF FilterInv, RequestInv, Has, Own, FilterOn
<1>. QED BY <1>2, <1>3, <1>4 DEF FilterInv

\* A step that does not touch what is stored, and ends no request for a filter.
LEMMA FilterStays ==
  ASSUME FilterInv, UNCHANGED <<wanted, alreadySet, stored, answers, filter, doubt, unsure>>,
         pmPc \notin {"storeOn", "storeBcid"}, pmPc' \in {"idle", "address", "block"},
         pmAnswer' \in {pmAnswer, "none", "OK", "read", "lost", "notStored"}
  PROVE  FilterInv'
<1>1. FilterTypes'
  BY DEF FilterInv, FilterTypes
<1>2. FieldInv("on")' /\ FieldInv("bcid")'
  BY DEF FilterInv, FieldInv, OwnWaits, Own, FilterOn, Awaited
<1>3. RequestInv'
  BY DEF FilterInv, RequestInv, Has, Own, FilterOn
<1>. QED BY <1>1, <1>2, <1>3 DEF FilterInv

\* A sequence that ALF executes leaves no doubt of a field if its answer is the only one with
\* it, and else only if it has changed nothing there.
LEMMA FilterExecuted ==
  ASSUME FilterTypes, NEW fields \in SUBSET Fields, NEW new \in Filters, NEW answered \in BOOLEAN,
         Execute(fields, new, answered)
  PROVE  /\ filter' = new /\ doubt' \subseteq Fields
         /\ \A field \in Fields : field \notin doubt' =>
              \/ field \in fields /\ answered /\ ~Awaited(field)
              \/ field \notin doubt /\ new[field] = filter[field]
BY DEF Execute, FilterTypes

\* A request for a filter: what it finds stored of a field is what the board has, or it is not
\* sure of the field.
LEMMA RequestFilter == ASSUME FilterInv, NEW w \in BcIds \cup {"OFF"}, setBcIdFilter(w) PROVE FilterInv'
<1>1. /\ UNCHANGED <<stored, answers, filter, doubt>> /\ wanted' = w /\ alreadySet' = (stored.bcid = w)
      /\ pmPc = "idle" /\ unsure' = {field \in Fields : field \in doubt \/ Awaited(field)}
  BY DEF setBcIdFilter
<1>2. \/ pmPc' = "filterOn" /\ pmAnswer' = "none"
      \/ /\ pmPc' = "filterBcid" /\ pmAnswer' = "none"
         /\ w # "OFF" /\ stored.on = "1"
      \/ /\ pmPc' = "idle" /\ pmAnswer' = "filtered"
         /\ IF w = "OFF" THEN stored.on = "0" ELSE stored.on = "1" /\ stored.bcid = w
  <2>. DEFINE skip == IF w = "OFF" THEN stored.on = "0" ELSE stored.on = "1"
  <2>1. CASE ~skip
    BY <2>1 DEF setBcIdFilter
  <2>2. CASE skip /\ w # "OFF" /\ stored.bcid # w
    BY <2>2 DEF setBcIdFilter
  <2>3. CASE ~(~skip) /\ ~(skip /\ w # "OFF" /\ stored.bcid # w)
    BY <2>3 DEF setBcIdFilter
  <2>. QED BY <2>1, <2>2, <2>3
<1>3. FilterTypes'
  BY <1>1 DEF FilterInv, FilterTypes
<1>4. FieldInv("on")' /\ FieldInv("bcid")'
  BY <1>1, <1>2 DEF FilterInv, FieldInv, OwnWaits, Awaited
<1>5. \A field \in Fields : field \notin unsure' => stored[field] \in {"unknown", filter[field]}
  BY <1>1 DEF FilterInv, FieldInv, Fields
<1>6. FilterOn' = IF w = "OFF" THEN "0" ELSE "1"
  BY <1>1 DEF FilterOn
<1>7. stored.on = FilterOn' => Has("on")'
  BY <1>1, <1>5, <1>6 DEF Has, Own, Fields
<1>8. stored.bcid = w /\ w # "OFF" => Has("bcid")'
  <2>1. w \in BcIds => w # "unknown"
    BY PmHistogramsAssumption
  <2>. QED BY <1>1, <1>5, <2>1 DEF Has, Own, Fields
<1>9. RequestInv'
  <2>1. stored.bcid = w <=> alreadySet'
    BY <1>1
  <2>. QED BY <1>1, <1>2, <1>6, <1>7, <1>8, <2>1 DEF RequestInv
<1>. QED BY <1>3, <1>4, <1>9 DEF FilterInv

\* The service writes a field, or loses the write.
LEMMA WriteFilter ==
  ASSUME FilterInv, WriteFilterOn \/ WriteFilterBcid PROVE FilterInv'
<1>. PICK field \in Fields :
       /\ field = IF pmPc = "filterOn" THEN "on" ELSE "bcid"
       /\ Own(field) = IF pmPc = "filterOn" THEN FilterOn ELSE wanted
  BY DEF Fields, Own
<1>1. /\ UNCHANGED <<wanted, alreadySet, stored, answers>>
      /\ pmPc = IF field = "on" THEN "filterOn" ELSE "filterBcid"
      /\ \/ WriteField(field, Own(field)) /\ pmPc' = (IF field = "on" THEN "storeOn" ELSE "storeBcid")
         \/ WriteFieldFails(field, Own(field))
  BY DEF WriteFilterOn, WriteFilterBcid
<1>2. /\ Own("on") = FilterOn /\ Own("bcid") = wanted /\ FilterOn \in {"0", "1"}
      /\ FilterOn' = FilterOn /\ Own("on")' = Own("on") /\ Own("bcid")' = Own("bcid")
  BY <1>1 DEF Own, FilterOn
<1>3. pmPc = "filterBcid" => wanted \in BcIds
  BY DEF FilterInv, FilterTypes, RequestInv
<1>4. /\ filter \in Filters
      /\ \A v : (field = "on" => v \in {"0", "1"}) /\ (field = "bcid" => v \in BcIds) =>
           /\ [filter EXCEPT ![field] = v] \in Filters
           /\ [filter EXCEPT ![field] = v][field] = v
           /\ \A f \in Fields \ {field} : [filter EXCEPT ![field] = v][f] = filter[f]
  BY DEF FilterInv, FilterTypes, Filters, Fields
<1>5. CASE WriteField(field, Own(field)) /\ pmPc' = (IF field = "on" THEN "storeOn" ELSE "storeBcid")
  <2>0. PICK new : new = [filter EXCEPT ![field] = Own(field)]
    OBVIOUS
  <2>1. new \in Filters /\ new[field] = Own(field) /\ \A f \in Fields \ {field} : new[f] = filter[f]
    <3>1. field = "on" => Own(field) \in {"0", "1"}
      BY <1>2
    <3>2. field = "bcid" => Own(field) \in BcIds
      BY <1>1, <1>2, <1>3
    <3>. QED BY <1>4, <2>0, <3>1, <3>2
  <2>2. Execute({field}, new, TRUE) /\ unsure' = unsure \ {field} /\ pmAnswer' = pmAnswer
    BY <1>5, <2>0 DEF WriteField
  <2>3. /\ filter' = new /\ doubt' \subseteq Fields
        /\ \A f \in Fields : f \notin doubt' =>
             (f = field /\ ~Awaited(f)) \/ (f \notin doubt /\ new[f] = filter[f])
    <3>1. {field} \in SUBSET Fields /\ TRUE \in BOOLEAN /\ FilterTypes
      BY DEF FilterInv
    <3>2. /\ filter' = new /\ doubt' \subseteq Fields
          /\ \A f \in Fields : f \notin doubt' =>
               \/ f \in {field} /\ TRUE /\ ~Awaited(f)
               \/ f \notin doubt /\ new[f] = filter[f]
      BY <2>1, <2>2, <3>1, FilterExecuted
    <3>. QED BY <3>2
  <2>4. FilterTypes'
    BY <1>1, <2>1, <2>2, <2>3 DEF FilterInv, FilterTypes
  <2>5. /\ \A f \in Fields : OwnWaits(f)' <=> f = field
        /\ \A f \in Fields \ {field} : Awaited(f)' <=> Awaited(f)
        /\ Awaited(field)'
    <3>1. \A f \in Fields : OwnWaits(f)' <=> f = field
      BY <1>5 DEF OwnWaits, Fields
    <3>2. \A f \in Fields : /\ ~OwnWaits(f)
                            /\ OwnWaits(f)' => Awaited(f)'
      BY <1>1 DEF OwnWaits, Awaited, Fields
    <3>3. \A f \in Fields : ~OwnWaits(f)' => (Awaited(f)' <=> Awaited(f))
      BY <1>1, <3>2 DEF OwnWaits, Awaited
    <3>. QED BY <3>1, <3>2, <3>3
  <2>6. \A f \in Fields : FieldInv(f)'
    <3>. SUFFICES ASSUME NEW f \in Fields, f \notin doubt' PROVE FieldInv(f)'
      BY DEF FieldInv
    <3>1. FieldInv(f)
      BY DEF FilterInv, Fields
    <3>2. f = field => filter'[f] = Own(f)'
      BY <1>2, <2>1, <2>3 DEF Fields
    <3>3. CASE f = field /\ ~Awaited(f)
      <4>1. \A k \in PmClients : f \notin DOMAIN answers[k]
        BY <3>3 DEF Awaited
      <4>. QED BY <1>1, <2>5, <3>2, <3>3, <4>1 DEF FieldInv
    <3>4. CASE f \notin doubt /\ new[f] = filter[f]
      BY <1>1, <2>3, <2>5, <3>1, <3>2, <3>4 DEF FieldInv
    <3>. QED BY <2>3, <3>3, <3>4
  <2>7. Has(field)' /\ \A f \in Fields \ {field} : Has(f) => Has(f)'
    BY <1>2, <2>1, <2>2, <2>3 DEF Has, Fields
  <2>8. RequestInv'
    BY <1>1, <1>5, <2>2, <2>7 DEF FilterInv, RequestInv, Fields
  <2>. QED BY <2>4, <2>6, <2>8 DEF FilterInv, Fields
<1>6. CASE WriteFieldFails(field, Own(field))
  <2>1. PICK v : /\ v \in {filter[field], Own(field), IF field = "on" THEN "0" ELSE ClearedBcId}
                 /\ Execute({field}, [filter EXCEPT ![field] = v], FALSE)
                 /\ pmPc' = "idle" /\ pmAnswer' = "lost" /\ unsure' = unsure
    BY <1>6 DEF WriteFieldFails
  <2>2. (field = "on" => v \in {"0", "1"}) /\ (field = "bcid" => v \in BcIds)
    BY <1>1, <1>2, <1>3, <2>1, PmHistogramsAssumption DEF FilterInv, FilterTypes, Filters, Fields
  <2>3. PICK new \in Filters : new = [filter EXCEPT ![field] = v]
    BY <1>4, <2>2
  <2>4. /\ filter' = new /\ doubt' \subseteq Fields
        /\ \A f \in Fields : f \notin doubt' => f \notin doubt /\ new[f] = filter[f]
    <3>1. FilterTypes /\ {field} \in SUBSET Fields /\ FALSE \in BOOLEAN
      BY DEF FilterInv
    <3>2. Execute({field}, new, FALSE)
      BY <2>1, <2>3
    <3>3. /\ filter' = new /\ doubt' \subseteq Fields
          /\ \A f \in Fields : f \notin doubt' =>
               \/ f \in {field} /\ FALSE /\ ~Awaited(f)
               \/ f \notin doubt /\ new[f] = filter[f]
      BY <3>1, <3>2, FilterExecuted
    <3>. QED BY <3>3
  <2>5. FilterTypes'
    BY <1>1, <2>1, <2>4 DEF FilterInv, FilterTypes
  <2>6. \A f \in Fields : ~OwnWaits(f)' /\ (Awaited(f)' <=> Awaited(f))
    BY <1>1, <2>1 DEF OwnWaits, Awaited, Fields
  <2>7. \A f \in Fields : FieldInv(f)'
    BY <1>1, <2>4, <2>6 DEF FilterInv, FieldInv, Fields
  <2>8. RequestInv'
    BY <2>1 DEF RequestInv
  <2>. QED BY <2>5, <2>7, <2>8 DEF FilterInv, Fields
<1>. QED BY <1>1, <1>5, <1>6

\* The service stores what it has read back, and goes on or answers.
LEMMA StoreFilter ==
  ASSUME FilterInv, StoreFilterOn \/ StoreFilterBcid PROVE FilterInv'
<1>1. /\ UNCHANGED <<wanted, alreadySet, answers, filter, doubt, unsure>>
      /\ \/ /\ pmPc = "storeOn" /\ stored' = [stored EXCEPT !.on = FilterOn]
            /\ IF wanted = "OFF" \/ alreadySet THEN pmPc' = "idle" /\ pmAnswer' = "filtered"
                                               ELSE pmPc' = "filterBcid" /\ UNCHANGED pmAnswer
         \/ /\ pmPc = "storeBcid" /\ stored' = [stored EXCEPT !.bcid = wanted]
            /\ pmPc' = "idle" /\ pmAnswer' = "filtered"
  BY DEF StoreFilterOn, StoreFilterBcid
<1>2. /\ FilterOn \in {"0", "1"} /\ FilterOn' = FilterOn
      /\ Own("on") = FilterOn /\ Own("bcid") = wanted /\ Own("on")' = Own("on") /\ Own("bcid")' = Own("bcid")
      /\ pmPc = "storeBcid" => wanted \in BcIds
  BY <1>1 DEF FilterOn, Own, FilterInv, FilterTypes, RequestInv
<1>3. /\ pmPc = "storeOn" => stored'.on = Own("on") /\ stored'.bcid = stored.bcid
      /\ pmPc = "storeBcid" => stored'.bcid = Own("bcid") /\ stored'.on = stored.on
      /\ stored' \in [on : {"0", "1", "unknown"}, bcid : BcIds \cup {"unknown"}]
  BY <1>1, <1>2 DEF FilterInv, FilterTypes
<1>4. FilterTypes'
  BY <1>1, <1>3 DEF FilterInv, FilterTypes
<1>5. FieldInv("on")' /\ FieldInv("bcid")'
  <2>. SUFFICES ASSUME NEW field \in Fields, field \notin doubt'  PROVE FieldInv(field)'
    BY DEF FieldInv, Fields
  <2>1. FieldInv(field) /\ field \notin doubt
    BY <1>1 DEF FilterInv, Fields
  <2>2. ~OwnWaits(field)' /\ Own(field)' = Own(field)
    BY <1>1, <1>2 DEF OwnWaits, Fields
  <2>3. \A k \in PmClients : field \in DOMAIN answers'[k] => answers'[k][field] = filter'[field]
    BY <1>1, <2>1 DEF FieldInv
  <2>4. CASE OwnWaits(field)
    <3>1. stored'[field] = Own(field)
      BY <1>3, <2>4 DEF OwnWaits
    <3>. QED BY <1>1, <2>1, <2>2, <2>3, <2>4, <3>1 DEF FieldInv
  <2>5. CASE ~OwnWaits(field)
    <3>1. stored'[field] = stored[field]
      BY <1>1, <1>3, <2>5 DEF OwnWaits, Fields
    <3>2. Awaited(field) => Awaited(field)'
      BY <1>1, <2>5 DEF Awaited, OwnWaits
    <3>. QED BY <1>1, <2>1, <2>2, <2>3, <3>1, <3>2 DEF FieldInv
  <2>. QED BY <2>4, <2>5
<1>6. (Has("on")' <=> Has("on")) /\ (Has("bcid")' <=> Has("bcid"))
  BY <1>1, <1>2 DEF Has
<1>7. RequestInv'
  BY <1>1, <1>6 DEF FilterInv, RequestInv
<1>. QED BY <1>4, <1>5, <1>7 DEF FilterInv

\* Another service writes or reads fields of the filter.
LEMMA OtherUses == ASSUME FilterInv, NEW k \in PmClients, OtherUsesFilter(k) PROVE FilterInv'
<1>1. PICK fields \in SUBSET Fields \ {{}}, new \in Filters, answered \in BOOLEAN :
        /\ \A field \in Fields \ fields : new[field] = filter[field]
        /\ Execute(fields, new, answered)
        /\ unsure' = unsure \cup {field \in Fields : new[field] # filter[field]}
        /\ answers' = IF answered
                      THEN [answers EXCEPT ![k] = [field \in fields |-> new[field]]] ELSE answers
  BY DEF OtherUsesFilter
<1>2. UNCHANGED <<wanted, alreadySet, stored, pmPc, pmAnswer>> /\ DOMAIN answers[k] = {}
  BY DEF OtherUsesFilter, service
<1>3. /\ filter' = new /\ doubt' \subseteq Fields
      /\ \A field \in Fields : field \notin doubt' =>
           \/ field \in fields /\ answered /\ ~Awaited(field)
           \/ field \notin doubt /\ new[field] = filter[field]
  BY <1>1, FilterExecuted DEF FilterInv
<1>. DEFINE told == [field \in fields |-> new[field]]
<1>4. /\ DOMAIN told = fields
      /\ \A field \in fields : told[field] = new[field]
      /\ told \in UNION {[fs -> {"0", "1"} \cup BcIds] : fs \in SUBSET Fields}
  <2>1. \A field \in fields : new[field] \in {"0", "1"} \cup BcIds
    BY <1>1 DEF Filters, Fields
  <2>2. told \in [fields -> {"0", "1"} \cup BcIds] /\ fields \in SUBSET Fields
    BY <1>1, <2>1
  <2>. QED BY <2>2
<1>0. answers' = IF answered THEN [answers EXCEPT ![k] = told] ELSE answers
  BY <1>1
<1>. HIDE DEF told
<1>5. /\ answered => answers'[k] = told
      /\ ~answered => answers' = answers
      /\ \A j \in PmClients : j # k => answers'[j] = answers[j]
  BY <1>0 DEF FilterInv, FilterTypes
<1>6. FilterTypes'
  <2>1. new.on \in {"0", "1"} /\ new.bcid \in BcIds
    BY <1>1 DEF Filters
  <2>2. answers' \in [PmClients -> UNION {[fs -> {"0", "1"} \cup BcIds] : fs \in SUBSET Fields}]
    BY <1>0, <1>4 DEF FilterInv, FilterTypes
  <2>3. \A j \in PmClients : /\ "on" \in DOMAIN answers'[j] => answers'[j].on \in {"0", "1"}
                             /\ "bcid" \in DOMAIN answers'[j] => answers'[j].bcid \in BcIds
    BY <1>4, <1>5, <2>1 DEF FilterInv, FilterTypes
  <2>. QED BY <1>1, <1>2, <1>3, <2>2, <2>3 DEF FilterInv, FilterTypes
<1>7. \A field \in Fields : FieldInv(field)'
  <2>. SUFFICES ASSUME NEW field \in Fields, field \notin doubt' PROVE FieldInv(field)'
    BY DEF FieldInv
  <2>1. FieldInv(field)
    BY DEF FilterInv, Fields
  <2>2. (OwnWaits(field)' <=> OwnWaits(field)) /\ Own(field)' = Own(field)
    BY <1>2 DEF OwnWaits, Own, FilterOn
  <2>3. \A j \in PmClients : field \in DOMAIN answers[j] => answers'[j] = answers[j]
    BY <1>2, <1>5
  <2>4. Awaited(field) => Awaited(field)'
    BY <1>2, <2>3 DEF Awaited
  <2>5. answered /\ field \in fields => Awaited(field)' /\ answers'[k][field] = filter'[field]
    BY <1>3, <1>4, <1>5 DEF Awaited
  <2>6. CASE field \in fields /\ answered /\ ~Awaited(field)
    <3>1. ~OwnWaits(field)
      BY <2>6 DEF OwnWaits, Awaited
    <3>2. \A j \in PmClients : j # k => field \notin DOMAIN answers'[j]
      BY <1>5, <2>6 DEF Awaited
    <3>. QED BY <2>2, <2>5, <2>6, <3>1, <3>2 DEF FieldInv
  <2>7. CASE field \notin doubt /\ new[field] = filter[field]
    <3>1. \A j \in PmClients : field \in DOMAIN answers'[j] => answers'[j][field] = filter'[field]
      <4>. SUFFICES ASSUME NEW j \in PmClients, field \in DOMAIN answers'[j]
                    PROVE  answers'[j][field] = filter'[field]
        OBVIOUS
      <4>1. CASE answered /\ j = k
        BY <1>4, <1>5, <2>5, <4>1
      <4>2. CASE ~(answered /\ j = k)
        <5>1. answers'[j] = answers[j]
          BY <1>5, <4>2
        <5>. QED BY <1>3, <2>1, <2>7, <5>1 DEF FieldInv
      <4>. QED BY <4>1, <4>2
    <3>. QED BY <1>2, <1>3, <2>1, <2>2, <2>4, <2>7, <3>1 DEF FieldInv
  <2>. QED BY <1>3, <2>6, <2>7
<1>8. \A field \in Fields : Has(field) => Has(field)'
  BY <1>1, <1>2, <1>3 DEF Has, Own, FilterOn
<1>9. RequestInv'
  BY <1>2, <1>8 DEF FilterInv, RequestInv, Fields
<1>. QED BY <1>6, <1>7, <1>9 DEF FilterInv, Fields

\* It stores what it was told.
LEMMA OtherStoresIt == ASSUME FilterInv, NEW k \in PmClients, OtherStoresFilter(k) PROVE FilterInv'
<1>1. /\ UNCHANGED <<wanted, alreadySet, filter, doubt, unsure, pmPc, pmAnswer>>
      /\ answers' = [answers EXCEPT ![k] = Nothing]
      /\ stored' = [field \in Fields |->
                      IF field \in DOMAIN answers[k] THEN answers[k][field] ELSE stored[field]]
  BY DEF OtherStoresFilter, service
<1>2. /\ Nothing \in UNION {[fs -> {"0", "1"} \cup BcIds] : fs \in SUBSET Fields}
      /\ DOMAIN Nothing = {}
  <2>1. Nothing \in [{} -> {"0", "1"} \cup BcIds] /\ {} \in SUBSET Fields
    BY DEF Nothing
  <2>. QED BY <2>1
<1>3. \A field \in Fields :
        stored'[field] = IF field \in DOMAIN answers[k] THEN answers[k][field] ELSE stored[field]
  BY <1>1
<1>4. \A j \in PmClients : answers'[j] = IF j = k THEN Nothing ELSE answers[j]
  BY <1>1 DEF FilterInv, FilterTypes
<1>5. FilterTypes'
  <2>1. stored' \in [on : {"0", "1", "unknown"}, bcid : BcIds \cup {"unknown"}]
    <3>1. stored'.on \in {"0", "1", "unknown"} /\ stored'.bcid \in BcIds \cup {"unknown"}
      BY <1>3 DEF FilterInv, FilterTypes, Fields
    <3>2. stored' = [field \in {"on", "bcid"} |-> stored'[field]]
      BY <1>1 DEF Fields
    <3>. QED BY <3>1, <3>2
  <2>2. answers' \in [PmClients -> UNION {[fs -> {"0", "1"} \cup BcIds] : fs \in SUBSET Fields}]
    BY <1>1, <1>2 DEF FilterInv, FilterTypes
  <2>3. \A j \in PmClients : /\ "on" \in DOMAIN answers'[j] => answers'[j].on \in {"0", "1"}
                             /\ "bcid" \in DOMAIN answers'[j] => answers'[j].bcid \in BcIds
    BY <1>2, <1>4 DEF FilterInv, FilterTypes
  <2>. QED BY <1>1, <2>1, <2>2, <2>3 DEF FilterInv, FilterTypes
<1>6. \A field \in Fields : FieldInv(field)'
  <2>. SUFFICES ASSUME NEW field \in Fields, field \notin doubt' PROVE FieldInv(field)'
    BY DEF FieldInv
  <2>1. FieldInv(field) /\ field \notin doubt
    BY <1>1 DEF FilterInv, Fields
  <2>2. (OwnWaits(field)' <=> OwnWaits(field)) /\ Own(field)' = Own(field)
    BY <1>1 DEF OwnWaits, Own, FilterOn
  <2>3. \A j \in PmClients : field \in DOMAIN answers'[j] => answers'[j][field] = filter'[field]
    BY <1>1, <1>2, <1>4, <2>1 DEF FieldInv
  <2>4. Awaited(field)' \/ stored'[field] \in {"unknown", filter[field]}
    <3>1. CASE field \in DOMAIN answers[k]
      BY <1>3, <2>1, <3>1 DEF FieldInv
    <3>2. CASE field \notin DOMAIN answers[k]
      <4>1. stored'[field] = stored[field]
        BY <1>3, <3>2
      <4>2. Awaited(field) => Awaited(field)'
        BY <1>1, <1>4, <3>2 DEF Awaited
      <4>. QED BY <2>1, <4>1, <4>2 DEF FieldInv
    <3>. QED BY <3>1, <3>2
  <2>. QED BY <1>1, <2>1, <2>2, <2>3, <2>4 DEF FieldInv
<1>7. \A field \in Fields : Has(field)' <=> Has(field)
  BY <1>1 DEF Has, Own, FilterOn
<1>8. RequestInv'
  BY <1>1, <1>7 DEF FilterInv, RequestInv, Fields
<1>. QED BY <1>5, <1>6, <1>8 DEF FilterInv, Fields

\* The rest of the service leaves the filter as it is, and gives other answers.
LEMMA OtherStepsKeepFilter ==
  ASSUME FilterInv
  PROVE  /\ \A names : Select(names) => FilterInv'
         /\ resetHistograms => FilterInv'
         /\ \A on \in BOOLEAN : switchHistogramming(on) => FilterInv'
         /\ BeginRead => FilterInv'
         /\ SetAddress \/ SetAddressFails => FilterInv'
         /\ ReadBlock \/ ReadBlockFails => FilterInv'
         /\ OtherMovesPointer => FilterInv'
<1>1. ASSUME NEW names, Select(names)  PROVE FilterInv'
  <2>1. UNCHANGED filters /\ pmPc = "idle" /\ pmPc' = "idle" /\ pmAnswer' = "OK"
    BY <1>1 DEF Select, service
  <2>. QED BY <2>1, FilterStays DEF filters
<1>2. ASSUME resetHistograms  PROVE FilterInv'
  <2>1. UNCHANGED filters /\ pmPc = "idle" /\ pmPc' = "idle" /\ pmAnswer' \in {"OK", "lost"}
    BY <1>2 DEF resetHistograms, service
  <2>. QED BY <2>1, FilterStays DEF filters
<1>3. ASSUME NEW on \in BOOLEAN, switchHistogramming(on)  PROVE FilterInv'
  <2>1. /\ UNCHANGED <<wanted, alreadySet, stored, answers, filter, doubt, unsure>>
        /\ pmPc = "idle" /\ pmPc' = "idle" /\ pmAnswer' \in {"OK", "lost"}
    BY <1>3 DEF switchHistogramming, service
  <2>. QED BY <2>1, FilterStays
<1>4. ASSUME BeginRead  PROVE FilterInv'
  <2>1. UNCHANGED filters /\ pmPc = "idle" /\ pmPc' \in {"idle", "address"} /\ pmAnswer' \in {"none", "read"}
    BY <1>4 DEF BeginRead, Done
  <2>. QED BY <2>1, FilterStays DEF filters
<1>5. ASSUME SetAddress \/ SetAddressFails  PROVE FilterInv'
  <2>1. /\ UNCHANGED filters /\ pmPc = "address" /\ pmPc' \in {"idle", "block"}
        /\ pmAnswer' \in {pmAnswer, "lost"}
    BY <1>5 DEF SetAddress, SetAddressFails, Failed
  <2>. QED BY <2>1, FilterStays DEF filters
<1>6. ASSUME ReadBlock \/ ReadBlockFails  PROVE FilterInv'
  <2>1. /\ pmPc = "block" /\ UNCHANGED filters
        /\ \/ pmPc' = "idle" /\ pmAnswer' \in {"lost", "notStored", "read"}
           \/ pmPc' = "address" /\ UNCHANGED pmAnswer
    BY <1>6 DEF ReadBlock, ReadBlockFails, Failed, Done
  <2>. QED BY <2>1, FilterStays DEF filters
<1>7. ASSUME OtherMovesPointer  PROVE FilterInv'
  <2>1. UNCHANGED filters /\ pmPc = "block" /\ pmPc' = "block" /\ pmAnswer' = pmAnswer
    BY <1>7 DEF OtherMovesPointer, service
  <2>. QED BY <2>1, FilterStays DEF filters
<1> QED  BY <1>1, <1>2, <1>3, <1>4, <1>5, <1>6, <1>7

\* Every step of the program keeps the invariant of the filter.
LEMMA BoardDataFilterInv ==
  ASSUME FilterInv, [NextBoardData]_boardDataVars
  PROVE  FilterInv'
<1>1. CASE Reading
  BY <1>1, FilterInvSame DEF Reading, pmVars, service, filters, filterVars
<1>2. CASE StartPmHistograms
  <2>1. UNCHANGED <<filters, pmAnswer>> /\ pmPc = "absent" /\ pmPc' = "idle"
    BY <1>2 DEF StartPmHistograms, PmHistograms
  <2> QED  BY <2>1, FilterStays DEF filters
<1>3. CASE PmStep
  <2>1. ASSUME NEW k \in PmClients, OtherUsesFilter(k) \/ OtherStoresFilter(k)  PROVE FilterInv'
    BY <2>1, OtherUses, OtherStoresIt
  <2>2. ASSUME NEW w \in BcIds \cup {"OFF"}, setBcIdFilter(w)  PROVE FilterInv'
    BY <2>2, RequestFilter
  <2> QED  BY <1>3, <2>1, <2>2, WriteFilter, StoreFilter, OtherStepsKeepFilter DEF PmStep, NextPm
<1>4. CASE TcmStep
  BY <1>4, FilterInvSame DEF TcmStep, pmVars, service, filters, filterVars
<1>5. CASE Following
  BY <1>5, FilterInvSame DEF Following, pmVars, service, filters, filterVars
<1>6. CASE ToolStep
  BY <1>6, FilterInvSame DEF ToolStep, pmVars, service, filters, filterVars
<1>7. CASE UNCHANGED boardDataVars
  BY <1>7, FilterInvSame DEF boardDataVars, pmVars, service, filters, filterVars
<1> QED  BY <1>1, <1>2, <1>3, <1>4, <1>5, <1>6, <1>7 DEF NextBoardData

LEMMA InitFilterInv == InitPm => FilterInv
<1> SUFFICES ASSUME InitPm  PROVE FilterInv
  OBVIOUS
<1>1. /\ wanted = "OFF" /\ alreadySet = FALSE /\ pmPc = "absent" /\ pmAnswer = "none"
      /\ stored = [on |-> "unknown", bcid |-> "unknown"] /\ doubt = {} /\ unsure = {}
      /\ answers = [k \in PmClients |-> Nothing] /\ filter \in Filters
  BY DEF InitPm, Filters
<1>2. Nothing \in [{} -> {"0", "1"} \cup BcIds] /\ {} \in SUBSET Fields /\ DOMAIN Nothing = {}
  BY DEF Nothing
<1>3. /\ answers \in [PmClients -> UNION {[fs -> {"0", "1"} \cup BcIds] : fs \in SUBSET Fields}]
      /\ \A k \in PmClients : DOMAIN answers[k] = {}
  BY <1>1, <1>2
<1>4. FilterTypes
  BY <1>1, <1>3 DEF FilterTypes
<1>5. FieldInv("on") /\ FieldInv("bcid")
  BY <1>1, <1>3 DEF FieldInv, OwnWaits
<1>6. RequestInv
  BY <1>1 DEF RequestInv
<1> QED  BY <1>4, <1>5, <1>6 DEF FilterInv

\* For any crossings and any other services of the board, which may write or read the filter at
\* any time and store late what they were told, and whatever sequences fail: what is stored of
\* the filter is true when nobody has a reason to doubt it, and the answers to BCID_FILTER are
\* true of the fields that were written, or found stored without doubt, and are nobody else's
\* since (PmHistograms.cpp:77, 88, Parameters.cpp:16).
THEOREM FilterAnswersAlwaysTrue == BoardDataSpec => []FilterAnswersAreTrue
<1>1. InitBoardData => FilterInv
  BY InitFilterInv DEF InitBoardData
<1>2. FilterInv /\ [NextBoardData]_boardDataVars => FilterInv'
  BY BoardDataFilterInv
<1>3. FilterInv => FilterAnswersAreTrue
  <2> SUFFICES ASSUME FilterInv  PROVE FilterAnswersAreTrue
    OBVIOUS
  <2>1. StoredFilterIsTrue
    BY DEF StoredFilterIsTrue, FilterInv, FieldInv, Fields
  <2>2. FilteredIsTrue
    BY DEF FilteredIsTrue, FilterInv, RequestInv, Has, Own
  <2> QED  BY <2>1, <2>2 DEF FilterAnswersAreTrue
<1> QED  BY <1>1, <1>2, <1>3, PTL DEF BoardDataSpec
-------------------------------------------------------------------------------
(* Loops *)

\* The passes of a loop over states of S, and what it goes through from its state at first.
Passes(S, n) == [1 .. n -> [S -> S]]
Runs(S, b, n, G) == {f \in [0 .. n -> S] : f[0] = b /\ \A k \in 1 .. n : f[k] = G[k][f[k - 1]]}

\* A loop of n passes over states of S is a recursive function.
LEMMA Iteration ==
  ASSUME NEW S, NEW b \in S, NEW n \in Nat, NEW G \in Passes(S, n)
  PROVE  \E f : f \in Runs(S, b, n, G)
<1>. USE DEF Passes
<1>. DEFINE Loop(f, l) == f = [k \in 0 .. l |-> IF k = 0 THEN b ELSE G[k][f[k - 1]]]
            T == {l \in Nat : l <= n => \E f \in [0 .. l -> S] : Loop(f, l)}
<1>1. 0 \in T
  <2>. DEFINE f == [k \in 0 .. 0 |-> b]
  <2>1. f \in [0 .. 0 -> S] /\ Loop(f, 0)
    OBVIOUS
  <2>. QED BY <2>1
<1>2. ASSUME NEW l \in Nat, l \in T PROVE l + 1 \in T
  <2>. HIDE DEF Loop
  <2>. SUFFICES ASSUME l + 1 <= n PROVE \E f \in [0 .. l + 1 -> S] : Loop(f, l + 1)
    OBVIOUS
  <2>1. PICK f \in [0 .. l -> S] : Loop(f, l)
    BY <1>2
  <2>2. \A k \in 0 .. l : f[k] = IF k = 0 THEN b ELSE G[k][f[k - 1]]
    BY <2>1 DEF Loop
  <2>3. f[l] \in S /\ G[l + 1] \in [S -> S]
    BY <2>1
  <2>. DEFINE last == G[l + 1][f[l]]
              g == [k \in 0 .. l + 1 |-> IF k <= l THEN f[k] ELSE last]
  <2>4. last \in S
    BY <2>3
  <2>. HIDE DEF last
  <2>5. /\ \A k \in 0 .. l : g[k] = f[k]
        /\ g[l + 1] = last /\ g \in [0 .. l + 1 -> S]
    BY <2>1, <2>4
  <2>6. ASSUME NEW k \in 0 .. l + 1 PROVE g[k] = IF k = 0 THEN b ELSE G[k][g[k - 1]]
    <3>. HIDE DEF g, T
    <3>1. CASE k = 0
      BY <2>2, <2>5, <3>1
    <3>2. CASE k \in 1 .. l
      BY <2>2, <2>5, <3>2
    <3>3. CASE k = l + 1
      BY <2>5, <3>3 DEF last
    <3>. QED BY <3>1, <3>2, <3>3
  <2>7. Loop(g, l + 1)
    BY <2>6 DEF Loop
  <2>. HIDE DEF g
  <2>. QED BY <2>5, <2>7
<1>3. n \in T
  <2>. HIDE DEF T
  <2>. QED BY <1>1, <1>2, Induction
<1>4. PICK f \in [0 .. n -> S] : Loop(f, n)
  <2>. HIDE DEF Loop
  <2>. QED BY <1>3
<1>5. \A k \in 0 .. n : f[k] = IF k = 0 THEN b ELSE G[k][f[k - 1]]
  BY <1>4
<1>. HIDE DEF Loop, T
<1>. QED BY <1>5 DEF Runs

\* The words that come from a FIFO, in packets of any size, are those from its pointer on.
LEMMA FifoBlock ==
  ASSUME NEW p \in Nat, NEW size \in Nat, NEW t \in Nat
  PROVE  FifoAnswer(p, Packets(0, FALSE, size), t) = WordsFrom(p, size, t)
<1>. DEFINE full == size \div MaxBlock
            rest == size % MaxBlock
            packets == Packets(0, FALSE, size)
<1>1. full \in Nat /\ rest \in Nat /\ size = full * MaxBlock + rest /\ MaxBlock \in Nat \ {0}
  BY BlockReadAssumption
<1>. HIDE DEF full, rest
<1>2. /\ DOMAIN packets = 1 .. full + 1 /\ Len(packets) = full + 1
      /\ \A k \in 1 .. full + 1 : packets[k].size = IF k <= full THEN MaxBlock ELSE rest
  BY <1>1 DEF Packets, full, rest
<1>. HIDE DEF packets
<1>. DEFINE Sum(f) == f = [k \in 0 .. Len(packets) |-> IF k = 0 THEN 0 ELSE f[k - 1] + packets[k].size]
            asked == CHOOSE f : Sum(f)
<1>3. \E f : Sum(f)
  <2>1. PICK n \in Nat : n = full + 1
    BY <1>1
  <2>2. PICK G : G = [k \in 1 .. n |-> [x \in Nat |-> x + packets[k].size]]
    OBVIOUS
  <2>3. G \in Passes(Nat, n)
    <3>1. ASSUME NEW k \in 1 .. n PROVE G[k] \in [Nat -> Nat]
      <4>1. PICK m \in Nat : m = packets[k].size
        BY <1>1, <1>2, <2>1
      <4>2. G[k] = [x \in Nat |-> x + m]
        BY <2>2, <4>1
      <4>. QED BY <4>2
    <3>. QED BY <2>2, <3>1 DEF Passes
  <2>4. PICK f : f \in Runs(Nat, 0, n, G)
    BY <2>3, Iteration
  <2>5. f \in [0 .. n -> Nat] /\ f[0] = 0 /\ \A k \in 1 .. n : f[k] = G[k][f[k - 1]]
    BY <2>4 DEF Runs
  <2>6. ASSUME NEW k \in 0 .. n PROVE f[k] = IF k = 0 THEN 0 ELSE f[k - 1] + packets[k].size
    <3>1. CASE k = 0
      BY <2>5, <3>1
    <3>2. CASE k # 0
      <4>1. k \in 1 .. n /\ k - 1 \in 0 .. n
        BY <3>2
      <4>2. f[k] = G[k][f[k - 1]] /\ f[k - 1] \in Nat
        BY <2>5, <3>2, <4>1
      <4>. QED BY <2>2, <3>2, <4>1, <4>2
    <3>. QED BY <3>1, <3>2
  <2>7. f = [k \in 0 .. n |-> IF k = 0 THEN 0 ELSE f[k - 1] + packets[k].size]
    BY <2>5, <2>6
  <2>. QED BY <1>2, <2>1, <2>7
<1>4. Sum(asked)
  <2>. HIDE DEF Sum
  <2>. QED BY <1>3
<1>5. FifoAnswer(p, packets, t) = [i \in 1 .. asked[Len(packets)] |-> Word(p + i - 1, t)]
  BY DEF FifoAnswer
<1>. HIDE DEF asked
<1>6. \A k \in 0 .. full + 1 : asked[k] = IF k = 0 THEN 0 ELSE asked[k - 1] + packets[k].size
  BY <1>2, <1>4
<1>. HIDE DEF Sum
<1>. DEFINE T == {k \in Nat : k <= full => asked[k] = k * MaxBlock}
<1>7. 0 \in T
  BY <1>1, <1>6
<1>8. ASSUME NEW k \in Nat, k \in T PROVE k + 1 \in T
  <2>. SUFFICES ASSUME k + 1 <= full PROVE asked[k + 1] = (k + 1) * MaxBlock
    OBVIOUS
  <2>1. asked[k] = k * MaxBlock
    BY <1>1, <1>8
  <2>2. asked[k + 1] = asked[k] + MaxBlock
    BY <1>1, <1>2, <1>6
  <2>3. k * MaxBlock + MaxBlock = (k + 1) * MaxBlock
    BY <1>1
  <2>. QED BY <2>1, <2>2, <2>3
<1>9. asked[full] = full * MaxBlock
  <2>1. full \in T
    <3>. HIDE DEF T
    <3>. QED BY <1>1, <1>7, <1>8, Induction
  <2>. QED BY <1>1, <2>1
<1>10. asked[full + 1] = asked[full] + rest
  BY <1>1, <1>2, <1>6
<1>11. asked[Len(packets)] = size
  BY <1>1, <1>2, <1>9, <1>10
<1>. QED BY <1>5, <1>11 DEF WordsFrom, packets
-------------------------------------------------------------------------------
(* What is read for a selection *)

OperationType == [at : Nat, size : Nat]

\* An operation reads all of a register block; a block has an address.
InOp(r, o) == o.at <= r.at /\ r.at + r.size <= o.at + o.size
Holds(r, a) == r.at <= a /\ a < r.at + r.size

\* The operations for the first n blocks: each one that is selected is read by one of them,
\* and they read nothing else, from the beginning of a block on.
OperationsFor(ops, names, n) ==
  /\ ops \in Seq(OperationType)
  /\ \A m \in 1 .. n : Register(m).name \in names => \E j \in DOMAIN ops : InOp(Register(m), ops[j])
  /\ \A j \in DOMAIN ops :
       /\ \E m \in 1 .. n : /\ Register(m).name \in names /\ InOp(Register(m), ops[j])
                            /\ ops[j].at = Register(m).at
       /\ \A a \in ops[j].at .. ops[j].at + ops[j].size - 1 : \E m \in 1 .. n :
            Register(m).name \in names /\ InOp(Register(m), ops[j]) /\ Holds(Register(m), a)

LEMMA RegisterType ==
  ASSUME blocks \in Seq(HistogramRows), NEW k \in 1 .. Channels * Len(blocks)
  PROVE  Register(k).at \in Nat /\ Register(k).size \in Nat
<1>. DEFINE N == Len(blocks)
            i == ((k - 1) % N) + 1
            c == (k - 1) \div N
<1>1. N \in Nat /\ Channels \in Nat \ {0} /\ ChannelSize \in Nat \ {0}
  BY PmHistogramsAssumption
<1>2. N # 0
  <2>1. Channels * 0 = 0
    BY <1>1
  <2>. QED BY <2>1
<1>3. i \in 1 .. N /\ c \in Nat
  <2>1. PICK d \in Nat \ {0} : d = N
    BY <1>1, <1>2
  <2>2. PICK x \in Nat : x = k - 1
    BY <1>1
  <2>3. x % d \in 0 .. d - 1 /\ x \div d \in Nat
    OBVIOUS
  <2>. QED BY <2>1, <2>2, <2>3
<1>4. blocks[i] \in HistogramRows
  BY <1>1, <1>3
<1>. HIDE DEF i, c
<1>5. blocks[i].base \in Nat /\ blocks[i].size \in Nat /\ c * ChannelSize \in Nat
  <2>1. blocks[i].base \in Nat /\ blocks[i].size \in Nat
    BY <1>4 DEF HistogramRows
  <2>2. c * ChannelSize \in Nat
    BY <1>1, <1>3
  <2>. QED BY <2>1, <2>2
<1>6. Register(k) = [name |-> blocks[i].name, at |-> c * ChannelSize + blocks[i].base, size |-> blocks[i].size]
  BY DEF Register, i, c
<1>. QED BY <1>5, <1>6

\* One block more: the last operation is extended, or a new one begins.
Extends(e, ops, r) ==
  /\ e \in Seq(OperationType)
  /\ \A j \in DOMAIN ops : j \in DOMAIN e /\ e[j].at = ops[j].at /\ ops[j].size <= e[j].size
  /\ \E j \in DOMAIN e : InOp(r, e[j])
  /\ \A j \in DOMAIN e :
       \/ j \in DOMAIN ops /\ e[j] = ops[j]
       \/ /\ j \in DOMAIN ops /\ e[j].at = ops[j].at /\ e[j].size = ops[j].size + r.size
          /\ r.at = ops[j].at + ops[j].size
       \/ e[j].at = r.at /\ e[j].size = r.size

LEMMA ExtendOperations ==
  ASSUME NEW ops \in Seq(OperationType), NEW r, r.at \in Nat, r.size \in Nat
  PROVE  Extends(Extend(ops, r), ops, r)
<1>. DEFINE e == Extend(ops, r)
            L == Len(ops)
<1>1. L \in Nat /\ DOMAIN ops = 1 .. L
  OBVIOUS
<1>2. CASE ops # <<>> /\ r.at = Last(ops).at + Last(ops).size
  <2>1. L \in 1 .. L /\ Last(ops) = ops[L]
    BY <1>2 DEF Last
  <2>2. PICK o \in OperationType : o = ops[L]
    BY <2>1
  <2>3. e = [ops EXCEPT ![L].size = @ + r.size]
    BY <1>2 DEF Extend
  <2>. HIDE DEF e
  <2>4. PICK x : x = [at |-> o.at, size |-> o.size + r.size]
    OBVIOUS
  <2>5. x \in OperationType
    BY <2>4 DEF OperationType
  <2>6. [ops[L] EXCEPT !.size = @ + r.size] = x
    BY <2>2, <2>4 DEF OperationType
  <2>7. e = [ops EXCEPT ![L] = x]
    BY <2>3, <2>6
  <2>. HIDE DEF L
  <2>8. e \in Seq(OperationType) /\ DOMAIN e = 1 .. L
    BY <1>1, <2>1, <2>5, <2>7
  <2>9. e[L] = x /\ \A j \in 1 .. L : j # L => e[j] = ops[j]
    BY <1>1, <2>1, <2>7
  <2>10. InOp(r, e[L])
    BY <1>2, <2>1, <2>2, <2>4, <2>9 DEF InOp, OperationType
  <2>11. ASSUME NEW j \in 1 .. L
         PROVE  /\ e[j].at = ops[j].at /\ ops[j].size <= e[j].size
                /\ \/ e[j] = ops[j]
                   \/ e[j].size = ops[j].size + r.size /\ r.at = ops[j].at + ops[j].size
    <3>1. CASE j = L
      BY <1>2, <2>1, <2>2, <2>4, <2>9, <3>1, SMTT(30) DEF OperationType
    <3>2. CASE j # L
      <4>1. ops[j] \in OperationType
        BY <1>1
      <4>. QED BY <2>9, <3>2, <4>1 DEF OperationType
    <3>. QED BY <3>1, <3>2
  <2>. QED BY <1>1, <2>1, <2>8, <2>10, <2>11 DEF e, Extends
<1>3. CASE ~(ops # <<>> /\ r.at = Last(ops).at + Last(ops).size)
  <2>1. PICK x : x = [at |-> r.at, size |-> r.size]
    OBVIOUS
  <2>2. x \in OperationType
    BY <2>1 DEF OperationType
  <2>3. e = Append(ops, x)
    BY <1>3, <2>1 DEF Extend
  <2>. HIDE DEF e
  <2>4. /\ e \in Seq(OperationType) /\ Len(e) = L + 1 /\ e[L + 1] = x
        /\ \A j \in 1 .. L : e[j] = ops[j]
    BY <2>2, <2>3, AppendProperties
  <2>5. DOMAIN e = 1 .. L + 1
    BY <2>4
  <2>6. InOp(r, e[L + 1])
    BY <2>1, <2>4 DEF InOp
  <2>7. \A j \in 1 .. L : ops[j].size <= e[j].size
    <3>1. \A j \in 1 .. L : ops[j] \in OperationType
      BY <1>1
    <3>2. \A j \in 1 .. L : ops[j].size \in Nat
      BY <3>1 DEF OperationType
    <3>. QED BY <2>4, <3>2
  <2>8. ASSUME NEW j \in 1 .. L + 1, j \notin 1 .. L PROVE e[j].at = r.at /\ e[j].size = r.size
    <3>1. j = L + 1
      BY <1>1, <2>8
    <3>. QED BY <2>1, <2>4, <3>1
  <2>9. L + 1 \in DOMAIN e /\ \A j \in DOMAIN ops : j \in DOMAIN e
    BY <1>1, <2>5
  <2>. HIDE DEF L
  <2>. QED BY <1>1, <2>4, <2>5, <2>6, <2>7, <2>8, <2>9 DEF e, Extends
<1>. QED BY <1>2, <1>3

\* Operations for one block more.
LEMMA NextOperation ==
  ASSUME blocks \in Seq(HistogramRows), NEW names, NEW n \in Nat, n + 1 <= Channels * Len(blocks),
         NEW ops, OperationsFor(ops, names, n)
  PROVE  OperationsFor(IF Register(n + 1).name \in names THEN Extend(ops, Register(n + 1)) ELSE ops,
                       names, n + 1)
<1>1. PICK r : r = Register(n + 1)
  OBVIOUS
<1>2. r.at \in Nat /\ r.size \in Nat
  <2>1. Channels * Len(blocks) \in Nat
    BY PmHistogramsAssumption
  <2>2. n + 1 \in 1 .. Channels * Len(blocks)
    BY <2>1
  <2>. QED BY <1>1, <2>2, RegisterType
<1>3. n + 1 \in 1 .. n + 1 /\ \A m \in 1 .. n : m \in 1 .. n + 1
  OBVIOUS
<1>4. \A m \in 1 .. n + 1 : m \in 1 .. n \/ m = n + 1
  OBVIOUS
<1>5. ops \in Seq(OperationType) /\ \A j \in DOMAIN ops : ops[j].at \in Nat /\ ops[j].size \in Nat
  <2>1. ops \in Seq(OperationType)
    BY DEF OperationsFor
  <2>2. \A j \in DOMAIN ops : ops[j] \in OperationType
    BY <2>1
  <2>. QED BY <2>1, <2>2 DEF OperationType
<1>6. CASE r.name \notin names
  <2>1. OperationsFor(ops, names, n + 1)
    BY <1>1, <1>3, <1>4, <1>6 DEF OperationsFor
  <2>. QED BY <1>1, <1>6, <2>1
<1>7. CASE r.name \in names
  <2>1. PICK e : e = Extend(ops, r)
    OBVIOUS
  <2>2. /\ e \in Seq(OperationType)
        /\ \A j \in DOMAIN ops : j \in DOMAIN e /\ e[j].at = ops[j].at /\ ops[j].size <= e[j].size
        /\ \E j \in DOMAIN e : InOp(r, e[j])
        /\ \A j \in DOMAIN e :
             \/ j \in DOMAIN ops /\ e[j] = ops[j]
             \/ /\ j \in DOMAIN ops /\ e[j].at = ops[j].at /\ e[j].size = ops[j].size + r.size
                /\ r.at = ops[j].at + ops[j].size
             \/ e[j].at = r.at /\ e[j].size = r.size
    <3>1. Extends(e, ops, r)
      BY <1>2, <1>5, <2>1, ExtendOperations
    <3>. QED BY <3>1 DEF Extends
  <2>3. \A j \in DOMAIN e : e[j].at \in Nat /\ e[j].size \in Nat
    <3>1. \A j \in DOMAIN e : e[j] \in OperationType
      BY <2>2
    <3>. QED BY <3>1 DEF OperationType
  <2>4. ASSUME NEW m \in 1 .. n, NEW j \in DOMAIN ops, InOp(Register(m), ops[j])
        PROVE  j \in DOMAIN e /\ InOp(Register(m), e[j])
    <3>1. Register(m).at \in Nat /\ Register(m).size \in Nat
      <4>1. Channels * Len(blocks) \in Nat
        BY PmHistogramsAssumption
      <4>2. m \in 1 .. Channels * Len(blocks)
        BY <4>1
      <4>. QED BY <4>2, RegisterType
    <3>2. /\ j \in DOMAIN e /\ e[j].at = ops[j].at /\ ops[j].size <= e[j].size
          /\ ops[j].at \in Nat /\ ops[j].size \in Nat /\ e[j].size \in Nat
      BY <1>5, <2>2, <2>3
    <3>3. Register(m).at + Register(m).size <= ops[j].at + ops[j].size /\ ops[j].at <= Register(m).at
      BY <2>4 DEF InOp
    <3>. QED BY <3>1, <3>2, <3>3 DEF InOp
  <2>5. ASSUME NEW m \in 1 .. n + 1, Register(m).name \in names
        PROVE  \E j \in DOMAIN e : InOp(Register(m), e[j])
    <3>1. CASE m = n + 1
      BY <1>1, <2>2, <3>1
    <3>2. CASE m \in 1 .. n
      <4>1. PICK j \in DOMAIN ops : InOp(Register(m), ops[j])
        BY <2>5, <3>2 DEF OperationsFor
      <4>. QED BY <2>4, <3>2, <4>1
    <3>. QED BY <1>4, <3>1, <3>2
  <2>6. ASSUME NEW j \in DOMAIN e
        PROVE  /\ \E m \in 1 .. n + 1 : /\ Register(m).name \in names /\ InOp(Register(m), e[j])
                                        /\ e[j].at = Register(m).at
               /\ \A a \in e[j].at .. e[j].at + e[j].size - 1 : \E m \in 1 .. n + 1 :
                    Register(m).name \in names /\ InOp(Register(m), e[j]) /\ Holds(Register(m), a)
    <3>1. CASE e[j].at = r.at /\ e[j].size = r.size
      <4>1. InOp(r, e[j])
        BY <1>2, <3>1 DEF InOp
      <4>2. \A a \in e[j].at .. e[j].at + e[j].size - 1 : Holds(r, a)
        BY <1>2, <3>1 DEF Holds
      <4>. QED BY <1>1, <1>3, <1>7, <3>1, <4>1, <4>2
    <3>2. CASE j \in DOMAIN ops /\ e[j].at = ops[j].at /\ ~(e[j].at = r.at /\ e[j].size = r.size)
      <4>1. PICK m \in 1 .. n : /\ Register(m).name \in names /\ InOp(Register(m), ops[j])
                                /\ ops[j].at = Register(m).at
        BY <3>2 DEF OperationsFor
      <4>2. InOp(Register(m), e[j]) /\ e[j].at = Register(m).at /\ m \in 1 .. n + 1
        BY <1>3, <2>4, <3>2, <4>1
      <4>3. ASSUME NEW a \in e[j].at .. e[j].at + e[j].size - 1
            PROVE  \E k \in 1 .. n + 1 :
                     Register(k).name \in names /\ InOp(Register(k), e[j]) /\ Holds(Register(k), a)
        <5>1. CASE a \in ops[j].at .. ops[j].at + ops[j].size - 1
          <6>1. PICK k \in 1 .. n :
                  Register(k).name \in names /\ InOp(Register(k), ops[j]) /\ Holds(Register(k), a)
            BY <3>2, <5>1 DEF OperationsFor
          <6>. QED BY <1>3, <2>4, <3>2, <6>1
        <5>2. CASE a \notin ops[j].at .. ops[j].at + ops[j].size - 1
          <6>1. /\ e[j].size = ops[j].size + r.size /\ r.at = ops[j].at + ops[j].size
                /\ ops[j].at \in Nat /\ ops[j].size \in Nat
            <7>1. ~(e[j] = ops[j])
              BY <5>2
            <7>2. ops[j].at \in Nat /\ ops[j].size \in Nat
              BY <1>5, <3>2
            <7>. QED BY <2>2, <3>2, <7>1, <7>2
          <6>2. Holds(r, a) /\ InOp(r, e[j])
            BY <1>2, <3>2, <5>2, <6>1, SMTT(30) DEF Holds, InOp
          <6>. QED BY <1>1, <1>3, <1>7, <6>2
        <5>. QED BY <5>1, <5>2
      <4>. QED BY <4>1, <4>2, <4>3
    <3>. QED BY <2>2, <3>1, <3>2
  <2>7. OperationsFor(e, names, n + 1)
    BY <2>2, <2>5, <2>6 DEF OperationsFor
  <2>. QED BY <1>1, <1>7, <2>1, <2>7
<1>. QED BY <1>6, <1>7
-------------------------------------------------------------------------------

\* The operations for a selection are those for all blocks of all channels.
LEMMA AllOperations ==
  ASSUME blocks \in Seq(HistogramRows), NEW names
  PROVE  OperationsFor(updateOperations(names), names, Channels * Len(blocks))
<1>1. PICK n \in Nat : n = Channels * Len(blocks)
  <2>1. Channels \in Nat /\ Len(blocks) \in Nat
    BY PmHistogramsAssumption
  <2>. QED BY <2>1
<1>. DEFINE Pass(x, k) == IF Register(k).name \in names THEN Extend(x, Register(k)) ELSE x
            S == Seq(OperationType)
            Ops(f) == f = [k \in 0 .. Channels * Len(blocks) |-> IF k = 0 THEN <<>>
                             ELSE IF Register(k).name \in names THEN Extend(f[k - 1], Register(k)) ELSE f[k - 1]]
            ops == CHOOSE f : Ops(f)
<1>2. ASSUME NEW x \in S, NEW k \in 1 .. n PROVE Pass(x, k) \in S
  <2>1. PICK r : r = Register(k)
    OBVIOUS
  <2>2. r.at \in Nat /\ r.size \in Nat
    BY <1>1, <2>1, RegisterType
  <2>3. Extends(Extend(x, r), x, r)
    BY <2>2, ExtendOperations
  <2>. QED BY <2>1, <2>3 DEF Extends
<1>3. \E f : Ops(f)
  <2>1. PICK G : G = [k \in 1 .. n |-> [x \in S |-> Pass(x, k)]]
    OBVIOUS
  <2>. HIDE DEF Pass, S
  <2>2. G \in Passes(S, n)
    <3>1. \A k \in 1 .. n : G[k] \in [S -> S]
      BY <1>2, <2>1
    <3>. QED BY <2>1, <3>1 DEF Passes
  <2>3. <<>> \in S
    BY DEF S
  <2>4. PICK f : f \in Runs(S, <<>>, n, G)
    BY <2>2, <2>3, Iteration
  <2>5. f \in [0 .. n -> S] /\ f[0] = <<>> /\ \A k \in 1 .. n : f[k] = G[k][f[k - 1]]
    BY <2>4 DEF Runs
  <2>6. ASSUME NEW k \in 0 .. n PROVE f[k] = IF k = 0 THEN <<>> ELSE Pass(f[k - 1], k)
    <3>1. CASE k = 0
      BY <2>5, <3>1
    <3>2. CASE k # 0
      <4>1. k \in 1 .. n /\ k - 1 \in 0 .. n
        BY <3>2
      <4>2. f[k] = G[k][f[k - 1]] /\ f[k - 1] \in S
        BY <2>5, <3>2, <4>1
      <4>. QED BY <2>1, <3>2, <4>1, <4>2
    <3>. QED BY <3>1, <3>2
  <2>7. f = [k \in 0 .. n |-> IF k = 0 THEN <<>> ELSE Pass(f[k - 1], k)]
    BY <2>5, <2>6
  <2>8. Ops(f)
    BY <1>1, <2>7 DEF Pass
  <2>. HIDE DEF Ops
  <2>. QED BY <2>8
<1>4. Ops(ops)
  <2>. HIDE DEF Ops
  <2>. QED BY <1>3
<1>5. updateOperations(names) = ops[n]
  BY <1>1 DEF updateOperations
<1>. HIDE DEF ops
<1>6. ops[0] = <<>>
  BY <1>1, <1>4
<1>7. ASSUME NEW k \in 1 .. n PROVE ops[k] = Pass(ops[k - 1], k)
  BY <1>1, <1>4
<1>. HIDE DEF Ops
<1>. DEFINE T == {k \in Nat : k <= n => OperationsFor(ops[k], names, k)}
<1>8. 0 \in T
  <2>1. OperationsFor(<<>>, names, 0)
    BY DEF OperationsFor
  <2>. QED BY <1>6, <2>1
<1>9. ASSUME NEW k \in Nat, k \in T PROVE k + 1 \in T
  <2>. SUFFICES ASSUME k + 1 <= n PROVE OperationsFor(ops[k + 1], names, k + 1)
    OBVIOUS
  <2>1. PICK o, p : o = ops[k] /\ p = ops[k + 1]
    OBVIOUS
  <2>2. OperationsFor(o, names, k)
    BY <1>9, <2>1
  <2>. HIDE DEF T
  <2>3. p = Pass(o, k + 1)
    <3>1. k + 1 \in 1 .. n /\ k + 1 - 1 = k
      OBVIOUS
    <3>2. ops[k + 1] = Pass(ops[k + 1 - 1], k + 1)
      BY <1>7, <3>1
    <3>. QED BY <2>1, <3>1, <3>2
  <2>4. OperationsFor(p, names, k + 1)
    BY <1>1, <2>2, <2>3, NextOperation DEF Pass
  <2>. QED BY <2>1, <2>4
<1>. HIDE DEF T
<1>10. n \in T
  BY <1>8, <1>9, Induction
<1>11. OperationsFor(ops[n], names, n)
  BY <1>10 DEF T
<1>. QED BY <1>1, <1>5, <1>11

\* Where block i of channel c is in the FIFO.
Place(c, i) == (c - 1) * ChannelSize + blocks[i].base

Entry(c, i) == [name |-> blocks[i].name, at |-> Place(c, i), size |-> blocks[i].size]

\* The blocks of the channels, one channel after the other.
LEMMA RegisterPlaces ==
  ASSUME blocks \in Seq(HistogramRows)
  PROVE  /\ \A c \in 1 .. Channels : \A i \in DOMAIN blocks : \E m \in 1 .. Channels * Len(blocks) :
              Register(m) = Entry(c, i)
         /\ \A m \in 1 .. Channels * Len(blocks) : \E c \in 1 .. Channels : \E i \in DOMAIN blocks :
              Register(m) = Entry(c, i)
<1>1. PICK N \in Nat, C \in Nat \ {0} : N = Len(blocks) /\ C = Channels
  BY PmHistogramsAssumption
<1>2. DOMAIN blocks = 1 .. N /\ C * N \in Nat
  BY <1>1
<1>3. ASSUME NEW c \in 1 .. C, NEW i \in 1 .. N
      PROVE  \E m \in 1 .. C * N :
               Register(m) = Entry(c, i)
  <2>1. PICK x \in Nat, y \in Nat : x = c - 1 /\ y = i - 1 /\ x + 1 <= C /\ y + 1 <= N
    OBVIOUS
  <2>2. x * N \in Nat /\ x * N + i \in 1 .. C * N
    <3>1. x * N \in Nat
      OBVIOUS
    <3>2. x * N + N <= C * N
      <4>1. (x + 1) * N <= C * N
        BY <2>1
      <4>2. (x + 1) * N = x * N + N
        OBVIOUS
      <4>. QED BY <4>1, <4>2
    <3>. QED BY <1>2, <3>1, <3>2
  <2>3. PICK m \in Nat : m = x * N + i /\ m - 1 = x * N + y
    BY <2>1, <2>2
  <2>4. (m - 1) \div N = x /\ (m - 1) % N = y
    <3>1. N \in Nat \ {0} /\ y \in 0 .. N - 1
      BY <2>1
    <3>. QED BY <2>3, <3>1
  <2>5. y + 1 = i /\ x = c - 1
    BY <2>1
  <2>6. Register(m) = Entry(c, i)
    BY <1>1, <2>4, <2>5 DEF Register, Place, Entry
  <2>. QED BY <2>2, <2>3, <2>6
<1>4. ASSUME NEW m \in 1 .. C * N
      PROVE  \E c \in 1 .. C : \E i \in 1 .. N :
               Register(m) = Entry(c, i)
  <2>1. PICK p \in Nat : p = m - 1 /\ p + 1 <= C * N
    BY <1>2
  <2>2. N # 0
    <3>1. C * 0 = 0
      OBVIOUS
    <3>. QED BY <2>1, <3>1
  <2>3. PICK x \in Nat, y \in Nat : x = p \div N /\ y = p % N /\ y + 1 <= N /\ p = x * N + y
    <3>1. N \in Nat \ {0}
      BY <2>2
    <3>2. p \div N \in Nat /\ p % N \in Nat /\ (p % N) + 1 <= N /\ p = (p \div N) * N + (p % N)
      BY <3>1
    <3>. QED BY <3>2
  <2>4. x + 1 <= C
    <3>1. SUFFICES ASSUME C <= x PROVE FALSE
      OBVIOUS
    <3>2. C * N <= x * N
      BY <3>1
    <3>3. x * N \in Nat
      OBVIOUS
    <3>. QED BY <1>2, <2>1, <2>3, <3>2, <3>3
  <2>5. x + 1 \in 1 .. C /\ y + 1 \in 1 .. N /\ (x + 1) - 1 = x
    BY <2>3, <2>4
  <2>6. Register(m) = Entry(x + 1, y + 1)
    BY <1>1, <2>1, <2>3, <2>5 DEF Register, Place, Entry
  <2>. QED BY <2>5, <2>6
<1>5. 1 .. C = 1 .. Channels /\ 1 .. N = DOMAIN blocks /\ 1 .. C * N = 1 .. Channels * Len(blocks)
  BY <1>1, <1>2
<1>6. \A c \in 1 .. C : \A i \in 1 .. N : \E m \in 1 .. C * N :
        Register(m) = Entry(c, i)
  BY <1>3
<1>7. \A m \in 1 .. C * N : \E c \in 1 .. C : \E i \in 1 .. N :
        Register(m) = Entry(c, i)
  BY <1>4
<1>8. ASSUME NEW c \in 1 .. Channels, NEW i \in DOMAIN blocks
      PROVE  \E m \in 1 .. Channels * Len(blocks) : Register(m) = Entry(c, i)
  <2>1. PICK m \in 1 .. C * N : Register(m) = Entry(c, i)
    BY <1>5, <1>6
  <2>. QED BY <1>5, <2>1
<1>9. ASSUME NEW m \in 1 .. Channels * Len(blocks)
      PROVE  \E c \in 1 .. Channels : \E i \in DOMAIN blocks : Register(m) = Entry(c, i)
  <2>1. PICK c \in 1 .. C, i \in 1 .. N : Register(m) = Entry(c, i)
    BY <1>5, <1>7
  <2>. QED BY <1>5, <2>1
<1>. QED BY <1>8, <1>9

\* Block i of channel c is all inside of an operation.
Inside(c, i, o) == o.at <= Place(c, i) /\ Place(c, i) + blocks[i].size <= o.at + o.size

\* The operations read every selected block, and nothing but blocks, each begins with one.
OperationsOf(ops, names) ==
  /\ ops \in Seq(OperationType)
  /\ \A c \in 1 .. Channels : \A i \in DOMAIN blocks :
       blocks[i].name \in names => \E j \in DOMAIN ops : Inside(c, i, ops[j])
  /\ \A j \in DOMAIN ops : \E c \in 1 .. Channels : \E i \in DOMAIN blocks :
       Inside(c, i, ops[j]) /\ ops[j].at = Place(c, i)
  /\ \A j \in DOMAIN ops : \A a \in ops[j].at .. ops[j].at + ops[j].size - 1 :
       \E c \in 1 .. Channels : \E i \in DOMAIN blocks :
         Inside(c, i, ops[j]) /\ Place(c, i) <= a /\ a < Place(c, i) + blocks[i].size

LEMMA UpdateOperations ==
  ASSUME blocks \in Seq(HistogramRows), NEW names
  PROVE  OperationsOf(updateOperations(names), names)
<1>1. PICK ops, n : ops = updateOperations(names) /\ n = Channels * Len(blocks)
  OBVIOUS
<1>2. OperationsFor(ops, names, n)
  BY <1>1, AllOperations
<1>3. /\ \A c \in 1 .. Channels : \A i \in DOMAIN blocks : \E m \in 1 .. n :
           Register(m) = Entry(c, i)
      /\ \A m \in 1 .. n : \E c \in 1 .. Channels : \E i \in DOMAIN blocks :
           Register(m) = Entry(c, i)
  BY <1>1, RegisterPlaces
<1>4. ASSUME NEW c \in 1 .. Channels, NEW i \in DOMAIN blocks, blocks[i].name \in names
      PROVE  \E j \in DOMAIN ops : Inside(c, i, ops[j])
  <2>1. PICK m \in 1 .. n : Register(m) = Entry(c, i)
    BY <1>3
  <2>2. PICK j \in DOMAIN ops : InOp(Register(m), ops[j])
    <3>1. Register(m).name \in names
      BY <1>4, <2>1 DEF Entry
    <3>. QED BY <1>2, <3>1 DEF OperationsFor
  <2>. QED BY <2>1, <2>2 DEF InOp, Inside, Entry
<1>5. ASSUME NEW j \in DOMAIN ops
      PROVE  /\ \E c \in 1 .. Channels : \E i \in DOMAIN blocks :
                  Inside(c, i, ops[j]) /\ ops[j].at = Place(c, i)
             /\ \A a \in ops[j].at .. ops[j].at + ops[j].size - 1 :
                  \E c \in 1 .. Channels : \E i \in DOMAIN blocks :
                    Inside(c, i, ops[j]) /\ Place(c, i) <= a /\ a < Place(c, i) + blocks[i].size
  <2>1. \E c \in 1 .. Channels : \E i \in DOMAIN blocks : Inside(c, i, ops[j]) /\ ops[j].at = Place(c, i)
    <3>1. PICK m \in 1 .. n : InOp(Register(m), ops[j]) /\ ops[j].at = Register(m).at
      BY <1>2 DEF OperationsFor
    <3>2. PICK c \in 1 .. Channels, i \in DOMAIN blocks :
            Register(m) = Entry(c, i)
      BY <1>3
    <3>. QED BY <3>1, <3>2 DEF InOp, Inside, Entry
  <2>2. ASSUME NEW a \in ops[j].at .. ops[j].at + ops[j].size - 1
        PROVE  \E c \in 1 .. Channels : \E i \in DOMAIN blocks :
                 Inside(c, i, ops[j]) /\ Place(c, i) <= a /\ a < Place(c, i) + blocks[i].size
    <3>1. PICK m \in 1 .. n : InOp(Register(m), ops[j]) /\ Holds(Register(m), a)
      BY <1>2 DEF OperationsFor
    <3>2. PICK c \in 1 .. Channels, i \in DOMAIN blocks :
            Register(m) = Entry(c, i)
      BY <1>3
    <3>. QED BY <3>1, <3>2 DEF InOp, Inside, Entry, Holds
  <2>. QED BY <2>1, <2>2
<1>6. ops \in Seq(OperationType)
  BY <1>2 DEF OperationsFor
<1>7. OperationsOf(ops, names)
  BY <1>4, <1>5, <1>6 DEF OperationsOf
<1>. QED BY <1>1, <1>7
-------------------------------------------------------------------------------
(* How a readout is stored *)

\* What is stored of the blocks of a channel.
Contents ==
  {d \in [DOMAIN blocks -> UNION {[1 .. blocks[i].size -> WordType] : i \in DOMAIN blocks}] :
     \A i \in DOMAIN blocks : d[i] \in [1 .. blocks[i].size -> WordType]}

StoreState == [done : Nat, failed : BOOLEAN, channel : Contents]

\* The block holds the address, in its channel.
Covers(i, x) == blocks[i].base <= x /\ x < blocks[i].base + blocks[i].size

\* One block is skipped, or the words do not fill it, or it is filled to its end.
Skipped(e, s, i, relative, words) ==
  /\ e = s
  /\ s.failed \/ (s.done > 0 /\ s.done >= Len(words)) \/ ~Covers(i, relative + s.done)
Refused(e, s, i, relative, words) ==
  /\ Covers(i, relative + s.done) /\ ~(s.done > 0 /\ s.done >= Len(words))
  /\ s.done + (blocks[i].base + blocks[i].size - (relative + s.done)) > Len(words)
  /\ e.done = s.done /\ e.failed = TRUE /\ e.channel = s.channel
Filled(e, s, i, relative, words) ==
  /\ Covers(i, relative + s.done)
  /\ s.done + (blocks[i].base + blocks[i].size - (relative + s.done)) <= Len(words)
  /\ e.done = s.done + (blocks[i].base + blocks[i].size - (relative + s.done))
  /\ e.failed = s.failed
  /\ \A m \in DOMAIN blocks : m # i => e.channel[m] = s.channel[m]
  /\ \A k \in 1 .. blocks[i].size : k > relative + s.done - blocks[i].base =>
       e.channel[i][k] = words[s.done + k - (relative + s.done - blocks[i].base)]

LEMMA StoreOneBlock ==
  ASSUME blocks \in Seq(HistogramRows), NEW words \in Seq(WordType), NEW relative \in Nat,
         NEW s \in StoreState, NEW i \in DOMAIN blocks
  PROVE  LET e == StoreBlock(words, relative, s, i) IN
         /\ e \in StoreState
         /\ \/ Skipped(e, s, i, relative, words) \/ Refused(e, s, i, relative, words)
            \/ Filled(e, s, i, relative, words)
<1>1. PICK b, z, d, L : b = blocks[i].base /\ z = blocks[i].size /\ d = s.done /\ L = Len(words)
  OBVIOUS
<1>2. b \in Nat /\ z \in Nat /\ d \in Nat /\ L \in Nat /\ s.failed \in BOOLEAN /\ s.channel \in Contents
  <2>1. blocks[i] \in HistogramRows
    OBVIOUS
  <2>2. b \in Nat /\ z \in Nat
    BY <1>1, <2>1 DEF HistogramRows
  <2>. QED BY <1>1, <2>2 DEF StoreState
<1>3. PICK from, len : from = relative + d - b /\ len = z - from
  OBVIOUS
<1>4. PICK new : new = [k \in 1 .. z |-> IF k <= from THEN s.channel[i][k] ELSE words[d + k - from]]
  OBVIOUS
<1>5. PICK e : e = StoreBlock(words, relative, s, i)
  OBVIOUS
<1>6. e = IF s.failed \/ (d > 0 /\ d >= L) \/ from \notin 0 .. z - 1 THEN s
          ELSE IF d + len > L THEN [s EXCEPT !.failed = TRUE]
          ELSE [s EXCEPT !.done = @ + len, !.channel[i] = new]
  BY <1>1, <1>3, <1>4, <1>5 DEF StoreBlock
<1>7. from \in 0 .. z - 1 <=> Covers(i, relative + d)
  <2>1. PICK y \in Nat : y = relative + d
    BY <1>2
  <2>2. from = y - b
    BY <1>2, <1>3, <2>1
  <2>3. from \in 0 .. z - 1 <=> b <= y /\ y < b + z
    BY <1>2, <2>2
  <2>. QED BY <1>1, <2>1, <2>3 DEF Covers
<1>8. CASE s.failed \/ (d > 0 /\ d >= L) \/ from \notin 0 .. z - 1
  <2>1. e = s
    BY <1>6, <1>8
  <2>2. Skipped(e, s, i, relative, words)
    BY <1>1, <1>7, <1>8, <2>1 DEF Skipped
  <2>. QED BY <1>5, <2>1, <2>2
<1>9. CASE /\ ~(s.failed \/ (d > 0 /\ d >= L) \/ from \notin 0 .. z - 1)
           /\ d + len > L
  <2>1. e = [s EXCEPT !.failed = TRUE]
    BY <1>6, <1>9
  <2>2. e \in StoreState /\ e.done = s.done /\ e.failed = TRUE /\ e.channel = s.channel
    BY <2>1 DEF StoreState
  <2>3. d + (b + z - (relative + d)) > L
    BY <1>2, <1>3, <1>9
  <2>4. Refused(e, s, i, relative, words)
    BY <1>1, <1>7, <1>9, <2>2, <2>3 DEF Refused
  <2>. QED BY <1>5, <2>2, <2>4
<1>10. CASE /\ ~(s.failed \/ (d > 0 /\ d >= L) \/ from \notin 0 .. z - 1)
            /\ ~(d + len > L)
  <2>1. e = [s EXCEPT !.done = @ + len, !.channel[i] = new]
    BY <1>6, <1>10
  <2>2. PICK channel : channel = [s.channel EXCEPT ![i] = new]
    OBVIOUS
  <2>3. s = [done |-> s.done, failed |-> s.failed, channel |-> s.channel]
    BY DEF StoreState
  <2>4. e.done = d + len /\ e.failed = s.failed /\ e.channel = channel
        /\ e = [done |-> d + len, failed |-> s.failed, channel |-> channel]
    BY <1>1, <2>1, <2>2, <2>3
  <2>5. new \in [1 .. z -> WordType]
    <3>1. ASSUME NEW k \in 1 .. z PROVE (IF k <= from THEN s.channel[i][k] ELSE words[d + k - from]) \in WordType
      <4>1. s.channel[i] \in [1 .. z -> WordType]
        BY <1>1, <1>2 DEF Contents
      <4>2. CASE k <= from
        BY <4>1, <4>2
      <4>3. CASE ~(k <= from)
        <5>1. d + k - from \in 1 .. L
          BY <1>2, <1>3, <1>10, <4>3
        <5>. QED BY <1>1, <4>3, <5>1
      <4>. QED BY <4>2, <4>3
    <3>. QED BY <1>4, <3>1
  <2>6. channel \in Contents
    <3>1. DOMAIN s.channel = DOMAIN blocks
      BY <1>2 DEF Contents
    <3>2. channel = [m \in DOMAIN blocks |-> IF m = i THEN new ELSE s.channel[m]]
      BY <2>2, <3>1
    <3>3. \A m \in DOMAIN blocks : channel[m] \in [1 .. blocks[m].size -> WordType]
      <4>. TAKE m \in DOMAIN blocks
      <4>1. CASE m = i
        BY <1>1, <2>5, <3>2, <4>1
      <4>2. CASE m # i
        <5>1. s.channel[m] \in [1 .. blocks[m].size -> WordType]
          BY <1>2 DEF Contents
        <5>. QED BY <3>2, <4>2, <5>1
      <4>. QED BY <4>1, <4>2
    <3>4. PICK U : U = UNION {[1 .. blocks[m].size -> WordType] : m \in DOMAIN blocks}
      OBVIOUS
    <3>5. \A m \in DOMAIN blocks : channel[m] \in U
      BY <3>3, <3>4
    <3>6. channel \in [DOMAIN blocks -> U]
      BY <3>2, <3>5
    <3>. QED BY <3>3, <3>4, <3>6 DEF Contents
  <2>7. e \in StoreState
    <3>1. d + len \in Nat
      BY <1>2, <1>3, <1>10
    <3>. QED BY <1>2, <2>4, <2>6, <3>1 DEF StoreState
  <2>8. len = b + z - (relative + d)
    BY <1>2, <1>3
  <2>9. \A m \in DOMAIN blocks : m # i => e.channel[m] = s.channel[m]
    <3>1. DOMAIN s.channel = DOMAIN blocks
      BY <1>2 DEF Contents
    <3>. QED BY <2>2, <2>4, <3>1
  <2>10. \A k \in 1 .. z : k > from => e.channel[i][k] = words[d + k - from]
    <3>1. e.channel[i] = new
      <4>1. DOMAIN s.channel = DOMAIN blocks
        BY <1>2 DEF Contents
      <4>. QED BY <2>2, <2>4, <4>1
    <3>. QED BY <1>2, <1>3, <1>4, <3>1
  <2>11. Filled(e, s, i, relative, words)
    BY <1>1, <1>2, <1>3, <1>7, <1>10, <2>4, <2>8, <2>9, <2>10 DEF Filled
  <2>. QED BY <1>5, <2>7, <2>11
<1>. QED BY <1>8, <1>9, <1>10

\* Storing goes through the blocks of the channel.
LEMMA StoreDefined ==
  ASSUME blocks \in Seq(HistogramRows), NEW words \in Seq(WordType), NEW at_ \in Nat,
         data[at_ \div ChannelSize + 1] \in Contents
  PROVE  \E s : /\ s \in [0 .. Len(blocks) -> StoreState]
                /\ s[0] = [done |-> 0, failed |-> FALSE, channel |-> data[at_ \div ChannelSize + 1]]
                /\ \A i \in 1 .. Len(blocks) : s[i] = StoreBlock(words, at_ % ChannelSize, s[i - 1], i)
                /\ storeReadoutData(at_, words) = s[Len(blocks)]
<1>1. PICK n \in Nat : n = Len(blocks)
  OBVIOUS
<1>2. PICK b : b = [done |-> 0, failed |-> FALSE, channel |-> data[at_ \div ChannelSize + 1]]
  OBVIOUS
<1>3. b \in StoreState
  BY <1>2 DEF StoreState
<1>4. PICK relative \in Nat : relative = at_ % ChannelSize
  <2>1. ChannelSize \in Nat \ {0}
    BY PmHistogramsAssumption
  <2>. QED BY <2>1
<1>. DEFINE Storing(s) == s = [i \in 0 .. Len(blocks) |->
              IF i = 0 THEN [done |-> 0, failed |-> FALSE, channel |-> data[at_ \div ChannelSize + 1]]
              ELSE StoreBlock(words, at_ % ChannelSize, s[i - 1], i)]
            chosen == CHOOSE s : Storing(s)
<1>5. ASSUME NEW x \in StoreState, NEW i \in 1 .. n PROVE StoreBlock(words, relative, x, i) \in StoreState
  <2>1. i \in DOMAIN blocks
    BY <1>1
  <2>. QED BY <2>1, StoreOneBlock
<1>6. \E s : Storing(s)
  <2>1. PICK G : G = [i \in 1 .. n |-> [x \in StoreState |-> StoreBlock(words, relative, x, i)]]
    OBVIOUS
  <2>2. G \in Passes(StoreState, n)
    <3>1. \A i \in 1 .. n : G[i] \in [StoreState -> StoreState]
      BY <1>5, <2>1
    <3>. QED BY <2>1, <3>1 DEF Passes
  <2>3. PICK f : f \in Runs(StoreState, b, n, G)
    BY <1>3, <2>2, Iteration
  <2>4. f \in [0 .. n -> StoreState] /\ f[0] = b /\ \A i \in 1 .. n : f[i] = G[i][f[i - 1]]
    BY <2>3 DEF Runs
  <2>5. ASSUME NEW i \in 0 .. n
        PROVE  f[i] = IF i = 0 THEN b ELSE StoreBlock(words, relative, f[i - 1], i)
    <3>1. CASE i = 0
      BY <2>4, <3>1
    <3>2. CASE i # 0
      <4>1. i \in 1 .. n /\ i - 1 \in 0 .. n
        BY <3>2
      <4>2. f[i] = G[i][f[i - 1]] /\ f[i - 1] \in StoreState
        BY <2>4, <3>2, <4>1
      <4>. QED BY <2>1, <3>2, <4>1, <4>2
    <3>. QED BY <3>1, <3>2
  <2>6. f = [i \in 0 .. n |-> IF i = 0 THEN b ELSE StoreBlock(words, relative, f[i - 1], i)]
    BY <2>4, <2>5
  <2>7. Storing(f)
    BY <1>1, <1>2, <1>4, <2>6
  <2>. HIDE DEF Storing
  <2>. QED BY <2>7
<1>7. Storing(chosen)
  <2>. HIDE DEF Storing
  <2>. QED BY <1>6
<1>8. storeReadoutData(at_, words) = chosen[Len(blocks)]
  BY DEF storeReadoutData
<1>. HIDE DEF chosen
<1>9. chosen = [i \in 0 .. n |-> IF i = 0 THEN b ELSE StoreBlock(words, relative, chosen[i - 1], i)]
  BY <1>1, <1>2, <1>4, <1>7
<1>. HIDE DEF Storing
<1>10. chosen[0] = b /\ \A i \in 1 .. n : chosen[i] = StoreBlock(words, relative, chosen[i - 1], i)
  BY <1>9
<1>. DEFINE T == {i \in Nat : i <= n => chosen[i] \in StoreState}
<1>11. 0 \in T
  BY <1>3, <1>10
<1>12. ASSUME NEW i \in Nat, i \in T PROVE i + 1 \in T
  <2>1. i + 1 <= n => i + 1 \in 1 .. n /\ i + 1 - 1 = i /\ chosen[i] \in StoreState
    BY <1>12
  <2>2. i + 1 <= n => chosen[i + 1] \in StoreState
    BY <1>5, <1>10, <2>1
  <2>. QED BY <2>2
<1>13. \A i \in 0 .. n : chosen[i] \in StoreState
  <2>1. ASSUME NEW i \in 0 .. n PROVE i \in T
    <3>. HIDE DEF T
    <3>. QED BY <1>11, <1>12, Induction
  <2>. QED BY <2>1
<1>14. chosen \in [0 .. n -> StoreState]
  BY <1>9, <1>13
<1>. QED BY <1>1, <1>2, <1>4, <1>8, <1>10, <1>14
-------------------------------------------------------------------------------

EndOf(i) == blocks[i].base + blocks[i].size

\* The block is all inside of so many registers of its channel.
Within(i, relative, n) == relative <= blocks[i].base /\ EndOf(i) <= relative + n

\* Blocks fill these registers of the channel.
Tiled(relative, n) == \A x \in relative .. relative + n - 1 :
  \E m \in DOMAIN blocks : Covers(m, x) /\ Within(m, relative, n)

\* The words of a block, as they are read at one time.
Fresh(c, i, t) == [k \in 1 .. blocks[i].size |-> Word(Place(c, i) + k - 1, t)]

Sorted == \A i, k \in DOMAIN blocks : i < k => blocks[i].base <= blocks[k].base

\* After n blocks: the words used so far have gone to blocks that they fill.  If the words
\* are of blocks, none is refused, and none of these blocks is passed over.
Scan(s, n, c, relative, L, p, t) ==
  /\ s \in StoreState /\ s.done <= L /\ relative + s.done <= ChannelSize
  /\ \A m \in DOMAIN blocks : s.channel[m] = data[c][m]
       \/ (p = (c - 1) * ChannelSize + relative => s.channel[m] = Fresh(c, m, t))
  /\ \A x \in relative .. relative + s.done - 1 : \E m \in 1 .. n :
       /\ Covers(m, x) /\ Within(m, relative, s.done)
       /\ p = (c - 1) * ChannelSize + relative => s.channel[m] = Fresh(c, m, t)
  /\ Tiled(relative, L) /\ relative + L <= ChannelSize =>
       ~s.failed /\ \A m \in 1 .. n : Within(m, relative, L) => EndOf(m) <= relative + s.done

\* Blocks have sizes, end in their channel, and share no register.
LEMMA BlockFacts ==
  ASSUME blocks \in Seq(HistogramRows), BlocksApart
  PROVE  /\ \A m \in DOMAIN blocks : /\ blocks[m].base \in Nat /\ blocks[m].size \in Nat \ {0}
                                     /\ EndOf(m) \in Nat /\ EndOf(m) <= ChannelSize
         /\ \A m \in DOMAIN blocks, k \in DOMAIN blocks, x \in Nat : Covers(m, x) /\ Covers(k, x) => m = k
<1>1. ASSUME NEW m \in DOMAIN blocks
      PROVE  /\ blocks[m].base \in Nat /\ blocks[m].size \in Nat \ {0}
             /\ EndOf(m) \in Nat /\ EndOf(m) <= ChannelSize
  <2>1. blocks[m] \in HistogramRows
    OBVIOUS
  <2>2. blocks[m].base \in Nat /\ blocks[m].size \in Nat
    BY <2>1 DEF HistogramRows
  <2>. QED BY <2>2 DEF BlocksApart, EndOf
<1>2. ASSUME NEW m \in DOMAIN blocks, NEW k \in DOMAIN blocks, NEW x \in Nat, Covers(m, x), Covers(k, x), m # k
      PROVE  FALSE
  <2>1. EndOf(m) <= blocks[k].base \/ EndOf(k) <= blocks[m].base
    BY <1>2 DEF BlocksApart, EndOf
  <2>2. blocks[m].base <= x /\ x < EndOf(m) /\ blocks[k].base <= x /\ x < EndOf(k)
    BY <1>2 DEF Covers, EndOf
  <2>. QED BY <1>1, <2>1, <2>2
<1>. QED BY <1>1, <1>2

\* One block more.
LEMMA ScanStep ==
  ASSUME blocks \in Seq(HistogramRows), BlocksApart, Sorted,
         NEW n \in Nat, n + 1 \in DOMAIN blocks, NEW c \in Nat \ {0}, NEW relative \in Nat,
         NEW L \in Nat \ {0}, NEW p \in Nat, NEW t \in Nat,
         \E i \in DOMAIN blocks : blocks[i].base = relative,
         NEW s, Scan(s, n, c, relative, L, p, t)
  PROVE  Scan(StoreBlock(WordsFrom(p, L, t), relative, s, n + 1), n + 1, c, relative, L, p, t)
<1>1. PICK words : words = WordsFrom(p, L, t)
  OBVIOUS
<1>2. words \in Seq(WordType) /\ Len(words) = L /\ \A k \in 1 .. L : words[k] = Word(p + k - 1, t)
  <2>1. L \in Nat
    OBVIOUS
  <2>2. /\ WordsFrom(p, L, t) \in Seq(WordType) /\ Len(WordsFrom(p, L, t)) = L
        /\ \A k \in 1 .. L : WordsFrom(p, L, t)[k] = Word(p + k - 1, t)
    BY <2>1, WordsType, ZenonT(30)
  <2>. QED BY <1>1, <2>2
<1>3. PICK i \in DOMAIN blocks : i = n + 1
  OBVIOUS
<1>4. PICK e : e = StoreBlock(words, relative, s, i)
  OBVIOUS
<1>5. s \in StoreState
  BY DEF Scan
<1>6. e \in StoreState /\ (\/ Skipped(e, s, i, relative, words) \/ Refused(e, s, i, relative, words)
                           \/ Filled(e, s, i, relative, words))
  BY <1>2, <1>4, <1>5, StoreOneBlock
<1>7. PICK d \in Nat : d = s.done
  BY <1>5 DEF StoreState
<1>8. /\ \A m \in DOMAIN blocks : /\ blocks[m].base \in Nat /\ blocks[m].size \in Nat \ {0}
                                  /\ EndOf(m) \in Nat /\ EndOf(m) <= ChannelSize
      /\ \A m \in DOMAIN blocks, k \in DOMAIN blocks, x \in Nat : Covers(m, x) /\ Covers(k, x) => m = k
  BY BlockFacts
<1>9. ChannelSize \in Nat
  BY PmHistogramsAssumption
<1>10. /\ d <= L /\ relative + d <= ChannelSize
       /\ \A x \in relative .. relative + d - 1 : \E m \in 1 .. n : Covers(m, x) /\ Within(m, relative, d)
  BY <1>7 DEF Scan
<1>11. DOMAIN blocks = 1 .. Len(blocks) /\ Len(blocks) \in Nat
  OBVIOUS
<1>12. \A m \in 1 .. n : m \in 1 .. n + 1 /\ m \in DOMAIN blocks /\ m # i
  BY <1>3, <1>11
<1>13. \A m \in 1 .. n + 1 : m \in 1 .. n \/ m = i
  BY <1>3
<1>14. ASSUME Tiled(relative, L), relative + L <= ChannelSize, d < L
       PROVE  \E m \in DOMAIN blocks : /\ Covers(m, relative + d) /\ Within(m, relative, L)
                                       /\ m \notin 1 .. n
  <2>1. relative + d \in relative .. relative + L - 1
    BY <1>14, SMTT(30)
  <2>2. PICK m \in DOMAIN blocks : Covers(m, relative + d) /\ Within(m, relative, L)
    BY <1>14, <2>1 DEF Tiled
  <2>3. m \in 1 .. n => EndOf(m) <= relative + d
    BY <1>7, <1>14, <2>2 DEF Scan
  <2>4. relative + d < EndOf(m)
    BY <2>2 DEF Covers, EndOf
  <2>5. m \notin 1 .. n
    BY <1>8, <2>3, <2>4, SMTT(30)
  <2>. QED BY <2>2, <2>5
<1>15. CASE Skipped(e, s, i, relative, words)
  <2>1. e = s
    BY <1>15 DEF Skipped
  <2>2. \A x \in relative .. relative + s.done - 1 : \E m \in 1 .. n + 1 :
          /\ Covers(m, x) /\ Within(m, relative, s.done)
          /\ p = (c - 1) * ChannelSize + relative => s.channel[m] = Fresh(c, m, t)
    BY <1>12 DEF Scan
  <2>3. ASSUME Tiled(relative, L), relative + L <= ChannelSize, Within(i, relative, L)
        PROVE  EndOf(i) <= relative + d
    <3>1. CASE d = L
      BY <2>3, <3>1 DEF Within
    <3>2. CASE d # L
      <4>1. d < L
        BY <1>10, <3>2
      <4>2. PICK m \in DOMAIN blocks : /\ Covers(m, relative + d) /\ Within(m, relative, L)
                                       /\ m \notin 1 .. n
        BY <1>14, <2>3, <4>1
      <4>3. ~s.failed
        BY <2>3 DEF Scan
      <4>4. ~Covers(i, relative + d)
        BY <1>2, <1>7, <1>15, <4>1, <4>3, SMTT(30) DEF Skipped
      <4>5. m # i /\ i < m
        <5>1. m # i
          BY <4>2, <4>4
        <5>. QED BY <1>3, <1>11, <4>2, <5>1
      <4>6. blocks[i].base <= blocks[m].base
        BY <4>5 DEF Sorted
      <4>7. blocks[m].base <= relative + d
        BY <4>2 DEF Covers
      <4>8. ~(blocks[i].base <= relative + d /\ relative + d < EndOf(i))
        BY <4>4 DEF Covers, EndOf
      <4>9. PICK w \in Nat : w = blocks[i].base
        BY <1>8
      <4>10. PICK f \in Nat : f = EndOf(i)
        BY <1>8
      <4>11. PICK g \in Nat : g = blocks[m].base
        BY <1>8, <4>2
      <4>12. PICK q \in Nat : q = relative + d
        BY <1>7
      <4>13. w <= q
        <5>1. w <= g /\ g <= q
          BY <4>6, <4>7, <4>9, <4>11, <4>12
        <5>. QED BY <5>1
      <4>14. ~(q < f)
        BY <4>8, <4>9, <4>10, <4>12, <4>13
      <4>15. f <= q
        BY <4>14
      <4>. QED BY <4>10, <4>12, <4>15
    <3>. QED BY <3>1, <3>2
  <2>4. Scan(s, n + 1, c, relative, L, p, t)
    BY <1>7, <1>13, <2>2, <2>3 DEF Scan
  <2>. QED BY <1>1, <1>3, <1>4, <2>1, <2>4
<1>16. CASE Refused(e, s, i, relative, words)
  <2>1. /\ e.done = d /\ e.channel = s.channel /\ Covers(i, relative + d)
        /\ d + (EndOf(i) - (relative + d)) > L /\ ~(d > 0 /\ d >= L)
    <3>1. e.done = d /\ e.channel = s.channel /\ Covers(i, relative + d) /\ ~(d > 0 /\ d >= L)
      BY <1>2, <1>7, <1>16 DEF Refused
    <3>2. d + (blocks[i].base + blocks[i].size - (relative + d)) > L
      BY <1>2, <1>7, <1>16 DEF Refused
    <3>3. PICK b \in Nat, z \in Nat : b = blocks[i].base /\ z = blocks[i].size
      BY <1>8
    <3>4. EndOf(i) = b + z
      BY <3>3 DEF EndOf
    <3>5. d + (b + z - (relative + d)) > L
      BY <3>2, <3>3
    <3>6. d + (EndOf(i) - (relative + d)) > L
      BY <3>4, <3>5, <1>2
    <3>. QED BY <3>1, <3>6
  <2>2. ~(Tiled(relative, L) /\ relative + L <= ChannelSize)
    <3>. SUFFICES ASSUME Tiled(relative, L), relative + L <= ChannelSize PROVE FALSE
      OBVIOUS
    <3>1. d < L
      BY <1>10, <2>1
    <3>2. PICK m \in DOMAIN blocks : Covers(m, relative + d) /\ Within(m, relative, L)
      BY <1>14, <3>1
    <3>3. m = i
      BY <1>8, <2>1, <3>2, SMTT(30)
    <3>. QED BY <1>8, <2>1, <3>2, <3>3, SMTT(30) DEF Within
  <2>3. \A x \in relative .. relative + e.done - 1 : \E m \in 1 .. n + 1 :
          /\ Covers(m, x) /\ Within(m, relative, e.done)
          /\ p = (c - 1) * ChannelSize + relative => e.channel[m] = Fresh(c, m, t)
    BY <1>7, <1>12, <2>1 DEF Scan
  <2>4. Scan(e, n + 1, c, relative, L, p, t)
    BY <1>6, <1>7, <2>1, <2>2, <2>3 DEF Scan
  <2>. QED BY <1>1, <1>3, <1>4, <2>4
<1>17. CASE Filled(e, s, i, relative, words)
  <2>1. PICK b \in Nat, z \in Nat \ {0} : b = blocks[i].base /\ z = blocks[i].size
    BY <1>8
  <2>2. Covers(i, relative + d) /\ b <= relative + d /\ relative + d < b + z
    BY <1>7, <1>17, <2>1 DEF Filled, Covers
  <2>3. b = relative + d
    <3>1. CASE d = 0
      <4>1. PICK k \in DOMAIN blocks : blocks[k].base = relative
        OBVIOUS
      <4>2. Covers(k, relative)
        <5>1. PICK y \in Nat \ {0} : y = blocks[k].size
          BY <1>8
        <5>2. relative <= relative /\ relative < relative + y
          OBVIOUS
        <5>. QED BY <4>1, <5>1, <5>2 DEF Covers
      <4>3. relative + d = relative
        BY <3>1
      <4>. QED BY <1>8, <2>1, <2>2, <4>1, <4>2, <4>3
    <3>2. CASE d # 0
      <4>1. PICK x \in Nat : x = relative + d - 1 /\ x \in relative .. relative + d - 1
        BY <3>2
      <4>2. PICK m \in 1 .. n : Covers(m, x)
        BY <1>10, <4>1
      <4>3. ~Covers(i, x)
        BY <1>8, <1>12, <4>2
      <4>4. ~(b <= x /\ x < b + z)
        BY <2>1, <4>3 DEF Covers
      <4>. QED BY <2>2, <4>1, <4>4
    <3>. QED BY <3>1, <3>2
  <2>4. /\ e.done = d + z /\ e.failed = s.failed /\ d + z <= L
        /\ \A m \in DOMAIN blocks : m # i => e.channel[m] = s.channel[m]
        /\ \A k \in 1 .. z : e.channel[i][k] = words[d + k]
    <3>1. d + (b + z - (relative + d)) = d + z /\ relative + d - b = 0
      BY <2>3
    <3>2. /\ d + (b + z - (relative + d)) <= L /\ e.done = d + (b + z - (relative + d))
          /\ e.failed = s.failed
      BY <1>2, <1>7, <1>17, <2>1 DEF Filled
    <3>3. \A m \in DOMAIN blocks : m # i => e.channel[m] = s.channel[m]
      BY <1>17 DEF Filled
    <3>4. \A k \in 1 .. z : k > relative + d - b => e.channel[i][k] = words[d + k - (relative + d - b)]
      BY <1>7, <1>17, <2>1 DEF Filled
    <3>5. \A k \in 1 .. z : k > 0 /\ d + k - 0 = d + k
      OBVIOUS
    <3>6. \A k \in 1 .. z : e.channel[i][k] = words[d + k]
      BY <3>1, <3>4, <3>5
    <3>. QED BY <3>1, <3>2, <3>3, <3>6
  <2>5. EndOf(i) = relative + (d + z)
    BY <2>1, <2>3 DEF EndOf
  <2>6. p = (c - 1) * ChannelSize + relative => e.channel[i] = Fresh(c, i, t)
    <3>. SUFFICES ASSUME p = (c - 1) * ChannelSize + relative PROVE e.channel[i] = Fresh(c, i, t)
      OBVIOUS
    <3>1. e.channel[i] \in [1 .. z -> WordType]
      BY <1>6, <2>1 DEF StoreState, Contents
    <3>2. ASSUME NEW k \in 1 .. z PROVE e.channel[i][k] = Word(Place(c, i) + k - 1, t)
      <4>1. d + k \in 1 .. L /\ d + k \in Nat
        BY <2>4
      <4>2. e.channel[i][k] = Word(p + (d + k) - 1, t)
        BY <1>2, <2>4, <4>1
      <4>3. Place(c, i) = (c - 1) * ChannelSize + relative + d
        BY <1>9, <2>1, <2>3, SMTT(30) DEF Place
      <4>4. (c - 1) * ChannelSize \in Nat
        <5>1. c - 1 \in Nat
          OBVIOUS
        <5>. QED BY <1>9, <5>1
      <4>5. p + (d + k) - 1 = Place(c, i) + k - 1
        BY <4>3, <4>4
      <4>. QED BY <4>2, <4>5
    <3>. QED BY <2>1, <3>1, <3>2 DEF Fresh
  <2>7. relative + (d + z) <= ChannelSize
    BY <1>8, <2>5
  <2>8. \A m \in DOMAIN blocks : e.channel[m] = data[c][m]
          \/ (p = (c - 1) * ChannelSize + relative => e.channel[m] = Fresh(c, m, t))
    BY <2>4, <2>6 DEF Scan
  <2>9. ASSUME NEW x \in relative .. relative + (d + z) - 1
        PROVE  \E m \in 1 .. n + 1 :
                 /\ Covers(m, x) /\ Within(m, relative, d + z)
                 /\ p = (c - 1) * ChannelSize + relative => e.channel[m] = Fresh(c, m, t)
    <3>1. CASE x < relative + d
      <4>1. x \in relative .. relative + d - 1
        BY <3>1, SMTT(30)
      <4>2. PICK m \in 1 .. n : /\ Covers(m, x) /\ Within(m, relative, d)
                                /\ p = (c - 1) * ChannelSize + relative => s.channel[m] = Fresh(c, m, t)
        BY <1>7, <4>1 DEF Scan
      <4>3. m \in 1 .. n + 1 /\ m \in DOMAIN blocks /\ m # i
        BY <1>12
      <4>4. Within(m, relative, d + z)
        <5>1. relative <= blocks[m].base /\ EndOf(m) <= relative + d /\ EndOf(m) \in Nat
          BY <1>8, <4>2, <4>3 DEF Within
        <5>2. EndOf(m) <= relative + (d + z)
          BY <5>1, SMTT(30)
        <5>. QED BY <5>1, <5>2 DEF Within
      <4>. QED BY <2>4, <4>2, <4>3, <4>4
    <3>2. CASE ~(x < relative + d)
      <4>1. Covers(i, x)
        <5>1. b <= x /\ x < b + z
          BY <2>3, <3>2
        <5>. QED BY <2>1, <5>1 DEF Covers
      <4>2. Within(i, relative, d + z)
        <5>1. relative <= b
          BY <2>3
        <5>2. EndOf(i) <= relative + (d + z)
          BY <2>5
        <5>. QED BY <2>1, <5>1, <5>2 DEF Within
      <4>. QED BY <1>3, <2>6, <4>1, <4>2, SMTT(30)
    <3>. QED BY <3>1, <3>2
  <2>10. ASSUME Tiled(relative, L), relative + L <= ChannelSize
         PROVE  ~e.failed /\ \A m \in 1 .. n + 1 : Within(m, relative, L) => EndOf(m) <= relative + (d + z)
    <3>1. ~e.failed
      BY <2>4, <2>10 DEF Scan
    <3>2. ASSUME NEW m \in 1 .. n, Within(m, relative, L) PROVE EndOf(m) <= relative + (d + z)
      <4>1. EndOf(m) <= relative + d
        BY <1>7, <2>10, <3>2 DEF Scan
      <4>2. EndOf(m) \in Nat
        BY <1>8, <1>12
      <4>. QED BY <4>1, <4>2, SMTT(30)
    <3>3. EndOf(i) <= relative + (d + z)
      BY <2>5
    <3>. QED BY <1>13, <3>1, <3>2, <3>3
  <2>11. Scan(e, n + 1, c, relative, L, p, t)
    BY <1>6, <2>4, <2>7, <2>8, <2>9, <2>10 DEF Scan
  <2>. QED BY <1>1, <1>3, <1>4, <2>11
<1>. QED BY <1>6, <1>15, <1>16, <1>17
-------------------------------------------------------------------------------

LEMMA QuotientAndRest ==
  ASSUME NEW q \in Nat, NEW d \in Nat \ {0}, NEW r \in 0 .. d - 1
  PROVE  (q * d + r) \div d = q /\ (q * d + r) % d = r
<1>1. q * d \in Nat
  OBVIOUS
<1>2. (q + 1) * d = q * d + d
  OBVIOUS
<1>3. PICK a \in Nat : a = q * d + r
  BY <1>1
<1>4. q * d <= a /\ a < (q + 1) * d
  BY <1>1, <1>2, <1>3
<1>5. a \div d = q
  BY <1>4, Quotient
<1>6. a % d = a - d * (a \div d)
  OBVIOUS
<1>7. d * q = q * d
  OBVIOUS
<1>. QED BY <1>1, <1>3, <1>5, <1>6, <1>7

\* What is read from the pointer is stored for the blocks from an address on.
ReadInto(s, c, relative, L, p, t) ==
  /\ s \in StoreState
  /\ \A m \in DOMAIN blocks : s.channel[m] = data[c][m]
       \/ (p = (c - 1) * ChannelSize + relative => s.channel[m] = Fresh(c, m, t))
  /\ AllStored(s, WordsFrom(p, L, t)) => relative + L <= ChannelSize
  /\ AllStored(s, WordsFrom(p, L, t)) /\ p = (c - 1) * ChannelSize + relative =>
       \A m \in DOMAIN blocks : Within(m, relative, L) => s.channel[m] = Fresh(c, m, t)
  /\ Tiled(relative, L) /\ relative + L <= ChannelSize => AllStored(s, WordsFrom(p, L, t))

LEMMA StoreReadout ==
  ASSUME blocks \in Seq(HistogramRows), BlocksApart, Sorted,
         NEW c \in Nat \ {0}, NEW relative \in 0 .. ChannelSize - 1,
         NEW L \in Nat \ {0}, NEW p \in Nat, NEW t \in Nat,
         \E i \in DOMAIN blocks : blocks[i].base = relative, data[c] \in Contents
  PROVE  ReadInto(storeReadoutData((c - 1) * ChannelSize + relative, WordsFrom(p, L, t)),
                  c, relative, L, p, t)
<1>1. PICK words : words = WordsFrom(p, L, t)
  OBVIOUS
<1>2. words \in Seq(WordType) /\ Len(words) = L
  <2>1. L \in Nat
    OBVIOUS
  <2>2. WordsFrom(p, L, t) \in Seq(WordType) /\ Len(WordsFrom(p, L, t)) = L
    BY <2>1, WordsType
  <2>. QED BY <1>1, <2>2
<1>3. ChannelSize \in Nat \ {0} /\ relative \in Nat /\ c - 1 \in Nat
  BY PmHistogramsAssumption
<1>4. PICK a : a = (c - 1) * ChannelSize + relative
  OBVIOUS
<1>5. a \in Nat /\ a \div ChannelSize + 1 = c /\ a % ChannelSize = relative
  <2>1. (c - 1) * ChannelSize \in Nat
    BY <1>3
  <2>2. ((c - 1) * ChannelSize + relative) \div ChannelSize = c - 1
        /\ ((c - 1) * ChannelSize + relative) % ChannelSize = relative
    BY <1>3, QuotientAndRest
  <2>. QED BY <1>3, <1>4, <2>1, <2>2
<1>6. PICK n \in Nat : n = Len(blocks) /\ DOMAIN blocks = 1 .. n
  OBVIOUS
<1>7. \E s : /\ s \in [0 .. Len(blocks) -> StoreState]
             /\ s[0] = [done |-> 0, failed |-> FALSE, channel |-> data[a \div ChannelSize + 1]]
             /\ \A i \in 1 .. Len(blocks) : s[i] = StoreBlock(words, a % ChannelSize, s[i - 1], i)
             /\ storeReadoutData(a, words) = s[Len(blocks)]
  BY <1>2, <1>5, StoreDefined
<1>8. PICK s : /\ s[0] = [done |-> 0, failed |-> FALSE, channel |-> data[c]]
               /\ \A i \in 1 .. n : s[i] = StoreBlock(words, relative, s[i - 1], i)
               /\ storeReadoutData(a, words) = s[n]
  BY <1>5, <1>6, <1>7
<1>9. /\ \A m \in DOMAIN blocks : /\ blocks[m].base \in Nat /\ blocks[m].size \in Nat \ {0}
                                  /\ EndOf(m) \in Nat /\ EndOf(m) <= ChannelSize
      /\ \A m \in DOMAIN blocks, k \in DOMAIN blocks, x \in Nat : Covers(m, x) /\ Covers(k, x) => m = k
  BY BlockFacts
<1>. DEFINE T == {k \in Nat : k <= n => Scan(s[k], k, c, relative, L, p, t)}
<1>10. 0 \in T
  <2>1. s[0] \in StoreState /\ s[0].done = 0 /\ s[0].failed = FALSE /\ s[0].channel = data[c]
    BY <1>8 DEF StoreState
  <2>2. Scan(s[0], 0, c, relative, L, p, t)
    <3>1. s[0].done <= L /\ relative + s[0].done <= ChannelSize
      BY <1>3, <2>1
    <3>2. relative .. relative + s[0].done - 1 = {}
      BY <1>3, <2>1
    <3>3. 1 .. 0 = {}
      OBVIOUS
    <3>. QED BY <2>1, <3>1, <3>2, <3>3 DEF Scan
  <2>. QED BY <2>2
<1>11. ASSUME NEW k \in Nat, k \in T PROVE k + 1 \in T
  <2>. SUFFICES ASSUME k + 1 <= n PROVE Scan(s[k + 1], k + 1, c, relative, L, p, t)
    OBVIOUS
  <2>1. Scan(s[k], k, c, relative, L, p, t)
    BY <1>11
  <2>2. k + 1 \in DOMAIN blocks /\ k + 1 \in 1 .. n /\ k + 1 - 1 = k
    BY <1>6
  <2>3. s[k + 1] = StoreBlock(WordsFrom(p, L, t), relative, s[k], k + 1)
    BY <1>1, <1>8, <2>2
  <2>4. PICK x : x = s[k]
    OBVIOUS
  <2>5. Scan(x, k, c, relative, L, p, t)
    BY <2>1, <2>4
  <2>6. Scan(StoreBlock(WordsFrom(p, L, t), relative, x, k + 1), k + 1, c, relative, L, p, t)
    BY <1>3, <2>2, <2>5, ScanStep
  <2>. QED BY <2>3, <2>4, <2>6
<1>12. Scan(s[n], n, c, relative, L, p, t)
  <2>. HIDE DEF T
  <2>1. n \in T
    BY <1>10, <1>11, Induction
  <2>. QED BY <2>1 DEF T
<1>13. PICK e : e = s[n]
  OBVIOUS
<1>14. Scan(e, n, c, relative, L, p, t)
  BY <1>12, <1>13
<1>15. e \in StoreState /\ (AllStored(e, words) <=> ~e.failed /\ e.done = L)
  BY <1>2, <1>14 DEF Scan, AllStored
<1>16. AllStored(e, words) => relative + L <= ChannelSize
  BY <1>14, <1>15 DEF Scan
<1>17. ASSUME AllStored(e, words), p = (c - 1) * ChannelSize + relative,
              NEW m \in DOMAIN blocks, Within(m, relative, L)
       PROVE  e.channel[m] = Fresh(c, m, t)
  <2>1. PICK x \in Nat : x = blocks[m].base
    BY <1>9
  <2>2. Covers(m, x)
    BY <1>9, <2>1 DEF Covers
  <2>3. relative <= x /\ x < EndOf(m) /\ EndOf(m) <= relative + L
    BY <1>9, <1>17, <2>1, SMTT(30) DEF Within, EndOf
  <2>4. x \in relative .. relative + L - 1
    BY <1>9, <2>3
  <2>5. PICK k \in 1 .. n : Covers(k, x) /\ e.channel[k] = Fresh(c, k, t)
    BY <1>14, <1>15, <1>17, <2>4 DEF Scan
  <2>6. k = m
    BY <1>6, <1>9, <2>2, <2>5
  <2>. QED BY <2>5, <2>6
<1>18. ASSUME Tiled(relative, L), relative + L <= ChannelSize PROVE AllStored(e, words)
  <2>1. ~e.failed
    BY <1>14, <1>18 DEF Scan
  <2>2. PICK d \in Nat : d = e.done
    BY <1>15 DEF StoreState
  <2>3. d <= L
    BY <1>14, <2>2 DEF Scan
  <2>4. ASSUME d # L PROVE FALSE
    <3>1. relative + d \in relative .. relative + L - 1
      BY <2>3, <2>4, <1>3, SMTT(30)
    <3>2. PICK m \in DOMAIN blocks : Covers(m, relative + d) /\ Within(m, relative, L)
      BY <1>18, <3>1 DEF Tiled
    <3>3. EndOf(m) <= relative + d
      BY <1>6, <1>14, <1>18, <2>2, <3>2 DEF Scan
    <3>4. relative + d < EndOf(m)
      BY <3>2 DEF Covers, EndOf
    <3>. QED BY <1>3, <1>9, <3>3, <3>4
  <2>. QED BY <1>15, <2>1, <2>2, <2>4
<1>19. \A m \in DOMAIN blocks : e.channel[m] = data[c][m]
         \/ (p = (c - 1) * ChannelSize + relative => e.channel[m] = Fresh(c, m, t))
  BY <1>14 DEF Scan
<1>20. ReadInto(e, c, relative, L, p, t)
  BY <1>1, <1>15, <1>16, <1>17, <1>18, <1>19 DEF ReadInto
<1>. QED BY <1>1, <1>4, <1>8, <1>13, <1>20
-------------------------------------------------------------------------------

LEMMA Multiples ==
  ASSUME NEW a \in Nat, NEW b \in Nat, NEW d \in Nat, a < b PROVE a * d + d <= b * d
<1>1. PICK k \in Nat : b = a + 1 + k
  <2>1. b - a - 1 \in Nat /\ b = a + 1 + (b - a - 1)
    OBVIOUS
  <2>. QED BY <2>1
<1>2. b * d = a * d + d + k * d
  BY <1>1
<1>3. a * d \in Nat /\ k * d \in Nat /\ b * d \in Nat
  OBVIOUS
<1>. QED BY <1>2, <1>3

\* An operation begins at a block of a channel.  If it ends in the channel, it is tiled with
\* blocks of the channel and has no others.
LEMMA OperationFacts ==
  ASSUME blocks \in Seq(HistogramRows), BlocksApart, NEW names, NEW ops, OperationsOf(ops, names),
         NEW j \in DOMAIN ops
  PROVE  \E c \in 1 .. Channels : \E relative \in 0 .. ChannelSize - 1 :
           /\ ops[j].at = (c - 1) * ChannelSize + relative /\ ops[j].size \in Nat \ {0}
           /\ ops[j].at \div ChannelSize + 1 = c /\ ops[j].at % ChannelSize = relative
           /\ \E i \in DOMAIN blocks : blocks[i].base = relative
           /\ relative + ops[j].size <= ChannelSize =>
                /\ Tiled(relative, ops[j].size)
                /\ \A e \in 1 .. Channels : \A m \in DOMAIN blocks :
                     Inside(e, m, ops[j]) => e = c /\ Within(m, relative, ops[j].size)
<1>1. ChannelSize \in Nat \ {0} /\ Channels \in Nat
  BY PmHistogramsAssumption
<1>2. /\ \A m \in DOMAIN blocks : /\ blocks[m].base \in Nat /\ blocks[m].size \in Nat \ {0}
                                  /\ EndOf(m) \in Nat /\ EndOf(m) <= ChannelSize
  BY BlockFacts
<1>3. PICK at_ \in Nat, size \in Nat : at_ = ops[j].at /\ size = ops[j].size
  <2>1. ops \in Seq(OperationType)
    BY DEF OperationsOf
  <2>2. ops[j] \in OperationType
    BY <2>1
  <2>. QED BY <2>2 DEF OperationType
<1>4. PICK c \in 1 .. Channels, i \in DOMAIN blocks : Inside(c, i, ops[j]) /\ at_ = Place(c, i)
  BY <1>3 DEF OperationsOf
<1>5. PICK relative \in Nat, z \in Nat \ {0} : relative = blocks[i].base /\ z = blocks[i].size
  BY <1>2
<1>6. EndOf(i) = relative + z
  BY <1>5 DEF EndOf
<1>7. relative \in 0 .. ChannelSize - 1
  BY <1>1, <1>2, <1>5, <1>6
<1>8. at_ = (c - 1) * ChannelSize + relative
  BY <1>4, <1>5 DEF Place
<1>9. c - 1 \in Nat /\ c \in Nat \ {0}
  BY <1>1
<1>10. at_ \div ChannelSize + 1 = c /\ at_ % ChannelSize = relative
  <2>1. ((c - 1) * ChannelSize + relative) \div ChannelSize = c - 1
        /\ ((c - 1) * ChannelSize + relative) % ChannelSize = relative
    BY <1>1, <1>7, <1>9, QuotientAndRest
  <2>. QED BY <1>8, <1>9, <2>1
<1>11. size \in Nat \ {0}
  <2>1. at_ + z <= at_ + size
    BY <1>3, <1>4, <1>5 DEF Inside
  <2>. QED BY <2>1
<1>12. ASSUME relative + size <= ChannelSize,
              NEW e \in 1 .. Channels, NEW m \in DOMAIN blocks, Inside(e, m, ops[j])
       PROVE  e = c /\ Within(m, relative, size)
  <2>1. PICK b \in Nat, w \in Nat \ {0} : b = blocks[m].base /\ w = blocks[m].size
    BY <1>2
  <2>2. EndOf(m) = b + w /\ b + w <= ChannelSize
    BY <1>2, <2>1 DEF EndOf
  <2>3. PICK u \in Nat, v \in Nat : u = (c - 1) * ChannelSize /\ v = (e - 1) * ChannelSize
    BY <1>1, <1>9
  <2>4. u + relative <= v + b /\ v + b + w <= u + relative + size
    BY <1>3, <1>8, <1>12, <2>1, <2>3 DEF Inside, Place
  <2>5. e - 1 \in Nat
    BY <1>1
  <2>6. ~(c - 1 < e - 1)
    <3>. SUFFICES ASSUME c - 1 < e - 1 PROVE FALSE
      OBVIOUS
    <3>1. u + ChannelSize <= v
      BY <1>1, <1>9, <2>3, <2>5, Multiples
    <3>. QED BY <1>1, <1>12, <2>4, <3>1
  <2>7. ~(e - 1 < c - 1)
    <3>. SUFFICES ASSUME e - 1 < c - 1 PROVE FALSE
      OBVIOUS
    <3>1. v + ChannelSize <= u
      BY <1>1, <1>9, <2>3, <2>5, Multiples
    <3>. QED BY <1>1, <2>2, <2>4, <3>1
  <2>8. e = c
    BY <1>1, <1>9, <2>5, <2>6, <2>7
  <2>9. v = u
    BY <2>3, <2>8
  <2>10. relative <= b /\ b + w <= relative + size
    BY <2>4, <2>9
  <2>. QED BY <2>1, <2>2, <2>8, <2>10 DEF Within
<1>13. ASSUME relative + size <= ChannelSize PROVE Tiled(relative, size)
  <2>1. ASSUME NEW x \in relative .. relative + size - 1
        PROVE  \E m \in DOMAIN blocks : Covers(m, x) /\ Within(m, relative, size)
    <3>1. PICK u \in Nat : u = (c - 1) * ChannelSize
      BY <1>1, <1>9
    <3>2. x \in Nat /\ u + x \in at_ .. at_ + size - 1
      BY <1>8, <3>1, SMTT(30)
    <3>3. PICK e \in 1 .. Channels, m \in DOMAIN blocks :
            Inside(e, m, ops[j]) /\ Place(e, m) <= u + x /\ u + x < Place(e, m) + blocks[m].size
      BY <1>3, <3>2 DEF OperationsOf
    <3>4. e = c /\ Within(m, relative, size)
      BY <1>12, <1>13, <3>3
    <3>5. PICK b \in Nat, w \in Nat \ {0} : b = blocks[m].base /\ w = blocks[m].size
      BY <1>2
    <3>6. u + b <= u + x /\ u + x < u + b + w
      BY <3>1, <3>3, <3>4, <3>5 DEF Place
    <3>7. b <= x /\ x < b + w
      BY <3>2, <3>6
    <3>. QED BY <3>4, <3>5, <3>7 DEF Covers
  <2>. QED BY <2>1 DEF Tiled
<1>. QED BY <1>3, <1>5, <1>7, <1>8, <1>10, <1>11, <1>12, <1>13
-------------------------------------------------------------------------------
(* Numbers in the order of their bins *)

\* Elements of V that rise by their keys.
Rising(s, V, key) == s \in Seq(V) /\ \A n \in 2 .. Len(s) : key[s[n - 1]] < key[s[n]]

LEMMA JoinRising ==
  ASSUME NEW V, NEW key, NEW s, NEW u, Rising(s, V, key), Rising(u, V, key), s # <<>>, u # <<>>,
         key[s[Len(s)]] < key[u[1]]
  PROVE  /\ Rising(Join(s, u), V, key) /\ Join(s, u) # <<>>
         /\ Join(s, u)[Len(Join(s, u))] = u[Len(u)]
<1>1. s \in Seq(V) /\ u \in Seq(V)
  BY DEF Rising
<1>2. PICK l \in Nat \ {0}, m \in Nat \ {0} : l = Len(s) /\ m = Len(u)
  BY <1>1
<1>3. PICK x : x = Join(s, u)
  OBVIOUS
<1>4. /\ x \in Seq(V) /\ Len(x) = l + m
      /\ \A n \in 1 .. l + m : x[n] = IF n <= l THEN s[n] ELSE u[n - l]
  BY <1>1, <1>2, <1>3, ConcatProperties DEF Join
<1>5. ASSUME NEW n \in 2 .. l + m PROVE key[x[n - 1]] < key[x[n]]
  <2>1. CASE n <= l
    <3>1. n \in 2 .. l /\ n - 1 \in 1 .. l + m /\ n \in 1 .. l + m /\ n - 1 <= l
      BY <2>1
    <3>. QED BY <1>2, <1>4, <2>1, <3>1 DEF Rising
  <2>2. CASE n = l + 1
    <3>1. n - 1 = l /\ n - l = 1 /\ l \in 1 .. l + m /\ l <= l /\ ~(n <= l) /\ n \in 1 .. l + m
      BY <2>2
    <3>2. x[n - 1] = s[l] /\ x[n] = u[1]
      BY <1>4, <3>1
    <3>. QED BY <1>2, <3>2
  <2>3. CASE n > l + 1
    <3>1. /\ n \in 1 .. l + m /\ n - 1 \in 1 .. l + m /\ ~(n <= l) /\ ~(n - 1 <= l)
          /\ n - l \in 2 .. m /\ n - 1 - l = n - l - 1
      BY <2>3
    <3>2. x[n - 1] = u[n - l - 1] /\ x[n] = u[n - l]
      BY <1>4, <3>1
    <3>. QED BY <1>2, <3>1, <3>2 DEF Rising
  <2>. QED BY <2>1, <2>2, <2>3
<1>6. Rising(x, V, key)
  BY <1>4, <1>5 DEF Rising
<1>7. x # <<>>
  BY <1>2, <1>4
<1>8. x[Len(x)] = u[m]
  <2>1. l + m \in 1 .. l + m /\ ~(l + m <= l) /\ l + m - l = m
    BY <1>2
  <2>. QED BY <1>4, <2>1
<1>. QED BY <1>2, <1>3, <1>6, <1>7, <1>8

LEMMA FlattenRising ==
  ASSUME NEW V, NEW key, NEW parts, NEW N \in Nat \ {0}, Len(parts) = N,
         \A j \in 1 .. N : Rising(parts[j], V, key) /\ parts[j] # <<>>,
         \A j \in 2 .. N : key[parts[j - 1][Len(parts[j - 1])]] < key[parts[j][1]]
  PROVE  Rising(FlattenSeq(parts), V, key)
<1>1. PICK f : /\ FlattenSeq(parts) = f[N] /\ f[1] = parts[1]
               /\ \A k \in 2 .. N : f[k] = Join(f[k - 1], parts[k])
  BY FlattenDefined
<1>. DEFINE RisesTo(k) == /\ Rising(f[k], V, key) /\ f[k] # <<>>
                          /\ f[k][Len(f[k])] = parts[k][Len(parts[k])]
            T == {k \in Nat : k \in 1 .. N => RisesTo(k)}
<1>2. 0 \in T
  OBVIOUS
<1>3. ASSUME NEW k \in Nat, k \in T PROVE k + 1 \in T
  <2>. SUFFICES ASSUME k + 1 \in 1 .. N PROVE RisesTo(k + 1)
    OBVIOUS
  <2>1. CASE k = 0
    <3>1. k + 1 = 1 /\ 1 \in 1 .. N
      BY <2>1
    <3>2. Rising(parts[1], V, key) /\ parts[1] # <<>>
      BY <3>1
    <3>. QED BY <1>1, <3>1, <3>2
  <2>2. CASE k # 0
    <3>1. k \in 1 .. N /\ k + 1 \in 2 .. N /\ k + 1 - 1 = k
      BY <2>2
    <3>2. RisesTo(k)
      BY <1>3, <3>1
    <3>3. Rising(parts[k + 1], V, key) /\ parts[k + 1] # <<>>
          /\ key[parts[k][Len(parts[k])]] < key[parts[k + 1][1]]
      BY <3>1
    <3>4. f[k + 1] = Join(f[k], parts[k + 1])
      BY <1>1, <3>1
    <3>5. PICK s, u : s = f[k] /\ u = parts[k + 1]
      OBVIOUS
    <3>6. Rising(s, V, key) /\ Rising(u, V, key) /\ s # <<>> /\ u # <<>> /\ key[s[Len(s)]] < key[u[1]]
      BY <3>2, <3>3, <3>5
    <3>7. /\ Rising(Join(s, u), V, key) /\ Join(s, u) # <<>>
          /\ Join(s, u)[Len(Join(s, u))] = u[Len(u)]
      BY <3>6, JoinRising
    <3>. QED BY <3>4, <3>5, <3>7
  <2>. QED BY <2>1, <2>2
<1>4. N \in T
  <2>. HIDE DEF T
  <2>. QED BY <1>2, <1>3, Induction
<1>. QED BY <1>1, <1>4

LEMMA Halves ==
  ASSUME NEW j \in Nat \ {0}
  PROVE  /\ (j - 1) \div 2 \in Nat
         /\ 2 * ((j - 1) \div 2) = IF j % 2 = 1 THEN j - 1 ELSE j - 2
OBVIOUS

\* The numbers of a block of a channel, all of one time, in the order of its bins.
Numbered(s, c, i, t) ==
  /\ s \in Seq([word : WordType, high : BOOLEAN])
  /\ Len(s) = 2 * blocks[i].size /\ DOMAIN s = 1 .. 2 * blocks[i].size
  /\ \A j \in 1 .. 2 * blocks[i].size :
       /\ s[j].word.time = t /\ s[j].word.at - (c - 1) * ChannelSize \in 0 .. ChannelSize - 1
       /\ BinAt(s[j].word.at - (c - 1) * ChannelSize, s[j].high) = FirstBin(blocks[i]) + j - 1

\* A number of a block is that of its bin, counted from the first of the block.
LEMMA NumberBins ==
  ASSUME blocks \in Seq(HistogramRows), BlocksApart, NEW c \in 1 .. Channels, NEW i \in DOMAIN blocks,
         NEW t \in Nat, data[c][i] = Fresh(c, i, t)
  PROVE  Numbered(Numbers(c, i), c, i, t)
<1>1. ChannelSize \in Nat \ {0} /\ Channels \in Nat
  BY PmHistogramsAssumption
<1>2. /\ \A m \in DOMAIN blocks : /\ blocks[m].base \in Nat /\ blocks[m].size \in Nat \ {0}
                                  /\ EndOf(m) \in Nat /\ EndOf(m) <= ChannelSize
      /\ \A m \in DOMAIN blocks, k \in DOMAIN blocks, x \in Nat : Covers(m, x) /\ Covers(k, x) => m = k
  BY BlockFacts
<1>3. PICK b \in Nat, z \in Nat \ {0} : b = blocks[i].base /\ z = blocks[i].size
  BY <1>2
<1>4. b + z <= ChannelSize
  BY <1>2, <1>3 DEF EndOf
<1>5. PICK u \in Nat : u = (c - 1) * ChannelSize
  <2>1. c - 1 \in Nat
    BY <1>1
  <2>. QED BY <1>1, <2>1
<1>6. ASSUME NEW k \in 1 .. z
      PROVE  /\ data[c][i][k] = Word(u + b + k - 1, t) /\ data[c][i][k] \in WordType
             /\ data[c][i][k].time = t /\ data[c][i][k].at - u = b + k - 1
  <2>1. data[c][i][k] = Word(u + b + k - 1, t)
    BY <1>3, <1>5 DEF Fresh, Place
  <2>2. u + b + k - 1 \in Nat /\ u + b + k - 1 - u = b + k - 1
    OBVIOUS
  <2>. QED BY <2>1, <2>2 DEF Word, WordType
<1>7. PICK start \in Int : start = blocks[i].start
  <2>1. blocks[i] \in HistogramRows
    OBVIOUS
  <2>. QED BY <2>1 DEF HistogramRows
<1>8. ASSUME NEW k \in 1 .. z, NEW high \in BOOLEAN
      PROVE  BinAt(b + k - 1, high) = IF blocks[i].negative
                                      THEN start - (2 * (k - 1) + IF high THEN 1 ELSE 0)
                                      ELSE start + (2 * (k - 1) + IF high THEN 1 ELSE 0)
  <2>1. PICK x \in Nat : x = b + k - 1 /\ x - b = k - 1
    <3>1. b + k - 1 \in Nat /\ b + k - 1 - b = k - 1
      OBVIOUS
    <3>. QED BY <3>1
  <2>. DEFINE here(m) == x \in blocks[m].base .. blocks[m].base + blocks[m].size - 1
  <2>2. ASSUME NEW m \in DOMAIN blocks  PROVE here(m) <=> Covers(m, x)
    <3>1. PICK e \in Nat, w \in Nat : e = blocks[m].base /\ w = blocks[m].size
      BY <1>2
    <3>2. x \in e .. e + w - 1 <=> e <= x /\ x < e + w
      BY <2>1
    <3>. QED BY <3>1, <3>2 DEF Covers
  <2>3. Covers(i, x)
    <3>1. b <= x /\ x < b + z
      BY <2>1
    <3>. QED BY <1>3, <3>1 DEF Covers
  <2>4. \A m \in DOMAIN blocks : here(m) <=> m = i
    BY <1>2, <2>2, <2>3
  <2>5. BlockAt(x) = i
    <3>1. BlockAt(x) = CHOOSE m \in DOMAIN blocks : here(m)
      BY DEF BlockAt
    <3>. HIDE DEF here
    <3>. QED BY <2>4, <3>1
  <2>6. BinAt(x, high) = IF blocks[i].negative
                         THEN blocks[i].start - (2 * (x - blocks[i].base) + IF high THEN 1 ELSE 0)
                         ELSE blocks[i].start + (2 * (x - blocks[i].base) + IF high THEN 1 ELSE 0)
    BY <2>5 DEF BinAt
  <2>. QED BY <1>3, <1>7, <2>1, <2>6
<1>9. CASE blocks[i].negative
  <2>1. PICK p : p = Numbers(c, i)
    OBVIOUS
  <2>2. p = [j \in 1 .. 2 * z |-> [word |-> data[c][i][z - (j - 1) \div 2], high |-> j % 2 = 1]]
    BY <1>3, <1>9, <2>1 DEF Numbers
  <2>3. ASSUME NEW j \in 1 .. 2 * z
        PROVE  /\ p[j] \in [word : WordType, high : BOOLEAN]
               /\ p[j].word.time = t /\ p[j].word.at - u \in 0 .. ChannelSize - 1
               /\ BinAt(p[j].word.at - u, p[j].high) = FirstBin(blocks[i]) + j - 1
    <3>1. PICK k \in 1 .. z : k = z - (j - 1) \div 2
      <4>1. z - (j - 1) \div 2 \in 1 .. z
        OBVIOUS
      <4>. QED BY <4>1
    <3>2. PICK high \in BOOLEAN : high = (j % 2 = 1)
      OBVIOUS
    <3>3. p[j] = [word |-> data[c][i][k], high |-> high]
      BY <2>2, <3>1, <3>2
    <3>4. 2 * (k - 1) + (IF high THEN 1 ELSE 0) = 2 * z - j
      <4>1. j \in Nat \ {0}
        OBVIOUS
      <4>2. PICK h \in Nat : h = (j - 1) \div 2 /\ 2 * h = IF j % 2 = 1 THEN j - 1 ELSE j - 2
        BY <4>1, Halves
      <4>3. k = z - h
        BY <3>1, <4>2
      <4>4. CASE j % 2 = 1
        <5>1. high /\ 2 * h = j - 1
          BY <3>2, <4>2, <4>4
        <5>. QED BY <4>3, <5>1
      <4>5. CASE j % 2 # 1
        <5>1. ~high /\ 2 * h = j - 2
          BY <3>2, <4>2, <4>5
        <5>. QED BY <4>3, <5>1
      <4>. QED BY <4>4, <4>5
    <3>5. start - (2 * z - j) = start - (2 * z - 1) + j - 1
      OBVIOUS
    <3>6. BinAt(b + k - 1, high) = FirstBin(blocks[i]) + j - 1
      BY <1>3, <1>7, <1>8, <1>9, <3>4, <3>5 DEF FirstBin
    <3>7. b + k - 1 \in 0 .. ChannelSize - 1
      BY <1>1, <1>4, SMTT(30)
    <3>. QED BY <1>6, <3>3, <3>6, <3>7, SMTT(30)
  <2>4. p \in Seq([word : WordType, high : BOOLEAN]) /\ Len(p) = 2 * z /\ DOMAIN p = 1 .. 2 * z
    <3>1. PICK V : V = [word : WordType, high : BOOLEAN]
      OBVIOUS
    <3>2. PICK n \in Nat : n = 2 * z
      <4>1. 2 * z \in Nat
        OBVIOUS
      <4>. QED BY <4>1
    <3>3. \A j \in 1 .. n : p[j] \in V
      BY <2>3, <3>1, <3>2
    <3>4. DOMAIN p = 1 .. n /\ p = [j \in DOMAIN p |-> p[j]]
      BY <2>2, <3>2
    <3>5. p \in [1 .. n -> V]
      BY <3>3, <3>4
    <3>6. p \in Seq(V) /\ Len(p) = n
      BY <3>5
    <3>. QED BY <3>1, <3>2, <3>4, <3>6
  <2>. QED BY <1>3, <1>5, <2>1, <2>3, <2>4 DEF Numbered
<1>10. CASE ~blocks[i].negative
  <2>1. PICK p : p = Numbers(c, i)
    OBVIOUS
  <2>2. p = [j \in 1 .. 2 * z |-> [word |-> data[c][i][1 + (j - 1) \div 2], high |-> j % 2 = 0]]
    BY <1>3, <1>10, <2>1 DEF Numbers
  <2>3. ASSUME NEW j \in 1 .. 2 * z
        PROVE  /\ p[j] \in [word : WordType, high : BOOLEAN]
               /\ p[j].word.time = t /\ p[j].word.at - u \in 0 .. ChannelSize - 1
               /\ BinAt(p[j].word.at - u, p[j].high) = FirstBin(blocks[i]) + j - 1
    <3>1. PICK k \in 1 .. z : k = 1 + (j - 1) \div 2
      <4>1. 1 + (j - 1) \div 2 \in 1 .. z
        OBVIOUS
      <4>. QED BY <4>1
    <3>2. PICK high \in BOOLEAN : high = (j % 2 = 0)
      OBVIOUS
    <3>3. p[j] = [word |-> data[c][i][k], high |-> high]
      BY <2>2, <3>1, <3>2
    <3>4. 2 * (k - 1) + (IF high THEN 1 ELSE 0) = j - 1
      <4>1. j \in Nat \ {0} /\ (j % 2 = 0 <=> j % 2 # 1)
        OBVIOUS
      <4>2. PICK h \in Nat : h = (j - 1) \div 2 /\ 2 * h = IF j % 2 = 1 THEN j - 1 ELSE j - 2
        BY <4>1, Halves
      <4>3. k = 1 + h
        BY <3>1, <4>2
      <4>4. CASE j % 2 = 1
        <5>1. ~high /\ 2 * h = j - 1
          BY <3>2, <4>1, <4>2, <4>4
        <5>. QED BY <4>3, <5>1
      <4>5. CASE j % 2 # 1
        <5>1. high /\ 2 * h = j - 2
          BY <3>2, <4>1, <4>2, <4>5
        <5>. QED BY <4>3, <5>1
      <4>. QED BY <4>4, <4>5
    <3>5. start + (j - 1) = start + j - 1
      OBVIOUS
    <3>6. BinAt(b + k - 1, high) = FirstBin(blocks[i]) + j - 1
      BY <1>3, <1>7, <1>8, <1>10, <3>4, <3>5 DEF FirstBin
    <3>7. b + k - 1 \in 0 .. ChannelSize - 1
      BY <1>1, <1>4, SMTT(30)
    <3>. QED BY <1>6, <3>3, <3>6, <3>7, SMTT(30)
  <2>4. p \in Seq([word : WordType, high : BOOLEAN]) /\ Len(p) = 2 * z /\ DOMAIN p = 1 .. 2 * z
    <3>1. PICK V : V = [word : WordType, high : BOOLEAN]
      OBVIOUS
    <3>2. PICK n \in Nat : n = 2 * z
      <4>1. 2 * z \in Nat
        OBVIOUS
      <4>. QED BY <4>1
    <3>3. \A j \in 1 .. n : p[j] \in V
      BY <2>3, <3>1, <3>2
    <3>4. DOMAIN p = 1 .. n /\ p = [j \in DOMAIN p |-> p[j]]
      BY <2>2, <3>2
    <3>5. p \in [1 .. n -> V]
      BY <3>3, <3>4
    <3>6. p \in Seq(V) /\ Len(p) = n
      BY <3>5
    <3>. QED BY <3>1, <3>2, <3>4, <3>6
  <2>. QED BY <1>3, <1>5, <2>1, <2>3, <2>4 DEF Numbered
<1>. QED BY <1>9, <1>10
-------------------------------------------------------------------------------

Of(name) == {i \in DOMAIN blocks : blocks[i].name = name}

\* The view of a histogram has its blocks, one after the other.
LEMMA ViewFacts ==
  ASSUME blocks \in Seq(HistogramRows), view \in createBlockView(blocks), NEW name \in Names
  PROVE  \E N \in Nat \ {0} :
           /\ DOMAIN view[name] = 1 .. N /\ view[name] \in [1 .. N -> Of(name)]
           /\ \A j, k \in 1 .. N : j < k => /\ view[name][j] # view[name][k]
                                            /\ blocks[view[name][j]].start <= blocks[view[name][k]].start
<1>1. PICK v : v = view[name]
  OBVIOUS
<1>2. PICK S : S = Of(name)
  OBVIOUS
<1>3. name \in NamesIn(blocks)
  BY DEF Names
<1>4. v \in SetToSeqs(S) /\ \A j, k \in DOMAIN v : j < k => blocks[v[j]].start <= blocks[v[k]].start
  BY <1>1, <1>2, <1>3 DEF createBlockView, Of
<1>5. IsFiniteSet(S)
  <2>1. PICK n \in Nat : DOMAIN blocks = 1 .. n
    OBVIOUS
  <2>2. IsFiniteSet(1 .. n)
    BY FS_Interval
  <2>3. S \subseteq 1 .. n
    BY <1>2, <2>1 DEF Of
  <2>. QED BY <2>2, <2>3, FS_Subset
<1>6. S # {}
  BY <1>2, <1>3 DEF Of, NamesIn
<1>7. PICK N \in Nat \ {0} : N = Cardinality(S)
  BY <1>5, <1>6, FS_CardinalityType, FS_EmptySet
<1>8. v \in [1 .. N -> S] /\ \A i, j \in 1 .. N : i # j => v[i] # v[j]
  BY <1>4, <1>7 DEF SetToSeqs
<1>9. \A j, k \in 1 .. N : j < k => v[j] # v[k]
  BY <1>8
<1>. QED BY <1>1, <1>2, <1>4, <1>8, <1>9

\* What is published for a histogram whose registers have been read at one time.
LEMMA ParsedInOrder ==
  ASSUME blocks \in Seq(HistogramRows), BlocksApart, view \in createBlockView(blocks),
         NEW c \in 1 .. Channels, NEW name \in Names, NEW t \in Nat,
         \A i \in Of(name) : data[c][i] = Fresh(c, i, t)
  PROVE  LET p == parseResponse(c, name)
             address(n) == p[n].word.at - (c - 1) * ChannelSize
         IN  /\ \A n \in DOMAIN p : p[n].word.time = t /\ address(n) \in 0 .. ChannelSize - 1
             /\ \A n \in 2 .. Len(p) : BinAt(address(n - 1), p[n - 1].high) < BinAt(address(n), p[n].high)
<1>1. PICK v : v = view[name]
  OBVIOUS
<1>2. PICK N \in Nat \ {0} :
        /\ v = view[name] /\ DOMAIN v = 1 .. N /\ v \in [1 .. N -> Of(name)]
        /\ \A j, k \in 1 .. N : j < k => v[j] # v[k] /\ blocks[v[j]].start <= blocks[v[k]].start
  BY <1>1, ViewFacts
<1>3. PICK V : V = {x \in [word : WordType, high : BOOLEAN] :
                      x.word.time = t /\ x.word.at - (c - 1) * ChannelSize \in 0 .. ChannelSize - 1}
  OBVIOUS
<1>4. PICK key : key = [x \in V |-> BinAt(x.word.at - (c - 1) * ChannelSize, x.high)]
  OBVIOUS
<1>5. PICK parts : parts = [j \in DOMAIN view[name] |-> Numbers(c, view[name][j])]
  OBVIOUS
<1>6. /\ parts = [j \in 1 .. N |-> Numbers(c, v[j])]
      /\ parseResponse(c, name) = FlattenSeq(parts)
  BY <1>2, <1>5 DEF parseResponse
<1>7. Len(parts) = N /\ \A j \in 1 .. N : parts[j] = Numbers(c, v[j])
  BY <1>6
<1>8. ASSUME NEW j \in 1 .. N
      PROVE  LET b == blocks[v[j]] IN
             /\ v[j] \in DOMAIN blocks /\ b.name = name /\ b.size \in Nat \ {0} /\ b.start \in Int
             /\ parts[j] \in Seq(V) /\ Len(parts[j]) = 2 * b.size
             /\ FirstBin(b) \in Int
             /\ \A n \in 1 .. 2 * b.size : key[parts[j][n]] = FirstBin(b) + n - 1
  <2>1. PICK i \in DOMAIN blocks : i = v[j] /\ i \in Of(name) /\ blocks[i].name = name
    BY <1>2 DEF Of
  <2>2. blocks[i] \in HistogramRows /\ blocks[i].size \in Nat \ {0}
    BY BlockFacts
  <2>3. PICK z \in Nat \ {0}, start \in Int : z = blocks[i].size /\ start = blocks[i].start
    BY <2>2 DEF HistogramRows
  <2>4. FirstBin(blocks[i]) \in Int
    BY <2>3 DEF FirstBin
  <2>5. PICK p : p = Numbers(c, i)
    OBVIOUS
  <2>6. data[c][i] = Fresh(c, i, t)
    BY <2>1
  <2>7. /\ Len(p) = 2 * z /\ DOMAIN p = 1 .. 2 * z /\ p \in Seq([word : WordType, high : BOOLEAN])
        /\ \A n \in 1 .. 2 * z :
             /\ p[n].word.time = t /\ p[n].word.at - (c - 1) * ChannelSize \in 0 .. ChannelSize - 1
             /\ BinAt(p[n].word.at - (c - 1) * ChannelSize, p[n].high) = FirstBin(blocks[i]) + n - 1
    <3>1. Numbered(p, c, i, t)
      BY <2>5, <2>6, NumberBins
    <3>. QED BY <2>3, <3>1 DEF Numbered
  <2>8. ASSUME NEW n \in 1 .. 2 * z PROVE p[n] \in V /\ key[p[n]] = FirstBin(blocks[i]) + n - 1
    <3>1. p[n] \in [word : WordType, high : BOOLEAN]
      <4>1. PICK S : S = [word : WordType, high : BOOLEAN]
        OBVIOUS
      <4>2. p \in Seq(S) /\ n \in DOMAIN p
        BY <2>7, <4>1
      <4>3. p[n] \in S
        BY <4>2
      <4>. QED BY <4>1, <4>3
    <3>2. p[n] \in V
      BY <1>3, <2>7, <3>1
    <3>. QED BY <1>4, <2>7, <3>2
  <2>9. p \in Seq(V)
    <3>1. PICK m \in Nat : m = 2 * z
      <4>1. 2 * z \in Nat
        OBVIOUS
      <4>. QED BY <4>1
    <3>2. p \in Seq([word : WordType, high : BOOLEAN]) /\ Len(p) = m /\ DOMAIN p = 1 .. m
          /\ \A n \in 1 .. m : p[n] \in V
      BY <2>7, <2>8, <3>1
    <3>3. p \in [1 .. m -> V]
      BY <3>2
    <3>. QED BY <3>3
  <2>10. parts[j] = p
    BY <1>7, <2>1, <2>5
  <2>. QED BY <2>1, <2>2, <2>3, <2>4, <2>7, <2>8, <2>9, <2>10
<1>9. ASSUME NEW j \in 1 .. N PROVE Rising(parts[j], V, key) /\ parts[j] # <<>>
  <2>1. PICK f \in Int, z \in Nat \ {0} : f = FirstBin(blocks[v[j]]) /\ z = blocks[v[j]].size
    BY <1>8
  <2>2. /\ parts[j] \in Seq(V) /\ Len(parts[j]) = 2 * z
        /\ \A n \in 1 .. 2 * z : key[parts[j][n]] = f + n - 1
    BY <1>8, <2>1
  <2>3. \A n \in 2 .. Len(parts[j]) : key[parts[j][n - 1]] < key[parts[j][n]]
    <3>. TAKE n \in 2 .. Len(parts[j])
    <3>1. n \in 1 .. 2 * z /\ n - 1 \in 1 .. 2 * z
      BY <2>2
    <3>2. key[parts[j][n]] = f + n - 1 /\ key[parts[j][n - 1]] = f + (n - 1) - 1
      BY <2>2, <3>1
    <3>. QED BY <3>1, <3>2
  <2>4. parts[j] # <<>>
    BY <2>2
  <2>. QED BY <2>2, <2>3, <2>4 DEF Rising
<1>10. ASSUME NEW j \in 2 .. N PROVE key[parts[j - 1][Len(parts[j - 1])]] < key[parts[j][1]]
  <2>1. j \in 1 .. N /\ j - 1 \in 1 .. N /\ j - 1 < j
    OBVIOUS
  <2>2. PICK b : b = blocks[v[j - 1]]
    OBVIOUS
  <2>3. PICK f \in Int, z \in Nat \ {0}, s \in Int : f = FirstBin(b) /\ z = b.size /\ s = b.start
    BY <1>8, <2>1, <2>2
  <2>4. PICK d : d = blocks[v[j]]
    OBVIOUS
  <2>5. PICK g \in Int, y \in Nat \ {0}, r \in Int : g = FirstBin(d) /\ y = d.size /\ r = d.start
    BY <1>8, <2>1, <2>4
  <2>6. key[parts[j - 1][Len(parts[j - 1])]] = f + 2 * z - 1
    <3>1. 2 * z \in 1 .. 2 * z
      OBVIOUS
    <3>. QED BY <1>8, <2>1, <2>2, <2>3, <3>1
  <2>7. key[parts[j][1]] = g
    <3>1. 1 \in 1 .. 2 * y
      OBVIOUS
    <3>2. key[parts[j][1]] = g + 1 - 1
      BY <1>8, <2>1, <2>4, <2>5, <3>1
    <3>. QED BY <3>2
  <2>8. /\ v[j - 1] \in DOMAIN blocks /\ v[j] \in DOMAIN blocks /\ b.name = d.name
        /\ v[j - 1] # v[j] /\ s <= r
    <3>1. v[j - 1] # v[j] /\ blocks[v[j - 1]].start <= blocks[v[j]].start
      BY <1>2, <2>1
    <3>. QED BY <1>8, <2>1, <2>2, <2>4, <2>3, <2>5, <3>1
  <2>9. LastBin(b) < FirstBin(d) \/ LastBin(d) < FirstBin(b)
    BY <2>2, <2>4, <2>8 DEF BlocksApart
  <2>10. LastBin(b) = f + 2 * z - 1 /\ f <= s
    <3>1. CASE b.negative
      <4>1. f = s - (2 * z - 1) /\ LastBin(b) = s
        BY <2>3, <3>1 DEF FirstBin, LastBin
      <4>. QED BY <4>1
    <3>2. CASE ~b.negative
      <4>1. f = s /\ LastBin(b) = s + 2 * z - 1
        BY <2>3, <3>2 DEF FirstBin, LastBin
      <4>. QED BY <4>1
    <3>. QED BY <3>1, <3>2
  <2>11. LastBin(d) = g + 2 * y - 1 /\ r <= g + 2 * y - 1
    <3>1. CASE d.negative
      <4>1. g = r - (2 * y - 1) /\ LastBin(d) = r
        BY <2>5, <3>1 DEF FirstBin, LastBin
      <4>. QED BY <4>1
    <3>2. CASE ~d.negative
      <4>1. g = r /\ LastBin(d) = r + 2 * y - 1
        BY <2>5, <3>2 DEF FirstBin, LastBin
      <4>. QED BY <4>1
    <3>. QED BY <3>1, <3>2
  <2>12. f + 2 * z - 1 < g
    <3>1. f + 2 * z - 1 < g \/ g + 2 * y - 1 < f
      BY <2>9, <2>10, <2>11, <2>3, <2>5
    <3>. QED BY <2>8, <2>10, <2>11, <3>1
  <2>. QED BY <2>6, <2>7, <2>12
<1>11. PICK p : p = parseResponse(c, name)
  OBVIOUS
<1>12. Rising(p, V, key)
  BY <1>6, <1>7, <1>9, <1>10, <1>11, FlattenRising, ZenonT(30)
<1>13. p \in Seq(V)
  BY <1>12 DEF Rising
<1>14. \A n \in DOMAIN p : p[n].word.time = t /\ p[n].word.at - (c - 1) * ChannelSize \in 0 .. ChannelSize - 1
  BY <1>3, <1>13
<1>15. ASSUME NEW n \in 2 .. Len(p)
       PROVE  BinAt(p[n - 1].word.at - (c - 1) * ChannelSize, p[n - 1].high)
                < BinAt(p[n].word.at - (c - 1) * ChannelSize, p[n].high)
  <2>1. n \in DOMAIN p /\ n - 1 \in DOMAIN p
    BY <1>13
  <2>2. p[n] \in V /\ p[n - 1] \in V
    BY <1>13, <2>1
  <2>3. key[p[n - 1]] < key[p[n]]
    BY <1>12 DEF Rising
  <2>. QED BY <1>4, <2>2, <2>3
<1>. QED BY <1>11, <1>14, <1>15
-------------------------------------------------------------------------------
(* The readouts of a PM *)

\* The blocks of the first n operations are stored as they were read last.
AllFresh(d, n) == \A c \in 1 .. Channels : \A i \in DOMAIN blocks :
  (\E j \in 1 .. n : Inside(c, i, operations[j])) => d[c][i] = Fresh(c, i, time)
ReadSoFar(n) == AllFresh(data, n)

PmNumbers ==
  /\ next \in Nat \ {0} /\ readId \in Nat /\ pointer \in Nat /\ time \in Nat /\ actions \in Nat
  /\ histogramming \in BOOLEAN /\ disturbed \in BOOLEAN
  /\ pmPc \in {"absent", "idle", "address", "block", "filterOn", "storeOn", "filterBcid",
               "storeBcid"}
  /\ pmAnswer \in {"none", "OK", "filtered", "read", "lost", "notStored"}

\* The blocks of the service, and what has to be read of them.
ChoiceInv ==
  /\ blocks \in Seq(HistogramRows) /\ Sorted
  /\ selected \subseteq Names /\ OperationsOf(operations, selected)
  /\ pmPc = "absent" => /\ blocks = <<>> /\ data = <<>> /\ operations = <<>> /\ selected = {}
                        /\ pmAnswer = "none"
  /\ pmPc # "absent" => view \in createBlockView(blocks) /\ data \in [1 .. Channels -> Contents]
  /\ pmPc \in {"address", "block"} => next \in DOMAIN operations /\ pmAnswer = "none"

\* A readout that nobody disturbs has stored the blocks of all operations it has done.
ReadInv == BlocksApart =>
  /\ RefusedOnlyAcrossChannels
  /\ ~disturbed =>
       /\ pmPc \in {"address", "block"} => ReadSoFar(next - 1)
       /\ pmPc = "block" => pointer = operations[next].at
       /\ pmAnswer = "read" => ReadSoFar(Len(operations))

PmInv == PmNumbers /\ ChoiceInv /\ ReadInv

\* What speaks of the blocks alone is the same while they are.
LEMMA BlocksSame ==
  ASSUME blocks' = blocks
  PROVE  /\ Names' = Names /\ (Sorted' <=> Sorted) /\ (BlocksApart' <=> BlocksApart) /\ Contents' = Contents
         /\ \A c, i, o : Inside(c, i, o)' <=> Inside(c, i, o)
         /\ \A c, i, t : Fresh(c, i, t)' = Fresh(c, i, t)
         /\ \A ops, names : OperationsOf(ops, names)' <=> OperationsOf(ops, names)
<1>1. \A c, i : Place(c, i)' = Place(c, i)
  BY DEF Place
<1>2. \A c, i, o : Inside(c, i, o)' <=> Inside(c, i, o)
  BY <1>1 DEF Inside
<1>3. \A c, i, t : Fresh(c, i, t)' = Fresh(c, i, t)
  BY <1>1 DEF Fresh
<1>4. \A ops, names : OperationsOf(ops, names)' <=> OperationsOf(ops, names)
  BY <1>1, <1>2 DEF OperationsOf
<1>5. Names' = Names /\ (Sorted' <=> Sorted)
  BY DEF Names, NamesIn, Sorted
<1>6. BlocksApart' <=> BlocksApart
  BY DEF BlocksApart
<1>7. Contents' = Contents
  BY DEF Contents
<1>. QED BY <1>2, <1>3, <1>4, <1>5, <1>6, <1>7

\* So is how far a readout has come, while nothing is read.
LEMMA ReadSoFarSame ==
  ASSUME UNCHANGED <<blocks, operations, data, time, next>>
  PROVE  /\ BlocksApart' <=> BlocksApart
         /\ ReadSoFar(next - 1)' <=> ReadSoFar(next - 1)
         /\ ReadSoFar(Len(operations))' <=> ReadSoFar(Len(operations))
<1>1. \A n : ReadSoFar(n)' <=> ReadSoFar(n)
  BY BlocksSame DEF ReadSoFar, AllFresh
<1>2. PICK m, n : m = next - 1 /\ n = Len(operations)
  OBVIOUS
<1>3. (ReadSoFar(next - 1)' <=> ReadSoFar(m)') /\ (ReadSoFar(Len(operations))' <=> ReadSoFar(n)')
  BY <1>2 DEF ReadSoFar
<1>. QED BY <1>1, <1>2, <1>3, BlocksSame

\* A step that ends what the service does, or does something else, publishing no readout.
LEMMA QuietStep ==
  ASSUME PmInv, PmNumbers', UNCHANGED <<choice, data>>, pmPc # "absent",
         pmPc' \in {"idle", "filterOn", "filterBcid"}, pmAnswer' \in {"none", "OK", "filtered", "lost"}
  PROVE  PmInv'
<1>1. UNCHANGED <<blocks, view, selected, operations, data>>
  BY DEF choice
<1>2. ChoiceInv'
  BY <1>1, BlocksSame DEF PmInv, ChoiceInv
<1>3. ReadInv'
  BY DEF ReadInv, RefusedOnlyAcrossChannels
<1>. QED BY <1>2, <1>3 DEF PmInv

LEMMA SelectInv == ASSUME PmInv, NEW names, Select(names) PROVE PmInv'
<1>1. /\ UNCHANGED <<blocks, view, data, next, readId, histogramming, pointer, time, disturbed, pmPc>>
      /\ pmPc = "idle" /\ pmAnswer' = "OK" /\ selected' = names \cap Names
      /\ operations' = updateOperations(names) /\ actions' = actions + 1
  BY DEF Select, service, filters, Act
<1>2. PmNumbers'
  BY <1>1 DEF PmInv, PmNumbers
<1>3. blocks \in Seq(HistogramRows)
  BY DEF PmInv, ChoiceInv
<1>4. PICK ops : ops = updateOperations(names)
  OBVIOUS
<1>5. OperationsOf(ops, names)
  BY <1>3, <1>4, UpdateOperations
<1>6. OperationsOf(ops, names \cap Names)
  <2>1. \A i \in DOMAIN blocks : blocks[i].name \in names \cap Names => blocks[i].name \in names
    OBVIOUS
  <2>. QED BY <1>5, <2>1 DEF OperationsOf
<1>7. OperationsOf(operations, selected)'
  <2>1. PICK sel : sel = names \cap Names
    OBVIOUS
  <2>2. OperationsOf(ops, sel)'
    BY <1>1, <1>6, <2>1, BlocksSame
  <2>3. operations' = ops /\ selected' = sel
    BY <1>1, <1>4, <2>1
  <2>. QED BY <2>2, <2>3 DEF OperationsOf
<1>8. ChoiceInv'
  BY <1>1, <1>7, BlocksSame DEF PmInv, ChoiceInv
<1>9. ReadInv'
  BY <1>1 DEF ReadInv, RefusedOnlyAcrossChannels
<1>. QED BY <1>2, <1>8, <1>9 DEF PmInv

LEMMA BeginReadInv == ASSUME PmInv, BeginRead PROVE PmInv'
<1>1. /\ UNCHANGED <<blocks, view, selected, operations, data, histogramming, pointer>>
      /\ pmPc = "idle" /\ time' = time + 1 /\ next' = 1 /\ disturbed' = FALSE /\ actions' = actions + 1
      /\ \/ operations = <<>> /\ pmPc' = "idle" /\ readId' = readId + 1 /\ pmAnswer' = "read"
         \/ operations # <<>> /\ pmPc' = "address" /\ pmAnswer' = "none" /\ readId' = readId
  BY DEF BeginRead, Done, choice, filters, Act
<1>2. PmNumbers'
  <2>1. next' \in Nat \ {0} /\ time' \in Nat /\ actions' \in Nat /\ pointer' \in Nat /\ readId' \in Nat
    BY <1>1 DEF PmInv, PmNumbers
  <2>2. histogramming' \in BOOLEAN /\ disturbed' \in BOOLEAN
    BY <1>1 DEF PmInv, PmNumbers
  <2>. QED BY <1>1, <2>1, <2>2 DEF PmNumbers
<1>3. operations \in Seq(OperationType)
  BY DEF PmInv, ChoiceInv, OperationsOf
<1>4. operations # <<>> => 1 \in DOMAIN operations
  BY <1>3
<1>5. ChoiceInv'
  BY <1>1, <1>4, BlocksSame DEF PmInv, ChoiceInv
<1>6. ReadSoFar(0)'
  BY DEF ReadSoFar, AllFresh
<1>7. ReadInv'
  <2>1. next' - 1 = 0 /\ (operations = <<>> => Len(operations') = 0)
    BY <1>1
  <2>. QED BY <1>1, <1>6, <2>1 DEF ReadInv, RefusedOnlyAcrossChannels
<1>. QED BY <1>2, <1>5, <1>7 DEF PmInv

\* The type of the operation at hand.
LEMMA OperationAtHand ==
  ASSUME ChoiceInv, pmPc \in {"address", "block"}
  PROVE  /\ operations \in Seq(OperationType) /\ next \in 1 .. Len(operations)
         /\ operations[next].at \in Nat /\ operations[next].size \in Nat
<1>1. operations \in Seq(OperationType) /\ next \in DOMAIN operations
  BY DEF ChoiceInv, OperationsOf
<1>2. operations[next] \in OperationType
  BY <1>1
<1>. QED BY <1>1, <1>2 DEF OperationType

LEMMA SetAddressInv == ASSUME PmInv, SetAddress PROVE PmInv'
<1>1. /\ UNCHANGED <<blocks, view, selected, operations, data, histogramming, readId, next, pmAnswer,
                     time, actions, disturbed>>
      /\ pmPc = "address" /\ pmPc' = "block" /\ pointer' = operations[next].at
  BY DEF SetAddress, choice, filters
<1>2. pointer' \in Nat
  BY <1>1, OperationAtHand DEF PmInv
<1>3. PmNumbers'
  BY <1>1, <1>2 DEF PmInv, PmNumbers
<1>4. ChoiceInv'
  BY <1>1, BlocksSame DEF PmInv, ChoiceInv
<1>5. ReadSoFar(next - 1) => ReadSoFar(next - 1)'
  BY <1>1, BlocksSame DEF ReadSoFar, AllFresh
<1>6. ReadInv'
  <2>1. pmAnswer' = "none"
    BY <1>1 DEF PmInv, ChoiceInv
  <2>. QED BY <1>1, <1>5, <2>1, BlocksSame DEF PmInv, ReadInv, RefusedOnlyAcrossChannels
<1>. QED BY <1>3, <1>4, <1>6 DEF PmInv

LEMMA FailuresInv == ASSUME PmInv, SetAddressFails \/ ReadBlockFails PROVE PmInv'
<1>1. /\ UNCHANGED <<choice, data, histogramming, readId, next, time, actions, disturbed>>
      /\ pmPc \in {"address", "block"} /\ pmPc' = "idle" /\ pmAnswer' = "lost"
      /\ pointer' \in {pointer, operations[next].at, 0, pointer + operations[next].size}
  BY DEF SetAddressFails, ReadBlockFails, Failed, filters
<1>2. operations[next].at \in Nat /\ operations[next].size \in Nat /\ pointer \in Nat
  BY <1>1, OperationAtHand DEF PmInv, PmNumbers
<1>3. pointer' \in Nat
  BY <1>1, <1>2
<1>4. PmNumbers'
  BY <1>1, <1>3 DEF PmInv, PmNumbers
<1>. QED BY <1>1, <1>4, QuietStep

LEMMA OtherRequestsInv ==
  ASSUME PmInv, \/ resetHistograms \/ (\E on \in BOOLEAN : switchHistogramming(on))
                \/ (\E w \in BcIds \cup {"OFF"} : setBcIdFilter(w))
  PROVE  PmInv'
<1>1. CASE resetHistograms
  <2>1. /\ UNCHANGED <<choice, data, histogramming, readId, next, pointer, disturbed, pmPc>>
        /\ pmPc = "idle" /\ pmAnswer' \in {"OK", "lost"} /\ time' \in {time, time + 1}
        /\ actions' = actions + 1
    BY <1>1 DEF resetHistograms, service, filters, Act
  <2>2. PmNumbers'
    BY <2>1 DEF PmInv, PmNumbers
  <2>. QED BY <2>1, <2>2, QuietStep
<1>2. ASSUME NEW on \in BOOLEAN, switchHistogramming(on) PROVE PmInv'
  <2>1. /\ UNCHANGED <<choice, data, time, readId, next, pointer, disturbed, pmPc>>
        /\ pmPc = "idle" /\ pmAnswer' \in {"OK", "lost"} /\ histogramming' \in {histogramming, on, FALSE}
        /\ actions' = actions + 1
    BY <1>2 DEF switchHistogramming, service, Act
  <2>2. PmNumbers'
    <3>1. histogramming' \in BOOLEAN
      <4>1. histogramming \in BOOLEAN
        BY DEF PmInv, PmNumbers
      <4>. QED BY <2>1, <4>1, Zenon
    <3>. QED BY <2>1, <3>1 DEF PmInv, PmNumbers
  <2>. QED BY <2>1, <2>2, QuietStep
<1>3. ASSUME NEW w \in BcIds \cup {"OFF"}, setBcIdFilter(w) PROVE PmInv'
  <2>1. /\ UNCHANGED <<choice, data, time, readId, next, pointer, histogramming, disturbed>>
        /\ pmPc = "idle" /\ actions' = actions + 1
    BY <1>3 DEF setBcIdFilter, Act
  <2>2. pmPc' \in {"idle", "filterOn", "filterBcid"} /\ pmAnswer' \in {"none", "filtered"}
    <3>. DEFINE skip == IF w = "OFF" THEN stored.on = "0" ELSE stored.on = "1"
    <3>1. CASE ~skip
      BY <1>3, <3>1 DEF setBcIdFilter
    <3>2. CASE skip /\ w # "OFF" /\ stored.bcid # w
      BY <1>3, <3>2 DEF setBcIdFilter
    <3>3. CASE ~(~skip) /\ ~(skip /\ w # "OFF" /\ stored.bcid # w)
      BY <1>3, <3>3 DEF setBcIdFilter
    <3>. QED BY <3>1, <3>2, <3>3
  <2>3. PmNumbers'
    <3>1. next' \in Nat \ {0} /\ time' \in Nat /\ actions' \in Nat /\ pointer' \in Nat /\ readId' \in Nat
      BY <2>1 DEF PmInv, PmNumbers
    <3>2. histogramming' \in BOOLEAN /\ disturbed' \in BOOLEAN
      BY <2>1 DEF PmInv, PmNumbers
    <3>. QED BY <2>2, <3>1, <3>2 DEF PmNumbers
  <2>. QED BY <2>1, <2>2, <2>3, QuietStep
<1>. QED BY <1>1, <1>2, <1>3

\* The writes of a filter, and what the others do, change neither the choice nor the data.
LEMMA FilterWritesInv ==
  ASSUME PmInv, \/ WriteFilterOn \/ WriteFilterBcid \/ StoreFilterOn \/ StoreFilterBcid
                \/ OtherMovesPointer
                \/ \E k \in PmClients : OtherUsesFilter(k) \/ OtherStoresFilter(k)
  PROVE  PmInv'
<1>1. CASE WriteFilterOn \/ WriteFilterBcid \/ StoreFilterOn \/ StoreFilterBcid
  <2>1. /\ UNCHANGED <<blocks, view, selected, operations, data, time, readId, next, histogramming>>
        /\ UNCHANGED <<pointer, disturbed, actions>>
        /\ pmPc \in {"filterOn", "storeOn", "filterBcid", "storeBcid"}
        /\ pmPc' \in {"idle", "storeOn", "filterBcid", "storeBcid"}
        /\ pmAnswer' \in {"filtered", "lost", pmAnswer}
    BY <1>1 DEF WriteFilterOn, WriteFilterBcid, StoreFilterOn, StoreFilterBcid, WriteField,
                WriteFieldFails, choice
  <2>2. PmNumbers'
    BY <2>1 DEF PmInv, PmNumbers
  <2>3. ChoiceInv'
    BY <2>1, BlocksSame DEF PmInv, ChoiceInv
  <2>4. ReadSoFar(Len(operations)) => ReadSoFar(Len(operations))'
    BY <2>1, BlocksSame DEF ReadSoFar, AllFresh
  <2>5. ReadInv'
    BY <2>1, <2>4, BlocksSame DEF PmInv, ReadInv, RefusedOnlyAcrossChannels
  <2>. QED BY <2>2, <2>3, <2>5 DEF PmInv
<1>2. CASE OtherMovesPointer
  <2>1. /\ UNCHANGED <<blocks, view, selected, operations, data, time, readId, next, histogramming>>
        /\ disturbed' = TRUE /\ actions' = actions + 1 /\ UNCHANGED <<pmPc, pmAnswer>>
        /\ pointer' \in {0, ChannelSize}
    BY <1>2 DEF OtherMovesPointer, choice, service, filters, Act
  <2>2. PmNumbers'
    BY <2>1, PmHistogramsAssumption DEF PmInv, PmNumbers
  <2>3. ChoiceInv'
    BY <2>1, BlocksSame DEF PmInv, ChoiceInv
  <2>4. ReadInv'
    BY <2>1, BlocksSame DEF PmInv, ReadInv, RefusedOnlyAcrossChannels
  <2>. QED BY <2>2, <2>3, <2>4 DEF PmInv
<1>3. ASSUME NEW k \in PmClients, OtherUsesFilter(k) \/ OtherStoresFilter(k) PROVE PmInv'
  <2>1. /\ UNCHANGED <<blocks, view, selected, operations, data, time, readId, next, histogramming>>
        /\ UNCHANGED <<pmPc, pmAnswer, pointer, disturbed>> /\ actions' \in {actions, actions + 1}
    BY <1>3 DEF OtherUsesFilter, OtherStoresFilter, choice, service, Act
  <2>2. PmNumbers'
    BY <2>1 DEF PmInv, PmNumbers
  <2>3. ChoiceInv'
    BY <2>1, BlocksSame DEF PmInv, ChoiceInv
  <2>4. ReadInv'
    BY <2>1, ReadSoFarSame DEF PmInv, ReadInv, RefusedOnlyAcrossChannels
  <2>. QED BY <2>2, <2>3, <2>4 DEF PmInv
<1>. QED BY <1>1, <1>2, <1>3
-------------------------------------------------------------------------------

\* Storing words, whatever they are, changes the blocks of at most one channel.
LEMMA StoredType ==
  ASSUME ChoiceInv, pmPc = "block", NEW words \in Seq(WordType), NEW k,
         k = operations[next].at \div ChannelSize + 1
  PROVE  [data EXCEPT ![k] = storeReadoutData(operations[next].at, words).channel]
           \in [1 .. Channels -> Contents]
<1>1. data \in [1 .. Channels -> Contents] /\ blocks \in Seq(HistogramRows)
  BY DEF ChoiceInv
<1>2. PICK at_ \in Nat : at_ = operations[next].at
  BY OperationAtHand
<1>3. CASE k \in 1 .. Channels
  <2>1. data[at_ \div ChannelSize + 1] \in Contents
    BY <1>1, <1>2, <1>3
  <2>2. storeReadoutData(at_, words) \in StoreState
    <3>1. PICK s : /\ s \in [0 .. Len(blocks) -> StoreState]
                   /\ storeReadoutData(at_, words) = s[Len(blocks)]
      BY <1>1, <2>1, StoreDefined
    <3>2. Len(blocks) \in 0 .. Len(blocks)
      BY <1>1
    <3>. QED BY <3>1, <3>2
  <2>3. storeReadoutData(at_, words).channel \in Contents
    BY <2>2 DEF StoreState
  <2>. QED BY <1>1, <1>2, <2>3
<1>4. CASE k \notin 1 .. Channels
  BY <1>1, <1>4
<1>. QED BY <1>3, <1>4

\* The block of an operation is read: the words have gone to its blocks if none was refused,
\* and if one was, the operation crosses the end of its channel.
LEMMA BlockIsStored ==
  ASSUME PmInv, BlocksApart, pmPc = "block", NEW words, NEW s, NEW new,
         words = WordsFrom(pointer, operations[next].size, time),
         s = storeReadoutData(operations[next].at, words),
         new = [data EXCEPT ![operations[next].at \div ChannelSize + 1] = s.channel]
  PROVE  /\ ~AllStored(s, words) =>
              (operations[next].at % ChannelSize) + operations[next].size > ChannelSize
         /\ AllStored(s, words) /\ ~disturbed => AllFresh(new, next)
<1>1. data \in [1 .. Channels -> Contents] /\ blocks \in Seq(HistogramRows) /\ Sorted
  BY DEF PmInv, ChoiceInv
<1>2. OperationsOf(operations, selected) /\ next \in DOMAIN operations
  BY DEF PmInv, ChoiceInv
<1>3. PICK o : o = operations[next]
  OBVIOUS
<1>4. PICK c \in 1 .. Channels, relative \in 0 .. ChannelSize - 1 :
        /\ o.at = (c - 1) * ChannelSize + relative /\ o.size \in Nat \ {0}
        /\ o.at \div ChannelSize + 1 = c /\ o.at % ChannelSize = relative
        /\ \E i \in DOMAIN blocks : blocks[i].base = relative
        /\ relative + o.size <= ChannelSize =>
             /\ Tiled(relative, o.size)
             /\ \A e \in 1 .. Channels : \A m \in DOMAIN blocks :
                  Inside(e, m, o) => e = c /\ Within(m, relative, o.size)
  BY <1>1, <1>2, <1>3, OperationFacts
<1>5. PICK L \in Nat \ {0}, p \in Nat, t \in Nat : L = o.size /\ p = pointer /\ t = time
  BY <1>4 DEF PmInv, PmNumbers
<1>6. ChannelSize \in Nat \ {0} /\ Channels \in Nat /\ c \in Nat \ {0}
  BY PmHistogramsAssumption
<1>7. data[c] \in Contents
  BY <1>1
<1>8. words = WordsFrom(p, L, t) /\ s = storeReadoutData((c - 1) * ChannelSize + relative, words)
  BY <1>3, <1>4, <1>5
<1>9. ReadInto(s, c, relative, L, p, t)
  BY <1>1, <1>4, <1>6, <1>7, <1>8, StoreReadout
<1>10. new[c] = s.channel /\ \A e \in 1 .. Channels : e # c => new[e] = data[e]
  BY <1>1, <1>3, <1>4
<1>11. ASSUME ~AllStored(s, words) PROVE relative + L > ChannelSize
  <2>1. ~(relative + L <= ChannelSize)
    BY <1>4, <1>5, <1>8, <1>9, <1>11 DEF ReadInto
  <2>. QED BY <1>6, <2>1
<1>12. ASSUME AllStored(s, words), ~disturbed, NEW e \in 1 .. Channels, NEW m \in DOMAIN blocks,
              NEW j \in 1 .. next, Inside(e, m, operations[j])
       PROVE  new[e][m] = Fresh(e, m, t)
  <2>1. /\ ReadSoFar(next - 1) /\ pointer = o.at
    BY <1>3, <1>12 DEF PmInv, ReadInv
  <2>2. p = (c - 1) * ChannelSize + relative
    BY <1>4, <1>5, <2>1
  <2>3. relative + L <= ChannelSize
    BY <1>8, <1>9, <1>12 DEF ReadInto
  <2>4. CASE j = next
    <3>1. e = c /\ Within(m, relative, L)
      BY <1>3, <1>4, <1>5, <1>12, <2>3, <2>4
    <3>2. s.channel[m] = Fresh(c, m, t)
      BY <1>8, <1>9, <1>12, <2>2, <3>1 DEF ReadInto
    <3>. QED BY <1>10, <3>1, <3>2
  <2>5. CASE j # next
    <3>1. j \in 1 .. next - 1
      BY <1>12, <2>5 DEF PmInv, PmNumbers
    <3>2. data[e][m] = Fresh(e, m, t)
      BY <1>5, <1>12, <2>1, <3>1 DEF ReadSoFar, AllFresh
    <3>3. CASE e = c
      <4>1. s.channel[m] = data[c][m] \/ s.channel[m] = Fresh(c, m, t)
        BY <1>9, <2>2 DEF ReadInto
      <4>. QED BY <1>10, <3>2, <3>3, <4>1
    <3>4. CASE e # c
      BY <1>10, <3>2, <3>4
    <3>. QED BY <3>3, <3>4
  <2>. QED BY <2>4, <2>5
<1>. QED BY <1>3, <1>4, <1>5, <1>11, <1>12 DEF AllFresh

LEMMA ReadBlockInv == ASSUME PmInv, ReadBlock PROVE PmInv'
<1>1. pmPc = "block" /\ ChoiceInv /\ PmNumbers /\ ReadInv
  BY DEF ReadBlock, PmInv
<1>2. PICK at_ \in Nat, size \in Nat : at_ = operations[next].at /\ size = operations[next].size
  BY <1>1, OperationAtHand
<1>3. PICK words : words = FifoAnswer(pointer, Packets(0, FALSE, size), time)
  OBVIOUS
<1>4. words = WordsFrom(pointer, size, time) /\ words \in Seq(WordType) /\ Len(words) = size
  <2>1. pointer \in Nat /\ time \in Nat
    BY <1>1 DEF PmNumbers
  <2>2. words = WordsFrom(pointer, size, time)
    BY <1>3, <2>1, FifoBlock
  <2>3. WordsFrom(pointer, size, time) \in Seq(WordType) /\ Len(WordsFrom(pointer, size, time)) = size
    BY <2>1, WordsType
  <2>. QED BY <2>2, <2>3
<1>5. PICK s : s = storeReadoutData(at_, words)
  OBVIOUS
<1>6. /\ pointer' = pointer + Len(words)
      /\ UNCHANGED <<disturbed, choice, filters, time, actions>>
      /\ IF ~Complete(words, size) THEN Failed("lost") /\ UNCHANGED data
         ELSE /\ data' = [data EXCEPT ![at_ \div ChannelSize + 1] = s.channel]
              /\ IF ~AllStored(s, words) THEN Failed("notStored")
                 ELSE IF next = Len(operations) THEN Done /\ UNCHANGED next
                 ELSE pmPc' = "address" /\ next' = next + 1 /\ UNCHANGED <<readId, pmAnswer>>
  BY <1>2, <1>3, <1>5 DEF ReadBlock
<1>7. Complete(words, size)
  BY <1>4 DEF Complete
<1>8. /\ UNCHANGED <<blocks, view, selected, operations, disturbed, histogramming, time, actions>>
      /\ data' = [data EXCEPT ![at_ \div ChannelSize + 1] = s.channel]
      /\ pointer' \in Nat
      /\ \/ /\ ~AllStored(s, words) /\ pmPc' = "idle" /\ pmAnswer' = "notStored" /\ next' = next
            /\ readId' = readId
         \/ /\ AllStored(s, words) /\ next = Len(operations) /\ pmPc' = "idle" /\ pmAnswer' = "read"
            /\ next' = next /\ readId' = readId + 1
         \/ /\ AllStored(s, words) /\ next # Len(operations) /\ pmPc' = "address" /\ next' = next + 1
            /\ readId' = readId /\ pmAnswer' = pmAnswer
  <2>1. pointer' \in Nat
    BY <1>1, <1>2, <1>4, <1>6 DEF PmNumbers
  <2>. QED BY <1>6, <1>7, <2>1 DEF choice, filters, Failed, Done
<1>9. PmNumbers'
  BY <1>1, <1>8 DEF PmNumbers
<1>10. /\ next \in 1 .. Len(operations) /\ Len(operations) \in Nat
       /\ operations \in Seq(OperationType) /\ DOMAIN operations = 1 .. Len(operations)
  <2>1. operations \in Seq(OperationType) /\ next \in 1 .. Len(operations)
    BY <1>1, OperationAtHand
  <2>. HIDE DEF OperationType
  <2>. QED BY <2>1
<1>11. ChoiceInv'
  <2>1. data' \in [1 .. Channels -> Contents]
    BY <1>1, <1>2, <1>4, <1>5, <1>8, StoredType
  <2>2. pmPc' \in {"address", "block"} => next' \in DOMAIN operations /\ pmAnswer' = "none"
    <3>. SUFFICES ASSUME pmPc' \in {"address", "block"} PROVE next' \in DOMAIN operations /\ pmAnswer' = "none"
      OBVIOUS
    <3>1. next # Len(operations) /\ next' = next + 1 /\ pmAnswer' = pmAnswer
      BY <1>8
    <3>2. PICK n \in Nat : n = Len(operations)
      BY <1>10
    <3>3. next + 1 \in 1 .. n
      <4>1. next \in 1 .. n /\ next # n
        BY <1>10, <3>1, <3>2
      <4>. QED BY <4>1
    <3>. QED BY <1>1, <1>10, <3>1, <3>2, <3>3 DEF ChoiceInv
  <2>3. pmPc' # "absent" /\ pmPc # "absent"
    BY <1>1, <1>8
  <2>. QED BY <1>1, <1>8, <2>1, <2>2, <2>3, BlocksSame DEF ChoiceInv
<1>12. ReadInv'
  <2>. SUFFICES ASSUME BlocksApart
                PROVE  /\ RefusedOnlyAcrossChannels'
                       /\ ~disturbed =>
                            /\ pmPc' \in {"address", "block"} => ReadSoFar(next - 1)'
                            /\ pmPc' = "block" => (pointer = operations[next].at)'
                            /\ pmAnswer' = "read" => ReadSoFar(Len(operations))'
    BY <1>8, BlocksSame DEF ReadInv
  <2>1. /\ ~AllStored(s, words) => (at_ % ChannelSize) + size > ChannelSize
        /\ AllStored(s, words) /\ ~disturbed => \A e \in 1 .. Channels : \A m \in DOMAIN blocks :
             (\E j \in 1 .. next : Inside(e, m, operations[j])) => data'[e][m] = Fresh(e, m, time)
    <3>1. PICK new : new = [data EXCEPT ![operations[next].at \div ChannelSize + 1] = s.channel]
      OBVIOUS
    <3>2. words = WordsFrom(pointer, operations[next].size, time)
          /\ s = storeReadoutData(operations[next].at, words)
      BY <1>2, <1>4, <1>5
    <3>3. /\ ~AllStored(s, words) =>
               (operations[next].at % ChannelSize) + operations[next].size > ChannelSize
          /\ AllStored(s, words) /\ ~disturbed => AllFresh(new, next)
      BY <1>1, <3>1, <3>2, BlockIsStored
    <3>4. data' = new
      BY <1>2, <1>8, <3>1
    <3>. QED BY <1>2, <3>3, <3>4 DEF AllFresh
  <2>2. RefusedOnlyAcrossChannels'
    <3>1. CASE ~AllStored(s, words)
      BY <1>2, <1>8, <1>10, <2>1, <3>1 DEF RefusedOnlyAcrossChannels
    <3>2. CASE AllStored(s, words)
      <4>1. pmAnswer' # "notStored"
        BY <1>1, <1>8, <3>2 DEF ChoiceInv
      <4>. QED BY <4>1 DEF RefusedOnlyAcrossChannels
    <3>. QED BY <3>1, <3>2
  <2>3. ASSUME AllStored(s, words), ~disturbed, NEW n, n = next PROVE ReadSoFar(n)'
    <3>1. \A e \in 1 .. Channels : \A m \in DOMAIN blocks :
            (\E j \in 1 .. n : Inside(e, m, operations[j])) => data'[e][m] = Fresh(e, m, time)
      BY <2>1, <2>3
    <3>. QED BY <1>8, <3>1, BlocksSame DEF ReadSoFar, AllFresh
  <2>4. ASSUME ~disturbed, pmPc' \in {"address", "block"} PROVE ReadSoFar(next - 1)'
    <3>1. AllStored(s, words) /\ next' - 1 = next
      <4>1. next' = next + 1 /\ AllStored(s, words)
        BY <1>8, <2>4
      <4>. QED BY <1>10, <4>1
    <3>2. PICK n : n = next
      OBVIOUS
    <3>3. ReadSoFar(n)' /\ next' - 1 = n
      BY <2>3, <2>4, <3>1, <3>2
    <3>. QED BY <3>3 DEF ReadSoFar, AllFresh
  <2>5. ASSUME ~disturbed, pmAnswer' = "read" PROVE ReadSoFar(Len(operations))'
    <3>1. AllStored(s, words) /\ next = Len(operations)
      BY <1>1, <1>8, <2>5 DEF ChoiceInv
    <3>2. PICK n : n = next
      OBVIOUS
    <3>3. ReadSoFar(n)' /\ Len(operations') = n
      BY <1>8, <2>3, <2>5, <3>1, <3>2
    <3>. QED BY <3>3 DEF ReadSoFar, AllFresh
  <2>6. pmPc' # "block"
    BY <1>8
  <2>. QED BY <2>2, <2>4, <2>5, <2>6
<1>. QED BY <1>9, <1>11, <1>12 DEF PmInv
-------------------------------------------------------------------------------
(* The structure of the histograms *)

LEMMA LastExists ==
  ASSUME NEW rows \in Seq(HistogramRows), NEW n, NEW negative
  PROVE  \/ LastOf(rows, n, negative) = <<>>
         \/ \E i \in DOMAIN rows : LastOf(rows, n, negative) = <<rows[i]>>
<1>1. PICK of : of = {i \in DOMAIN rows : rows[i].name = n /\ (rows[i].start < 0) = negative}
  OBVIOUS
<1>2. PICK L \in Nat : L = Len(rows) /\ DOMAIN rows = 1 .. L
  OBVIOUS
<1>3. CASE of = {}
  BY <1>1, <1>3 DEF LastOf
<1>4. CASE of # {}
  <2>. DEFINE T == {L - i : i \in of}
  <2>1. of \subseteq 1 .. L
    BY <1>1, <1>2
  <2>2. T \subseteq Nat /\ T # {}
    <3>1. \A i \in of : L - i \in Nat
      BY <2>1
    <3>2. T # {}
      BY <1>4
    <3>. QED BY <3>1, <3>2
  <2>3. PICK x \in T : \A y \in T : x <= y
    <3>. HIDE DEF T
    <3>. QED BY <2>2, LeastNumber
  <2>4. PICK i \in of : x = L - i
    OBVIOUS
  <2>5. ASSUME NEW k \in of PROVE k <= i
    <3>1. L - i <= L - k /\ k \in 1 .. L /\ i \in 1 .. L
      BY <2>1, <2>3, <2>4
    <3>. QED BY <3>1
  <2>6. \E m \in of : \A k \in of : k <= m
    BY <2>5
  <2>7. PICK last : last = CHOOSE m \in of : \A k \in of : k <= m
    OBVIOUS
  <2>8. last \in of
    BY <2>6, <2>7
  <2>9. LastOf(rows, n, negative) = <<rows[last]>>
    BY <1>1, <1>4, <2>7 DEF LastOf
  <2>. QED BY <1>1, <2>8, <2>9
<1>. QED BY <1>3, <1>4

\* A block of a histogram is a row of the table.
RowOrNone(block) == block = <<>> \/ \E i \in DOMAIN db.histograms : block = <<db.histograms[i]>>

HistogramsInv ==
  \A n \in DOMAIN histograms : RowOrNone(histograms[n].neg) /\ RowOrNone(histograms[n].pos)

LEMMA BoardDataHistogramsInv ==
  ASSUME FitDataInv, HistogramsInv, [NextBoardData]_boardDataVars PROVE HistogramsInv'
<1>1. CASE UNCHANGED <<db, histograms>>
  BY <1>1 DEF HistogramsInv, RowOrNone
<1>2. CASE fetchPmHistogramStructure
  <2>1. PICK rows : rows = db.histograms
    OBVIOUS
  <2>2. rows \in Seq(HistogramRows)
    BY <2>1, RowTypes DEF FitDataInv
  <2>3. /\ db' = db
        /\ histograms' = [n \in NamesOf(rows) |->
             [neg |-> LastOf(rows, n, TRUE), pos |-> LastOf(rows, n, FALSE)]]
    BY <1>2, <2>1 DEF fetchPmHistogramStructure
  <2>4. ASSUME NEW n \in DOMAIN histograms'
        PROVE  /\ histograms'[n].neg = LastOf(rows, n, TRUE)
               /\ histograms'[n].pos = LastOf(rows, n, FALSE)
    BY <2>3
  <2>5. ASSUME NEW n \in DOMAIN histograms'
        PROVE  RowOrNone(histograms'[n].neg) /\ RowOrNone(histograms'[n].pos)
    <3>1. /\ \/ LastOf(rows, n, TRUE) = <<>>
             \/ \E i \in DOMAIN rows : LastOf(rows, n, TRUE) = <<rows[i]>>
          /\ \/ LastOf(rows, n, FALSE) = <<>>
             \/ \E i \in DOMAIN rows : LastOf(rows, n, FALSE) = <<rows[i]>>
      BY <2>2, LastExists
    <3>. QED BY <2>1, <2>4, <3>1 DEF RowOrNone
  <2>6. \A n \in DOMAIN histograms' :
          /\ \/ histograms'[n].neg = <<>>
             \/ \E i \in DOMAIN db'.histograms : histograms'[n].neg = <<db'.histograms[i]>>
          /\ \/ histograms'[n].pos = <<>>
             \/ \E i \in DOMAIN db'.histograms : histograms'[n].pos = <<db'.histograms[i]>>
    BY <2>3, <2>5 DEF RowOrNone
  <2>. QED BY <2>6 DEF HistogramsInv, RowOrNone
<1>3. UNCHANGED <<db, histograms>> \/ fetchPmHistogramStructure
  BY DEF NextBoardData, Reading, StartPmHistograms, PmStep, TcmStep, Following, ToolStep, FetchStep,
         NoDatabase,
         fetchBoardParameters, fetchEnvironment, fetchConnectedDevices, EnvironmentStep, SwitchClock,
         SetSystemClock, UpdateDerived, boardDataVars, fitDataVars, fetched
<1>. QED BY <1>1, <1>2, <1>3

\* When the program starts, the structure of the histograms is a finite set of rows.
LEMMA StructureType ==
  ASSUME FitDataInv, HistogramsInv, fetch = "ready", NEW structure,
         structure = UNION {{histograms[n].neg[1], histograms[n].pos[1]} : n \in DOMAIN histograms}
  PROVE  IsFiniteSet(structure) /\ structure \subseteq HistogramRows
<1>1. PICK rows \in Seq(HistogramRows) : rows = db.histograms
  BY RowTypes DEF FitDataInv
<1>2. PICK L \in Nat : DOMAIN rows = 1 .. L
  OBVIOUS
<1>. DEFINE R == {rows[i] : i \in 1 .. L}
<1>3. IsFiniteSet(R)
  <2>1. IsFiniteSet(1 .. L)
    BY FS_Interval
  <2>2. PICK f : f = [i \in 1 .. L |-> rows[i]]
    OBVIOUS
  <2>3. f \in Surjection(1 .. L, R)
    BY <2>2 DEF Surjection
  <2>. HIDE DEF R
  <2>. QED BY <2>1, <2>3, FS_Surjection
<1>4. R \subseteq HistogramRows
  BY <1>2
<1>5. structure \subseteq R
  <2>1. ASSUME NEW n \in DOMAIN histograms
        PROVE  histograms[n].neg[1] \in R /\ histograms[n].pos[1] \in R
    <3>1. histograms[n].neg # <<>> /\ histograms[n].pos # <<>>
      BY DEF FitDataInv, BoardsInv
    <3>2. PICK i \in DOMAIN rows, k \in DOMAIN rows :
            histograms[n].neg = <<rows[i]>> /\ histograms[n].pos = <<rows[k]>>
      BY <1>1, <3>1 DEF HistogramsInv, RowOrNone
    <3>. QED BY <1>2, <3>2
  <2>. HIDE DEF R
  <2>. QED BY <2>1
<1>. HIDE DEF R
<1>. QED BY <1>3, <1>4, <1>5, FS_Subset

LEMMA StartPmInv ==
  ASSUME FitDataInv, HistogramsInv, PmInv, StartPmHistograms PROVE PmInv'
<1>1. PICK structure :
        structure = UNION {{histograms[n].neg[1], histograms[n].pos[1]} : n \in DOMAIN histograms}
  OBVIOUS
<1>2. PmHistograms(structure) /\ fetch = "ready"
  BY <1>1 DEF StartPmHistograms
<1>3. /\ pmPc = "absent" /\ pmPc' = "idle"
      /\ blocks' \in InOrder(structure) /\ view' \in createBlockView(blocks')
      /\ data' = [c \in 1 .. Channels |->
                    [i \in DOMAIN blocks' |-> [k \in 1 .. blocks'[i].size |-> NoWord]]]
      /\ UNCHANGED <<next, readId, selected, operations, histogramming, pmAnswer, pointer, time, actions,
                     disturbed>>
  BY <1>2 DEF PmHistograms, filters
<1>4. PmNumbers'
  BY <1>3 DEF PmInv, PmNumbers
<1>5. operations = <<>> /\ selected = {} /\ pmAnswer = "none"
  BY <1>3 DEF PmInv, ChoiceInv
<1>6. PICK b : b = blocks'
  OBVIOUS
<1>7. /\ b \in Seq(HistogramRows)
      /\ \A i, k \in DOMAIN b : i < k => b[i].base <= b[k].base
  <2>1. IsFiniteSet(structure) /\ structure \subseteq HistogramRows
    BY <1>1, <1>2, StructureType
  <2>2. PICK N \in Nat : N = Cardinality(structure)
    BY <2>1, FS_CardinalityType
  <2>3. b \in SetToSeqs(structure) /\ \A i, k \in DOMAIN b : i < k => b[i].base <= b[k].base
    BY <1>3, <1>6 DEF InOrder
  <2>4. b \in [1 .. N -> structure]
    BY <2>2, <2>3 DEF SetToSeqs
  <2>5. b \in [1 .. N -> HistogramRows]
    BY <2>1, <2>4
  <2>. QED BY <2>3, <2>5
<1>8. data' \in [1 .. Channels -> Contents']
  <2>1. PICK d : d = [i \in DOMAIN b |-> [k \in 1 .. b[i].size |-> NoWord]]
    OBVIOUS
  <2>2. NoWord \in WordType
    BY DEF NoWord, Word, WordType
  <2>3. ASSUME NEW i \in DOMAIN b PROVE d[i] \in [1 .. b[i].size -> WordType]
    BY <2>1, <2>2
  <2>4. PICK U : U = UNION {[1 .. b[i].size -> WordType] : i \in DOMAIN b}
    OBVIOUS
  <2>5. d \in [DOMAIN b -> U]
    <3>1. \A i \in DOMAIN b : d[i] \in U
      BY <2>3, <2>4
    <3>. QED BY <2>1, <3>1
  <2>6. d \in Contents'
    BY <1>6, <2>3, <2>4, <2>5 DEF Contents
  <2>7. data' = [c \in 1 .. Channels |-> d]
    BY <1>3, <1>6, <2>1
  <2>. QED BY <2>6, <2>7
<1>9. ChoiceInv'
  <2>1. blocks' \in Seq(HistogramRows) /\ Sorted'
    BY <1>6, <1>7 DEF Sorted
  <2>2. operations' = <<>> /\ selected' = {} /\ OperationsOf(operations, selected)'
    BY <1>3, <1>5 DEF OperationsOf
  <2>. QED BY <1>3, <1>8, <2>1, <2>2 DEF ChoiceInv
<1>10. ReadInv'
  BY <1>3, <1>5 DEF ReadInv, RefusedOnlyAcrossChannels
<1>. QED BY <1>4, <1>9, <1>10 DEF PmInv
-------------------------------------------------------------------------------

LEMMA InitPmInv == InitPm => PmInv
<1>. SUFFICES ASSUME InitPm PROVE PmInv
  OBVIOUS
<1>1. PmNumbers
  <2>1. histogramming \in BOOLEAN /\ disturbed \in BOOLEAN
    BY DEF InitPm
  <2>2. next \in Nat \ {0} /\ readId \in Nat /\ pointer \in Nat /\ time \in Nat /\ actions \in Nat
    BY DEF InitPm
  <2>. QED BY <2>1, <2>2 DEF InitPm, PmNumbers
<1>2. ChoiceInv
  BY DEF InitPm, ChoiceInv, Sorted, OperationsOf
<1>3. ReadInv
  BY DEF InitPm, ReadInv, RefusedOnlyAcrossChannels
<1>. QED BY <1>1, <1>2, <1>3 DEF PmInv

LEMMA NextPmInv ==
  ASSUME FitDataInv, HistogramsInv, PmInv, [NextBoardData]_boardDataVars PROVE PmInv'
<1>1. CASE UNCHANGED pmVars
  <2>1. UNCHANGED <<blocks, view, selected, operations, data, pmPc, next, readId, pmAnswer, pointer, time,
                    actions, disturbed, histogramming>>
    BY <1>1 DEF pmVars, service, choice, filters
  <2>2. PmNumbers' /\ ChoiceInv'
    BY <2>1, BlocksSame DEF PmInv, PmNumbers, ChoiceInv
  <2>3. ReadInv'
    BY <2>1, ReadSoFarSame DEF PmInv, ReadInv, RefusedOnlyAcrossChannels
  <2>. QED BY <2>2, <2>3 DEF PmInv
<1>2. CASE StartPmHistograms
  BY <1>2, StartPmInv
<1>3. CASE PmStep
  BY <1>3, SelectInv, BeginReadInv, SetAddressInv, FailuresInv, OtherRequestsInv, FilterWritesInv,
     ReadBlockInv DEF PmStep, NextPm
<1>. QED BY <1>1, <1>2, <1>3 DEF NextBoardData, Reading, TcmStep, Following, ToolStep, boardDataVars

\* A readout that is published has read all blocks of the selected histograms.
LEMMA PublishedIsFresh ==
  ASSUME PmInv, BlocksApart, pmAnswer = "read", ~disturbed, NEW c \in 1 .. Channels, NEW name \in selected
  PROVE  LET p == parseResponse(c, name)
             address(n) == p[n].word.at - (c - 1) * ChannelSize
         IN  /\ \A n \in DOMAIN p : p[n].word.time = time /\ address(n) \in 0 .. ChannelSize - 1
             /\ \A n \in 2 .. Len(p) : BinAt(address(n - 1), p[n - 1].high) < BinAt(address(n), p[n].high)
<1>1. /\ blocks \in Seq(HistogramRows) /\ view \in createBlockView(blocks) /\ name \in Names
      /\ OperationsOf(operations, selected) /\ time \in Nat /\ operations \in Seq(OperationType)
  BY DEF PmInv, PmNumbers, ChoiceInv, OperationsOf
<1>2. AllFresh(data, Len(operations))
  BY DEF PmInv, ReadInv, ReadSoFar
<1>3. ASSUME NEW i \in Of(name) PROVE data[c][i] = Fresh(c, i, time)
  <2>1. i \in DOMAIN blocks /\ blocks[i].name \in selected
    BY DEF Of
  <2>2. \E j \in DOMAIN operations : Inside(c, i, operations[j])
    BY <1>1, <2>1 DEF OperationsOf
  <2>3. DOMAIN operations = 1 .. Len(operations)
    BY <1>1
  <2>. QED BY <1>2, <2>1, <2>2, <2>3 DEF AllFresh
<1>. QED BY <1>1, <1>3, ParsedInOrder

LEMMA BoardDataPmInv == BoardDataSpec => [](PmInv /\ FilterInv)
<1>1. InitBoardData => HistogramsInv /\ PmInv /\ FilterInv
  <2>. SUFFICES ASSUME InitBoardData PROVE HistogramsInv /\ PmInv /\ FilterInv
    OBVIOUS
  <2>1. HistogramsInv
    BY DEF InitBoardData, InitFitData, HistogramsInv, NoEntries
  <2>. QED BY <2>1, InitPmInv, InitFilterInv DEF InitBoardData
<1>2. FitDataInv /\ HistogramsInv /\ PmInv /\ FilterInv /\ [NextBoardData]_boardDataVars
      => HistogramsInv' /\ PmInv' /\ FilterInv'
  BY BoardDataHistogramsInv, NextPmInv, BoardDataFilterInv
<1>. QED BY <1>1, <1>2, BoardDataFitInv, PTL DEF BoardDataSpec

\* Every readout that is published has the numbers of one time, each from the register of its
\* own bin, in the order of the bins, and words are refused only if an operation crosses the end
\* of a channel; for any structure of histograms whose blocks are apart (PmHistogramData.cpp:46,
\* 72, 104, PmHistograms.cpp:127).
THEOREM ReadoutsAlwaysTrue == BoardDataSpec => [](BlocksApart => ReadoutsAreTrue)
<1>1. PmInv => (BlocksApart => ReadoutsAreTrue)
  <2>. SUFFICES ASSUME PmInv, BlocksApart PROVE ReadoutsAreTrue
    OBVIOUS
  <2>1. RefusedOnlyAcrossChannels
    BY DEF PmInv, ReadInv
  <2>2. PublishedBinsInPlace
    BY PublishedIsFresh DEF PublishedBinsInPlace
  <2>. QED BY <2>1, <2>2 DEF ReadoutsAreTrue
<1>. QED BY <1>1, BoardDataPmInv, PTL

\* The service of a PM keeps its types.
LEMMA PmTypes == PmInv /\ FilterInv => PmTypeOK
<1>. SUFFICES ASSUME PmInv, FilterInv PROVE PmTypeOK
  OBVIOUS
<1>1. operations \in Seq([at : Nat, size : Nat]) /\ selected \subseteq Names
  BY DEF PmInv, ChoiceInv, OperationsOf, OperationType
<1>2. ASSUME NEW c \in DOMAIN data, NEW i \in DOMAIN blocks
      PROVE  data[c][i] \in [1 .. blocks[i].size -> [at : Nat, time : Nat]]
  <2>1. CASE pmPc = "absent"
    BY <2>1 DEF PmInv, ChoiceInv
  <2>2. CASE pmPc # "absent"
    <3>1. data[c] \in Contents
      BY <2>2 DEF PmInv, ChoiceInv
    <3>. QED BY <3>1 DEF Contents, WordType
  <2>. QED BY <2>1, <2>2
<1>. QED BY <1>1, <1>2 DEF PmInv, PmNumbers, FilterInv, FilterTypes, PmTypeOK

\* What the tool has read and written is what its files and tables say, in the program too.
LEMMA BoardDataParserInv == BoardDataSpec => []ParserInv
<1>1. InitBoardData => ParserInv
  BY InitParserInv DEF InitBoardData
<1>2. ParserInv /\ [NextBoardData]_boardDataVars => ParserInv'
  <2>. SUFFICES ASSUME ParserInv, [NextBoardData]_boardDataVars PROVE [NextParser]_parserVars
    BY NextParserInv
  <2>. QED BY DEF NextBoardData, Reading, StartPmHistograms, PmStep, TcmStep, Following, ToolStep,
                  boardDataVars
<1>. QED BY <1>1, <1>2, PTL DEF BoardDataSpec

\* All parts keep their types, for any database, tables and files; and a program that starts has
\* a TCM, and two blocks of bins for every histogram (FitData.cpp:114, 175).
THEOREM TypesAlwaysCorrect == BoardDataSpec => []BoardDataTypeOK
<1>1. ParserInv => ParserTypeOK
  BY ParserTypes
<1>2. FitDataInv => FitDataTypeOK
  BY FitDataTypes
<1>3. TcmInv => TcmTypeOK
  BY TcmTypes
<1>4. PmInv /\ FilterInv => PmTypeOK
  BY PmTypes
<1>. QED BY <1>1, <1>2, <1>3, <1>4, BoardDataParserInv, BoardDataFitInv, BoardDataTcmInv,
            BoardDataPmInv, PTL DEF BoardDataTypeOK
================================================================================
