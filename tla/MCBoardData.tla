----------------------------- MODULE MCBoardData ------------------------------
(* Databases that differ from a complete one in one table each, and the tables and *)
(* files of the tool.                                                             *)
EXTENDS BoardData

Param(name, base, first, last, min, max, signed) ==
  [name |-> name, base |-> base, first |-> first, last |-> last, size |-> 1, min |-> min,
   max |-> max, signed |-> signed, fifo |-> FALSE, readOnly |-> FALSE, refresh |-> <<>>]
Var(name, variables, constant) ==
  [name |-> name, variables |-> variables, constant |-> constant]
Hist(name, base, size, start, negative) ==
  [name |-> name, base |-> base, size |-> size, start |-> start, negative |-> negative]
Device(name, type, side, digit, connected) ==
  [name |-> name, type |-> type, side |-> side, digit |-> digit, connected |-> connected]

Parameters == <<Param("P", 0, 0, 3, <<>>, <<>>, FALSE), Param("Q", 511, 4, 8, <<>>, <<>>, TRUE),
                Param("P", 7, 0, 0, <<0>>, <<9>>, FALSE)>>

Clock == <<Var("LHC_CLOCK", <<>>, 40), Var("INTERNAL_CLOCK", <<>>, 39)>>
Environment == Clock \o <<Var("SYSTEM_CLOCK", <<"INTERNAL_CLOCK">>, 0),
                          Var("TDC", <<"SYSTEM_CLOCK">>, 1), Var("BC_INTERVAL", <<"TDC">>, 2)>>
Environments == {
  Environment,
  Clock \o <<Var("TDC", <<"SYSTEM_CLOCK">>, 1), Var("SYSTEM_CLOCK", <<>>, 39)>>,
  <<Var("SYSTEM_CLOCK", <<"LHC_CLOCK">>, 0), Var("TDC", <<"SYSTEM_CLOCK">>, 1)>> \o Clock,
  Clock \o <<Var("TDC", <<"SYSTEM_CLOCK">>, 1), Var("SYSTEM_CLOCK", <<"LHC_CLOCK">>, 0)>>,
  Clock \o <<Var("SYSTEM_CLOCK", <<"LHC_CLOCK">>, 0)>>,
  Environment \o <<Var("X", <<"Y">>, 0)>>, <<>>}

\* The first one fills its channel, so that the registers of two channels follow each other.
Filled == <<Hist("TIME", 0, 1, -1, TRUE), Hist("TIME", 1, 2, 0, FALSE),
            Hist("CHARGE", 3, 1, 0, FALSE), Hist("CHARGE", 4, 1, -2, FALSE)>>
Gaps == <<Hist("TIME", 0, 1, 0, FALSE), Hist("TIME", 1, 1, -1, TRUE),
          Hist("CHARGE", 4, 1, 0, FALSE), Hist("CHARGE", 3, 1, -1, TRUE)>>
HistogramTables == {Filled, Gaps, Append(Gaps, Hist("OTHER", 2, 1, 0, FALSE)),
                    Append(SubSeq(Gaps, 1, 3), Hist("CHARGE", 2, 1, -1, TRUE))}

Tcm == Device("TCM0", "TCM", "A", 0, TRUE)
Pms == {Device("PMA0", "PM", "A", 0, TRUE), Device("PMA1", "PM", "A", 1, TRUE),
        Device("PMA9", "PM", "A", 9, FALSE), Device("PMC0", "PM", "C", 0, TRUE),
        Device("PMC9", "PM", "C", 9, TRUE)}
DeviceTables == {<<p, Tcm>> : p \in Pms} \cup {<<p>> : p \in Pms} \cup {<<>>}
                \cup {<<Tcm, p, q>> : p \in Pms, q \in Pms}

Complete0 == [tcm |-> Parameters, pm |-> Parameters, environment |-> Environment,
              histograms |-> Filled, devices |-> <<Tcm, Device("PMA0", "PM", "A", 0, TRUE)>>]

Contents == {[Complete0 EXCEPT !.tcm = <<>>], [Complete0 EXCEPT !.pm = <<>>]}
  \cup {[Complete0 EXCEPT !.environment = t] : t \in Environments}
  \cup {[Complete0 EXCEPT !.histograms = t] : t \in HistogramTables}
  \cup {[Complete0 EXCEPT !.devices = t] : t \in DeviceTables}

Needed == {"LHC_CLOCK", "INTERNAL_CLOCK", "SYSTEM_CLOCK", "TDC"}
Memory0 == <<[base |-> 0, count |-> 3], [base |-> 4, count |-> 2], [base |-> 6, count |-> 2]>>

\* Tables of the tool.  The lines of register 1 of the TCM are not in order, and register 2 has
\* parameters inside and across others.
Row(address, first, last, sign, name) ==
  [address |-> address, first |-> first, last |-> last, sign |-> sign, name |-> name,
   trigger |-> name = "TRIGGER_1_SIGNATURE"]
ToolTable ==
  [TCM |-> <<Row(0, 0, 15, "Y", "A"), Row(1, 4, 9, "N", "B"), Row(1, 0, 5, "N", "C"),
             Row(1, 10, 15, "Y", "D"), Row(96, 0, 13, "N", "TRIGGER_1_SIGNATURE")>>,
   PM |-> <<Row(2, 0, 7, "N", "A"), Row(2, 2, 4, "N", "B"), Row(2, 6, 9, "N", "C"),
            Row(2, 8, 8, "Y", "D"), Row(2, 8, 8, "Y", "E"), Row(2, 9, 15, "Y", "F")>>]
ToolTables ==
  {ToolTable, [ToolTable EXCEPT !.TCM[2].sign = "?"], [ToolTable EXCEPT !.PM[3].last = 32]}

File(stem, extension, sections) ==
  [stem |-> stem, extension |-> extension, sections |-> sections]
Words == {4660, 32769}
ToolFiles ==
  {File("run", "cfg", [TCM |-> [n \in {0, 1, 96} |-> <<w>>], PMA0 |-> [n \in {2} |-> <<w>>]]) :
     w \in Words}
  \cup {File("run", "ini", [PMA0 |-> [n \in {2, 258} |-> <<n>>], PMC9 |-> [n \in {2} |-> <<5>>]]),
        File("bad", "cfg", [TCM |-> [n \in {0} |-> <<1>>], PMA0 |-> [n \in {2, 3} |-> <<1>>]]),
        File("gap", "cfg", [TCM |-> [n \in {0} |-> <<>>], PMA0 |-> [n \in {2} |-> <<65535>>]])}
ToolSections == {"TCM", "PMA0", "PMC9"}

\* The service of a PM depends on the histograms alone, that of the TCM on no table; what a
\* behaviour does not follow has one value.
Init0 ==
  /\ InitBoardData
  /\ subject # "tool" => csv = ToolTable
  /\ subject # "environment" => garbage = 0 /\ clock = "LHC_CLOCK"
  /\ subject \in {"tcm", "tool"} => db = Complete0
  /\ subject = "pm" => db.devices = Complete0.devices /\ db.environment = Environment
  /\ subject # "pm" \/ db.histograms # Filled => filter = [on |-> "0", bcid |-> "b0"]
  /\ subject # "tcm" => counter = "0"

\* The filter does not depend on the histograms: it is used with one table of them.
Next0 == NextBoardData /\ (db.histograms # Filled => UNCHANGED <<wanted, filter, answers>>)

Spec0 == Init0 /\ [][Next0]_boardDataVars
================================================================================
