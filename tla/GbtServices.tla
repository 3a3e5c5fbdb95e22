----------------------------- MODULE GbtServices ------------------------------
(* BoardStatus of the TCM beside the services that use its reset bits: the bits   *)
(* hold the counter and the FIFO BoardStatus reads from.                          *)
EXTENDS BoardResets, GbtMonitor

CONSTANTS
  CounterBit,  \* GBT_RESET_DATA_COUNTERS
  ReportBit,   \* GBT_RESET_ERROR_REPORT_FIFO
  MaxEvents    \* bound: requests, words and reports together

ASSUME GbtServicesAssumption ==
  {CounterBit, ReportBit} \subseteq ResetBits /\ MaxEvents \in Nat

Init == InitResets /\ InitMonitor

vars == <<resetVars, monitorVars>>

Held == HeldInReset(CounterBit \in bits'[TCM], ReportBit \in bits'[TCM])

\* Every step of a reset service leaves its mark on what the electronics of the TCM count.
ResetsHappen ==
  /\ NextResets /\ requests' + words + reports <= MaxEvents
  /\ Held

\* The electronics count and report unless they are held in reset.
ElectronicsStep ==
  /\ requests + words + reports < MaxEvents
  /\ \/ CounterBit \notin bits[TCM] /\ CountWord
     \/ ReportBit \notin bits[TCM] /\ \E code \in ErrorCodes \cup {"OTHER"} : ReportError(code)
  /\ UNCHANGED resetVars

MonitorStep == (BoardStatusStep \/ OtherReads) /\ UNCHANGED resetVars

Next == ResetsHappen \/ ElectronicsStep \/ MonitorStep

Spec == Init /\ [][Next]_vars
================================================================================
