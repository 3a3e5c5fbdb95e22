------------------------------ MODULE BoardData -------------------------------
(* The program from its database to the histograms: FitData reads the structure   *)
(* of the histograms, and the services of the boards are built from it when all   *)
(* else is found.  The services share no state with each other; a behaviour       *)
(* follows the environment, or the service of one PM, or that of the TCM, or the  *)
(* tool that fills the configurations of the database, which runs by itself.      *)
EXTENDS FitData, PmHistograms, TcmHistograms, ConfigurationParser

VARIABLE subject   \* what the behaviour follows

boardDataVars == <<fitDataVars, pmVars, tcmVars, parserVars, subject>>

InitBoardData ==
  /\ InitFitData /\ InitPm /\ InitTcm /\ InitParser
  /\ subject \in {"environment", "pm", "tcm", "tool"}

Reading == subject # "tool" /\ FetchStep /\ UNCHANGED <<pmVars, tcmVars, parserVars, subject>>

\* MapiFactory gives each connected PM a service with all histograms.
StartPmHistograms ==
  /\ fetch = "ready" /\ subject = "pm"
  /\ \E b \in DOMAIN boards : boards[b].type = "PM" /\ boards[b].connected
  /\ PmHistograms(UNION {{histograms[n].neg[1], histograms[n].pos[1]} : n \in DOMAIN histograms})
  /\ UNCHANGED <<fitDataVars, tcmVars, parserVars, subject>>

PmStep == subject = "pm" /\ NextPm /\ UNCHANGED <<fitDataVars, tcmVars, parserVars, subject>>

TcmStep ==
  /\ fetch = "ready" /\ subject = "tcm"
  /\ NextTcm
  /\ UNCHANGED <<fitDataVars, pmVars, parserVars, subject>>

Following ==
  /\ subject = "environment" /\ EnvironmentStep
  /\ UNCHANGED <<pmVars, tcmVars, parserVars, subject>>

ToolStep == subject = "tool" /\ NextParser /\ UNCHANGED <<fitDataVars, pmVars, tcmVars, subject>>

NextBoardData == Reading \/ StartPmHistograms \/ PmStep \/ TcmStep \/ Following \/ ToolStep

BoardDataSpec == InitBoardData /\ [][NextBoardData]_boardDataVars
-------------------------------------------------------------------------------
\* The types of all parts, and that a program which starts has what its services ask for.
BoardDataTypeOK == ParserTypeOK /\ FitDataTypeOK /\ PmTypeOK /\ TcmTypeOK
================================================================================
