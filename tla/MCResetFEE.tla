------------------------------ MODULE MCResetFEE ------------------------------
(* ResetFEE over two links per side, with one PM on each side.  The others either *)
(* change channel masks and PMs, or the read interval of the counters.            *)
EXTENDS ResetFEE

McPMs == {[side |-> "A", number |-> 0], [side |-> "C", number |-> 0],
          [side |-> "C", number |-> 1]}
McTwoPMs == {[side |-> "A", number |-> 0], [side |-> "C", number |-> 1]}
McChannelSets == {{}, {1, 3}}
McNoChannels == {{}}

VARIABLE changing   \* what the others change: "masks" or "interval"

mcVars == <<vars, changing>>

InitChanging ==
  /\ Init
  /\ \/ /\ changing = "masks" /\ interval = 0 /\ identified = {}
        /\ spi = Links /\ channels # {} /\ alive = PMs
     \/ changing = "interval" /\ channels = {} /\ spi = {} /\ identified = {} /\ alive = PMs

OthersChanging ==
  \/ /\ changing = "masks"
     /\ \/ \E mask \in ChannelSets \ {channels} : WriteChannels(mask)
        \/ \E mask \in ChannelSets : StoreChannels(mask)
        \/ \E p \in PMs : SwitchPm(p)
  \/ /\ changing = "interval"
     /\ \/ changes = 0 /\ \E code \in Codes : WriteInterval(code)
        \/ lateInterval = {} /\ ReadInterval
        \/ \E code \in Codes : StoreInterval(code)

NextChanging ==
  /\ UNCHANGED changing
  /\ \/ ServiceStep
     \/ changing = "interval"
          /\ Take(IF requests = 0 THEN "RESET" ELSE "ENFORCE_DEFAULT_GBT_CONFIG")
     \/ changing = "masks" /\ requests = 0
          /\ \E request \in Requests \ {"ENFORCE_DEFAULT_GBT_CONFIG"} : Take(request)
     \/ OthersChanging

SpecChanging == InitChanging /\ [][NextChanging]_mcVars /\ WF_vars(ServiceStep)

\* Nobody else writes or reads anything.
SpecAlone == InitChanging /\ [][UNCHANGED changing /\ Next]_mcVars
===============================================================================
