---------------------------- MODULE ResetFEE_proofs ---------------------------
(* What RESET_SYSTEM leaves in the registers of the electronics, for any setup of *)
(* PMs, any requests and writes of others, and failures at any place.             *)
EXTENDS ResetFEE, TLAPS

\* The steps of a reset before the masks, and after them.
Chain ==
  {"reportsOff", "reset", "finished", "reportsOn", "restore", "restored", "signatures"}
Update == {"masks", "masksRead", "links", "probe", "disableLink", "write"}
Boards == {"gbtTcm", "gbtPms", "configure"}

LEMMA ChainSteps ==
  /\ DOMAIN After = Chain
  /\ \A step \in Chain : After[step] \in (Chain \ {"reportsOff"}) \cup {"masks"}
  /\ After["reportsOff"] = "reset" /\ After["reset"] = "finished"
  /\ After["finished"] = "reportsOn" /\ After["reportsOn"] = "restore"
  /\ After["restore"] = "restored" /\ After["restored"] = "signatures" /\ After["signatures"] = "masks"
BY DEF After, Chain

LEMMA StepsAre == Steps = {"begin", "wait"} \cup Chain \cup Update \cup Boards
BY ChainSteps DEF Steps, Chain, Update, Boards

\* PMs have links of their own.
LEMMA LinksApart ==
  ASSUME NEW p \in PMs, NEW q \in PMs
  PROVE  Link(p) \in Links /\ (Link(p) = Link(q) => p = q)
<1>1. /\ p \in [side : Sides, number : 0 .. PerSide - 1]
      /\ q \in [side : Sides, number : 0 .. PerSide - 1]
  BY ResetAssumption
<1>2. p = [side |-> p.side, number |-> p.number] /\ q = [side |-> q.side, number |-> q.number]
  BY <1>1
<1>3. /\ p.number \in 0 .. PerSide - 1 /\ q.number \in 0 .. PerSide - 1
      /\ p.side \in {"A", "C"} /\ q.side \in {"A", "C"}
  BY <1>1 DEF Sides
<1>4. PerSide \in Nat
  BY ResetAssumption
<1>5. Link(p) \in Links
  BY <1>3, <1>4 DEF Link, Links
<1>6. Link(p) = Link(q) => p.number = q.number /\ p.side = q.side
  BY <1>3, <1>4 DEF Link
<1>. QED BY <1>2, <1>5, <1>6

\* The chain of writes, with their end: the next one, the error of a reset, or of an update.
LEMMA FailSteps ==
  ASSUME TypeOK, Fail
  PROVE  /\ pc' \in {"begin", "wait"} /\ initialized' \in BOOLEAN
         /\ outcome' \in {"none", "SUCCESS", "error"}
         /\ pc' = "begin" => outcome' = "error"
         /\ pc' = "wait" <=> caller = "boot"
         /\ outcome' = "SUCCESS" => caller = "boot"
         /\ pc' = "wait" => outcome' = outcome
BY DEF Fail, Publish, TypeOK
-------------------------------------------------------------------------------
(* Types *)

LEMMA InitType == Init => TypeOK
<1>. SUFFICES ASSUME Init PROVE TypeOK
  OBVIOUS
<1>1. channels \in SUBSET Links /\ 0 \in Codes /\ 0 \in 0 .. MaxRequests /\ 0 \in 0 .. MaxChanges
  BY ResetAssumption DEF Init, Codes
<1>. QED BY <1>1, StepsAre DEF Init, TypeOK

LEMMA WrittenType ==
  ASSUME TypeOK, Written \/ Begun
  PROVE  /\ spi' \subseteq Links /\ channels' \subseteq Links /\ interval' \in Codes
         /\ reports' \in BOOLEAN /\ identified' \subseteq PMs \cup {TCM}
<1>1. 0 \in Codes
  BY DEF Codes
<1>. QED BY <1>1 DEF TypeOK, Written, Begun, Restored, registers

LEMMA HeldType ==
  ASSUME TypeOK, NEW done, NEW begun, NEW mask \in SUBSET Links
  PROVE  HeldChannels(done, begun, mask) \subseteq Links
BY DEF TypeOK, HeldChannels, Held

LEMMA IdentifyType ==
  ASSUME TypeOK, NEW board \in PMs \cup {TCM}, Identify(board) PROVE TypeOK'
<1>1. todo' \subseteq PMs /\ pm' \in PMs \cup {TCM, NoBoard}
  BY DEF TypeOK, Identify, NextPms
<1>2. pc' \in {"configure", "gbtPms", "begin", "wait"} /\ initialized' \in BOOLEAN
      /\ outcome' \in {"none", "SUCCESS", "error"}
  BY FailSteps DEF TypeOK, Identify
<1>. QED BY <1>1, <1>2, StepsAre DEF TypeOK, Identify, registers, stored, others, late, Boards

\* The board being visited is one of those still to visit.
Visiting ==
  /\ pc \in {"probe", "disableLink"} => pm \in todo
  /\ pc = "configure" => pm \in PMs \cup {TCM}

LEMMA ServiceType == ASSUME TypeOK, Visiting, ServiceStep PROVE TypeOK'
<1>. USE DEF TypeOK, registers, stored, others, late, service, update
<1>1. CASE Begin
  <2>1. 0 \in Codes
    BY DEF Codes
  <2>. QED BY <1>1, <2>1, StepsAre DEF Begin, Update
<1>2. CASE ResetStep
  <2>1. pc' \in Steps
    BY <1>2, ChainSteps, StepsAre DEF ResetStep, Update
  <2>2. intervalStored' \in Codes \cup {Unknown}
    BY <1>2 DEF ResetStep, Restored
  <2>. QED BY <1>2, <2>1, <2>2, WrittenType DEF ResetStep
<1>3. CASE ResetStepFails
  BY <1>3, FailSteps, StepsAre, WrittenType DEF ResetStepFails
<1>4. CASE ReadMasks
  <2>1. CASE pc' = "masksRead"
    BY <1>4, <2>1, StepsAre DEF ReadMasks, Update, Fail, Publish
  <2>2. CASE pc' # "masksRead"
    BY <1>4, <2>2, FailSteps, StepsAre DEF ReadMasks
  <2>. QED BY <2>1, <2>2
<1>40. CASE StoreMasks
  BY <1>40, StepsAre DEF StoreMasks, Update
<1>5. ASSUME NEW p \in PMs, EnableLink(p) PROVE TypeOK'
  <2>1. Link(p) \in Links
    BY LinksApart
  <2>. QED BY <1>5, <2>1, FailSteps, StepsAre DEF EnableLink, Update
<1>6. CASE Probe
  <2>1. pm \in PMs => Link(pm) \in Links
    BY LinksApart
  <2>2. pm \in alive => pm \in PMs
    OBVIOUS
  <2>3. pc' \in {"links", "disableLink"}
    BY <1>6 DEF Probe
  <2>. QED BY <1>6, <2>1, <2>2, <2>3, StepsAre DEF Probe, Update
<1>7. CASE DisableLink
  <2>1. pm \in PMs
    BY <1>7 DEF DisableLink, Visiting
  <2>2. Link(pm) \in Links
    BY <2>1, LinksApart
  <2>. QED BY <1>7, <2>2, StepsAre DEF DisableLink, Update
<1>8. CASE Compute
  BY <1>8, StepsAre DEF Compute, MaskToWrite, ChannelsToWrite, Update
<1>9. CASE WriteMasks
  <2>1. pc' \in {"wait", "begin", "gbtTcm"} /\ initialized' \in BOOLEAN
        /\ outcome' \in {"none", "SUCCESS", "error"}
    BY <1>9, FailSteps DEF WriteMasks, UpdateDone, Publish
  <2>2. spi' \subseteq Links
    BY <1>9 DEF WriteMasks, Held
  <2>3. channels' \subseteq Links
    BY <1>9, HeldType DEF WriteMasks
  <2>. QED BY <1>9, <2>1, <2>2, <2>3, StepsAre DEF WriteMasks, Boards
<1>10. CASE IdentifyTcm
  BY <1>10, IdentifyType DEF IdentifyTcm
<1>11. ASSUME NEW p \in PMs, IdentifyPm(p) PROVE TypeOK'
  <2>1. CASE Identify(p)
    BY <2>1, IdentifyType
  <2>2. CASE ~Identify(p)
    BY <1>11, <2>2 DEF IdentifyPm
  <2>. QED BY <2>1, <2>2
<1>12. CASE Configure
  <2>1. pm \in PMs \cup {TCM}
    BY <1>12 DEF Configure, Visiting
  <2>2. todo' \subseteq PMs /\ pm' \in PMs \cup {TCM, NoBoard}
    BY <1>12 DEF Configure, NextPms
  <2>3. pc' \in {"gbtPms", "begin", "wait"} /\ initialized' \in BOOLEAN
        /\ outcome' \in {"none", "SUCCESS", "error"}
    BY <1>12, FailSteps DEF Configure
  <2>. QED BY <1>12, <2>1, <2>2, <2>3, StepsAre DEF Configure, Boards
<1>13. CASE Succeed
  BY <1>13, StepsAre DEF Succeed, Publish
<1>. QED BY <1>1, <1>2, <1>3, <1>4, <1>40, <1>5, <1>6, <1>7, <1>8, <1>9, <1>10, <1>11, <1>12, <1>13
     DEF ServiceStep

LEMMA NextType == TypeOK /\ Visiting /\ [Next]_vars => TypeOK'
<1>. SUFFICES ASSUME TypeOK, Visiting, [Next]_vars PROVE TypeOK'
  OBVIOUS
<1>. USE DEF TypeOK, registers, stored, others, late, service, update
<1>0. requests < MaxRequests => requests + 1 \in 0 .. MaxRequests
  BY ResetAssumption
<1>00. changes < MaxChanges => changes + 1 \in 0 .. MaxChanges
  BY ResetAssumption
<1>1. ASSUME NEW request \in Requests, Take(request) PROVE TypeOK'
  <2>1. saved' \in Codes
    BY <1>1 DEF Take, Codes
  <2>2. pc' \in {"masks", "reportsOff"} /\ caller' \in {"boot", "reinit", "reset"}
        /\ initialized' \in BOOLEAN /\ intervalRaced' \in BOOLEAN
    BY <1>1 DEF Take
  <2>. QED BY <1>0, <1>1, <2>1, <2>2, StepsAre DEF Take, Update, Chain
<1>2. ASSUME NEW mask \in ChannelSets, WriteChannels(mask) PROVE TypeOK'
  <2>1. mask \subseteq Links
    BY ResetAssumption
  <2>2. channelsRaced' \in BOOLEAN
    BY <1>2 DEF WriteChannels
  <2>3. channels' \subseteq Links /\ lateChannels' \subseteq SUBSET Links
    BY <1>2, <2>1, HeldType DEF WriteChannels
  <2>. QED BY <1>00, <1>2, <2>2, <2>3 DEF WriteChannels
<1>20. ASSUME NEW mask \in ChannelSets, StoreChannels(mask) PROVE TypeOK'
  BY <1>20 DEF StoreChannels
<1>3. ASSUME NEW code \in Codes, WriteInterval(code) PROVE TypeOK'
  <2>1. intervalRaced' \in BOOLEAN
    BY <1>3 DEF WriteInterval
  <2>2. 0 \in Codes
    BY DEF Codes
  <2>. QED BY <1>00, <1>3, <2>1, <2>2 DEF WriteInterval
<1>30. ASSUME NEW code \in Codes, StoreInterval(code) PROVE TypeOK'
  BY <1>30 DEF StoreInterval
<1>4. CASE ReadInterval
  BY <1>4 DEF ReadInterval
<1>5. ASSUME NEW p \in PMs, SwitchPm(p) PROVE TypeOK'
  BY <1>00, <1>5 DEF SwitchPm
<1>6. CASE UNCHANGED vars
  BY <1>6 DEF vars
<1>. QED BY <1>1, <1>2, <1>20, <1>3, <1>30, <1>4, <1>5, <1>6, ServiceType DEF Next
-------------------------------------------------------------------------------
(* Control: which step belongs to whom *)

\* Only a reset goes through the chain and to the boards, and nothing is published
\* before the end.
OfReset ==
  /\ pc \in Chain \cup Boards => caller = "reset"
  /\ pc # "begin" => outcome = "none"

\* What others do.
Meanwhile ==
  \/ \E mask \in ChannelSets : WriteChannels(mask) \/ StoreChannels(mask)
  \/ \E code \in Codes : WriteInterval(code) \/ StoreInterval(code)
  \/ ReadInterval
  \/ \E p \in PMs : SwitchPm(p)
  \/ UNCHANGED vars

LEMMA MeanwhileKeeps ==
  ASSUME Meanwhile PROVE UNCHANGED <<service, update, spi, spiStored, reports, identified>>
BY DEF Meanwhile, WriteChannels, StoreChannels, WriteInterval, StoreInterval, ReadInterval,
   SwitchPm, vars, registers, stored

LEMMA NextSplits ==
  [Next]_vars => ServiceStep \/ Meanwhile \/ \E request \in Requests : Take(request)
BY DEF Next, Meanwhile

LEMMA ServiceControl ==
  ASSUME TypeOK, Visiting, OfReset, ServiceStep PROVE Visiting' /\ OfReset'
<1>. USE DEF Visiting, OfReset, Chain, Boards
<1>1. CASE Begin
  BY <1>1 DEF Begin
<1>2. CASE ResetStep
  BY <1>2, ChainSteps DEF ResetStep, update
<1>3. CASE ResetStepFails
  BY <1>3, FailSteps, ChainSteps DEF ResetStepFails, update
<1>4. CASE ReadMasks
  BY <1>4, FailSteps DEF ReadMasks
<1>40. CASE StoreMasks
  BY <1>40 DEF StoreMasks
<1>5. ASSUME NEW p \in PMs, EnableLink(p) PROVE Visiting' /\ OfReset'
  BY <1>5, FailSteps DEF EnableLink
<1>6. CASE Probe
  BY <1>6 DEF Probe
<1>7. CASE DisableLink
  BY <1>7 DEF DisableLink
<1>8. CASE Compute
  BY <1>8 DEF Compute
<1>9. CASE WriteMasks
  BY <1>9, FailSteps DEF WriteMasks, UpdateDone, Publish, update
<1>10. ASSUME NEW board \in PMs \cup {TCM}, Identify(board), caller = "reset",
              pc \in Boards
       PROVE  Visiting' /\ OfReset'
  BY <1>10, FailSteps DEF Identify
<1>11. CASE IdentifyTcm
  BY <1>10, <1>11 DEF IdentifyTcm
<1>12. ASSUME NEW p \in PMs, IdentifyPm(p) PROVE Visiting' /\ OfReset'
  BY <1>10, <1>12 DEF IdentifyPm, service
<1>13. CASE Configure
  BY <1>13, FailSteps DEF Configure
<1>14. CASE Succeed
  BY <1>14 DEF Succeed, Publish, update
<1>. QED BY <1>1, <1>2, <1>3, <1>4, <1>40, <1>5, <1>6, <1>7, <1>8, <1>9, <1>11, <1>12, <1>13, <1>14
     DEF ServiceStep

LEMMA NextControl ==
  ASSUME TypeOK, Visiting, OfReset, [Next]_vars PROVE Visiting' /\ OfReset'
<1>1. ASSUME NEW request \in Requests, Take(request) PROVE Visiting' /\ OfReset'
  BY <1>1 DEF Take, Visiting, OfReset, Chain, Boards
<1>2. CASE Meanwhile
  BY <1>2, MeanwhileKeeps DEF Visiting, OfReset, service, update
<1>. QED BY <1>1, <1>2, NextSplits, ServiceControl
-------------------------------------------------------------------------------
(* The SPI mask *)

Gone == {Link(p) : p \in PMs \ todo}

\* Of the PMs that have been visited, those that answered are in the stored mask, and those
\* that did not are not, unless they were left on.
MaskFollows ==
  /\ pc = "probe" => Link(pm) \in spiStored
  /\ pc \in {"links", "probe", "disableLink"} =>
       /\ answered \subseteq spiStored \cap Gone
       /\ spiStored \cap Gone \subseteq answered \cup leftOn
  /\ pc = "write" => answered \subseteq newSpi /\ newSpi \subseteq answered \cup leftOn

LEMMA ServiceMask == ASSUME TypeOK, Visiting, MaskFollows, ServiceStep PROVE MaskFollows'
<1>. USE DEF MaskFollows, Gone
<1>1. CASE Begin
  BY <1>1 DEF Begin
<1>2. CASE ResetStep
  BY <1>2, ChainSteps DEF ResetStep, Chain
<1>3. CASE ResetStepFails
  BY <1>3, FailSteps DEF ResetStepFails
<1>4. CASE ReadMasks
  BY <1>4, FailSteps DEF ReadMasks
<1>40. CASE StoreMasks
  BY <1>40 DEF StoreMasks
<1>5. ASSUME NEW p \in PMs, EnableLink(p) PROVE MaskFollows'
  <2>1. CASE pc' = "probe"
    <3>1. spiStored' = spiStored \cup {Link(p)} /\ UNCHANGED <<todo, answered, leftOn>>
          /\ pc = "links" /\ p \in todo /\ pm' = p
      BY <1>5, <2>1, FailSteps DEF EnableLink
    <3>2. Link(p) \notin Gone
      BY <3>1, LinksApart
    <3>. QED BY <2>1, <3>1, <3>2
  <2>. QED BY <1>5, <2>1, FailSteps DEF EnableLink
<1>6. CASE Probe
  <2>1. CASE pm \in alive /\ answered' = answered \cup {Link(pm)} /\ todo' = todo \ {pm}
    <3>1. pm \in todo /\ pm \in PMs /\ UNCHANGED <<spiStored, leftOn>> /\ pc' = "links"
      BY <1>6, <2>1 DEF Probe, Visiting, TypeOK, stored
    <3>2. Gone' = Gone \cup {Link(pm)}
      BY <2>1, <3>1
    <3>3. /\ answered \subseteq spiStored \cap Gone /\ spiStored \cap Gone \subseteq answered \cup leftOn
          /\ Link(pm) \in spiStored
      BY <1>6 DEF Probe
    <3>. HIDE DEF Gone
    <3>. QED BY <2>1, <3>1, <3>2, <3>3
  <2>2. CASE UNCHANGED <<answered, todo>>
    BY <1>6, <2>2 DEF Probe, stored
  <2>. QED BY <1>6, <2>1, <2>2 DEF Probe
<1>7. CASE DisableLink
  <2>1. pm \in todo /\ pm \in PMs /\ todo' = todo \ {pm} /\ pc' = "links" /\ UNCHANGED answered
        /\ pc = "disableLink"
    BY <1>7 DEF DisableLink, Visiting, TypeOK
  <2>2. Gone' = Gone \cup {Link(pm)} /\ Link(pm) \notin Gone
    BY <2>1, LinksApart
  <2>3. \/ spiStored' = spiStored \ {Link(pm)} /\ leftOn' = leftOn
        \/ spiStored' = spiStored /\ leftOn' = leftOn \cup {Link(pm)}
    BY <1>7 DEF DisableLink
  <2>4. answered \subseteq spiStored \cap Gone /\ spiStored \cap Gone \subseteq answered \cup leftOn
    BY <2>1
  <2>. HIDE DEF Gone
  <2>. QED BY <2>1, <2>2, <2>3, <2>4
<1>8. CASE Compute
  BY <1>8 DEF Compute, MaskToWrite, stored
<1>9. CASE WriteMasks
  BY <1>9, FailSteps DEF WriteMasks, UpdateDone, Publish
<1>10. ASSUME NEW board, Identify(board) PROVE MaskFollows'
  BY <1>10, FailSteps DEF Identify
<1>11. CASE IdentifyTcm
  BY <1>10, <1>11 DEF IdentifyTcm
<1>12. ASSUME NEW p \in PMs, IdentifyPm(p) PROVE MaskFollows'
  BY <1>10, <1>12 DEF IdentifyPm, service
<1>13. CASE Configure
  BY <1>13, FailSteps DEF Configure
<1>14. CASE Succeed
  BY <1>14 DEF Succeed, Publish
<1>. QED BY <1>1, <1>2, <1>3, <1>4, <1>40, <1>5, <1>6, <1>7, <1>8, <1>9, <1>11, <1>12, <1>13, <1>14
     DEF ServiceStep

LEMMA NextMask == ASSUME TypeOK, Visiting, MaskFollows, [Next]_vars PROVE MaskFollows'
<1>1. ASSUME NEW request \in Requests, Take(request) PROVE MaskFollows'
  BY <1>1 DEF Take, MaskFollows
<1>2. CASE Meanwhile
  BY <1>2, MeanwhileKeeps DEF MaskFollows, Gone, service, update
<1>. QED BY <1>1, <1>2, NextSplits, ServiceMask
-------------------------------------------------------------------------------
(* The channel masks *)

\* What the Board stores of the channel masks, and later what will be written, is what the
\* electronics hold, unless the service could not see a write.
ChannelsFollow ==
  /\ pc = "masksRead" /\ ~channelsRaced => response = channels /\ lateChannels = {}
  /\ pc \in {"links", "probe", "disableLink"} /\ ~channelsRaced =>
       /\ lateChannels = {} => channelsStored = channels
       /\ lateChannels \subseteq {channels}
  /\ pc = "write" /\ initialized /\ ~channelsRaced => newChannels = channels
  /\ pc = "write" /\ ~initialized => newChannels = newSpi

LEMMA ServiceChannels == ASSUME TypeOK, ChannelsFollow, ServiceStep PROVE ChannelsFollow'
<1>. USE DEF ChannelsFollow
<1>1. CASE Begin \/ Succeed
  BY <1>1 DEF Begin, Succeed, Publish
<1>2. CASE ResetStep
  BY <1>2, ChainSteps DEF ResetStep, Chain
<1>3. CASE ResetStepFails
  BY <1>3, FailSteps DEF ResetStepFails
<1>4. CASE ReadMasks
  <2>1. CASE pc' = "masksRead"
    <3>1. response' = channels /\ channels' = channels /\ lateChannels' = lateChannels
          /\ (~channelsRaced' => lateChannels = {})
      BY <1>4, <2>1, FailSteps DEF ReadMasks, registers, late
    <3>. QED BY <2>1, <3>1
  <2>. QED BY <1>4, <2>1, FailSteps DEF ReadMasks
<1>40. CASE StoreMasks
  BY <1>40 DEF StoreMasks, registers, others, late
<1>5. ASSUME NEW p \in PMs, EnableLink(p) PROVE ChannelsFollow'
  BY <1>5, FailSteps DEF EnableLink, others, late
<1>6. CASE Probe
  BY <1>6 DEF Probe, registers, stored, others, late
<1>7. CASE DisableLink
  BY <1>7 DEF DisableLink, others, late
<1>8. CASE Compute
  BY <1>8 DEF Compute, ChannelsToWrite, registers, stored, others, late
<1>9. CASE WriteMasks
  BY <1>9, FailSteps DEF WriteMasks, UpdateDone, Publish
<1>10. ASSUME NEW board, Identify(board) PROVE ChannelsFollow'
  BY <1>10, FailSteps DEF Identify
<1>11. CASE IdentifyTcm
  BY <1>10, <1>11 DEF IdentifyTcm
<1>12. ASSUME NEW p \in PMs, IdentifyPm(p) PROVE ChannelsFollow'
  BY <1>10, <1>12 DEF IdentifyPm, service
<1>13. CASE Configure
  BY <1>13, FailSteps DEF Configure
<1>. QED BY <1>1, <1>2, <1>3, <1>4, <1>40, <1>5, <1>6, <1>7, <1>8, <1>9, <1>11, <1>12, <1>13
     DEF ServiceStep

LEMMA NextChannels == ASSUME TypeOK, ChannelsFollow, [Next]_vars PROVE ChannelsFollow'
<1>1. ASSUME NEW request \in Requests, Take(request) PROVE ChannelsFollow'
  BY <1>1 DEF Take, ChannelsFollow
<1>2. CASE Meanwhile
  <2>1. UNCHANGED <<pc, initialized, response, newChannels, newSpi>>
    BY <1>2, MeanwhileKeeps DEF service, update
  <2>2. \/ UNCHANGED <<channels, channelsStored, lateChannels, channelsRaced>>
        \/ channelsRaced'
        \/ /\ pc \notin {"masksRead", "write"} /\ lateChannels = {} /\ ~channelsRaced
           /\ lateChannels' = {channels'}
        \/ \E mask \in lateChannels :
             /\ channelsStored' = mask /\ lateChannels' = lateChannels \ {mask}
             /\ UNCHANGED <<channels, channelsRaced>>
    BY <1>2 DEF Meanwhile, WriteChannels, StoreChannels, WriteInterval, StoreInterval,
       ReadInterval, SwitchPm, vars, registers, stored, others, late, TypeOK
  <2>3. CASE UNCHANGED <<channels, channelsStored, lateChannels, channelsRaced>>
    BY <2>1, <2>3 DEF ChannelsFollow
  <2>4. CASE channelsRaced'
    BY <2>1, <2>4 DEF ChannelsFollow
  <2>5. CASE /\ pc \notin {"masksRead", "write"} /\ lateChannels = {} /\ ~channelsRaced
             /\ lateChannels' = {channels'}
    BY <2>1, <2>5 DEF ChannelsFollow
  <2>6. ASSUME NEW mask \in lateChannels,
               channelsStored' = mask, lateChannels' = lateChannels \ {mask},
               UNCHANGED <<channels, channelsRaced>>
        PROVE  ChannelsFollow'
    <3>1. CASE pc \in {"links", "probe", "disableLink"} /\ ~channelsRaced
      <4>1. mask = channels
        BY <3>1 DEF ChannelsFollow
      <4>. QED BY <2>1, <2>6, <3>1, <4>1 DEF ChannelsFollow
    <3>2. CASE ~(pc \in {"links", "probe", "disableLink"} /\ ~channelsRaced)
      BY <2>1, <2>6, <3>2 DEF ChannelsFollow
    <3>. QED BY <3>1, <3>2
  <2>. QED BY <2>2, <2>3, <2>4, <2>5, <2>6
<1>. QED BY <1>1, <1>2, NextSplits, ServiceChannels
-------------------------------------------------------------------------------
(* The read interval and the reports *)

\* The steps of a reset after the interval has been restored.
Afterwards == caller = "reset" /\ pc \in {"restored", "signatures"} \cup Update \cup Boards

\* What has been kept, and then what has been restored, is what the users want.
IntervalFollows ==
  /\ Restoring /\ ~intervalRaced => saved = wanted
  /\ pc = "restore" => reports
  /\ Afterwards => reports /\ (~intervalRaced => interval = wanted)
  /\ ResetRestores

LEMMA ServiceInterval ==
  ASSUME TypeOK, OfReset, IntervalFollows, ServiceStep PROVE IntervalFollows'
<1>. USE DEF IntervalFollows, ResetRestores, Restoring, Afterwards
<1>. USE DEF OfReset, Chain, Update, Boards
<1>0. ASSUME Fail PROVE pc' \in {"begin", "wait"} /\ (pc' = "begin" => outcome' = "error")
  BY <1>0, FailSteps
<1>00. ASSUME UNCHANGED <<interval, reports, wanted, intervalRaced, caller>>,
              pc \in Update \cup Boards, Fail \/ pc' \in Update \cup Boards
       PROVE  IntervalFollows'
  BY <1>0, <1>00
<1>1. CASE Begin
  BY <1>1 DEF Begin
<1>2. CASE ResetStep
  <2>1. UNCHANGED <<caller, wanted, intervalRaced, saved>> /\ Written /\ pc \in Chain
        /\ pc' = After[pc]
    BY <1>2, ChainSteps DEF ResetStep, update, others
  <2>2. CASE pc = "reportsOff"
    BY <2>1, <2>2, ChainSteps DEF Written
  <2>3. CASE pc = "reset"
    BY <2>1, <2>3, ChainSteps DEF Written
  <2>4. CASE pc = "finished"
    BY <2>1, <2>4, ChainSteps DEF Written
  <2>5. CASE pc = "reportsOn"
    BY <2>1, <2>5, ChainSteps DEF Written
  <2>6. CASE pc = "restore"
    BY <2>1, <2>6, ChainSteps DEF Written, Restored
  <2>7. CASE pc \in {"restored", "signatures"}
    BY <2>1, <2>7, ChainSteps DEF Written, registers
  <2>. QED BY <2>1, <2>2, <2>3, <2>4, <2>5, <2>6, <2>7
<1>3. CASE ResetStepFails
  BY <1>3, <1>0 DEF ResetStepFails
<1>4. CASE ReadMasks
  BY <1>4, <1>00 DEF ReadMasks, registers
<1>40. CASE StoreMasks
  BY <1>40, <1>00 DEF StoreMasks, registers, others
<1>5. ASSUME NEW p \in PMs, EnableLink(p) PROVE IntervalFollows'
  BY <1>5, <1>00 DEF EnableLink, others
<1>6. CASE Probe
  BY <1>6, <1>00 DEF Probe, registers, others
<1>7. CASE DisableLink
  BY <1>7, <1>00 DEF DisableLink, others
<1>8. CASE Compute
  BY <1>8, <1>00 DEF Compute, registers, others, update
<1>9. CASE WriteMasks
  BY <1>9, <1>0 DEF WriteMasks, UpdateDone, Publish, others, update
<1>10. ASSUME NEW board, Identify(board), pc \in Boards PROVE IntervalFollows'
  BY <1>10, <1>00 DEF Identify, registers, others
<1>11. CASE IdentifyTcm
  BY <1>10, <1>11 DEF IdentifyTcm
<1>12. ASSUME NEW p \in PMs, IdentifyPm(p) PROVE IntervalFollows'
  BY <1>00, <1>10, <1>12 DEF IdentifyPm, service, registers, others
<1>13. CASE Configure
  BY <1>13, <1>00 DEF Configure, others
<1>14. CASE Succeed
  BY <1>14 DEF Succeed, Publish, registers, others, update
<1>. QED BY <1>1, <1>2, <1>3, <1>4, <1>40, <1>5, <1>6, <1>7, <1>8, <1>9, <1>11, <1>12, <1>13, <1>14
     DEF ServiceStep

LEMMA NextInterval ==
  ASSUME TypeOK, OfReset, IntervalFollows, [Next]_vars PROVE IntervalFollows'
<1>. USE DEF IntervalFollows, ResetRestores, Restoring, Afterwards
<1>1. ASSUME NEW request \in Requests, Take(request) PROVE IntervalFollows'
  <2>1. Unknown \notin Codes /\ wanted \in Codes
    BY ResetAssumption DEF Codes, Unknown, TypeOK
  <2>. QED BY <1>1, <2>1 DEF Take, Update, Boards
<1>2. CASE Meanwhile
  <2>1. UNCHANGED <<pc, caller, saved, outcome, reports>>
    BY <1>2, MeanwhileKeeps DEF service, update
  <2>2. \/ UNCHANGED <<interval, wanted, intervalRaced>>
        \/ intervalRaced'
        \/ ~Restoring /\ interval' = wanted'
    BY <1>2 DEF Meanwhile, WriteChannels, StoreChannels, WriteInterval, StoreInterval,
       ReadInterval, SwitchPm, vars, registers, stored, others, TypeOK
  <2>. QED BY <2>1, <2>2 DEF Update, Boards
<1>. QED BY <1>1, <1>2, NextSplits, ServiceInterval
-------------------------------------------------------------------------------
IInv == TypeOK /\ Visiting /\ OfReset /\ MaskFollows /\ ChannelsFollow /\ IntervalFollows

LEMMA SpecIInv == Spec => []IInv
<1>1. Init => IInv
  BY InitType DEF Init, IInv, Visiting, OfReset, MaskFollows, ChannelsFollow, IntervalFollows,
     Restoring, Afterwards, ResetRestores, Chain, Update, Boards
<1>2. IInv /\ [Next]_vars => IInv'
  BY NextType, NextControl, NextMask, NextChannels, NextInterval DEF IInv
<1>. QED BY <1>1, <1>2, PTL DEF Spec

\* The types of the variables.
THEOREM TypeCorrect == Spec => []TypeOK
BY SpecIInv, PTL DEF IInv

\* A reset that succeeded leaves the interval the users chose, and the reports on.
THEOREM ResetsAlwaysRestore == Spec => []ResetRestores
BY SpecIInv, PTL DEF IInv, IntervalFollows

\* The masks are left by one step only.
LEMMA WriteLeaves == ASSUME [Next]_vars, pc = "write", pc' # "write" PROVE WriteMasks
<1>1. ~(\E request \in Requests : Take(request))
  BY DEF Take
<1>2. ~Meanwhile
  BY MeanwhileKeeps DEF service
<1>3. ServiceStep
  BY <1>1, <1>2, NextSplits
<1>4. ~ResetStep /\ ~ResetStepFails
  BY ChainSteps DEF ResetStep, ResetStepFails, Chain
<1>. QED BY <1>3, <1>4 DEF ServiceStep, Begin, ReadMasks, StoreMasks, EnableLink, Probe, DisableLink,
       Compute, IdentifyTcm, IdentifyPm, Configure, Succeed

\* A success of updatePmSpiMask leaves enabled the links of the PMs that answered, and of no
\* other but those that could not be disabled.
THEOREM LinksAlwaysFollow == Spec => LinksFollowAnswers
<1>1. ASSUME IInv, [Next]_vars, MasksWritten
      PROVE  spi' \subseteq answered \cup leftOn /\ answered \subseteq spi'
  BY <1>1 DEF MasksWritten, IInv, MaskFollows
<1>2. IInv /\ [Next]_vars =>
        [MasksWritten => spi' \subseteq answered \cup leftOn /\ answered \subseteq spi']_vars
  BY <1>1
<1>. QED BY <1>2, SpecIInv, PTL DEF Spec, LinksFollowAnswers

\* The links of a mask are those of its two sides, which have none in common.
LEMMA SidesApart ==
  ASSUME NEW side \in Sides, NEW done, NEW begun, NEW new
  PROVE  HeldChannels(done, begun, new) \cap SideLinks(side)
           = Held(side, done, begun, channels, new) \cap SideLinks(side)
<1>1. \A other \in Sides \ {side} : SideLinks(other) \cap SideLinks(side) = {}
  BY ResetAssumption DEF Sides, SideLinks
<1>. QED BY <1>1 DEF HeldChannels

\* The channel masks of the users survive every update but one that initialises, or that
\* could not see them written; one that fails may leave the mask of a side cleared.
THEOREM ChannelMasksAlwaysKept == Spec => ChannelMasksKept
<1>1. ASSUME IInv, [Next]_vars, pc = "write", pc' # "write", ~channelsRaced, NEW side \in Sides
      PROVE  \/ channels' \cap SideLinks(side) = channels \cap SideLinks(side)
             \/ ~initialized /\ channels' \cap SideLinks(side) = newSpi \cap SideLinks(side)
             \/ WriteFailed /\ channels' \cap SideLinks(side) = {}
  <2>1. WriteMasks
    BY <1>1, WriteLeaves
  <2>2. IF initialized THEN newChannels = channels ELSE newChannels = newSpi
    BY <1>1 DEF IInv, ChannelsFollow, TypeOK
  <2>3. CASE channels' = newChannels
    BY <2>2, <2>3
  <2>4. CASE Fail /\ \E done, begun : channels' = HeldChannels(done, begun, newChannels)
    <3>1. PICK done, begun : channels' = HeldChannels(done, begun, newChannels)
      BY <2>4
    <3>2. channels' \cap SideLinks(side)
            = Held(side, done, begun, channels, newChannels) \cap SideLinks(side)
      BY <3>1, SidesApart
    <3>3. Held(side, done, begun, channels, newChannels) \in {newChannels, {}, channels}
      BY DEF Held
    <3>4. pc' # "gbtTcm" /\ outcome' # "SUCCESS"
      BY <1>1, <2>4, FailSteps DEF IInv, OfReset
    <3>. QED BY <2>2, <3>2, <3>3, <3>4 DEF WriteFailed
  <2>. QED BY <2>1, <2>3, <2>4 DEF WriteMasks
<1>2. IInv /\ [Next]_vars => [pc = "write" /\ pc' # "write" /\ ~channelsRaced =>
          \A side \in Sides :
            LET mask == channels \cap SideLinks(side)
            IN \/ mask' = mask
               \/ ~initialized /\ mask' = newSpi \cap SideLinks(side)
               \/ WriteFailed /\ mask' = {}]_vars
  BY <1>1 DEF SideLinks
<1>. QED BY <1>2, SpecIInv, PTL DEF Spec, ChannelMasksKept
-------------------------------------------------------------------------------
(* The flag *)

phase == CASE pc = "begin" -> "returned"
           [] pc = "wait" -> "waiting"
           [] pc \notin {"begin", "wait"} /\ caller = "boot" -> "preparing"
           [] pc \notin {"begin", "wait"} /\ caller # "boot" -> "serving"

\* A step on behalf of a request, or of the preparation, goes on with it or ends it.
GoesOn == /\ pc \notin {"begin", "wait"}
          /\ UNCHANGED <<flag, caller>>
          /\ \/ pc' \notin {"begin", "wait"}
             \/ caller = "boot" /\ pc' = "wait"
             \/ caller # "boot" /\ pc' = "begin"

LEMMA FailEnds ==
  ASSUME TypeOK, Fail
  PROVE  \/ caller = "boot" /\ pc' = "wait"
         \/ caller # "boot" /\ pc' = "begin"
BY DEF TypeOK, Fail, Publish

LEMMA ServiceGoesOn ==
  ASSUME TypeOK, OfReset, ServiceStep PROVE Begin \/ GoesOn
<1>. USE FailEnds DEF GoesOn
<1>1. CASE ResetStep
  BY <1>1, ChainSteps DEF ResetStep, update, Chain
<1>2. CASE ResetStepFails
  BY <1>2, ChainSteps DEF ResetStepFails, update, Chain
<1>3. CASE ReadMasks \/ StoreMasks
  BY <1>3 DEF ReadMasks, StoreMasks
<1>4. ASSUME NEW p \in PMs, EnableLink(p) PROVE GoesOn
  BY <1>4 DEF EnableLink
<1>5. CASE Probe \/ DisableLink \/ Compute
  BY <1>5 DEF Probe, DisableLink, Compute
<1>6. CASE WriteMasks
  <2>1. \/ caller = "boot" /\ pc' = "wait"
        \/ caller # "boot" /\ pc' \in {"begin", "gbtTcm"}
    BY <1>6 DEF WriteMasks, UpdateDone, Publish
  <2>. QED BY <1>6, <2>1 DEF WriteMasks, update
<1>7. ASSUME NEW board, Identify(board), pc \in Boards PROVE GoesOn
  BY <1>7 DEF Identify, Boards
<1>8. CASE IdentifyTcm
  BY <1>7, <1>8 DEF IdentifyTcm, Boards
<1>9. ASSUME NEW p \in PMs, IdentifyPm(p) PROVE GoesOn
  BY <1>7, <1>9 DEF IdentifyPm, Boards, service
<1>10. CASE Configure
  BY <1>10 DEF Configure
<1>11. CASE Succeed
  BY <1>11 DEF Succeed, Publish, update, OfReset, Boards
<1>. QED BY <1>1, <1>2, <1>3, <1>4, <1>5, <1>6, <1>8, <1>9, <1>10, <1>11 DEF ServiceStep

LEMMA PhaseSteps ==
  ASSUME TypeOK, OfReset, [Next]_vars PROVE [Flagged!Next]_<<flag, phase>>
<1>. USE DEF Flagged!Next, Flagged!Begin, Flagged!Ready, Flagged!Take, Flagged!Return
<1>1. ASSUME NEW request \in Requests, Take(request) PROVE [Flagged!Next]_<<flag, phase>>
  <2>1. pc = "wait" /\ pc' \in {"masks", "reportsOff"} /\ caller' # "boot" /\ flag' = 1
    BY <1>1 DEF Take
  <2>. QED BY <2>1 DEF phase
<1>2. CASE Meanwhile
  BY <1>2, MeanwhileKeeps DEF service, update, phase
<1>3. CASE Begin
  <2>1. pc = "begin" /\ pc' \in {"wait", "masks"} /\ caller' = "boot" /\ flag' = 0
    BY <1>3 DEF Begin
  <2>. QED BY <2>1 DEF phase
<1>4. CASE GoesOn
  BY <1>4 DEF GoesOn, phase
<1>. QED BY <1>1, <1>2, <1>3, <1>4, NextSplits, ServiceGoesOn

\* The flag is raised and lowered where the manager that polls it expects that, whatever fails.
THEOREM FlaggedServiceImplemented == Spec => ImplementsFlaggedService
<1>1. Init => Flagged!Init
  BY DEF Init, Flagged!Init
<1>2. IInv /\ [Next]_vars => [Flagged!Next]_(Flagged!flagVars)
  BY PhaseSteps DEF IInv, phase, Flagged!flagVars
<1>. QED BY <1>1, <1>2, SpecIInv, PTL DEF Spec, ImplementsFlaggedService, Flagged!Spec
===============================================================================
