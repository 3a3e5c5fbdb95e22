------------------------------- MODULE ResetFEE -------------------------------
(* The service RESET_SYSTEM (class ResetFEE): it finds out which PMs answer,      *)
(* keeps the SPI mask and the channel masks of the TCM, resets the electronics    *)
(* and restores what the reset destroys, and writes the GBT configuration of the  *)
(* boards.  Other services write the same registers meanwhile, PMs appear and     *)
(* disappear, and any communication may fail.                                     *)
(* A step of the module is one sequence executed by ALF together with the         *)
(* processing of its response, or the statements between two of them.  Executing  *)
(* and storing are steps of their own where another service may come in between   *)
(* and it matters: when the masks are read, when the read interval is restored,   *)
(* and in everything the others read or write.  A sequence that fails has         *)
(* executed some of its frames: of the writes it holds some are done, and one may *)
(* be begun, its AND frame executed without its OR frame, which clears the field. *)
EXTENDS Integers, FiniteSets

CONSTANTS
  PerSide,      \* PM links of one side of the detector (10)
  PMs,          \* the PMs of the setup: records [side, number]
  Intervals,    \* codes of COUNTER_READ_INTERVAL other than 0 (disabled)
  ChannelSets,  \* channel masks that other services may write: sets of links
  CommFails,    \* may communication, or the database, fail?
  MaxRequests,  \* bound: requests to the service
  MaxChanges    \* bound: changes made by others (writes, PMs that come and go)

Links == 0 .. 2 * PerSide - 1
Sides == {"A", "C"}

ASSUME ResetAssumption ==
  /\ PerSide \in Nat \ {0}
  /\ PMs \subseteq [side : Sides, number : 0 .. PerSide - 1]
  /\ Intervals \subseteq Nat \ {0}
  /\ ChannelSets \subseteq SUBSET Links
  /\ CommFails \in BOOLEAN
  /\ MaxRequests \in Nat
  /\ MaxChanges \in Nat

\* The bit of a PM in the masks: side C comes after side A.
Link(pm) == pm.number + IF pm.side = "C" THEN PerSide ELSE 0

\* The links of a side, and with them the bits of its channel mask, a register each.
SideLinks(side) == IF side = "A" THEN 0 .. PerSide - 1 ELSE PerSide .. 2 * PerSide - 1

\* The bit checkSPIMask tests before the GBT configuration of a PM.
TestedLink(pm) == pm.number

TCM == [side |-> "none", number |-> 0]
NoBoard == [side |-> "none", number |-> 1]
Unknown == -1    \* a value the Board has not stored yet
Codes == Intervals \cup {0}
Requests == {"REINITIALIZE_SPI_MASK", "RESET", "ENFORCE_DEFAULT_GBT_CONFIG"}

VARIABLES
  \* registers of the electronics
  spi,            \* PM links with SPI enabled
  channels,       \* the channel masks of both sides
  interval,       \* COUNTER_READ_INTERVAL
  reports,        \* are GBT error reports on?
  identified,     \* boards that hold the identifiers of the environment variables
  alive,          \* PMs that answer
  \* values stored in the Board of the TCM, shared by all services
  spiStored, channelsStored, intervalStored,
  \* the service
  pc,             \* the next step
  caller,         \* on whose behalf updatePmSpiMask runs
  initialized,    \* m_initialized
  enforce,        \* m_enforceDefGbtConfig
  flag,           \* environment variable RESET_SYSTEM
  saved,          \* cntUpdateRate of applyResetFEE
  todo, pm,       \* PMs still to visit, and the one being visited
  response,       \* the channel masks in the response that is not stored yet
  newSpi, newChannels,  \* currentMask, channelMaskA and channelMaskC
  outcome,        \* what was published for the last request
  \* the responses that other services have not processed yet
  lateChannels,   \* channel masks they wrote
  lateInterval,   \* read intervals they wrote or read
  \* history
  requests, changes,    \* how many there were
  answered,       \* links of the PMs that answered in this update
  leftOn,         \* links that should have been disabled, but the write failed
  channelsRaced,  \* others wrote the channel masks where the service cannot see it: the
                  \* write was in flight when the masks were read or the new ones
                  \* computed, or at the same time as another, or it failed, or it came
                  \* before the masks read were stored or after the new were computed
  wanted,         \* the last interval the users chose
  intervalRaced   \* the Board did not hold that interval when the reset began, or it
                  \* was written before the reset restored the one it had kept

registers == <<spi, channels, interval, reports, identified>>
stored == <<spiStored, channelsStored, intervalStored>>
update == <<caller, todo, pm, response, newSpi, newChannels, answered, leftOn>>
late == <<lateChannels, lateInterval>>
others == <<alive, changes, late, channelsRaced, wanted, intervalRaced>>
service == <<pc, initialized, enforce, flag, saved, outcome, requests>>
vars == <<registers, stored, update, others, service>>

Init ==
  /\ spi \in {{}, Links} /\ channels \in ChannelSets
  /\ interval \in Codes /\ reports = TRUE
  /\ identified \in {{}, PMs \cup {TCM}}
  /\ alive \in SUBSET PMs
  /\ spiStored = {} /\ channelsStored = {}    \* never used before they are read
  /\ intervalStored = Unknown
  /\ pc = "begin" /\ caller = "boot" /\ initialized = FALSE /\ enforce = FALSE
  /\ flag = 0 /\ saved = 0 /\ outcome = "none"
  /\ todo = {} /\ pm = NoBoard /\ response = {} /\ newSpi = {} /\ newChannels = {}
  /\ lateChannels = {} /\ lateInterval = {}
  /\ requests = 0 /\ changes = 0 /\ answered = {} /\ leftOn = {}
  /\ channelsRaced = FALSE /\ wanted = interval /\ intervalRaced = FALSE
-------------------------------------------------------------------------------
(* The cycle of processExecution *)

Begin_FlagKept ==
  /\ pc = "begin"
  /\ caller' = "boot"
  /\ pc' = IF initialized THEN "wait" ELSE "masks"
  /\ UNCHANGED <<registers, stored, others, initialized, enforce, requests, flag, saved,
                 outcome, todo, pm, response, newSpi, newChannels, answered, leftOn>>

\* processExecution lowers the flag, and prepares the masks the first time.  What was
\* local to its last call is gone.
Begin ==
  /\ pc = "begin"
  /\ flag' = 0
  /\ caller' = "boot"
  /\ pc' = IF initialized THEN "wait" ELSE "masks"
  /\ saved' = 0 /\ todo' = {} /\ pm' = NoBoard /\ newSpi' = {} /\ newChannels' = {}
  /\ response' = {} /\ outcome' = "none" /\ answered' = {} /\ leftOn' = {}
  /\ UNCHANGED <<registers, stored, others, initialized, enforce, requests>>

\* A request arrives.  REINITIALIZE_SPI_MASK updates the masks as the first time;
\* any other request resets the system, and first keeps the read interval.  What was
\* local to the first update of the masks is gone.
Take(request) ==
  /\ pc = "wait"
  /\ requests < MaxRequests
  /\ requests' = requests + 1
  /\ flag' = 1
  /\ enforce' = (request = "ENFORCE_DEFAULT_GBT_CONFIG")
  /\ \/ /\ request = "REINITIALIZE_SPI_MASK"
        /\ initialized' = FALSE
        /\ caller' = "reinit"
        /\ pc' = "masks"
        /\ UNCHANGED <<saved, intervalRaced>>
     \/ /\ request # "REINITIALIZE_SPI_MASK"
        /\ saved' = IF intervalStored = Unknown THEN 0 ELSE intervalStored
        /\ intervalRaced' = (intervalStored # wanted)
        /\ caller' = "reset"
        /\ pc' = "reportsOff"
        /\ UNCHANGED initialized
  /\ todo' = {} /\ pm' = NoBoard /\ response' = {} /\ newSpi' = {} /\ newChannels' = {}
  /\ answered' = {} /\ leftOn' = {}
  /\ UNCHANGED <<registers, stored, alive, changes, late, channelsRaced, wanted, outcome>>

\* The request is answered and processExecution returns.
Publish(result) ==
  /\ outcome' = result
  /\ pc' = "begin"

\* An error of updatePmSpiMask or of one of the other parts ends the request; the
\* very first update has no request to end, and counts as an initialisation.
Fail ==
  \/ /\ caller = "boot"
     /\ pc' = "wait"
     /\ initialized' = TRUE
     /\ UNCHANGED outcome
  \/ /\ caller = "reinit"
     /\ initialized' = TRUE
     /\ Publish("error")
  \/ /\ caller = "reset"
     /\ UNCHANGED initialized
     /\ Publish("error")
-------------------------------------------------------------------------------
(* applyResetFEE and applyTriggersSign: a chain of writes to the TCM *)

\* The next step of the chain.
After ==
  [reportsOff |-> "reset", reset |-> "finished", finished |-> "reportsOn",
   reportsOn |-> "restore", restore |-> "restored", restored |-> "signatures",
   signatures |-> "masks"]

\* What is written back to COUNTER_READ_INTERVAL.
Restored_Stored == IF intervalStored = Unknown THEN 0 ELSE intervalStored
Restored == saved

\* What the write does to the registers.  A reset of the electronics zeroes the
\* read interval, and may lose the masks and the identifiers.
Written ==
  \/ /\ pc \in {"reportsOff", "reportsOn"}
     /\ reports' = (pc = "reportsOn")
     /\ UNCHANGED <<spi, channels, interval, identified>>
  \/ /\ pc = "reset"
     /\ interval' = 0
     /\ spi' \in {spi, {}}
     /\ channels' \in {channels, {}}
     /\ identified' \in {identified, {}}
     /\ UNCHANGED reports
  \/ /\ pc = "restore"
     /\ interval' = Restored
     /\ UNCHANGED <<spi, channels, reports, identified>>
  \/ /\ pc \in {"finished", "restored", "signatures"}
     /\ UNCHANGED registers

\* What its AND frame alone does.
Begun ==
  \/ /\ pc \in {"reportsOff", "reportsOn"}
     /\ reports' = TRUE
     /\ UNCHANGED <<spi, channels, interval, identified>>
  \/ /\ pc = "restore"
     /\ interval' = 0
     /\ UNCHANGED <<spi, channels, reports, identified>>

\* The write succeeds.  All but the reset and its acknowledgement are read back,
\* which stores the value; that of the interval in a step of its own.
ResetStep ==
  /\ pc \in DOMAIN After
  /\ Written
  /\ intervalStored' = IF pc = "restored" THEN Restored ELSE intervalStored
  /\ pc' = After[pc]
  /\ UNCHANGED <<spiStored, channelsStored, update, others, initialized, enforce,
                 flag, saved, outcome, requests>>

\* The write fails, before, after or while the electronics execute it.
ResetStepFails ==
  /\ CommFails
  /\ pc \in DOMAIN After \ {"restored"}
  /\ Written \/ Begun \/ UNCHANGED registers
  /\ Fail
  /\ UNCHANGED <<stored, update, others, enforce, flag, saved, requests>>
-------------------------------------------------------------------------------
(* updatePmSpiMask *)

\* The masks are read.
ReadMasks ==
  /\ pc = "masks"
  /\ \/ /\ response' = channels
        /\ channelsRaced' = (lateChannels # {})
        /\ pc' = "masksRead"
        /\ UNCHANGED <<initialized, outcome>>
     \/ /\ CommFails
        /\ Fail
        /\ UNCHANGED <<response, channelsRaced>>
  /\ UNCHANGED <<registers, stored, alive, changes, late, wanted, intervalRaced, enforce,
                 flag, saved, requests, caller, todo, pm, newSpi, newChannels, answered,
                 leftOn>>

\* They are stored.  The SPI mask is written by this service alone.
StoreMasks ==
  /\ pc = "masksRead"
  /\ spiStored' = spi /\ channelsStored' = response
  /\ response' = {}
  /\ todo' = PMs /\ answered' = {} /\ leftOn' = {}
  /\ pc' = "links"
  /\ UNCHANGED <<registers, intervalStored, others, initialized, enforce, flag, saved,
                 outcome, requests, caller, pm, newSpi, newChannels>>

\* The link of the next PM is enabled (seqMaskPMLink changes the stored mask).  The
\* PMs are in no particular order.
EnableLink(p) ==
  /\ pc = "links"
  /\ p \in todo
  /\ \/ /\ spi' = spiStored \cup {Link(p)}
        /\ spiStored' = spiStored \cup {Link(p)}
        /\ pm' = p
        /\ pc' = "probe"
        /\ UNCHANGED <<initialized, outcome>>
     \/ /\ CommFails
        /\ spi' \in {spi, spiStored \cup {Link(p)}, {}}
        /\ Fail
        /\ UNCHANGED <<spiStored, pm>>
  /\ UNCHANGED <<channels, interval, reports, identified, channelsStored,
                 intervalStored, others, enforce, flag, saved, requests, caller, todo,
                 response, newSpi, newChannels, answered, leftOn>>

\* The supply voltage of the PM is read: an error, or a value of all ones, means
\* that there is no PM at this link.
Probe ==
  /\ pc = "probe"
  /\ \/ /\ pm \in alive
        /\ answered' = answered \cup {Link(pm)}
        /\ todo' = todo \ {pm}
        /\ pc' = "links"
     \/ /\ pm \notin alive \/ CommFails
        /\ pc' = "disableLink"
        /\ UNCHANGED <<answered, todo>>
  /\ UNCHANGED <<registers, stored, others, initialized, enforce, flag, saved, outcome,
                 requests, caller, pm, response, newSpi, newChannels, leftOn>>

\* Mutant: a PM that does not answer is tried again.
DisableLink_Retries ==
  /\ pc = "disableLink"
  /\ \/ /\ spi' = spiStored \ {Link(pm)}
        /\ spiStored' = spiStored \ {Link(pm)}
        /\ UNCHANGED leftOn
     \/ /\ CommFails
        /\ spi' \in {spi, spiStored \ {Link(pm)}, {}}
        /\ leftOn' = leftOn \cup {Link(pm)}
        /\ UNCHANGED spiStored
  /\ pc' = "links"
  /\ UNCHANGED <<channels, interval, reports, identified, channelsStored,
                 intervalStored, others, initialized, enforce, flag, saved, outcome,
                 requests, caller, todo, pm, response, newSpi, newChannels, answered>>

\* The link of a PM that does not answer is disabled; an error is not looked at.
DisableLink ==
  /\ pc = "disableLink"
  /\ \/ /\ spi' = spiStored \ {Link(pm)}
        /\ spiStored' = spiStored \ {Link(pm)}
        /\ UNCHANGED leftOn
     \/ /\ CommFails
        /\ spi' \in {spi, spiStored \ {Link(pm)}, {}}
        /\ leftOn' = leftOn \cup {Link(pm)}
        /\ UNCHANGED spiStored
  /\ todo' = todo \ {pm}
  /\ pc' = "links"
  /\ UNCHANGED <<channels, interval, reports, identified, channelsStored,
                 intervalStored, others, initialized, enforce, flag, saved, outcome,
                 requests, caller, pm, response, newSpi, newChannels, answered>>

\* Links without a PM in the setup are taken out of the mask.
MaskToWrite_AsStored == spiStored
MaskToWrite == spiStored \cap {Link(p) : p \in PMs}

\* The channel masks stay as they are stored, or enable exactly the links found when
\* initialising.
ChannelsToWrite_Found(mask) == mask
ChannelsToWrite(mask) == IF initialized THEN channelsStored ELSE mask

Compute ==
  /\ pc = "links"
  /\ todo = {}
  /\ newSpi' = MaskToWrite
  /\ newChannels' = ChannelsToWrite(newSpi')
  /\ channelsRaced' = (channelsRaced \/ lateChannels # {})
  /\ pm' = NoBoard
  /\ pc' = "write"
  /\ UNCHANGED <<registers, stored, alive, changes, late, wanted, intervalRaced,
                 initialized, enforce, flag, saved, outcome, requests, caller, todo,
                 response, answered, leftOn>>

\* updatePmSpiMask succeeded.
UpdateDone ==
  \/ /\ caller = "boot"
     /\ initialized' = TRUE
     /\ pc' = "wait"
     /\ UNCHANGED outcome
  \/ /\ caller = "reinit"
     /\ initialized' = TRUE
     /\ Publish("SUCCESS")
  \/ /\ caller = "reset"
     /\ pc' = "gbtTcm"
     /\ UNCHANGED <<initialized, outcome>>

\* What a register holds of a mask, given whether its write was done or begun.
Held(register, done, begun, old, new) ==
  IF register \in done THEN new ELSE IF register \in begun THEN {} ELSE old

\* The channel masks, a register for each side, given whose write was done or begun.
HeldChannels(done, begun, new) ==
  UNION {Held(side, done, begun, channels, new) \cap SideLinks(side) : side \in Sides}

\* The writes of a sequence that are begun when it fails after those done: one at most.
BegunAfter(done, writes) == {{}} \cup {{w} : w \in writes \ done}

\* The masks are written, in one sequence of three masked writes.  What is stored
\* of the channel masks is read again before it is used.
WriteMasks ==
  /\ pc = "write"
  /\ \/ /\ spi' = newSpi /\ spiStored' = newSpi
        /\ channels' = newChannels /\ channelsStored' = newChannels
        /\ UpdateDone
     \/ /\ CommFails
        /\ \E done \in SUBSET (Sides \cup {"spi"}) :
             \E begun \in BegunAfter(done, Sides \cup {"spi"}) :
               /\ spi' = Held("spi", done, begun, spi, newSpi)
               /\ channels' = HeldChannels(done, begun, newChannels)
        /\ Fail
        /\ UNCHANGED <<spiStored, channelsStored>>
  /\ UNCHANGED <<interval, reports, identified, intervalStored, others, enforce, flag,
                 saved, requests, update>>
-------------------------------------------------------------------------------
(* applyGbtConfiguration *)

\* Does a board answer when its identifiers are read?
Answers(board) == board = TCM \/ (board \in alive /\ Link(board) \in spi)

NextPms(board) == IF board = TCM THEN PMs ELSE todo \ {board}

\* The identifiers of a board are read and compared; the GBT configuration is
\* written if they are wrong, or if the request enforces it.
Identify(board) ==
  /\ \/ /\ Answers(board)
        /\ \/ /\ board \notin identified \/ enforce
              /\ pm' = board
              /\ pc' = "configure"
              /\ UNCHANGED todo
           \/ /\ board \in identified /\ ~enforce
              /\ todo' = NextPms(board)
              /\ pc' = "gbtPms"
              /\ UNCHANGED pm
        /\ UNCHANGED <<initialized, outcome>>
     \/ /\ ~Answers(board) \/ CommFails
        /\ Fail
        /\ UNCHANGED <<todo, pm>>
  /\ UNCHANGED <<registers, stored, others, enforce, flag, saved, requests, caller,
                 response, newSpi, newChannels, answered, leftOn>>

IdentifyTcm == pc = "gbtTcm" /\ Identify(TCM)

\* A PM whose bit is not in the stored SPI mask is passed over.
IdentifyPm(p) ==
  /\ pc = "gbtPms"
  /\ p \in todo
  /\ \/ /\ TestedLink(p) \in spiStored
        /\ Identify(p)
     \/ /\ TestedLink(p) \notin spiStored
        /\ todo' = todo \ {p}
        /\ UNCHANGED <<registers, stored, others, service, caller, pm, response, newSpi,
                       newChannels, answered, leftOn>>

\* The default GBT configuration is fetched from the database and written together
\* with the identifiers.
Configure ==
  /\ pc = "configure"
  /\ \/ /\ Answers(pm)
        /\ identified' = identified \cup {pm}
        /\ todo' = NextPms(pm)
        /\ pm' = NoBoard
        /\ pc' = "gbtPms"
        /\ UNCHANGED <<initialized, outcome>>
     \/ /\ ~Answers(pm) \/ CommFails
        /\ identified' \in {identified, identified \cup {pm}, identified \ {pm}}
        /\ Fail
        /\ UNCHANGED <<todo, pm>>
  /\ UNCHANGED <<spi, channels, interval, reports, stored, others, enforce, flag, saved,
                 requests, caller, response, newSpi, newChannels, answered, leftOn>>

\* All boards have been visited: the reset succeeded.
Succeed ==
  /\ pc = "gbtPms"
  /\ todo = {}
  /\ Publish("SUCCESS")
  /\ UNCHANGED <<registers, stored, others, update, initialized, enforce, flag, saved,
                 requests>>
-------------------------------------------------------------------------------
(* The others *)

\* A user or a configuration writes the channel masks through another service: the
\* sequence is executed, wholly or with a failure.
WriteChannels(mask) ==
  /\ changes < MaxChanges /\ changes' = changes + 1
  /\ \/ /\ channels' = mask
        /\ lateChannels' = lateChannels \cup {mask}
        /\ channelsRaced' = (\/ channelsRaced
                             \/ pc \in {"masksRead", "write"}
                             \/ lateChannels # {})
     \/ /\ CommFails
        /\ \E done \in SUBSET Sides : \E begun \in BegunAfter(done, Sides) :
             channels' = HeldChannels(done, begun, mask)
        /\ channelsRaced' = TRUE
        /\ UNCHANGED lateChannels
  /\ UNCHANGED <<spi, interval, reports, identified, stored, service, update, alive,
                 lateInterval, wanted, intervalRaced>>

\* The other service processes the response, which stores the masks in the Board.
StoreChannels(mask) ==
  /\ mask \in lateChannels
  /\ channelsStored' = mask
  /\ lateChannels' = lateChannels \ {mask}
  /\ UNCHANGED <<registers, spiStored, intervalStored, service, update, alive, changes,
                 lateInterval, channelsRaced, wanted, intervalRaced>>

\* Is the interval that was kept still to be restored?
Restoring == pc \in {"reportsOff", "reset", "finished", "reportsOn", "restore"}

\* A user chooses another read interval: the sequence is executed.
WriteInterval(code) ==
  /\ changes < MaxChanges /\ changes' = changes + 1
  /\ wanted' = code
  /\ \/ /\ interval' = code
        /\ lateInterval' = lateInterval \cup {code}
        /\ intervalRaced' = (intervalRaced \/ Restoring)
     \/ /\ CommFails
        /\ interval' \in {interval, code, 0}
        /\ intervalRaced' = TRUE
        /\ UNCHANGED lateInterval
  /\ UNCHANGED <<spi, channels, reports, identified, stored, service, update, alive,
                 lateChannels, channelsRaced>>

\* CounterRates, or a user, reads the interval.
ReadInterval ==
  /\ lateInterval' = lateInterval \cup {interval}
  /\ UNCHANGED <<registers, stored, service, update, alive, changes, lateChannels,
                 channelsRaced, wanted, intervalRaced>>

\* The response is processed, which stores the interval in the Board.
StoreInterval(code) ==
  /\ code \in lateInterval
  /\ intervalStored' = code
  /\ lateInterval' = lateInterval \ {code}
  /\ UNCHANGED <<registers, spiStored, channelsStored, service, update, alive, changes,
                 lateChannels, channelsRaced, wanted, intervalRaced>>

\* A PM is switched on or off.
SwitchPm(p) ==
  /\ changes < MaxChanges /\ changes' = changes + 1
  /\ alive' = IF p \in alive THEN alive \ {p} ELSE alive \cup {p}
  /\ UNCHANGED <<registers, stored, service, update, late, channelsRaced, wanted,
                 intervalRaced>>
-------------------------------------------------------------------------------
ServiceStep ==
  \/ Begin
  \/ ResetStep \/ ResetStepFails
  \/ ReadMasks \/ StoreMasks
  \/ \E p \in PMs : EnableLink(p)
  \/ Probe \/ DisableLink \/ Compute \/ WriteMasks
  \/ IdentifyTcm
  \/ \E p \in PMs : IdentifyPm(p)
  \/ Configure \/ Succeed

Next ==
  \/ ServiceStep
  \/ \E request \in Requests : Take(request)
  \/ \E mask \in ChannelSets : WriteChannels(mask) \/ StoreChannels(mask)
  \/ \E code \in Codes : WriteInterval(code) \/ StoreInterval(code)
  \/ ReadInterval
  \/ \E p \in PMs : SwitchPm(p)

Spec == Init /\ [][Next]_vars

\* The thread of the service runs, and ALF answers every sequence, if only with a
\* failure.
FairSpec == Spec /\ WF_vars(ServiceStep)
-------------------------------------------------------------------------------
(* Properties *)

Steps == DOMAIN After \cup
  {"begin", "wait", "masks", "masksRead", "links", "probe", "disableLink", "write", "gbtTcm",
   "gbtPms", "configure"}

\* The types of the variables.
TypeOK ==
  /\ spi \subseteq Links /\ channels \subseteq Links
  /\ interval \in Codes /\ reports \in BOOLEAN
  /\ identified \subseteq PMs \cup {TCM} /\ alive \subseteq PMs
  /\ spiStored \subseteq Links
  /\ channelsStored \subseteq Links
  /\ intervalStored \in Codes \cup {Unknown}
  /\ pc \in Steps /\ caller \in {"boot", "reinit", "reset"}
  /\ initialized \in BOOLEAN /\ enforce \in BOOLEAN /\ flag \in {0, 1}
  /\ saved \in Codes /\ outcome \in {"none", "SUCCESS", "error"}
  /\ todo \subseteq PMs /\ pm \in PMs \cup {TCM, NoBoard}
  /\ response \subseteq Links /\ newSpi \subseteq Links /\ newChannels \subseteq Links
  /\ lateChannels \subseteq SUBSET Links /\ lateInterval \subseteq Codes
  /\ requests \in 0 .. MaxRequests /\ changes \in 0 .. MaxChanges
  /\ answered \subseteq Links /\ leftOn \subseteq Links
  /\ channelsRaced \in BOOLEAN /\ wanted \in Codes /\ intervalRaced \in BOOLEAN

\* What updatePmSpiMask leaves in the SPI mask, whenever it succeeds: the links of
\* the PMs that answered it, of no others, and of those it failed to disable.
MasksWritten == pc = "write" /\ pc' # "write" /\ spi' = newSpi /\ spiStored' = newSpi

LinksFollowAnswers ==
  [][MasksWritten => spi' \subseteq answered \cup leftOn /\ answered \subseteq spi']_vars

\* The step that writes the masks failed.
WriteFailed == pc' # "gbtTcm" /\ outcome' # "SUCCESS"

\* An update that initialises enables the channels of the PMs it found, and no others;
\* any other update leaves alone the channel masks of the users, unless they are
\* written where the service cannot see it.  An update that fails may clear the mask of
\* a side, its AND frame executed without its OR frame, but puts nothing else there.
ChannelMasksKept ==
  [][pc = "write" /\ pc' # "write" /\ ~channelsRaced =>
       \A side \in Sides :
         LET mask == channels \cap SideLinks(side)
         IN \/ mask' = mask
            \/ ~initialized /\ mask' = newSpi \cap SideLinks(side)
            \/ WriteFailed /\ mask' = {}]_vars

\* A reset that succeeded leaves the read interval of the counters as the users chose
\* it, provided the Board knew it and nobody changed it before it was restored; and it
\* leaves error reports on (RESET and RESET_ERRORS, which write that bit too, are left out).
ResetRestores ==
  pc = "begin" /\ caller = "reset" /\ outcome = "SUCCESS" =>
    reports /\ (~intervalRaced => interval = wanted)

\* The comment in applyGbtConfiguration: the identifiers of every PM are compared with
\* those of the environment variables; after a reset that succeeded, then, every PM
\* whose link is enabled holds them.
ConnectedPmsIdentified ==
  pc = "begin" /\ caller = "reset" /\ outcome = "SUCCESS" =>
    \A p \in PMs : Link(p) \in spi => p \in identified

\* The manager waits for the flag: ResetFEE maintains it as a flagged service does.
Flagged == INSTANCE FlaggedService WITH
  phase <- CASE pc = "begin" -> "returned"
             [] pc = "wait" -> "waiting"
             [] pc \notin {"begin", "wait"} /\ caller = "boot" -> "preparing"
             [] pc \notin {"begin", "wait"} /\ caller # "boot" -> "serving"

ImplementsFlaggedService == Flagged!Spec

\* Every request ends: the flag the manager polls comes down again.
FlagFalls == flag = 1 ~> flag = 0
===============================================================================
