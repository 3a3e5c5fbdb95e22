---------------------------- MODULE PmHistograms ------------------------------
(* The HISTOGRAMS service of a PM: it selects histograms, keeps a filter, and     *)
(* reads the bins of every channel through one FIFO of the board, whose pointer   *)
(* it sets before each block.  Other services of the same board reach the pointer *)
(* and the filter too.  A step is one sequence executed by ALF, or, for what is   *)
(* kept of the filter, what a service stores of the answer to one.                *)
EXTENDS BlockRead, FiniteSets

CONSTANTS
  Channels,     \* channels of the board (12)
  ChannelSize,  \* registers of a channel: the size of HISTOGRAM_READOUT
  BcIds,        \* what can be filtered
  ClearedBcId,  \* the one that is left when the bits of the field are cleared (0)
  PmClients,    \* the other services of the board that write or read the filter
  MaxActions    \* bound: requests, cycles and what the others do

ASSUME PmHistogramsAssumption ==
  /\ Channels \in Nat \ {0} /\ ChannelSize \in Nat \ {0}
  /\ {"unknown", "OFF"} \cap BcIds = {} /\ ClearedBcId \in BcIds
  /\ MaxActions \in Nat

VARIABLES
  blocks,       \* m_channelBlocks: the blocks of every channel, in order of their addresses
  view,         \* m_orderedBlocksView: those of each histogram, in order of their first bins
  data,         \* what is stored for each block of each channel
  selected,     \* the histograms with readoutEnabled
  operations,   \* m_operations: [at, size]
  pmPc, next,     \* the next step ("absent": no service), and the operation it belongs to
  readId,       \* m_readId
  pmAnswer,     \* what was published last: "read", "OK" or "filtered", an error
                \* ("lost", "notStored"), or "none"
  wanted, alreadySet, \* the request of a BCID_FILTER, and what setBcIdFilter found first
  stored,       \* the filter as stored in the Board: [on, bcid]
  answers,      \* what each of the others was told of its fields and has yet to store
  \* electronics
  pointer,      \* CURRENT_ADDRESS_IN_HISTOGRAM_DATA
  filter,       \* HIST_BCID_FILTER_ON, HIST_BCID_TO_FILTER
  histogramming,\* HISTOGRAMMING_ON
  \* history
  time,         \* number of readouts and resets
  actions,
  disturbed,    \* has PARAMETERS moved the pointer of this readout?
  doubt,        \* fields of which what is stored, or will be, may not be what the board has
  unsure        \* fields of which that may be so of what the last BCID_FILTER found

service == <<data, pmPc, next, readId>>
choice == <<blocks, view, selected, operations>>
filters == <<wanted, alreadySet, stored, answers, filter, histogramming, doubt, unsure>>
pmVars == <<service, choice, filters, pmAnswer, pointer, time, actions, disturbed>>
-------------------------------------------------------------------------------
(* PmHistogramData *)

\* fetchChannelBlocks: sorted, in any order where addresses are equal.
InOrder(structure) ==
  {s \in SetToSeqs(structure) : \A i, k \in DOMAIN s : i < k => s[i].base <= s[k].base}

NamesIn(bs) == {bs[i].name : i \in DOMAIN bs}

\* createBlockView: for each histogram its blocks, sorted in the same way.
createBlockView(bs) ==
  LET Of(name) == {i \in DOMAIN bs : bs[i].name = name} IN
  {v \in [NamesIn(bs) -> UNION {SetToSeqs(Of(name)) : name \in NamesIn(bs)}] :
     \A name \in NamesIn(bs) :
       /\ v[name] \in SetToSeqs(Of(name))
       /\ \A j, k \in DOMAIN v[name] : j < k => bs[v[name][j]].start <= bs[v[name][k]].start}

\* The k-th block of all channels, at its address in the FIFO.
Register(k) ==
  LET b == blocks[((k - 1) % Len(blocks)) + 1] IN
  [name |-> b.name, at |-> ((k - 1) \div Len(blocks)) * ChannelSize + b.base, size |-> b.size]

\* Registers that follow each other are read at once, also across channels.
Extend(ops, r) ==
  IF ops # <<>> /\ r.at = Last(ops).at + Last(ops).size
  THEN [ops EXCEPT ![Len(ops)].size = @ + r.size]
  ELSE Append(ops, [at |-> r.at, size |-> r.size])

\* updateOperations, channel by channel and block by block.
updateOperations(names) ==
  LET ops[k \in 0 .. Channels * Len(blocks)] ==
        IF k = 0 THEN <<>>
        ELSE IF Register(k).name \in names THEN Extend(ops[k - 1], Register(k)) ELSE ops[k - 1]
  IN  ops[Channels * Len(blocks)]

\* storeReadoutData: s is how far it has come, the words already stored and the channel.
StoreBlock(words, relative, s, i) ==
  LET from == relative + s.done - blocks[i].base
      len == blocks[i].size - from
  IN  IF s.failed \/ (s.done > 0 /\ s.done >= Len(words)) \/ from \notin 0 .. blocks[i].size - 1
      THEN s
      ELSE IF s.done + len > Len(words)
      THEN [s EXCEPT !.failed = TRUE]
      ELSE [s EXCEPT !.done = @ + len,
                     !.channel[i] = [k \in 1 .. blocks[i].size |->
                       IF k <= from THEN @[k] ELSE words[s.done + k - from]]]

storeReadoutData(at, words) ==
  LET s[i \in 0 .. Len(blocks)] ==
        IF i = 0 THEN [done |-> 0, failed |-> FALSE, channel |-> data[at \div ChannelSize + 1]]
        ELSE StoreBlock(words, at % ChannelSize, s[i - 1], i)
  IN  s[Len(blocks)]

AllStored(s, words) == ~s.failed /\ s.done = Len(words)
-------------------------------------------------------------------------------
NoWord == Word(0, 0)
Nothing == [field \in {} |-> "unknown"]

InitPm ==
  /\ blocks = <<>> /\ view = <<>> /\ data = <<>>
  /\ selected = {} /\ operations = <<>>
  /\ pmPc = "absent" /\ next = 1 /\ readId = 0 /\ pmAnswer = "none"
  /\ wanted = "OFF" /\ alreadySet = FALSE
  /\ stored = [on |-> "unknown", bcid |-> "unknown"] /\ answers = [k \in PmClients |-> Nothing]
  /\ doubt = {} /\ unsure = {}
  /\ filter \in [on : {"0", "1"}, bcid : BcIds] /\ histogramming = FALSE
  /\ pointer = 0 /\ time = 0 /\ actions = 0 /\ disturbed = FALSE

\* The constructor, when the boards and the structure of the histograms are known.
PmHistograms(structure) ==
  /\ pmPc = "absent" /\ pmPc' = "idle"
  /\ blocks' \in InOrder(structure) /\ view' \in createBlockView(blocks')
  /\ data' = [c \in 1 .. Channels |->
                [i \in DOMAIN blocks' |-> [k \in 1 .. blocks'[i].size |-> NoWord]]]
  /\ UNCHANGED <<next, readId, selected, operations, filters, pmAnswer, pointer, time, actions,
                 disturbed>>

Act == actions < MaxActions /\ actions' = actions + 1

Names == NamesIn(blocks)
-------------------------------------------------------------------------------
(* Readout *)

\* Mutant: names nobody knows are taken as selected.
Select_Unknown(names) ==
  /\ pmPc = "idle" /\ Act
  /\ selected' = names
  /\ operations' = updateOperations(names)
  /\ pmAnswer' = "OK"
  /\ UNCHANGED <<service, blocks, view, filters, pointer, time, disturbed>>

\* SELECT: the names that exist, and what has to be read for them.
Select(names) ==
  /\ pmPc = "idle" /\ Act
  /\ selected' = names \cap Names
  /\ operations' = updateOperations(names)
  /\ pmAnswer' = "OK"
  /\ UNCHANGED <<service, blocks, view, filters, pointer, time, disturbed>>

\* RESET, a write of the flag that is not read back: what is read later is newer.
resetHistograms ==
  /\ pmPc = "idle" /\ Act
  /\ \/ pmAnswer' = "OK" /\ time' = time + 1
     \/ pmAnswer' = "lost" /\ time' \in {time, time + 1}
  /\ UNCHANGED <<service, choice, filters, pointer, disturbed>>

\* HISTOGRAMMING, a write of the flag that is read back.  A write that fails may have cleared
\* the bits of its field only.
switchHistogramming(on) ==
  /\ pmPc = "idle" /\ Act
  /\ \/ pmAnswer' = "OK" /\ histogramming' = on
     \/ pmAnswer' = "lost" /\ histogramming' \in {histogramming, on, FALSE}
  /\ UNCHANGED <<service, choice, wanted, alreadySet, stored, answers, filter, doubt, unsure, pointer,
                 time, disturbed>>

Failed(how) == pmPc' = "idle" /\ pmAnswer' = how /\ UNCHANGED <<next, readId>>

\* All operations are done: the response with the new identifier.
Done == pmPc' = "idle" /\ readId' = readId + 1 /\ pmAnswer' = "read"

\* handleReadout, in every cycle or for a READ while the service is stopped.
BeginRead ==
  /\ pmPc = "idle" /\ Act
  /\ time' = time + 1 /\ next' = 1 /\ disturbed' = FALSE
  /\ IF operations = <<>> THEN Done
     ELSE pmPc' = "address" /\ pmAnswer' = "none" /\ UNCHANGED readId
  /\ UNCHANGED <<data, choice, filters, pointer>>

SetAddress ==
  /\ pmPc = "address"
  /\ pointer' = operations[next].at
  /\ pmPc' = "block"
  /\ UNCHANGED <<data, next, readId, disturbed, choice, filters, pmAnswer, time, actions>>

SetAddressFails ==
  /\ pmPc = "address"
  /\ pointer' \in {pointer, operations[next].at, 0}
  /\ Failed("lost")
  /\ UNCHANGED <<data, disturbed, choice, filters, time, actions>>

\* blockRead of the FIFO, and storeReadoutData.
ReadBlock ==
  /\ pmPc = "block"
  /\ LET o == operations[next]
         words == FifoAnswer(pointer, Packets(0, FALSE, o.size), time)
         s == storeReadoutData(o.at, words)
     IN  /\ pointer' = pointer + Len(words)
         /\ IF ~Complete(words, o.size) THEN Failed("lost") /\ UNCHANGED data
            ELSE /\ data' = [data EXCEPT ![o.at \div ChannelSize + 1] = s.channel]
                 /\ IF ~AllStored(s, words) THEN Failed("notStored")
                    ELSE IF next = Len(operations) THEN Done /\ UNCHANGED next
                    ELSE pmPc' = "address" /\ next' = next + 1 /\ UNCHANGED <<readId, pmAnswer>>
  /\ UNCHANGED <<disturbed, choice, filters, time, actions>>

\* The sequence fails, or its answer is incomplete; the pointer may have moved.
ReadBlockFails ==
  /\ pmPc = "block"
  /\ pointer' \in {pointer, pointer + operations[next].size}
  /\ Failed("lost")
  /\ UNCHANGED <<data, disturbed, choice, filters, time, actions>>
-------------------------------------------------------------------------------
(* BCID_FILTER *)

Fields == {"on", "bcid"}
Filters == [on : {"0", "1"}, bcid : BcIds]

\* Somebody was told of the field and has yet to store it.
Awaited(field) ==
  \/ pmPc = "storeOn" /\ field = "on"
  \/ pmPc = "storeBcid" /\ field = "bcid"
  \/ \E k \in PmClients : field \in DOMAIN answers[k]

\* ALF executes a sequence with these fields, after which the filter is new.  Nobody can be sure
\* of what is stored when a change has no answer, or while an older one is still to be stored.
Execute(fields, new, answered) ==
  LET changed == {field \in Fields : new[field] # filter[field]}
      sure == {field \in fields : answered /\ ~Awaited(field)}
  IN  filter' = new /\ doubt' = (doubt \cup changed) \ sure

\* Mutant: a filter for the stored crossing is taken for one that is on.
setBcIdFilter_BcidOnly(w) ==
  /\ pmPc = "idle" /\ Act
  /\ wanted' = w /\ alreadySet' = (stored.bcid = w)
  /\ LET skip == IF w = "OFF" THEN stored.on = "0" ELSE stored.on = "1" \/ stored.bcid = w IN
     CASE ~skip -> pmPc' = "filterOn" /\ pmAnswer' = "none"
       [] skip /\ w # "OFF" /\ stored.bcid # w -> pmPc' = "filterBcid" /\ pmAnswer' = "none"
       [] OTHER -> pmPc' = "idle" /\ pmAnswer' = "filtered"
  /\ unsure' = {field \in Fields : field \in doubt \/ Awaited(field)}
  /\ UNCHANGED <<data, next, readId, choice, stored, answers, filter, histogramming, doubt, pointer,
                 time, disturbed>>

\* setBcIdFilter looks at what is stored, once: nothing that is there already is written.
setBcIdFilter(w) ==
  /\ pmPc = "idle" /\ Act
  /\ wanted' = w /\ alreadySet' = (stored.bcid = w)
  /\ LET skip == IF w = "OFF" THEN stored.on = "0" ELSE stored.on = "1" IN
     CASE ~skip -> pmPc' = "filterOn" /\ pmAnswer' = "none"
       [] skip /\ w # "OFF" /\ stored.bcid # w -> pmPc' = "filterBcid" /\ pmAnswer' = "none"
       [] OTHER -> pmPc' = "idle" /\ pmAnswer' = "filtered"
  /\ unsure' = {field \in Fields : field \in doubt \/ Awaited(field)}
  /\ UNCHANGED <<data, next, readId, choice, stored, answers, filter, histogramming, doubt, pointer,
                 time, disturbed>>

\* A sequence writes the field and reads it back; what was found of it before has no part any more.
WriteField(field, value) ==
  /\ Execute({field}, [filter EXCEPT ![field] = value], TRUE)
  /\ unsure' = unsure \ {field}
  /\ UNCHANGED pmAnswer

\* It fails: done or not, or with the bits of the field cleared only; nothing is stored.
WriteFieldFails(field, value) ==
  /\ \E v \in {filter[field], value, IF field = "on" THEN "0" ELSE ClearedBcId} :
       Execute({field}, [filter EXCEPT ![field] = v], FALSE)
  /\ pmPc' = "idle" /\ pmAnswer' = "lost"
  /\ UNCHANGED unsure

FilterOn == IF wanted = "OFF" THEN "0" ELSE "1"

WriteFilterOn ==
  /\ pmPc = "filterOn"
  /\ \/ WriteField("on", FilterOn) /\ pmPc' = "storeOn"
     \/ WriteFieldFails("on", FilterOn)
  /\ UNCHANGED <<data, next, readId, choice, wanted, alreadySet, stored, answers, histogramming,
                 pointer, time, actions, disturbed>>

WriteFilterBcid ==
  /\ pmPc = "filterBcid"
  /\ \/ WriteField("bcid", wanted) /\ pmPc' = "storeBcid"
     \/ WriteFieldFails("bcid", wanted)
  /\ UNCHANGED <<data, next, readId, choice, wanted, alreadySet, stored, answers, histogramming,
                 pointer, time, actions, disturbed>>

\* The service stores what was read back, and goes on.
StoreFilterOn ==
  /\ pmPc = "storeOn"
  /\ stored' = [stored EXCEPT !.on = FilterOn]
  /\ IF wanted = "OFF" \/ alreadySet THEN pmPc' = "idle" /\ pmAnswer' = "filtered"
                                     ELSE pmPc' = "filterBcid" /\ UNCHANGED pmAnswer
  /\ UNCHANGED <<data, next, readId, choice, wanted, alreadySet, answers, filter, histogramming,
                 doubt, unsure, pointer, time, actions, disturbed>>

StoreFilterBcid ==
  /\ pmPc = "storeBcid"
  /\ stored' = [stored EXCEPT !.bcid = wanted]
  /\ pmPc' = "idle" /\ pmAnswer' = "filtered"
  /\ UNCHANGED <<data, next, readId, choice, wanted, alreadySet, answers, filter, histogramming,
                 doubt, unsure, pointer, time, actions, disturbed>>
-------------------------------------------------------------------------------
(* PARAMETERS and other services of the board: one sequence of each at a time *)

\* A pointer moved before the service sets it does no harm.
OtherMovesPointer ==
  /\ pmPc = "block" /\ Act
  /\ pointer' \in {0, ChannelSize} \ {pointer} /\ disturbed' = TRUE
  /\ UNCHANGED <<service, choice, filters, pmAnswer, time>>

\* A sequence writes or reads fields of the filter; its answer comes back or is lost.
OtherUsesFilter(k) ==
  /\ pmPc # "absent" /\ DOMAIN answers[k] = {} /\ Act
  /\ \E fields \in SUBSET Fields \ {{}}, new \in Filters, answered \in BOOLEAN :
       /\ \A field \in Fields \ fields : new[field] = filter[field]
       /\ Execute(fields, new, answered)
       /\ unsure' = unsure \cup {field \in Fields : new[field] # filter[field]}
       /\ answers' = IF answered
                     THEN [answers EXCEPT ![k] = [field \in fields |-> new[field]]] ELSE answers
  /\ UNCHANGED <<service, choice, wanted, alreadySet, stored, histogramming, pmAnswer, pointer, time,
                 disturbed>>

OtherStoresFilter(k) ==
  /\ DOMAIN answers[k] # {}
  /\ stored' = [field \in Fields |->
                  IF field \in DOMAIN answers[k] THEN answers[k][field] ELSE stored[field]]
  /\ answers' = [answers EXCEPT ![k] = Nothing]
  /\ UNCHANGED <<service, choice, wanted, alreadySet, filter, histogramming, doubt, unsure, pmAnswer,
                 pointer, time, actions, disturbed>>

NextPm ==
  \/ \E names \in (SUBSET Names) \cup {{"UNKNOWN"}} : Select(names)
  \/ resetHistograms \/ (\E on \in BOOLEAN : switchHistogramming(on))
  \/ BeginRead \/ SetAddress \/ SetAddressFails \/ ReadBlock \/ ReadBlockFails
  \/ \E w \in BcIds \cup {"OFF"} : setBcIdFilter(w)
  \/ WriteFilterOn \/ WriteFilterBcid \/ StoreFilterOn \/ StoreFilterBcid
  \/ OtherMovesPointer \/ \E k \in PmClients : OtherUsesFilter(k) \/ OtherStoresFilter(k)
-------------------------------------------------------------------------------
(* parseResponse *)

\* Mutant: bins always run up.
Numbers_Forward(c, i) ==
  LET n == blocks[i].size
      number(k, high) == [word |-> data[c][i][k], high |-> high]
  IN  IF FALSE
      THEN [j \in 1 .. 2 * n |-> number(n - (j - 1) \div 2, j % 2 = 1)]
      ELSE [j \in 1 .. 2 * n |-> number(1 + (j - 1) \div 2, j % 2 = 0)]

\* The numbers of block i of channel c: two to a register, the low half first; backwards if
\* the bins of the block run down.  (A block of other than two is not supported.)
Numbers(c, i) ==
  LET n == blocks[i].size
      number(k, high) == [word |-> data[c][i][k], high |-> high]
  IN  IF blocks[i].negative
      THEN [j \in 1 .. 2 * n |-> number(n - (j - 1) \div 2, j % 2 = 1)]
      ELSE [j \in 1 .. 2 * n |-> number(1 + (j - 1) \div 2, j % 2 = 0)]

\* What is published for a histogram of a channel: its blocks in the order of their bins.
parseResponse(c, name) ==
  FlattenSeq([j \in DOMAIN view[name] |-> Numbers(c, view[name][j])])
-------------------------------------------------------------------------------
(* Properties *)

\* The blocks are inside of a channel, no register belongs to two of them, and no bin to two
\* of one histogram (PmHistogramData.cpp:46).
FirstBin(b) == IF b.negative THEN b.start - (2 * b.size - 1) ELSE b.start
LastBin(b) == IF b.negative THEN b.start ELSE b.start + 2 * b.size - 1
BlocksApart == \A i \in DOMAIN blocks :
  /\ blocks[i].size > 0 /\ blocks[i].base + blocks[i].size <= ChannelSize
  /\ \A k \in DOMAIN blocks \ {i} : LET b == blocks[i] d == blocks[k] IN
       /\ b.base + b.size <= d.base \/ d.base + d.size <= b.base
       /\ b.name = d.name => LastBin(b) < FirstBin(d) \/ LastBin(d) < FirstBin(b)

\* The bin whose number is in a half of a register of the channel.
BlockAt(address) ==
  CHOOSE i \in DOMAIN blocks : address \in blocks[i].base .. blocks[i].base + blocks[i].size - 1
BinAt(address, high) ==
  LET b == blocks[BlockAt(address)]
      n == 2 * (address - b.base) + (IF high THEN 1 ELSE 0)
  IN  IF b.negative THEN b.start - n ELSE b.start + n

PmTypeOK ==
  /\ pmPc \in {"absent", "idle", "address", "block", "filterOn", "storeOn", "filterBcid",
               "storeBcid"}
  /\ pmAnswer \in {"none", "OK", "filtered", "read", "lost", "notStored"}
  /\ selected \subseteq Names /\ next \in Nat \ {0} /\ readId \in Nat
  /\ operations \in Seq([at : Nat, size : Nat])
  /\ \A c \in DOMAIN data : \A i \in DOMAIN blocks :
       data[c][i] \in [1 .. blocks[i].size -> [at : Nat, time : Nat]]
  /\ wanted \in BcIds \cup {"OFF"} /\ alreadySet \in BOOLEAN
  /\ stored \in [on : {"0", "1", "unknown"}, bcid : BcIds \cup {"unknown"}]
  /\ \A k \in PmClients : answers[k] \in UNION {[fs -> {"0", "1"} \cup BcIds] : fs \in SUBSET Fields}
  /\ filter \in Filters /\ histogramming \in BOOLEAN /\ doubt \subseteq Fields /\ unsure \subseteq Fields
  /\ pointer \in Nat /\ time \in Nat /\ actions \in Nat /\ disturbed \in BOOLEAN

\* What is published is of one readout, all of it, and in the order of the bins: each number
\* comes from the register of its own channel that holds the bin, read since the readout
\* began, unless PARAMETERS has moved the pointer (PmHistogramData.cpp:72,
\* BasicFitIndefiniteMapi.cpp:32, PmHistograms.cpp:127).
PublishedBinsInPlace ==
  pmAnswer = "read" /\ ~disturbed => \A c \in 1 .. Channels, name \in selected :
    LET p == parseResponse(c, name)
        address(n) == p[n].word.at - (c - 1) * ChannelSize
    IN  /\ \A n \in DOMAIN p : p[n].word.time = time /\ address(n) \in 0 .. ChannelSize - 1
        /\ \A n \in 2 .. Len(p) : BinAt(address(n - 1), p[n - 1].high) < BinAt(address(n), p[n].high)

\* Words that were read are refused only if registers of two channels follow each other:
\* they are read at once, and stored as if they were of one (PmHistogramData.cpp:104).
RefusedOnlyAcrossChannels ==
  pmAnswer = "notStored" => \E k \in DOMAIN operations :
    (operations[k].at % ChannelSize) + operations[k].size > ChannelSize

\* A readout is published in its place, or refused with reason.
ReadoutsAreTrue == PublishedBinsInPlace /\ RefusedOnlyAcrossChannels

\* What is stored of a field is what the board has once all answers are stored, unless an answer
\* to a write was lost, or a write overtook an answer that was still to be stored, and no
\* sequence with the field was executed alone since (PmHistograms.cpp:81, Parameters.cpp:16).
StoredFilterIsTrue == \A field \in Fields \ doubt :
  ~Awaited(field) => stored[field] \in {"unknown", filter[field]}

\* The answer to BCID_FILTER is true of each field until another service changes the field,
\* unless the request found it stored and nobody could be sure of that (PmHistograms.cpp:77, 88).
FilteredIsTrue == pmAnswer = "filtered" =>
  /\ "on" \notin unsure => filter.on = FilterOn
  /\ wanted # "OFF" /\ "bcid" \notin unsure => filter.bcid = wanted

\* What is kept of the filter, and what is answered of it, is true.
FilterAnswersAreTrue == StoredFilterIsTrue /\ FilteredIsTrue
================================================================================
