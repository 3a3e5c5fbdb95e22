------------------------------ MODULE BlockRead -------------------------------
(* blockRead: a block of words is read with one frame for every full packet and   *)
(* one for the rest, and the words of the answer are counted.  What the answer    *)
(* brings comes from consecutive addresses (incrementing) or from a FIFO.         *)
EXTENDS Integers, SequencesExt

CONSTANT MaxBlock   \* words of a full packet (1024)

ASSUME BlockReadAssumption == MaxBlock \in Nat \ {0}

\* What a read brings: the address of the memory it came from and the time of the read.
Word(address, time) == [at |-> address, time |-> time]

\* Mutant: every frame of an incrementing read begins at the base address.
Packets_NoIncrement(base, incrementing, words) ==
  LET full == words \div MaxBlock IN
  [k \in 1 .. full + 1 |->
     [at |-> base, size |-> IF k <= full THEN MaxBlock ELSE words % MaxBlock]]

\* The frames of a request: where each begins and how many words it asks for.  The last
\* one asks for the rest, for nothing if the block consists of full packets.
Packets(base, incrementing, words) ==
  LET full == words \div MaxBlock IN
  [k \in 1 .. full + 1 |->
     [at |-> base + IF incrementing THEN (k - 1) * MaxBlock ELSE 0,
      size |-> IF k <= full THEN MaxBlock ELSE words % MaxBlock]]

\* The electronics answer a frame with the words of its addresses, ...
MemoryAnswer(packets, time) ==
  FlattenSeq([k \in DOMAIN packets |->
    [i \in 1 .. packets[k].size |-> Word(packets[k].at + i - 1, time)]])

\* ... or, at the address of a FIFO, with the next words from where its pointer stands.
FifoAnswer(pointer, packets, time) ==
  LET asked[k \in 0 .. Len(packets)] == IF k = 0 THEN 0 ELSE asked[k - 1] + packets[k].size
  IN  [i \in 1 .. asked[Len(packets)] |-> Word(pointer + i - 1, time)]

\* blockRead accepts an answer with the right number of words only.
Complete(answer, words) == Len(answer) = words
================================================================================
