---------------------------- MODULE MCGbtServices -----------------------------
(* The TCM and one PM, two of the reset bits, a counter of one bit.               *)
EXTENDS GbtServices

Bits == {"COUNTERS", "FIFO"}
================================================================================
