---------------------------- MODULE MCDelayChange ----------------------------
(* Small ranges around zero: delays of a few units, sleeps of a few milliseconds. *)
EXTENDS DelayChange

MinusOne == -1
==============================================================================
