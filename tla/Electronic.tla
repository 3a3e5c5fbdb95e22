------------------------------ MODULE Electronic -------------------------------
(* The value of a field of a register, [signed, bitLength, startBit], and its     *)
(* bits: how Board encodes and decodes electronic values.                         *)
EXTENDS Integers, Sequences

\* twosComplementEncode for a field that is signed; nothing is cut off.
convertElectronicToRaw(p, value) ==
  (IF p.signed THEN value % 2 ^ p.bitLength ELSE value) * 2 ^ p.startBit

\* getBitField and, for a field that is signed, twosComplementDecode.
parseElectronic(p, raw) ==
  LET field == (raw \div 2 ^ p.startBit) % 2 ^ p.bitLength IN
  IF p.signed /\ field >= 2 ^ (p.bitLength - 1) THEN field - 2 ^ p.bitLength ELSE field
================================================================================
