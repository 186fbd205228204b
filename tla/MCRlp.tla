-------------------------------- MODULE MCRlp --------------------------------
(* Ten different bytes: two stand for themselves, payloads of more than one  *)
(* byte are long, and lengths have one or two bytes.                         *)
EXTENDS Rlp

MCString0 == 2

MCShort == 1

MCLengths == 2
=============================================================================
