-------------------------------- MODULE MCNode --------------------------------
(* Small instances of Node for TLC.                                          *)
EXTENDS Node, MCStateTransition

(* A payment and a call of Alice, a payment and a call of Bob, and a         *)
(* deployment and a payment that compete with the calls for their nonces.    *)
NodeTxs ==
    {Tx(Alice, 1, Bob, 2, 4, 1, 0), Tx(Alice, 2, Contract, 0, 3, 1, 0),
     Tx(Bob, 0, Alice, 1, 1, 0, 0), Tx(Bob, 1, Contract, 0, 2, 0, 0),
     Tx(Alice, 2, NoTo, 0, 3, 1, 0), Tx(Bob, 1, Alice, 1, 1, 0, 0)}
===============================================================================
