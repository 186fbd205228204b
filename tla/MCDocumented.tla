----------------------------- MODULE MCDocumented -----------------------------
(* Small instances of Documented for TLC.                                    *)
EXTENDS Documented, MCStateTransition

OneTx == {Tx(Alice, 1, Contract, 0, 7, 1, 0)}

(* A deployed contract that has set its slot in an earlier transaction.      *)
StoredGenesis ==
    [DeployedGenesis EXCEPT ![Contract].storage = Store(EmptyStorage, 1, 0)]
===============================================================================
