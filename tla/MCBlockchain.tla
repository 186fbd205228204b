----------------------------- MODULE MCBlockchain -----------------------------
(* Small instances of Blockchain for TLC.                                    *)
EXTENDS Blockchain

MCTransactionLists == {<<>>, <<"t">>}

OneTransactionList == {<<"t">>}
===============================================================================
