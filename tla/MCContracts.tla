----------------------------- MODULE MCContracts -----------------------------
(* Two clients, three tokens and an argument that is no client's address.    *)
EXTENDS Contracts

MCWordBytes == 2

MCSelectorBytes == 1

MCStarts == {}

MCSelector == [transfer |-> <<169>>, balanceOf |-> <<112>>, increment |-> <<208>>,
               getCount |-> <<168>>, unknown |-> <<1>>]

MCAmounts == {0, 1, 3, MOD_VALUE - 1}

(* Too little for the dispatcher, exactly enough for a query, too little for *)
(* the second write, also by one, and exactly enough for a transfer.         *)
MCGasLimits == {20, 179, 5300, 10300, 10301}

MCFares == [transfer |-> 10301, balanceOf |-> 179, increment |-> 5151, getCount |-> 176, unknown |-> 0]
=============================================================================
