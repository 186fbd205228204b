---------------------------- MODULE MCWorldObjects ----------------------------
(* Two accounts with one slot each.                                          *)
EXTENDS WorldObjects

MCAddresses == {A!KeyAddress(k) : k \in Keys}
=============================================================================
