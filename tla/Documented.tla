------------------------------ MODULE Documented ------------------------------
(* What comments and docstrings of the code say of a frame that ends, as     *)
(* action properties over StateTransition with one history variable. None of *)
(* them holds: each is a documented disagreement, see the README.            *)
EXTENDS StateTransition

VARIABLE started   \* history: the world each frame of the stack started in

documented_vars == <<vars, started>>

Remember ==
    started' = IF Len(frames') > Len(frames)
               THEN Append(started, accounts')
               ELSE SubSeq(started, 1, Len(frames'))

DocumentedInit == Init /\ started = <<>>

DocumentedNext == Next /\ Remember

DocumentedSpec == /\ DocumentedInit
                  /\ [][DocumentedNext]_documented_vars
                  /\ WF_documented_vars(Step /\ Remember)

(* vm.py:785-786, of REVERT: "State changes from this execution context are  *)
(* reverted." When a called contract reverts, the world is the one its frame *)
(* started in.                                                               *)
RevertUndoesFrame ==
    [][(Revert /\ Depth > 1) => accounts' = started[Depth]]_documented_vars

(* vm.py:225: "Out of gas - execution failed, all gas consumed". The gas a   *)
(* frame was given is gone from its caller when the frame runs out of it.    *)
OutOfGasConsumes ==
    [][(OutOfGas /\ Depth > 1) => frames'[Depth - 1].gas = Caller.gas - Top.limit]_documented_vars

(* vm.py:691, of SLOAD: "Reads from persistent storage." What a call frame   *)
(* at the top reads from a slot that it has not changed since it began is    *)
(* what the world holds there.                                               *)
SloadReadsPersistent ==
    [][(Running' /\ frames'[Len(frames')].kind = "call") =>
         LET f == frames'[Len(frames')]
             before == started'[Len(frames')][f.address].storage
         IN  \A k \in DOMAIN f.storage \cap DOMAIN before :
                 f.storage[k] = before[k] => accounts'[f.address].storage[k] = f.storage[k]
      ]_documented_vars
=============================================================================
