-------------------------- MODULE InstanceRegistry --------------------------
(***************************************************************************)
(* What the manager of the order-book service promises of its instances,   *)
(* without modules, goroutines or a mutex:                                 *)
(*   - an instance serves with one key at a time, and gets another only    *)
(*     while it is halted;                                                 *)
(*   - it disappears only after it was halted, so that nothing it started  *)
(*     is left behind.                                                     *)
(***************************************************************************)
CONSTANTS Ids, Keys, None

VARIABLES
    state,   \* per instance: "absent", "serving" or "halted"
    inForce  \* per instance: the key it was last started with

vars == <<state, inForce>>

Init ==
    /\ state = [i \in Ids |-> "absent"]
    /\ inForce = [i \in Ids |-> None]

Serve(i, k) ==
    /\ state[i] \in {"absent", "halted"}
    /\ state' = [state EXCEPT ![i] = "serving"]
    /\ inForce' = [inForce EXCEPT ![i] = k]

Halt(i) ==
    /\ state[i] = "serving"
    /\ state' = [state EXCEPT ![i] = "halted"]
    /\ UNCHANGED inForce

Remove(i) ==
    /\ state[i] = "halted"
    /\ state' = [state EXCEPT ![i] = "absent"]
    /\ inForce' = [inForce EXCEPT ![i] = None]

Next ==
    \E i \in Ids :
        \/ \E k \in Keys : Serve(i, k)
        \/ Halt(i) \/ Remove(i)

Spec == Init /\ [][Next]_vars

=============================================================================
