------------------------ MODULE CredentialLifecycle ------------------------
(***************************************************************************)
(* What the access manager promises of a credential, without saying how    *)
(* assignments run, fail, overlap or die half way:                         *)
(*   - it is stored before it is bound to an instance and neither is ever  *)
(*     lost;                                                               *)
(*   - an instance hears only of credentials that are stored and bound;    *)
(*   - a client is told where its credential went only after that instance *)
(*     has been told.                                                      *)
(***************************************************************************)
CONSTANTS Creds, Instances

VARIABLES
    phase,      \* per credential: "absent", "stored" or "bound"
    announced,  \* <<credential, instance>>: published on the instance's channel
    confirmed   \* <<credential, instance>>: answered to a client with success

vars == <<phase, announced, confirmed>>

Init ==
    /\ phase = [c \in Creds |-> "absent"]
    /\ announced = {}
    /\ confirmed = {}

Store(c) ==
    /\ phase[c] = "absent"
    /\ phase' = [phase EXCEPT ![c] = "stored"]
    /\ UNCHANGED <<announced, confirmed>>

Bind(c) ==
    /\ phase[c] = "stored"
    /\ phase' = [phase EXCEPT ![c] = "bound"]
    /\ UNCHANGED <<announced, confirmed>>

Announce(c, i) ==
    /\ phase[c] = "bound"
    /\ announced' = announced \cup {<<c, i>>}
    /\ UNCHANGED <<phase, confirmed>>

Confirm(c, i) ==
    /\ <<c, i>> \in announced
    /\ confirmed' = confirmed \cup {<<c, i>>}
    /\ UNCHANGED <<phase, announced>>

Next ==
    \E c \in Creds :
        \/ Store(c) \/ Bind(c)
        \/ \E i \in Instances : Announce(c, i) \/ Confirm(c, i)

Spec == Init /\ [][Next]_vars

=============================================================================
