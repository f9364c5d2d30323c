--------------------------- MODULE PairsRegister ---------------------------
(***************************************************************************)
(* What the settings API of the order-book service promises of the pairs   *)
(* of an exchange, without databases, stamps or a server:                  *)
(*   - an update takes effect at one moment before it is confirmed, and a  *)
(*     read returns the pairs of one moment while it lasts;                *)
(*   - a confirmed update is replaced only by one that was not yet in      *)
(*     effect when it took effect: another update, or one that was refused *)
(*     and comes through late.                                             *)
(***************************************************************************)
CONSTANTS Requests, Exchanges, Pairs, None

VARIABLES
    value,   \* per exchange: its pairs, or None
    phase,   \* per request: "idle", "asked", "effective", "reading" or "read"
    asked,   \* per request: its exchange, and the pairs of an update
    got,     \* per request: the pairs it has read
    told,    \* per request: the last answer, "none", "ok" or "error"
    refused  \* updates that were refused and may still come through

vars == <<value, phase, asked, got, told, refused>>

Updates == [exchange : Exchanges, pairs : Pairs]
NoUpdate == [exchange |-> None, pairs |-> None]

Init ==
    /\ value = [e \in Exchanges |-> None]
    /\ phase = [r \in Requests |-> "idle"]
    /\ asked = [r \in Requests |-> NoUpdate]
    /\ got = [r \in Requests |-> None]
    /\ told = [r \in Requests |-> "none"]
    /\ refused = {}

Ask(r, u) ==
    /\ phase[r] = "idle" /\ phase' = [phase EXCEPT ![r] = "asked"]
    /\ asked' = [asked EXCEPT ![r] = u]
    /\ told' = [told EXCEPT ![r] = "none"]
    /\ UNCHANGED <<value, got, refused>>

\* Updates R and late ones L of one exchange take effect, the last of them is u.
\* What was refused twice may come through twice.
TakeEffect(R, L, u) ==
    /\ \A r \in R : phase[r] = "asked" /\ asked[r].exchange = u.exchange
    /\ L \subseteq refused /\ \A w \in L : w.exchange = u.exchange
    /\ u \in L \cup {asked[r] : r \in R}
    /\ value' = [value EXCEPT ![u.exchange] = u.pairs]
    /\ phase' = [r \in Requests |-> IF r \in R THEN "effective" ELSE phase[r]]
    /\ refused' \in SUBSET refused /\ refused \ L \subseteq refused'
    /\ UNCHANGED <<asked, got, told>>

Answer(r, a) ==
    /\ phase' = [phase EXCEPT ![r] = "idle"]
    /\ asked' = [asked EXCEPT ![r] = NoUpdate]
    /\ got' = [got EXCEPT ![r] = None]
    /\ told' = [told EXCEPT ![r] = a]
    /\ UNCHANGED value

\* Only what is done is confirmed.
Confirm(r) ==
    /\ phase[r] \in {"effective", "read"}
    /\ Answer(r, "ok") /\ UNCHANGED refused

\* Anything may be refused, also what has taken effect or still will.
Refuse(r) ==
    /\ phase[r] # "idle" /\ Answer(r, "error")
    /\ \/ UNCHANGED refused
       \/ phase[r] = "asked" /\ refused' = refused \cup {asked[r]}

StartRead(r, e) ==
    /\ phase[r] = "idle" /\ phase' = [phase EXCEPT ![r] = "reading"]
    /\ asked' = [asked EXCEPT ![r] = [exchange |-> e, pairs |-> None]]
    /\ told' = [told EXCEPT ![r] = "none"]
    /\ UNCHANGED <<value, got, refused>>

Read(r) ==
    /\ phase[r] = "reading" /\ phase' = [phase EXCEPT ![r] = "read"]
    /\ got' = [got EXCEPT ![r] = value[asked[r].exchange]]
    /\ UNCHANGED <<value, asked, told, refused>>

Next ==
    \/ \E R \in SUBSET Requests, L \in SUBSET refused, u \in Updates : TakeEffect(R, L, u)
    \/ \E r \in Requests :
         \/ \E u \in Updates : Ask(r, u)
         \/ \E e \in Exchanges : StartRead(r, e)
         \/ Read(r) \/ Confirm(r) \/ Refuse(r)

Spec == Init /\ [][Next]_vars

=============================================================================
