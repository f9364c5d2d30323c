---------------------- MODULE MCCredentialDistribution ----------------------
(***************************************************************************)
(* CredentialDistribution for TLC: two instances and two exchanges, two    *)
(* credentials that may be rivals for one of them.                         *)
(***************************************************************************)
EXTENDS CredentialDistribution, TLC

CONSTANTS c1, c2, i1, i2, k1, k2, k3, bybit, kraken

MCExchangeOf == [k \in Keys |-> IF k = k3 THEN kraken ELSE bybit]

\* The requests that are followed: c1 is assigned with two keys, for another
\* exchange, and to another instance; c2 is its rival.
Sent == {<<c1, k1, i1>>, <<c1, k2, i1>>, <<c1, k3, i1>>, <<c1, k1, i2>>, <<c2, k1, i1>>}

\* Bounds.  The process of i2 is never started; a query is over before its instance
\* subscribes; assignments of c1 are not torn, and at most one message is under way
\* while one of c2 has been; only bybit is withdrawn; i2 registers before i1.
Bounds ==
    /\ stage[i2] = "down"
    /\ qpc # "idle" => stage[asker] \in {"restoring", "restored"}
    /\ \A w \in Workers : job[w] # NoJob =>
         <<job[w].cred, job[w].key, job[w].instance>> \in Sent
    /\ c1 \notin interrupted /\ (c2 \in interrupted => Len(inbox[i1]) <= 1)
    /\ \A n \in 1 .. Len(inbox[i1]) :
         inbox[i1][n].action = "remove" => inbox[i1][n].exchange = bybit
    /\ registered[i1] # None => registered[i2] # None

\* No guard and no property of the run reads what clients were answered, whether a
\* query was disturbed, or which key of a credential was announced last.
MCView == <<registered, credentials, bindings, pc, job, history, query, instance,
            {ic \in Instances \X Creds : published[ic[1]][ic[2]] # None}>>

=============================================================================
