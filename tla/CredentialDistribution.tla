----------------------- MODULE CredentialDistribution -----------------------
(***************************************************************************)
(* How credentials reach the order-book instances: the credentials manager *)
(* of the order-book service, beside the assignments and the queries of    *)
(* the access manager:                                                     *)
(*   order-book-service/internal/service/credentials/manager.go            *)
(*   access-manager/internal/repository/redis.go   NotifyInstanceUpdate    *)
(*                                                                         *)
(* An instance that starts asks for its credentials once and subscribes to *)
(* its Redis channel afterwards.  Redis delivers a message to whoever is   *)
(* subscribed at that moment and to nobody later.                          *)
(*                                                                         *)
(* The exchange comes with each request: a credential may be assigned      *)
(* again, to another instance, with another key or for another exchange.   *)
(***************************************************************************)
EXTENDS CredentialQuery, Sequences

CONSTANTS
    Exchanges,    \* exchange ids
    Unnamed,      \* the empty exchange id
    ExchangeOf,   \* the exchange a request names beside the api key
    ChannelSize   \* messages the go-redis channel of an instance has room for

ASSUME DistributionAssumption ==
    /\ ExchangeOf \in [Keys -> Exchanges]
    /\ Unnamed \notin Exchanges
    /\ ChannelSize \in Nat

VARIABLES
    stage,    \* per instance: where its credentials manager is
    held,     \* per instance m.credentials: exchange id -> <<credential, key>>
    inbox,    \* per instance: messages received and not yet handled
    heard,    \* history: exchanges whose last message reached this process
    reached   \* history: per exchange, what the last message that did said

instance == <<stage, held, inbox, heard, reached>>
dvars    == <<vars, query, quiet, instance>>

Labels   == Exchanges \cup {Unnamed}
Nothing  == [e \in Labels |-> <<>>]
Untold   == [e \in Exchanges |-> <<>>]
Holdings == Creds \X Keys
Updates  == [action : {"add", "remove"}, exchange : Exchanges, value : Holdings \cup {<<>>}]

Stages   == {"down", "restoring", "restored", "listening", "offline"}

DTypeOK ==
    /\ stage \in [Instances -> Stages]
    /\ held \in [Instances -> [Labels -> Holdings \cup {<<>>}]]
    /\ inbox \in [Instances -> Seq(Updates)]
    /\ \A i \in Instances : Len(inbox[i]) <= ChannelSize
    /\ heard \in [Instances -> SUBSET Exchanges]
    /\ reached \in [Instances -> [Exchanges -> Holdings \cup {<<>>}]]

DInit ==
    /\ QInit
    /\ stage = [i \in Instances |-> "down"]
    /\ held = [i \in Instances |-> Nothing]
    /\ inbox = [i \in Instances |-> <<>>]
    /\ heard = [i \in Instances |-> {}]
    /\ reached = [i \in Instances |-> Untold]

Enter(i, s) == stage' = [stage EXCEPT ![i] = s]

(***************************************************************************)
(* The credentials manager of an instance.                                 *)
(***************************************************************************)

\* restoreCredentials: the request reaches the access manager.
RestoreBegins(i) ==
    /\ stage[i] = "down"
    /\ ListBindings(i)
    /\ Enter(i, "restoring")
    /\ UNCHANGED <<vars, held, inbox, heard, reached>>

\* The request fails, or its answer is no list of credentials: Start goes on.
RestoreFails(i) ==
    /\ stage[i] \in {"down", "restoring"}
    /\ Enter(i, "restored")
    /\ UNCHANGED <<vars, query, quiet, held, inbox, heard, reached>>

\* The access manager sends "exchange", the instance decodes "exchange_id":
\* every restored credential has the empty exchange id.
RestoredLabel(c) == Unnamed

\* The loop over the answer: what is filed under a label afterwards is one of
\* the credentials that have it (the last one in Vault's order), or unchanged.
Filed(i) ==
    LET Having(e) == {<<a[1], a[2].key>> : a \in {b \in answer : RestoredLabel(b[1]) = e}}
    IN  {h \in [Labels -> Holdings \cup {<<>>}] :
            \A e \in Labels : IF Having(e) = {} THEN h[e] = held[i][e]
                              ELSE h[e] \in Having(e)}

\* The access manager has answered; nobody waits for the answer if the request
\* has failed or the instance has died meanwhile.
AnswerArrives ==
    /\ NextQuery
    /\ \/ /\ stage[asker] = "restoring"
          /\ \E h \in Filed(asker) : held' = [held EXCEPT ![asker] = h]
          /\ Enter(asker, "restored")
       \/ stage[asker] # "restoring" /\ UNCHANGED <<stage, held>>
    /\ UNCHANGED <<vars, inbox, heard, reached>>

\* Mutant: a new subscription begins with an empty map.
SubscribeAfresh(i) ==
    /\ stage[i] \in {"restored", "offline"}
    /\ Enter(i, "listening")
    /\ held' = [held EXCEPT ![i] = Nothing]
    /\ UNCHANGED <<vars, query, quiet, inbox, heard, reached>>

\* subscribeToUpdates begins, or go-redis has found its way back to Redis.
Subscribe(i) ==
    /\ stage[i] \in {"restored", "offline"}
    /\ Enter(i, "listening")
    /\ UNCHANGED <<vars, query, quiet, held, inbox, heard, reached>>

\* The connection to Redis breaks; what was received is still handled.
Disconnect(i) ==
    /\ stage[i] = "listening"
    /\ Enter(i, "offline")
    /\ UNCHANGED <<vars, query, quiet, held, inbox, heard, reached>>

\* What a message leaves under its exchange.
Said(update) == IF update.action = "remove" THEN <<>> ELSE update.value

\* Mutant: each message is handled by a goroutine of its own, in any order.
HandleAnyUpdate(i) ==
    /\ stage[i] \in {"listening", "offline"}
    /\ \E n \in 1 .. Len(inbox[i]) :
         /\ held' = [held EXCEPT ![i][inbox[i][n].exchange] = Said(inbox[i][n])]
         /\ inbox' = [inbox EXCEPT ![i] = SubSeq(@, 1, n - 1) \o SubSeq(@, n + 1, Len(@))]
    /\ UNCHANGED <<vars, query, quiet, stage, heard, reached>>

\* Mutant: an exchange that has credentials keeps them.
HandleFirstUpdate(i) ==
    /\ stage[i] \in {"listening", "offline"} /\ inbox[i] # <<>>
    /\ LET update == Head(inbox[i]) IN
         held' = [held EXCEPT ![i][update.exchange] = IF @ # <<>> THEN @ ELSE Said(update)]
    /\ inbox' = [inbox EXCEPT ![i] = Tail(@)]
    /\ UNCHANGED <<vars, query, quiet, stage, heard, reached>>

\* handleUpdate: the credential of an exchange is replaced or deleted.
HandleUpdate(i) ==
    /\ stage[i] \in {"listening", "offline"} /\ inbox[i] # <<>>
    /\ LET update == Head(inbox[i]) IN
         held' = [held EXCEPT ![i][update.exchange] = Said(update)]
    /\ inbox' = [inbox EXCEPT ![i] = Tail(@)]
    /\ UNCHANGED <<vars, query, quiet, stage, heard, reached>>

\* The process dies; nothing of this is persisted.
InstanceDies(i) ==
    /\ stage[i] # "down"
    /\ Enter(i, "down")
    /\ held' = [held EXCEPT ![i] = Nothing]
    /\ inbox' = [inbox EXCEPT ![i] = <<>>]
    /\ heard' = [heard EXCEPT ![i] = {}]
    /\ reached' = [reached EXCEPT ![i] = Untold]
    /\ UNCHANGED <<vars, query, quiet>>

(***************************************************************************)
(* The access manager and Redis.                                           *)
(***************************************************************************)

\* A message on the channel of i.  Publish waits for nobody: the message is lost
\* if i is not subscribed, or has no room for it.
Deliver(i, update) ==
    \/ /\ stage[i] = "listening" /\ Len(inbox[i]) < ChannelSize
       /\ inbox' = [inbox EXCEPT ![i] = Append(@, update)]
       /\ heard' = [heard EXCEPT ![i] = @ \cup {update.exchange}]
       /\ reached' = [reached EXCEPT ![i][update.exchange] = Said(update)]
    \/ /\ stage[i] # "listening" \/ Len(inbox[i]) >= ChannelSize
       /\ heard' = [heard EXCEPT ![i] = @ \ {update.exchange}]
       /\ UNCHANGED <<inbox, reached>>

\* Mutant: the notification names its exchange like the credentials do.
NotificationUnnamed(w) ==
    [action |-> "add", exchange |-> Unnamed, value |-> <<job[w].cred, job[w].key>>]

\* domain.CredentialsNotification: the action is always "add".
Notification(w) ==
    [action |-> "add", exchange |-> ExchangeOf[job[w].key],
     value |-> <<job[w].cred, job[w].key>>]

\* Mutant: the notification is published on the channel of any instance.
AnnounceAnywhere(w) ==
    /\ NotifyInstanceUpdate(w)
    /\ published' = NewPublished(w)
    /\ \E i \in Instances : Deliver(i, Notification(w))
    /\ UNCHANGED <<query, quiet, stage, held>>

\* The notification of an assignment, published or not.
Announce(w) ==
    /\ NotifyInstanceUpdate(w)
    /\ \/ published' = NewPublished(w) /\ Deliver(job[w].instance, Notification(w))
       \/ /\ published' = published /\ pc'[w] = "idle"
          /\ UNCHANGED <<inbox, heard, reached>>
    /\ UNCHANGED <<query, quiet, stage, held>>

\* An operator withdraws an exchange by hand: the access manager never does.
Withdraw(i, e) ==
    /\ Deliver(i, [action |-> "remove", exchange |-> e, value |-> <<>>])
    /\ UNCHANGED <<vars, query, quiet, stage, held>>

\* Every other step of the access manager.
Unannounced ==
    \/ \E i \in Instances, ip \in IPs : RegisterInstance(i, ip)
    \/ \E w \in Workers :
         \/ \E c \in Creds, k \in Keys, i \in Instances \cup {None} : Request(w, c, k, i)
         \/ ResolveInstance(w) \/ ResolveFails(w)
         \/ StoreCredentials(w) \/ StoreBinding(w) \/ Answer(w)
    \/ Crash

WatchStores == quiet' = (quiet /\ UNCHANGED <<credentials, bindings>>)

\* The steps of a query between its beginning and its answer.
Answering ==
    \/ \E c \in Creds : ReadBinding(c) \/ ReadCredentials(c)
    \/ BindingsRead \/ CredentialsRead

Manager(i) ==
    \/ RestoreBegins(i) \/ RestoreFails(i) \/ Subscribe(i) \/ Disconnect(i)
    \/ HandleUpdate(i) \/ InstanceDies(i)

DNext ==
    \/ \E i \in Instances : Manager(i)
    \/ AnswerArrives
    \/ Answering /\ UNCHANGED <<vars, instance>>
    \/ \E w \in Workers : Announce(w)
    \/ \E i \in Instances, e \in Exchanges : Withdraw(i, e)
    \/ Unannounced /\ WatchStores /\ UNCHANGED <<query, instance>>

DSpec == DInit /\ [][DNext]_dvars

(***************************************************************************)
(* Properties.                                                             *)
(***************************************************************************)

\* Whatever was lost, withdrawn, restarted or left half way: an instance holds
\* only credentials that are stored and bound, and under the name of an exchange
\* only what was sent for that exchange, of a credential announced to this very
\* instance, whatever other instances and exchanges it was assigned to as well.
HoldsOnlyAssigned ==
    \A i \in Instances : \A e \in Labels : held[i][e] # <<>> =>
        LET c == held[i][e][1]
            k == held[i][e][2]
        IN
        /\ credentials[c] # NoStored /\ bindings[c] # NoBinding
        /\ e # Unnamed => ExchangeOf[k] = e /\ published[i][c] # None

\* The order of the channel: once an instance has handled what it received, it
\* holds for every exchange what the last message that reached it said, be it of
\* another credential, another key or a withdrawal, and whatever was lost since.
HeldAsReached ==
    \A i \in Instances : inbox[i] = <<>> =>
        \A e \in Exchanges : held[i][e] = reached[i][e]

\* From Vault to the instance: a credential stored for an instance and an exchange
\* that the instance holds for this exchange has the key that is stored, once all
\* messages are handled.  Excluded are credentials some assignment of which was
\* torn, overlapped or is under way, and exchanges whose last message was lost.
HeldAsStored ==
    \A i \in Instances, c \in Creds \ (interrupted \cup overlapped) :
        /\ Writing(c) = {} /\ credentials[c].instance = i /\ inbox[i] = <<>>
        => LET e == ExchangeOf[credentials[c].key] IN
           e \in heard[i] /\ held[i][e] # <<>> /\ held[i][e][1] = c =>
               held[i][e][2] = credentials[c].key

\* What an instance holds for an exchange it keeps until it restarts, or handles
\* a message on its own channel that names this exchange: an "add" of whatever
\* credential replaces it, a "remove" deletes it.  Nothing else does, neither an
\* assignment to another instance or for another exchange, nor a lost connection.
KeptUntilTold ==
    [][\A i \in Instances, e \in Labels :
          held[i][e] # <<>> /\ held'[i][e] # held[i][e] =>
              \/ stage'[i] = "down"
              \/ /\ inbox[i] # <<>> /\ Head(inbox[i]).exchange = e
                 /\ inbox'[i] = Tail(inbox[i])
                 /\ held'[i][e] = <<>> => Head(inbox[i]).action = "remove"]_dvars

\* restoreCredentials: "Failed to restore credentials" is logged if it fails.
\* If it does not, what was answered can be had by asking for its exchange.
RestoredIsHeld ==
    [][\A i \in Instances : stage[i] = "restoring" /\ AnswerArrives =>
         \A a \in answer : held'[i][ExchangeOf[a[2].key]] # <<>>]_dvars

=============================================================================
