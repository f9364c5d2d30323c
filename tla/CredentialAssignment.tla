------------------------ MODULE CredentialAssignment ------------------------
(***************************************************************************)
(* AssignCredentials of the access manager, run by several requests:       *)
(*   access-manager/internal/service/manager.go    AssignCredentials       *)
(*   access-manager/internal/repository/vault.go   StoreCredentials, ...   *)
(*   access-manager/internal/repository/redis.go   NotifyInstanceUpdate    *)
(*                                                                         *)
(* An assignment makes three writes, to two stores, with nothing that ties *)
(* them together: the credentials and the binding in Vault, a publication  *)
(* on the instance's Redis channel.  Each may fail, may be applied and yet *)
(* reported as failed, and the process may die between any two.  Requests  *)
(* for the same credential run side by side without a lock.                *)
(*                                                                         *)
(* Which registered instance a request without an instance id is given is  *)
(* left open here; InstanceSelection has the choice in detail.             *)
(***************************************************************************)
EXTENDS Naturals

CONSTANTS
    Creds,        \* ids of credentials
    Keys,         \* what a request may carry: an exchange, an api key, a secret
    Instances,    \* ids of instances
    IPs,          \* external addresses
    Workers,      \* requests the server handles at a time
    None          \* no instance, no address, nothing stored

ASSUME AssignmentAssumption == None \notin Instances \cup IPs \cup Keys

Stored   == [instance : Instances, key : Keys]
Bindings == [instance : Instances, ip : IPs]
NoStored  == [instance |-> None, key |-> None]
NoBinding == [instance |-> None, ip |-> None]

VARIABLES
    registered,   \* Vault instances/<id>: its external address
    credentials,  \* Vault credentials/<id>
    bindings,     \* Vault bindings/<credentials id>
    published,    \* Redis: per instance and credential, the last key announced
    confirmed,    \* answers with status 200: <<credential, instance>>
    pc,           \* per worker: the call its request is about to make
    job,          \* per worker: the credential, key and instance of its request
    interrupted,  \* history: credentials some assignment left half way
    overlapped    \* history: credentials two assignments wrote at a time

stores  == <<registered, credentials, bindings, published, confirmed>>
history == <<interrupted, overlapped>>
vars    == <<stores, pc, job, history>>

Jobs  == [cred : Creds, key : Keys,
          instance : Instances \cup {None}, ip : IPs \cup {None}]
NoJob == [cred |-> None, key |-> None, instance |-> None, ip |-> None]

TypeOK ==
    /\ registered \in [Instances -> IPs \cup {None}]
    /\ credentials \in [Creds -> Stored \cup {NoStored}]
    /\ bindings \in [Creds -> Bindings \cup {NoBinding}]
    /\ published \in [Instances -> [Creds -> Keys \cup {None}]]
    /\ confirmed \in SUBSET (Creds \X Instances)
    /\ pc \in [Workers -> {"idle", "resolve", "credentials", "binding",
                           "notify", "answer"}]
    /\ job \in [Workers -> Jobs \cup {NoJob}]
    /\ interrupted \in SUBSET Creds /\ overlapped \in SUBSET Creds

Init ==
    /\ registered = [i \in Instances |-> None]
    /\ credentials = [c \in Creds |-> NoStored]
    /\ bindings = [c \in Creds |-> NoBinding]
    /\ published = [i \in Instances |-> [c \in Creds |-> None]]
    /\ confirmed = {}
    /\ pc = [w \in Workers |-> "idle"]
    /\ job = [w \in Workers |-> NoJob]
    /\ interrupted = {} /\ overlapped = {}

\* RegisterInstance: a new instance, or a known one with a new address.
RegisterInstance(i, ip) ==
    /\ registered[i] # ip
    /\ registered' = [registered EXCEPT ![i] = ip]
    /\ UNCHANGED <<credentials, bindings, published, confirmed, pc, job, history>>

\* The workers that have written the credentials of c and not yet told anyone.
Writing(c) == {w \in Workers : pc[w] \in {"binding", "notify"} /\ job[w].cred = c}

\* The request ends: its local variables are gone.
Finish(w) ==
    /\ pc' = [pc EXCEPT ![w] = "idle"]
    /\ job' = [job EXCEPT ![w] = NoJob]

Continue(w, to) ==
    /\ pc' = [pc EXCEPT ![w] = to]
    /\ UNCHANGED job

\* A request with an id and an exchange; its instance id may be empty.
Request(w, c, k, i) ==
    /\ pc[w] = "idle"
    /\ pc' = [pc EXCEPT ![w] = "resolve"]
    /\ job' = [job EXCEPT ![w] = [cred |-> c, key |-> k, instance |-> i, ip |-> None]]
    /\ UNCHANGED <<stores, history>>

\* selectOptimalInstance when the request names no instance, GetInstance when
\* it does.  Either way the record is a copy, used until the end.
ResolveInstance(w) ==
    /\ pc[w] = "resolve"
    /\ \E i \in Instances :
         /\ job[w].instance \in {None, i}
         /\ registered[i] # None
         /\ job' = [job EXCEPT ![w].instance = i, ![w].ip = registered[i]]
    /\ pc' = [pc EXCEPT ![w] = "credentials"]
    /\ UNCHANGED <<stores, history>>

\* Mutant: the error of the resolution is ignored.
ResolveFailsIgnored(w) ==
    /\ pc[w] = "resolve"
    /\ Continue(w, "credentials")
    /\ UNCHANGED <<stores, history>>

\* No such instance, none active, or Vault could not be read.
ResolveFails(w) ==
    /\ pc[w] = "resolve"
    /\ Finish(w)
    /\ UNCHANGED <<stores, history>>

\* The outcomes of a write: applied and acknowledged, or reported as failed,
\* in which case it may have been applied all the same.
Acknowledged(w, to) == Continue(w, to) /\ UNCHANGED interrupted
Failed(w) == Finish(w) /\ interrupted' = interrupted \cup {job[w].cred}

NewStored(w) ==
    [credentials EXCEPT ![job[w].cred] =
        [instance |-> job[w].instance, key |-> job[w].key]]

NewBinding(w) ==
    [bindings EXCEPT ![job[w].cred] =
        [instance |-> job[w].instance, ip |-> job[w].ip]]

NewPublished(w) ==
    [published EXCEPT ![job[w].instance][job[w].cred] = job[w].key]

\* Mutant: the error of StoreCredentials is ignored.
StoreCredentialsIgnoresError(w) ==
    /\ pc[w] = "credentials"
    /\ credentials' \in {credentials, NewStored(w)}
    /\ Continue(w, "binding")
    /\ UNCHANGED <<registered, bindings, published, confirmed, history>>

StoreCredentials(w) ==
    /\ pc[w] = "credentials"
    /\ \/ credentials' = NewStored(w) /\ Acknowledged(w, "binding")
       \/ credentials' \in {credentials, NewStored(w)} /\ Failed(w)
    /\ overlapped' = IF Writing(job[w].cred) = {} THEN overlapped
                     ELSE overlapped \cup {job[w].cred}
    /\ UNCHANGED <<registered, bindings, published, confirmed>>

\* Mutant: the error of StoreBinding is ignored.
StoreBindingIgnoresError(w) ==
    /\ pc[w] = "binding"
    /\ bindings' \in {bindings, NewBinding(w)}
    /\ Continue(w, "notify")
    /\ UNCHANGED <<registered, credentials, published, confirmed, history>>

StoreBinding(w) ==
    /\ pc[w] = "binding"
    /\ \/ bindings' = NewBinding(w) /\ Acknowledged(w, "notify")
       \/ bindings' \in {bindings, NewBinding(w)} /\ Failed(w)
    /\ UNCHANGED <<registered, credentials, published, confirmed, overlapped>>

\* Mutant: the error of NotifyInstanceUpdate is ignored.
NotifyIgnoresError(w) ==
    /\ pc[w] = "notify"
    /\ published' \in {published, NewPublished(w)}
    /\ Continue(w, "answer")
    /\ UNCHANGED <<registered, credentials, bindings, confirmed, history>>

\* Publish is acknowledged whether or not the instance is subscribed.
NotifyInstanceUpdate(w) ==
    /\ pc[w] = "notify"
    /\ \/ published' = NewPublished(w) /\ Acknowledged(w, "answer")
       \/ published' \in {published, NewPublished(w)} /\ Failed(w)
    /\ UNCHANGED <<registered, credentials, bindings, confirmed, overlapped>>

\* The client reads the external address of the instance.
Answer(w) ==
    /\ pc[w] = "answer"
    /\ confirmed' = confirmed \cup {<<job[w].cred, job[w].instance>>}
    /\ Finish(w)
    /\ UNCHANGED <<registered, credentials, bindings, published, history>>

\* The process dies with every request it was handling.
Crash ==
    /\ \E w \in Workers : pc[w] # "idle"
    /\ pc' = [w \in Workers |-> "idle"]
    /\ job' = [w \in Workers |-> NoJob]
    /\ interrupted' = interrupted \cup {c \in Creds : Writing(c) # {}}
    /\ UNCHANGED <<stores, overlapped>>

Assign(w) ==
    \/ \E c \in Creds, k \in Keys, i \in Instances \cup {None} : Request(w, c, k, i)
    \/ ResolveInstance(w) \/ ResolveFails(w)
    \/ StoreCredentials(w) \/ StoreBinding(w) \/ NotifyInstanceUpdate(w)
    \/ Answer(w)

Next ==
    \/ \E i \in Instances, ip \in IPs : RegisterInstance(i, ip)
    \/ \E w \in Workers : Assign(w)
    \/ Crash

Spec == Init /\ [][Next]_vars

(***************************************************************************)
(* Properties.                                                             *)
(***************************************************************************)

\* What Vault and Redis say of c is one story: the credential names the
\* instance it is bound to, and that instance was last told the stored key.
OneStory(c) ==
    credentials[c] # NoStored =>
        /\ bindings[c].instance = credentials[c].instance
        /\ published[credentials[c].instance][c] = credentials[c].key

\* Stored credential, binding and announcement agree whenever no assignment of
\* the credential is under way, provided none ever stopped half way and no two
\* overlapped: the order of the three writes and their error paths alone keep
\* them together.
AgreeUnlessTorn ==
    \A c \in Creds \ (interrupted \cup overlapped) : Writing(c) = {} => OneStory(c)

(***************************************************************************)
(* Refinement: how far a credential has come is read off the two stores.   *)
(***************************************************************************)
phase == [c \in Creds |-> IF bindings[c] # NoBinding THEN "bound"
                          ELSE IF credentials[c] # NoStored THEN "stored"
                          ELSE "absent"]

announced == {ci \in Creds \X Instances : published[ci[2]][ci[1]] # None}

Lifecycle == INSTANCE CredentialLifecycle
    WITH phase <- phase, announced <- announced, confirmed <- confirmed

\* Assignments implement the life of a credential, under every failure.
ImplementsLifecycle == Lifecycle!Spec

=============================================================================
