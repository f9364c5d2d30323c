-------------------------- MODULE CredentialQuery --------------------------
(***************************************************************************)
(* GetInstanceCredentials of the access manager, which an order-book       *)
(* instance calls when it starts, running beside assignments:              *)
(*   access-manager/internal/ports/http/handlers.go GetInstanceCredentials *)
(*   access-manager/internal/repository/vault.go    GetBindingsForInstance *)
(*                                                                         *)
(* The answer is put together from one List and one Read for each binding  *)
(* and each credential; what cannot be read is left out without a word.    *)
(***************************************************************************)
EXTENDS CredentialAssignment

VARIABLES
    qpc,       \* "idle", "bindings", "credentials" or "answered"
    asker,     \* the instance that asks
    toRead,    \* credential ids listed or bound and still to be read
    mine,      \* ids whose binding names the asker
    answer,    \* the credentials read: <<id, stored value>>
    quiet      \* history: no write and no failed read since the List

query == <<qpc, asker, toRead, mine, answer>>

QTypeOK ==
    /\ qpc \in {"idle", "bindings", "credentials", "answered"}
    /\ asker \in Instances \cup {None}
    /\ toRead \in SUBSET Creds /\ mine \in SUBSET Creds
    /\ answer \in SUBSET (Creds \X Stored)
    /\ quiet \in BOOLEAN

QInit ==
    /\ Init
    /\ qpc = "idle" /\ asker = None /\ toRead = {} /\ mine = {} /\ answer = {}
    /\ quiet = TRUE

\* The List of the bindings; its failure is answered with an error at once.
ListBindings(i) ==
    /\ qpc = "idle"
    /\ qpc' = "bindings" /\ asker' = i
    /\ toRead' = {c \in Creds : bindings[c] # NoBinding}
    /\ mine' = {} /\ answer' = {} /\ quiet' = TRUE

\* Mutant: bindings are not filtered by instance.
BoundToAny(c, i) == bindings[c] # NoBinding

\* binding.InstanceID == instanceID
BoundTo(c, i) == bindings[c].instance = i

\* One binding: kept if it names the asker, skipped if it cannot be read.
ReadBinding(c) ==
    /\ qpc = "bindings" /\ c \in toRead
    /\ toRead' = toRead \ {c}
    /\ \/ /\ mine' = IF BoundTo(c, asker) THEN mine \cup {c} ELSE mine
          /\ UNCHANGED quiet
       \/ UNCHANGED mine /\ quiet' = FALSE
    /\ UNCHANGED <<qpc, asker, answer>>

BindingsRead ==
    /\ qpc = "bindings" /\ toRead = {}
    /\ qpc' = "credentials" /\ toRead' = mine
    /\ UNCHANGED <<asker, mine, answer, quiet>>

\* Mutant: the credential is read under the path of its binding.
ReadCredentialsFromBindings(c) ==
    /\ qpc = "credentials" /\ c \in toRead
    /\ toRead' = toRead \ {c}
    /\ answer' = answer \cup {<<c, bindings[c]>>}
    /\ UNCHANGED <<qpc, asker, mine, quiet>>

\* One credential: added to the answer, skipped if it cannot be read.
ReadCredentials(c) ==
    /\ qpc = "credentials" /\ c \in toRead
    /\ toRead' = toRead \ {c}
    /\ \/ /\ credentials[c] # NoStored
          /\ answer' = answer \cup {<<c, credentials[c]>>}
          /\ UNCHANGED quiet
       \/ UNCHANGED answer /\ quiet' = FALSE
    /\ UNCHANGED <<qpc, asker, mine>>

CredentialsRead ==
    /\ qpc = "credentials" /\ toRead = {}
    /\ qpc' = "answered"
    /\ UNCHANGED <<asker, toRead, mine, answer, quiet>>

\* The handler has answered; its local variables are gone.
NextQuery ==
    /\ qpc = "answered"
    /\ qpc' = "idle" /\ asker' = None
    /\ toRead' = {} /\ mine' = {} /\ answer' = {} /\ quiet' = TRUE

Query ==
    \/ \E i \in Instances : ListBindings(i)
    \/ \E c \in Creds : ReadBinding(c) \/ ReadCredentials(c)
    \/ BindingsRead \/ CredentialsRead \/ NextQuery

\* A step of anybody else, between two reads of the query.
Elsewhere ==
    /\ Next
    /\ quiet' = (quiet /\ UNCHANGED <<credentials, bindings>>)
    /\ UNCHANGED query

QNext ==
    \/ Elsewhere
    \/ Query /\ UNCHANGED vars

QSpec == QInit /\ [][QNext]_<<vars, query, quiet>>

(***************************************************************************)
(* Properties.                                                             *)
(***************************************************************************)

\* A query during which nothing was written and nothing failed to be read
\* answers with exactly the credentials bound to the instance, as stored.
QueryIsExact ==
    qpc = "answered" /\ quiet =>
        answer = {<<c, credentials[c]>> : c \in {d \in Creds : bindings[d].instance = asker}}

\* Whatever assignments do meanwhile, fail or die, a binding the query has read
\* leads to credentials: none is dropped from the answer as "not found".
BoundIsReadable == \A c \in mine : credentials[c] # NoStored

=============================================================================
