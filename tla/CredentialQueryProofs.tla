------------------------ MODULE CredentialQueryProofs ------------------------
(***************************************************************************)
(* Proofs about CredentialQuery for any number of credentials, instances   *)
(* and concurrent requests: what GetInstanceCredentials may rely on while  *)
(* assignments write between any two of its reads.                         *)
(***************************************************************************)
EXTENDS CredentialQuery, CredentialAssignmentProofs

\* The credentials that are bound to the asker now.
BoundNow == {c \in Creds : bindings[c].instance = asker}

\* The answer holds the credentials S as stored, and no others.
AnswersFor(S) ==
    /\ \A a \in answer : a[1] \in S /\ a = <<a[1], credentials[a[1]]>>
    /\ \A c \in S : <<c, credentials[c]>> \in answer

\* The position of the query in its locals, and what a quiet one has read so far.
Reading ==
    /\ qpc = "idle" => asker = None /\ mine = {}
    /\ qpc # "idle" => asker \in Instances
    /\ qpc = "bindings" => answer = {}
    /\ qpc = "bindings" /\ quiet =>
         \A c \in Creds : c \in mine <=> c \in BoundNow /\ c \notin toRead
    /\ qpc = "credentials" /\ quiet =>
         /\ mine = BoundNow /\ toRead \subseteq mine
         /\ AnswersFor(mine \ toRead)
    /\ qpc = "answered" /\ quiet =>
         /\ mine = BoundNow
         /\ AnswersFor(mine)

QInv == IInv /\ QTypeOK /\ Reading /\ BoundIsReadable

-----------------------------------------------------------------------------

LEMMA InitQInv == QInit => QInv
  BY InitIInv DEF QInit, QInv, QTypeOK, Reading, BoundIsReadable

\* What is stored stays stored, under another value perhaps.
LEMMA StoredForGood ==
  ASSUME IInv, [Next]_vars
  PROVE  \A c \in Creds : credentials[c] # NoStored => credentials'[c] # NoStored
<1>1. ASSUME NEW w \in Workers, StoreCredentials(w)
      PROVE  \A c \in Creds : credentials[c] # NoStored => credentials'[c] # NoStored
  BY <1>1, StoreCredentialsEffect
<1>2. CASE UNCHANGED credentials
  BY <1>2
<1>3. UNCHANGED credentials \/ \E w \in Workers : StoreCredentials(w)
  BY DEF Next, Assign, RegisterInstance, Request, ResolveInstance, ResolveFails,
     StoreBinding, NotifyInstanceUpdate, Answer, Crash, vars, stores
<1> QED
  BY <1>1, <1>2, <1>3

LEMMA IInvStep == IInv /\ [Next]_vars => IInv'
  BY TypeStep, ProgressStep DEF IInv

\* Steps of others: a quiet query has missed nothing.
LEMMA ElsewhereStep ==
  ASSUME QInv, Elsewhere
  PROVE  QInv'
<1>1. IInv' /\ \A c \in Creds : credentials[c] # NoStored => credentials'[c] # NoStored
  BY IInvStep, StoredForGood DEF QInv, Elsewhere
<1>2. QTypeOK'
  BY DEF QInv, QTypeOK, Elsewhere, query
<1>3. Reading'
  BY DEF QInv, Reading, BoundNow, AnswersFor, Elsewhere, query
<1>4. BoundIsReadable'
  BY <1>1 DEF QInv, QTypeOK, BoundIsReadable, Elsewhere, query
<1> QED
  BY <1>1, <1>2, <1>3, <1>4 DEF QInv

\* A step of the query itself.
LEMMA QueryStep ==
  ASSUME QInv, Query, UNCHANGED vars
  PROVE  QInv'
<1>0. /\ IInv /\ QTypeOK /\ Reading /\ BoundIsReadable
      /\ UNCHANGED <<credentials, bindings>>
  BY DEF QInv, vars, stores
<1>1. IInv'
  BY <1>0, IInvStep
<1>2. ASSUME NEW i \in Instances, ListBindings(i)
      PROVE  QTypeOK' /\ Reading' /\ BoundIsReadable'
  <2>1. i # None
    BY AssignmentAssumption
  <2>2. \A c \in Creds : bindings[c].instance = i => bindings[c] # NoBinding
    BY <2>1 DEF NoBinding
  <2> QED
    BY <1>0, <1>2, <2>2 DEF ListBindings, QTypeOK, Reading, BoundNow, BoundIsReadable
<1>3. ASSUME NEW c \in Creds, ReadBinding(c)
      PROVE  QTypeOK' /\ Reading' /\ BoundIsReadable'
  <2>1. asker \in Instances /\ asker # None
    BY <1>0, <1>3, AssignmentAssumption DEF ReadBinding, Reading
  <2>2. BoundTo(c, asker) => credentials[c] # NoStored
    BY <1>0, <2>1 DEF BoundTo, IInv, Progress, NoBinding
  <2>3. QTypeOK' /\ BoundIsReadable'
    BY <1>0, <1>3, <2>2 DEF ReadBinding, QTypeOK, BoundIsReadable
  <2>4. Reading'
    BY <1>0, <1>3 DEF ReadBinding, QTypeOK, Reading, BoundNow, BoundTo
  <2> QED
    BY <2>3, <2>4
<1>4. ASSUME BindingsRead
      PROVE  QTypeOK' /\ Reading' /\ BoundIsReadable'
  <2>1. quiet => mine = BoundNow
    BY <1>0, <1>4 DEF BindingsRead, QTypeOK, Reading, BoundNow
  <2>2. QTypeOK' /\ BoundIsReadable'
    BY <1>0, <1>4 DEF BindingsRead, QTypeOK, BoundIsReadable
  <2>3. Reading'
    BY <1>0, <1>4, <2>1 DEF BindingsRead, Reading, BoundNow, AnswersFor
  <2> QED
    BY <2>2, <2>3
<1>5. ASSUME NEW c \in Creds, ReadCredentials(c)
      PROVE  QTypeOK' /\ Reading' /\ BoundIsReadable'
  <2>1. credentials[c] \in Stored \cup {NoStored}
    BY <1>0 DEF IInv, TypeOK
  <2>2. QTypeOK' /\ BoundIsReadable'
    <3>1. qpc' = qpc /\ asker' = asker /\ mine' = mine /\ toRead' = toRead \ {c}
          /\ quiet' \in BOOLEAN
      BY <1>0, <1>5 DEF ReadCredentials, QTypeOK
    <3>2. \/ answer' = answer
          \/ credentials[c] \in Stored /\ answer' = answer \cup {<<c, credentials[c]>>}
      BY <1>5, <2>1 DEF ReadCredentials
    <3>3. answer' \in SUBSET (Creds \X Stored)
      BY <1>0, <3>2 DEF QTypeOK
    <3>4. QTypeOK'
      BY <1>0, <3>1, <3>3 DEF QTypeOK
    <3> QED
      BY <1>0, <3>1, <3>4 DEF BoundIsReadable
  <2>3. /\ qpc = "credentials" /\ UNCHANGED <<qpc, mine, asker>> /\ BoundNow' = BoundNow
        /\ toRead' = toRead \ {c} /\ c \in toRead
    BY <1>0, <1>5 DEF ReadCredentials, BoundNow
  <2>4. CASE quiet'
    <3>1. quiet
      BY <1>0, <1>5, <2>4 DEF ReadCredentials, QTypeOK
    <3>2. c \in mine /\ mine = BoundNow /\ toRead \subseteq mine /\ AnswersFor(mine \ toRead)
      BY <1>0, <2>3, <3>1 DEF Reading
    <3>3. answer' = answer \cup {<<c, credentials[c]>>}
      BY <1>0, <1>5, <2>4, <3>2 DEF ReadCredentials, BoundIsReadable
    <3>4. AnswersFor(mine \ toRead)'
      BY <1>0, <2>3, <3>2, <3>3 DEF AnswersFor
    <3> QED
      BY <1>0, <2>2, <2>3, <3>2, <3>4 DEF Reading
  <2>5. CASE ~quiet'
    BY <1>0, <2>2, <2>3, <2>5 DEF Reading
  <2> QED
    BY <2>2, <2>4, <2>5
<1>6. ASSUME CredentialsRead
      PROVE  QTypeOK' /\ Reading' /\ BoundIsReadable'
  <2>1. toRead = {} /\ BoundNow' = BoundNow
    BY <1>0, <1>6 DEF CredentialsRead, BoundNow
  <2>2. Reading'
    BY <1>0, <1>6, <2>1 DEF CredentialsRead, Reading, AnswersFor
  <2> QED
    BY <1>0, <1>6, <2>2 DEF CredentialsRead, QTypeOK, BoundIsReadable
<1>7. ASSUME NextQuery
      PROVE  QTypeOK' /\ Reading' /\ BoundIsReadable'
  BY <1>0, <1>7 DEF NextQuery, QTypeOK, Reading, BoundNow, BoundIsReadable
<1> QED
  BY <1>1, <1>2, <1>3, <1>4, <1>5, <1>6, <1>7 DEF QInv, Query

LEMMA QInvStep == QInv /\ [QNext]_<<vars, query, quiet>> => QInv'
<1>1. QInv /\ UNCHANGED <<vars, query, quiet>> => QInv'
  <2> SUFFICES ASSUME QInv, UNCHANGED <<vars, query, quiet>> PROVE QInv'
    OBVIOUS
  <2>1. IInv'
    BY IInvStep DEF QInv
  <2> QED
    BY <2>1 DEF QInv, QTypeOK, Reading, BoundNow, AnswersFor, BoundIsReadable, query,
               vars, stores
<1> QED
  BY <1>1, ElsewhereStep, QueryStep DEF QNext

LEMMA QueryInvariance == QSpec => []QInv
  BY QInvStep, InitQInv, PTL DEF QSpec

\* The query's local variables keep their types.
THEOREM QueryTypeCorrect == QSpec => []QTypeOK
<1>1. QInv => QTypeOK
  BY DEF QInv
<1> QED
  BY <1>1, QueryInvariance, PTL

\* No binding the query has read leads to credentials that are not there.
THEOREM BindingsLeadToCredentials == QSpec => []BoundIsReadable
<1>1. QInv => BoundIsReadable
  BY DEF QInv
<1> QED
  BY <1>1, QueryInvariance, PTL

\* A query that nobody and nothing disturbed answers with exactly what is bound.
THEOREM UndisturbedQueryExact == QSpec => []QueryIsExact
<1>1. QInv => QueryIsExact
  <2> SUFFICES ASSUME QInv, qpc = "answered" /\ quiet
               PROVE  answer = {<<c, credentials[c]>> :
                                c \in {d \in Creds : bindings[d].instance = asker}}
    BY DEF QueryIsExact
  <2> QED
    BY DEF QInv, Reading, BoundNow, AnswersFor
<1> QED
  BY <1>1, QueryInvariance, PTL

=============================================================================
