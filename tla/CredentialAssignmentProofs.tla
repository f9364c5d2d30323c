--------------------- MODULE CredentialAssignmentProofs ---------------------
(***************************************************************************)
(* Proofs about CredentialAssignment for any number of credentials,        *)
(* instances and concurrent requests.                                      *)
(*                                                                         *)
(* A request never checks what it finds stored, so what it may rely on is  *)
(* how far it has come itself: Progress says what each position in         *)
(* AssignCredentials implies about the stores, whatever others do.         *)
(***************************************************************************)
EXTENDS CredentialAssignment, TLAPS

\* What the position of a request implies, and that a bound credential is
\* stored.
Progress ==
    /\ \A w \in Workers :
         LET c == job[w].cred   i == job[w].instance IN
         /\ pc[w] # "idle" => job[w] \in Jobs
         /\ pc[w] \in {"credentials", "binding", "notify", "answer"} =>
                i \in Instances /\ job[w].ip \in IPs
         /\ pc[w] \in {"binding", "notify", "answer"} => credentials[c] # NoStored
         /\ pc[w] \in {"notify", "answer"} => bindings[c] # NoBinding
         /\ pc[w] = "answer" => published[i][c] # None
    /\ \A c \in Creds : bindings[c] # NoBinding => credentials[c] # NoStored

IInv == TypeOK /\ Progress

\* Of a credential that is not torn at most one request is writing, and what
\* it has written so far is what the stores hold.
Untorn(c) ==
    /\ \A v, w \in Writing(c) : v = w
    /\ \A w \in Writing(c) :
         /\ credentials[c] = [instance |-> job[w].instance, key |-> job[w].key]
         /\ pc[w] = "notify" => bindings[c].instance = job[w].instance
    /\ Writing(c) = {} => OneStory(c)

StoryInv == \A c \in Creds \ (interrupted \cup overlapped) : Untorn(c)

-----------------------------------------------------------------------------

LEMMA InitIInv == Init => IInv /\ StoryInv
  BY DEF Init, IInv, TypeOK, Progress, StoryInv, Untorn, OneStory, Writing, NoStored

\* What a request carries while it makes its calls.
LEMMA JobFacts ==
    ASSUME NEW w \in Workers, IInv, pc[w] \in {"credentials", "binding", "notify", "answer"}
    PROVE  /\ job[w] \in Jobs
           /\ job[w].cred \in Creds /\ job[w].key \in Keys
           /\ job[w].instance \in Instances /\ job[w].ip \in IPs
  BY DEF IInv, Progress, Jobs

\* What is written is never the absence of a value.
LEMMA NewValues ==
    ASSUME NEW w \in Workers, IInv, pc[w] \in {"credentials", "binding", "notify", "answer"}
    PROVE  /\ [instance |-> job[w].instance, key |-> job[w].key] \in Stored
           /\ [instance |-> job[w].instance, key |-> job[w].key] # NoStored
           /\ [instance |-> job[w].instance, ip |-> job[w].ip] \in Bindings
           /\ [instance |-> job[w].instance, ip |-> job[w].ip] # NoBinding
           /\ job[w].key # None
  BY JobFacts, AssignmentAssumption DEF Stored, Bindings, NoStored, NoBinding

\* How a write ends: with an error, or with the request going on.
Ends(w, to) == \/ Finish(w) /\ interrupted' = interrupted \cup {job[w].cred}
               \/ Continue(w, to) /\ UNCHANGED interrupted

\* The three writes: the store is written at one place or not at all, and the
\* request goes on only if it was.
LEMMA StoreCredentialsEffect ==
    ASSUME NEW w \in Workers, IInv, StoreCredentials(w)
    PROVE  /\ pc[w] = "credentials" /\ job[w].cred \in Creds
           /\ credentials' \in [Creds -> Stored \cup {NoStored}]
           /\ \A c \in Creds \ {job[w].cred} : credentials'[c] = credentials[c]
           /\ \/ credentials' = credentials
              \/ credentials'[job[w].cred] = [instance |-> job[w].instance, key |-> job[w].key]
           /\ credentials[job[w].cred] # NoStored => credentials'[job[w].cred] # NoStored
           /\ Ends(w, "binding")
           /\ pc'[w] = "binding" =>
                credentials'[job[w].cred] = [instance |-> job[w].instance, key |-> job[w].key]
           /\ UNCHANGED <<registered, bindings, published, confirmed>>
<1>1. pc[w] = "credentials"
  BY DEF StoreCredentials
<1>2. job[w].cred \in Creds
  BY <1>1, JobFacts
<1> DEFINE v == [instance |-> job[w].instance, key |-> job[w].key]
<1>3. v \in Stored /\ v # NoStored
  BY <1>1, NewValues
<1>4. NewStored(w) = [credentials EXCEPT ![job[w].cred] = v]
  BY DEF NewStored
<1>5. TypeOK
  BY DEF IInv
<1> HIDE DEF v
<1>6. \/ credentials' = [credentials EXCEPT ![job[w].cred] = v] /\ Acknowledged(w, "binding")
      \/ credentials' = credentials /\ Failed(w)
      \/ credentials' = [credentials EXCEPT ![job[w].cred] = v] /\ Failed(w)
  BY <1>4 DEF StoreCredentials
<1>7. UNCHANGED <<registered, bindings, published, confirmed>>
  BY DEF StoreCredentials
<1>8. Ends(w, "binding")
  BY <1>6 DEF Ends, Acknowledged, Failed
<1>9. pc'[w] = "binding" => credentials' = [credentials EXCEPT ![job[w].cred] = v]
  BY <1>5, <1>6 DEF TypeOK, Failed, Finish
<1>10. /\ credentials' \in [Creds -> Stored \cup {NoStored}]
       /\ \A c \in Creds \ {job[w].cred} : credentials'[c] = credentials[c]
       /\ credentials' = credentials \/ credentials'[job[w].cred] = v
       /\ pc'[w] = "binding" => credentials'[job[w].cred] = v
  BY <1>2, <1>3, <1>5, <1>6, <1>9 DEF TypeOK
<1> QED
  BY <1>1, <1>2, <1>3, <1>7, <1>8, <1>10 DEF v

LEMMA StoreBindingEffect ==
    ASSUME NEW w \in Workers, IInv, StoreBinding(w)
    PROVE  /\ pc[w] = "binding" /\ job[w].cred \in Creds
           /\ bindings' \in [Creds -> Bindings \cup {NoBinding}]
           /\ \A c \in Creds \ {job[w].cred} : bindings'[c] = bindings[c]
           /\ \/ bindings' = bindings
              \/ bindings'[job[w].cred] = [instance |-> job[w].instance, ip |-> job[w].ip]
           /\ bindings' = bindings \/ bindings'[job[w].cred] # NoBinding
           /\ Ends(w, "notify")
           /\ pc'[w] = "notify" =>
                /\ bindings'[job[w].cred] = [instance |-> job[w].instance, ip |-> job[w].ip]
                /\ bindings'[job[w].cred] # NoBinding
           /\ UNCHANGED <<registered, credentials, published, confirmed, overlapped>>
<1>1. pc[w] = "binding"
  BY DEF StoreBinding
<1>2. job[w].cred \in Creds
  BY <1>1, JobFacts
<1> DEFINE v == [instance |-> job[w].instance, ip |-> job[w].ip]
<1>3. v \in Bindings /\ v # NoBinding
  BY <1>1, NewValues
<1>4. NewBinding(w) = [bindings EXCEPT ![job[w].cred] = v]
  BY DEF NewBinding
<1>5. TypeOK
  BY DEF IInv
<1> HIDE DEF v
<1>6. \/ bindings' = [bindings EXCEPT ![job[w].cred] = v] /\ Acknowledged(w, "notify")
      \/ bindings' = bindings /\ Failed(w)
      \/ bindings' = [bindings EXCEPT ![job[w].cred] = v] /\ Failed(w)
  BY <1>4 DEF StoreBinding
<1>7. UNCHANGED <<registered, credentials, published, confirmed, overlapped>>
  BY DEF StoreBinding
<1>8. Ends(w, "notify")
  BY <1>6 DEF Ends, Acknowledged, Failed
<1>9. pc'[w] = "notify" => bindings' = [bindings EXCEPT ![job[w].cred] = v]
  BY <1>5, <1>6 DEF TypeOK, Failed, Finish
<1>10. /\ bindings' \in [Creds -> Bindings \cup {NoBinding}]
       /\ \A c \in Creds \ {job[w].cred} : bindings'[c] = bindings[c]
       /\ bindings' = bindings \/ bindings'[job[w].cred] = v
       /\ pc'[w] = "notify" => bindings'[job[w].cred] = v
  BY <1>2, <1>3, <1>5, <1>6, <1>9 DEF TypeOK
<1> QED
  BY <1>1, <1>2, <1>3, <1>7, <1>8, <1>10 DEF v

LEMMA NotifyEffect ==
    ASSUME NEW w \in Workers, IInv, NotifyInstanceUpdate(w)
    PROVE  /\ pc[w] = "notify" /\ job[w].cred \in Creds /\ job[w].instance \in Instances
           /\ job[w].key # None
           /\ published' \in [Instances -> [Creds -> Keys \cup {None}]]
           /\ \A i \in Instances, c \in Creds :
                <<i, c>> # <<job[w].instance, job[w].cred>> => published'[i][c] = published[i][c]
           /\ \/ published' = published
              \/ published'[job[w].instance][job[w].cred] = job[w].key
           /\ Ends(w, "answer")
           /\ pc'[w] = "answer" => published'[job[w].instance][job[w].cred] = job[w].key
           /\ UNCHANGED <<registered, credentials, bindings, confirmed, overlapped>>
<1>1. pc[w] = "notify"
  BY DEF NotifyInstanceUpdate
<1> DEFINE c == job[w].cred
           i == job[w].instance
           k == job[w].key
<1>2. c \in Creds /\ i \in Instances /\ k \in Keys /\ k # None
  BY <1>1, JobFacts, NewValues
<1>3. NewPublished(w) = [published EXCEPT ![i][c] = k]
  BY DEF NewPublished
<1>4. published \in [Instances -> [Creds -> Keys \cup {None}]] /\ pc \in [Workers -> {
          "idle", "resolve", "credentials", "binding", "notify", "answer"}]
  BY DEF IInv, TypeOK
<1>5. UNCHANGED <<registered, credentials, bindings, confirmed, overlapped>>
  BY DEF NotifyInstanceUpdate
<1>6. \/ published' = [published EXCEPT ![i][c] = k] /\ Acknowledged(w, "answer")
      \/ published' = published /\ Failed(w)
      \/ published' = [published EXCEPT ![i][c] = k] /\ Failed(w)
  BY <1>3 DEF NotifyInstanceUpdate
<1> HIDE DEF c, i, k
<1>7. Ends(w, "answer")
  BY <1>6 DEF Ends, Acknowledged, Failed, c
<1>8. pc'[w] = "answer" => published' = [published EXCEPT ![i][c] = k]
  BY <1>4, <1>6 DEF Failed, Finish
<1>9. ASSUME published' = [published EXCEPT ![i][c] = k]
      PROVE  /\ published' \in [Instances -> [Creds -> Keys \cup {None}]]
             /\ \A j \in Instances, d \in Creds :
                  published'[j][d] = IF j = i /\ d = c THEN k ELSE published[j][d]
  BY <1>2, <1>4, <1>9
<1>10. /\ published' \in [Instances -> [Creds -> Keys \cup {None}]]
       /\ \A j \in Instances, d \in Creds :
            <<j, d>> # <<i, c>> => published'[j][d] = published[j][d]
       /\ published' = published \/ published'[i][c] = k
       /\ pc'[w] = "answer" => published'[i][c] = k
  BY <1>2, <1>4, <1>6, <1>8, <1>9
<1> QED
  BY <1>1, <1>2, <1>5, <1>7, <1>10 DEF c, i, k

\* What the end of a write does to the request and to the history.
LEMMA EndsEffect ==
    ASSUME NEW w \in Workers, NEW to \in {"binding", "notify", "answer"},
           TypeOK, job[w].cred \in Creds, Ends(w, to)
    PROVE  /\ pc' \in [Workers -> {"idle", "resolve", "credentials", "binding",
                                   "notify", "answer"}]
           /\ job' \in [Workers -> Jobs \cup {NoJob}]
           /\ interrupted' \in SUBSET Creds
           /\ \A v \in Workers \ {w} : pc'[v] = pc[v] /\ job'[v] = job[v]
           /\ pc'[w] = "idle" \/ (pc'[w] = to /\ job'[w] = job[w])
<1>1. CASE Finish(w) /\ interrupted' = interrupted \cup {job[w].cred}
  BY <1>1 DEF TypeOK, Finish
<1>2. CASE Continue(w, to) /\ UNCHANGED interrupted
  BY <1>2 DEF TypeOK, Continue
<1> QED
  BY <1>1, <1>2 DEF Ends

\* What resolving the instance does to the request.
LEMMA ResolveEffect ==
    ASSUME NEW w \in Workers, IInv, ResolveInstance(w)
    PROVE  /\ pc' \in [Workers -> {"idle", "resolve", "credentials", "binding",
                                   "notify", "answer"}]
           /\ job' \in [Workers -> Jobs \cup {NoJob}]
           /\ \A v \in Workers \ {w} : pc'[v] = pc[v] /\ job'[v] = job[v]
           /\ pc'[w] = "credentials" /\ job'[w] \in Jobs
           /\ job'[w].instance \in Instances /\ job'[w].ip \in IPs
           /\ UNCHANGED <<stores, history>>
<1>1. TypeOK /\ job[w] \in Jobs
  BY DEF IInv, Progress, ResolveInstance
<1>2. /\ pc' = [pc EXCEPT ![w] = "credentials"]
      /\ UNCHANGED <<stores, history>>
  BY DEF ResolveInstance
<1>3. PICK i \in Instances :
        /\ job[w].instance \in {None, i}
        /\ registered[i] # None
        /\ job' = [job EXCEPT ![w].instance = i, ![w].ip = registered[i]]
  BY DEF ResolveInstance
<1>4. registered[i] \in IPs
  BY <1>1, <1>3 DEF TypeOK
<1>5. /\ job' \in [Workers -> Jobs \cup {NoJob}]
      /\ \A v \in Workers \ {w} : job'[v] = job[v]
      /\ job'[w] \in Jobs /\ job'[w].instance = i /\ job'[w].ip = registered[i]
  BY <1>1, <1>3, <1>4 DEF TypeOK, Jobs
<1> QED
  BY <1>1, <1>2, <1>4, <1>5 DEF TypeOK

\* Every step keeps the types.
LEMMA TypeStep == IInv /\ [Next]_vars => TypeOK'
<1> SUFFICES ASSUME IInv, [Next]_vars PROVE TypeOK'
  OBVIOUS
<1>0. TypeOK
  BY DEF IInv
<1>1. ASSUME NEW i \in Instances, NEW ip \in IPs, RegisterInstance(i, ip)
      PROVE  TypeOK'
  BY <1>0, <1>1 DEF RegisterInstance, TypeOK, history
<1>2. ASSUME NEW w \in Workers, NEW c \in Creds, NEW k \in Keys,
             NEW i \in Instances \cup {None}, Request(w, c, k, i)
      PROVE  TypeOK'
  BY <1>0, <1>2 DEF Request, Jobs, TypeOK, stores, history
<1>3. ASSUME NEW w \in Workers, ResolveInstance(w)
      PROVE  TypeOK'
  BY <1>0, <1>3, ResolveEffect DEF TypeOK, stores, history
<1>4. ASSUME NEW w \in Workers, ResolveFails(w)
      PROVE  TypeOK'
  BY <1>0, <1>4 DEF ResolveFails, Finish, TypeOK, stores, history
<1>5. ASSUME NEW w \in Workers, Answer(w)
      PROVE  TypeOK'
  <2>1. job[w].cred \in Creds /\ job[w].instance \in Instances
    BY <1>5, JobFacts DEF Answer
  <2> QED
    BY <1>0, <1>5, <2>1 DEF Answer, Finish, TypeOK, history
<1>6. ASSUME NEW w \in Workers, StoreCredentials(w)
      PROVE  TypeOK'
  <2>1. /\ job[w].cred \in Creds /\ Ends(w, "binding")
        /\ credentials' \in [Creds -> Stored \cup {NoStored}]
        /\ UNCHANGED <<registered, bindings, published, confirmed>>
    BY <1>6, StoreCredentialsEffect
  <2>2. overlapped' \in SUBSET Creds
    BY <1>0, <1>6, <2>1 DEF StoreCredentials, TypeOK
  <2>3. /\ pc' \in [Workers -> {"idle", "resolve", "credentials", "binding",
                                "notify", "answer"}]
        /\ job' \in [Workers -> Jobs \cup {NoJob}] /\ interrupted' \in SUBSET Creds
    BY <1>0, <2>1, EndsEffect
  <2> QED
    BY <1>0, <2>1, <2>2, <2>3 DEF TypeOK
<1>7. ASSUME NEW w \in Workers, StoreBinding(w)
      PROVE  TypeOK'
  <2>1. /\ job[w].cred \in Creds /\ Ends(w, "notify")
        /\ bindings' \in [Creds -> Bindings \cup {NoBinding}]
        /\ UNCHANGED <<registered, credentials, published, confirmed, overlapped>>
    BY <1>7, StoreBindingEffect
  <2>2. /\ pc' \in [Workers -> {"idle", "resolve", "credentials", "binding",
                                "notify", "answer"}]
        /\ job' \in [Workers -> Jobs \cup {NoJob}] /\ interrupted' \in SUBSET Creds
    BY <1>0, <2>1, EndsEffect
  <2> QED
    BY <1>0, <2>1, <2>2 DEF TypeOK
<1>8. ASSUME NEW w \in Workers, NotifyInstanceUpdate(w)
      PROVE  TypeOK'
  <2>1. /\ job[w].cred \in Creds /\ Ends(w, "answer")
        /\ published' \in [Instances -> [Creds -> Keys \cup {None}]]
        /\ UNCHANGED <<registered, credentials, bindings, confirmed, overlapped>>
    BY <1>8, NotifyEffect
  <2>2. /\ pc' \in [Workers -> {"idle", "resolve", "credentials", "binding",
                                "notify", "answer"}]
        /\ job' \in [Workers -> Jobs \cup {NoJob}] /\ interrupted' \in SUBSET Creds
    BY <1>0, <2>1, EndsEffect
  <2> QED
    BY <1>0, <2>1, <2>2 DEF TypeOK
<1>9. CASE Crash
  BY <1>0, <1>9 DEF Crash, TypeOK, stores
<1>10. CASE UNCHANGED vars
  BY <1>0, <1>10 DEF vars, TypeOK, stores, history
<1> QED
  BY <1>1, <1>2, <1>3, <1>4, <1>5, <1>6, <1>7, <1>8, <1>9, <1>10 DEF Next, Assign

\* Progress survives a step of w in which the stores lose nothing, the other
\* requests stay where they are, and w is idle or where it may say so.
LEMMA ProgressFrame ==
    ASSUME NEW w \in Workers, IInv, TypeOK',
           \A v \in Workers \ {w} : pc'[v] = pc[v] /\ job'[v] = job[v],
           \A c \in Creds : credentials[c] # NoStored => credentials'[c] # NoStored,
           \A c \in Creds : bindings[c] # NoBinding => bindings'[c] # NoBinding,
           \A c \in Creds, i \in Instances :
                published[i][c] # None => published'[i][c] # None,
           \A c \in Creds : bindings'[c] # NoBinding => credentials'[c] # NoStored,
           pc'[w] # "idle" => job'[w] \in Jobs,
           pc'[w] \in {"credentials", "binding", "notify", "answer"} =>
                job'[w].instance \in Instances /\ job'[w].ip \in IPs,
           pc'[w] \in {"binding", "notify", "answer"} => credentials'[job'[w].cred] # NoStored,
           pc'[w] \in {"notify", "answer"} => bindings'[job'[w].cred] # NoBinding,
           pc'[w] = "answer" => published'[job'[w].instance][job'[w].cred] # None
    PROVE  Progress'
<1>1. ASSUME NEW v \in Workers, v # w
      PROVE  /\ pc'[v] # "idle" => job'[v] \in Jobs
             /\ pc'[v] \in {"credentials", "binding", "notify", "answer"} =>
                    job'[v].instance \in Instances /\ job'[v].ip \in IPs
             /\ pc'[v] \in {"binding", "notify", "answer"} => credentials'[job'[v].cred] # NoStored
             /\ pc'[v] \in {"notify", "answer"} => bindings'[job'[v].cred] # NoBinding
             /\ pc'[v] = "answer" => published'[job'[v].instance][job'[v].cred] # None
  <2>1. pc'[v] = pc[v] /\ job'[v] = job[v]
    BY <1>1
  <2>2. pc[v] # "idle" => job[v] \in Jobs /\ job[v].cred \in Creds
    BY DEF IInv, Progress, Jobs
  <2> QED
    BY <2>1, <2>2 DEF IInv, Progress
<1> QED
  BY <1>1 DEF Progress

\* Every step keeps what the positions of the requests imply.
LEMMA ProgressStep == IInv /\ [Next]_vars => Progress'
<1> SUFFICES ASSUME IInv, [Next]_vars PROVE Progress'
  OBVIOUS
<1>0. TypeOK /\ TypeOK' /\ Progress
  BY TypeStep DEF IInv
<1>1. ASSUME NEW i \in Instances, NEW ip \in IPs, RegisterInstance(i, ip)
      PROVE  Progress'
  BY <1>0, <1>1 DEF RegisterInstance, Progress
<1>2. ASSUME NEW w \in Workers, NEW c \in Creds, NEW k \in Keys,
             NEW i \in Instances \cup {None}, Request(w, c, k, i)
      PROVE  Progress'
  <2>1. /\ pc'[w] = "resolve" /\ job'[w] \in Jobs
        /\ \A v \in Workers \ {w} : pc'[v] = pc[v] /\ job'[v] = job[v]
        /\ UNCHANGED stores
    BY <1>0, <1>2 DEF Request, Jobs, TypeOK
  <2> QED
    BY <1>0, <2>1, ProgressFrame DEF stores, Progress
<1>3. ASSUME NEW w \in Workers, ResolveInstance(w)
      PROVE  Progress'
  <2>1. /\ \A v \in Workers \ {w} : pc'[v] = pc[v] /\ job'[v] = job[v]
        /\ pc'[w] = "credentials" /\ job'[w] \in Jobs
        /\ job'[w].instance \in Instances /\ job'[w].ip \in IPs
        /\ UNCHANGED stores
    BY <1>3, ResolveEffect
  <2> QED
    BY <1>0, <2>1, ProgressFrame DEF stores, Progress
<1>4. ASSUME NEW w \in Workers, ResolveFails(w) \/ Answer(w)
      PROVE  Progress'
  <2>1. /\ \A v \in Workers \ {w} : pc'[v] = pc[v] /\ job'[v] = job[v]
        /\ pc'[w] = "idle"
        /\ UNCHANGED <<credentials, bindings, published>>
    BY <1>0, <1>4 DEF ResolveFails, Answer, Finish, TypeOK, stores
  <2> QED
    BY <1>0, <2>1, ProgressFrame DEF Progress
<1>5. ASSUME NEW w \in Workers, StoreCredentials(w)
      PROVE  Progress'
  <2>1. /\ pc[w] = "credentials" /\ job[w].cred \in Creds /\ Ends(w, "binding")
        /\ \A c \in Creds : credentials[c] # NoStored => credentials'[c] # NoStored
        /\ UNCHANGED <<bindings, published>>
    BY <1>5, StoreCredentialsEffect
  <2>2. /\ \A v \in Workers \ {w} : pc'[v] = pc[v] /\ job'[v] = job[v]
        /\ pc'[w] = "idle" \/ (pc'[w] = "binding" /\ job'[w] = job[w])
    BY <1>0, <2>1, EndsEffect
  <2>3. pc'[w] = "binding" => credentials'[job[w].cred] # NoStored
    <3>1. [instance |-> job[w].instance, key |-> job[w].key] # NoStored
      BY <2>1, NewValues
    <3> QED
      BY <1>5, <3>1, StoreCredentialsEffect
  <2>4. job[w] \in Jobs /\ job[w].instance \in Instances /\ job[w].ip \in IPs
    BY <2>1, JobFacts
  <2> QED
    BY <1>0, <2>1, <2>2, <2>3, <2>4, ProgressFrame DEF Progress
<1>6. ASSUME NEW w \in Workers, StoreBinding(w)
      PROVE  Progress'
  <2>1. /\ pc[w] = "binding" /\ job[w].cred \in Creds /\ Ends(w, "notify")
        /\ \A c \in Creds \ {job[w].cred} : bindings'[c] = bindings[c]
        /\ bindings' = bindings \/ bindings'[job[w].cred] # NoBinding
        /\ pc'[w] = "notify" => bindings'[job[w].cred] # NoBinding
        /\ UNCHANGED <<credentials, published>>
    BY <1>6, StoreBindingEffect
  <2>2. /\ \A v \in Workers \ {w} : pc'[v] = pc[v] /\ job'[v] = job[v]
        /\ pc'[w] = "idle" \/ (pc'[w] = "notify" /\ job'[w] = job[w])
    BY <1>0, <2>1, EndsEffect
  <2>3. /\ job[w] \in Jobs /\ job[w].instance \in Instances /\ job[w].ip \in IPs
        /\ credentials[job[w].cred] # NoStored
    BY <1>0, <2>1, JobFacts DEF Progress
  <2>4. /\ \A c \in Creds : bindings[c] # NoBinding => bindings'[c] # NoBinding
        /\ \A c \in Creds : bindings'[c] # NoBinding => credentials'[c] # NoStored
    BY <1>0, <2>1, <2>3 DEF Progress
  <2> QED
    BY <1>0, <2>1, <2>2, <2>3, <2>4, ProgressFrame
<1>7. ASSUME NEW w \in Workers, NotifyInstanceUpdate(w)
      PROVE  Progress'
  <2>1. /\ pc[w] = "notify" /\ job[w].cred \in Creds /\ Ends(w, "answer")
        /\ \A i \in Instances, c \in Creds :
             published[i][c] # None => published'[i][c] # None
        /\ pc'[w] = "answer" => published'[job[w].instance][job[w].cred] # None
        /\ UNCHANGED <<credentials, bindings>>
    BY <1>7, NotifyEffect
  <2>2. /\ \A v \in Workers \ {w} : pc'[v] = pc[v] /\ job'[v] = job[v]
        /\ pc'[w] = "idle" \/ (pc'[w] = "answer" /\ job'[w] = job[w])
    BY <1>0, <2>1, EndsEffect
  <2>3. /\ job[w] \in Jobs /\ job[w].instance \in Instances /\ job[w].ip \in IPs
        /\ credentials[job[w].cred] # NoStored /\ bindings[job[w].cred] # NoBinding
        /\ \A c \in Creds : bindings'[c] # NoBinding => credentials'[c] # NoStored
    BY <1>0, <2>1, JobFacts DEF Progress
  <2> QED
    BY <1>0, <2>1, <2>2, <2>3, ProgressFrame
<1>8. CASE Crash
  BY <1>0, <1>8 DEF Crash, Progress, stores
<1>9. CASE UNCHANGED vars
  BY <1>0, <1>9 DEF vars, Progress, stores
<1> QED
  BY <1>1, <1>2, <1>3, <1>4, <1>5, <1>6, <1>7, <1>8, <1>9 DEF Next, Assign

\* IInv is an invariant of the assignments, by induction on their steps.
THEOREM Invariance == Spec => []IInv
<1>1. IInv /\ [Next]_vars => IInv'
  BY TypeStep, ProgressStep DEF IInv
<1> QED
  BY <1>1, InitIInv, PTL DEF Spec

\* Every variable of the assignments keeps its type.
THEOREM TypeCorrect == Spec => []TypeOK
<1>1. IInv => TypeOK
  BY DEF IInv
<1> QED
  BY <1>1, Invariance, PTL

-----------------------------------------------------------------------------
\* A step that leaves c alone in the stores and in the requests writing it
\* keeps its story.
LEMMA UntornFrame ==
    ASSUME NEW c \in Creds, Untorn(c), Writing(c)' = Writing(c),
           \A v \in Writing(c) : pc'[v] = pc[v] /\ job'[v] = job[v],
           credentials'[c] = credentials[c], bindings'[c] = bindings[c],
           \A i \in Instances : published'[i][c] = published[i][c],
           credentials[c] # NoStored => credentials[c].instance \in Instances
    PROVE  Untorn(c)'
<1>1. OneStory(c) => OneStory(c)'
  BY DEF OneStory
<1> QED
  BY <1>1 DEF Untorn

\* A request for another credential leaves the writers of c alone.
LEMMA WritingFrame ==
    ASSUME NEW w \in Workers, NEW c \in Creds,
           \A v \in Workers \ {w} : pc'[v] = pc[v] /\ job'[v] = job[v],
           w \notin Writing(c), w \notin Writing(c)'
    PROVE  /\ Writing(c)' = Writing(c)
           /\ \A v \in Writing(c) : pc'[v] = pc[v] /\ job'[v] = job[v]
  BY DEF Writing

LEMMA StoryStep == IInv /\ StoryInv /\ [Next]_vars => StoryInv'
<1> SUFFICES ASSUME IInv, StoryInv, [Next]_vars,
                    NEW c \in Creds, c \notin interrupted' \cup overlapped'
             PROVE  Untorn(c)'
  BY DEF StoryInv
<1>0. /\ TypeOK /\ TypeOK'
      /\ credentials[c] # NoStored => credentials[c].instance \in Instances
  BY TypeStep DEF IInv, TypeOK, Stored
<1>1. c \notin interrupted \cup overlapped => Untorn(c)
  BY DEF StoryInv
<1>2. ASSUME NEW w \in Workers, c \notin interrupted \cup overlapped,
             \A v \in Workers \ {w} : pc'[v] = pc[v] /\ job'[v] = job[v],
             w \notin Writing(c), w \notin Writing(c)',
             credentials'[c] = credentials[c], bindings'[c] = bindings[c],
             \A i \in Instances : published'[i][c] = published[i][c]
      PROVE  Untorn(c)'
  BY <1>0, <1>1, <1>2, WritingFrame, UntornFrame
<1>3. ASSUME NEW i \in Instances, NEW ip \in IPs, RegisterInstance(i, ip)
      PROVE  Untorn(c)'
  <2>1. UNCHANGED <<credentials, bindings, published, pc, job, history>>
    BY <1>3 DEF RegisterInstance
  <2>2. Writing(c)' = Writing(c) /\ c \notin interrupted \cup overlapped
    BY <2>1 DEF Writing, history
  <2> QED
    BY <1>0, <1>1, <2>1, <2>2, UntornFrame
<1>4. ASSUME NEW w \in Workers,
             \/ \E d \in Creds, k \in Keys, i \in Instances \cup {None} : Request(w, d, k, i)
             \/ ResolveInstance(w) \/ ResolveFails(w) \/ Answer(w)
      PROVE  Untorn(c)'
  <2>1. /\ UNCHANGED <<credentials, bindings, published, history>>
        /\ pc[w] \notin {"binding", "notify"}
    BY <1>4 DEF Request, ResolveInstance, ResolveFails, Answer, stores
  <2>2. /\ \A v \in Workers \ {w} : pc'[v] = pc[v] /\ job'[v] = job[v]
        /\ pc'[w] \notin {"binding", "notify"}
    <3>1. CASE ResolveInstance(w)
      BY <3>1, ResolveEffect
    <3>2. CASE ~ResolveInstance(w)
      BY <1>0, <1>4, <3>2 DEF Request, ResolveFails, Answer, Finish, TypeOK
    <3> QED
      BY <3>1, <3>2
  <2>3. w \notin Writing(c) /\ w \notin Writing(c)' /\ c \notin interrupted \cup overlapped
    BY <2>1, <2>2 DEF Writing, history
  <2> QED
    BY <1>2, <2>1, <2>2, <2>3
<1>5. ASSUME NEW w \in Workers, StoreCredentials(w)
      PROVE  Untorn(c)'
  <2>1. /\ pc[w] = "credentials" /\ job[w].cred \in Creds /\ Ends(w, "binding")
        /\ UNCHANGED <<bindings, published>>
        /\ \A d \in Creds \ {job[w].cred} : credentials'[d] = credentials[d]
        /\ pc'[w] = "binding" =>
             credentials'[job[w].cred] = [instance |-> job[w].instance, key |-> job[w].key]
    BY <1>5, StoreCredentialsEffect
  <2>2. /\ \A v \in Workers \ {w} : pc'[v] = pc[v] /\ job'[v] = job[v]
        /\ pc'[w] = "idle" \/ (pc'[w] = "binding" /\ job'[w] = job[w])
    BY <1>0, <2>1, EndsEffect
  <2>3. /\ c \notin interrupted \cup overlapped
        /\ job[w].cred = c => Writing(c) = {}
    BY <1>5, <2>1 DEF StoreCredentials, Ends
  <2>4. CASE job[w].cred # c
    <3>1. w \notin Writing(c) /\ w \notin Writing(c)'
      BY <2>1, <2>2, <2>4 DEF Writing
    <3> QED
      BY <1>2, <2>1, <2>2, <2>3, <2>4, <3>1
  <2>5. CASE job[w].cred = c
    <3>1. pc'[w] = "binding" /\ job'[w] = job[w]
      <4>1. ~(Finish(w) /\ interrupted' = interrupted \cup {job[w].cred})
        BY <2>5
      <4> QED
        BY <1>0, <2>1, <4>1 DEF Ends, Continue, TypeOK
    <3>2. Writing(c)' = {w}
      BY <2>2, <2>3, <2>5, <3>1 DEF Writing
    <3> QED
      BY <2>1, <2>5, <3>1, <3>2 DEF Untorn
  <2> QED
    BY <2>4, <2>5
<1>6. ASSUME NEW w \in Workers, StoreBinding(w)
      PROVE  Untorn(c)'
  <2>1. /\ pc[w] = "binding" /\ job[w].cred \in Creds /\ Ends(w, "notify")
        /\ UNCHANGED <<credentials, published, overlapped>>
        /\ \A d \in Creds \ {job[w].cred} : bindings'[d] = bindings[d]
        /\ pc'[w] = "notify" =>
             bindings'[job[w].cred] = [instance |-> job[w].instance, ip |-> job[w].ip]
    BY <1>6, StoreBindingEffect
  <2>2. /\ \A v \in Workers \ {w} : pc'[v] = pc[v] /\ job'[v] = job[v]
        /\ pc'[w] = "idle" \/ (pc'[w] = "notify" /\ job'[w] = job[w])
    BY <1>0, <2>1, EndsEffect
  <2>3. c \notin interrupted \cup overlapped
    BY <2>1 DEF Ends
  <2>4. CASE job[w].cred # c
    <3>1. w \notin Writing(c) /\ w \notin Writing(c)'
      BY <2>1, <2>2, <2>4 DEF Writing
    <3> QED
      BY <1>2, <2>1, <2>2, <2>3, <2>4, <3>1
  <2>5. CASE job[w].cred = c
    <3>1. pc'[w] = "notify" /\ job'[w] = job[w]
      <4>1. ~(Finish(w) /\ interrupted' = interrupted \cup {job[w].cred})
        BY <2>5
      <4> QED
        BY <1>0, <2>1, <4>1 DEF Ends, Continue, TypeOK
    <3>2. w \in Writing(c) /\ Untorn(c)
      BY <1>1, <2>1, <2>3, <2>5 DEF Writing
    <3>3. Writing(c) = {w}
      BY <3>2 DEF Untorn
    <3>4. Writing(c)' = {w}
      BY <2>2, <2>5, <3>1, <3>3 DEF Writing
    <3> QED
      BY <2>1, <2>5, <3>1, <3>2, <3>4 DEF Untorn
  <2> QED
    BY <2>4, <2>5
<1>7. ASSUME NEW w \in Workers, NotifyInstanceUpdate(w)
      PROVE  Untorn(c)'
  <2>1. /\ pc[w] = "notify" /\ job[w].cred \in Creds /\ Ends(w, "answer")
        /\ UNCHANGED <<credentials, bindings, overlapped>>
        /\ \A i \in Instances, d \in Creds :
             <<i, d>> # <<job[w].instance, job[w].cred>> => published'[i][d] = published[i][d]
        /\ pc'[w] = "answer" => published'[job[w].instance][job[w].cred] = job[w].key
    BY <1>7, NotifyEffect
  <2>2. /\ \A v \in Workers \ {w} : pc'[v] = pc[v] /\ job'[v] = job[v]
        /\ pc'[w] = "idle" \/ (pc'[w] = "answer" /\ job'[w] = job[w])
    BY <1>0, <2>1, EndsEffect
  <2>3. c \notin interrupted \cup overlapped
    BY <2>1 DEF Ends
  <2>4. CASE job[w].cred # c
    <3>1. w \notin Writing(c) /\ w \notin Writing(c)'
      BY <2>1, <2>2, <2>4 DEF Writing
    <3> QED
      BY <1>2, <2>1, <2>2, <2>3, <2>4, <3>1
  <2>5. CASE job[w].cred = c
    <3>1. pc'[w] = "answer" /\ job'[w] = job[w]
      <4>1. ~(Finish(w) /\ interrupted' = interrupted \cup {job[w].cred})
        BY <2>5
      <4> QED
        BY <1>0, <2>1, <4>1 DEF Ends, Continue, TypeOK
    <3>2. w \in Writing(c) /\ Untorn(c)
      BY <1>1, <2>1, <2>3, <2>5 DEF Writing
    <3>3. Writing(c) = {w}
      BY <3>2 DEF Untorn
    <3>4. Writing(c)' = {}
      BY <2>2, <3>1, <3>3 DEF Writing
    <3>5. /\ credentials[c] = [instance |-> job[w].instance, key |-> job[w].key]
          /\ bindings[c].instance = job[w].instance
      BY <2>1, <3>2 DEF Untorn
    <3>6. OneStory(c)'
      BY <2>1, <2>5, <3>1, <3>5 DEF OneStory
    <3> QED
      BY <3>4, <3>6 DEF Untorn
  <2> QED
    BY <2>4, <2>5
<1>8. CASE Crash
  <2>1. /\ UNCHANGED <<credentials, bindings, published, overlapped>>
        /\ c \notin interrupted /\ Writing(c) = {}
    BY <1>8 DEF Crash, stores
  <2>2. Writing(c)' = {}
    BY <1>8 DEF Crash, Writing
  <2> QED
    BY <1>0, <1>1, <2>1, <2>2, UntornFrame
<1>9. CASE UNCHANGED vars
  <2>1. /\ UNCHANGED <<credentials, bindings, published, pc, job>>
        /\ c \notin interrupted \cup overlapped
    BY <1>9 DEF vars, stores, history
  <2>2. Writing(c)' = Writing(c)
    BY <2>1 DEF Writing
  <2> QED
    BY <1>0, <1>1, <2>1, <2>2, UntornFrame
<1> QED
  BY <1>3, <1>4, <1>5, <1>6, <1>7, <1>8, <1>9 DEF Next, Assign

\* The stores tell one story of every credential whose assignments neither
\* stopped half way nor overlapped, as soon as none is under way.
THEOREM Agreement == Spec => []AgreeUnlessTorn
<1>1. IInv /\ StoryInv /\ [Next]_vars => StoryInv'
  BY StoryStep
<1>2. StoryInv => AgreeUnlessTorn
  BY DEF StoryInv, Untorn, AgreeUnlessTorn
<1> QED
  BY <1>1, <1>2, InitIInv, Invariance, PTL DEF Spec

-----------------------------------------------------------------------------
\* How far a credential has come depends on these alone.
LEMMA LifecycleFrame ==
    UNCHANGED <<credentials, bindings, published, confirmed>> => UNCHANGED Lifecycle!vars
  BY DEF Lifecycle!vars, phase, announced

\* Every step of a request is a step of the life of its credential, or none.
LEMMA LifecycleStep ==
    IInv /\ [Next]_vars => [Lifecycle!Next]_(Lifecycle!vars)
<1> SUFFICES ASSUME IInv, [Next]_vars
             PROVE  [Lifecycle!Next]_(Lifecycle!vars)
  OBVIOUS
<1>0. TypeOK /\ Progress
  BY DEF IInv
<1>1. ASSUME UNCHANGED <<credentials, bindings, published, confirmed>>
      PROVE  [Lifecycle!Next]_(Lifecycle!vars)
  BY <1>1, LifecycleFrame
<1>2. CASE \/ \E i \in Instances, ip \in IPs : RegisterInstance(i, ip)
           \/ Crash \/ UNCHANGED vars
  BY <1>1, <1>2 DEF RegisterInstance, Crash, vars, stores
<1>3. ASSUME NEW w \in Workers,
             \/ \E c \in Creds, k \in Keys, i \in Instances \cup {None} : Request(w, c, k, i)
             \/ ResolveInstance(w) \/ ResolveFails(w)
      PROVE  [Lifecycle!Next]_(Lifecycle!vars)
  BY <1>1, <1>3 DEF Request, ResolveInstance, ResolveFails, stores
<1>4. ASSUME NEW w \in Workers, StoreCredentials(w)
      PROVE  [Lifecycle!Next]_(Lifecycle!vars)
  <2> DEFINE c == job[w].cred
  <2>1. /\ c \in Creds
        /\ UNCHANGED <<bindings, published, confirmed>>
        /\ \A d \in Creds \ {c} : credentials'[d] = credentials[d]
        /\ credentials[c] # NoStored => credentials'[c] # NoStored
    BY <1>4, StoreCredentialsEffect
  <2> HIDE DEF c
  <2>2. UNCHANGED <<announced, confirmed>>
    BY <2>1 DEF announced
  <2>3. CASE phase[c] = "absent" /\ credentials'[c] # NoStored
    <3>1. bindings[c] = NoBinding
      BY <2>1, <2>3 DEF phase
    <3>2. phase' = [phase EXCEPT ![c] = "stored"]
      BY <2>1, <2>3, <3>1 DEF phase
    <3> QED
      BY <2>1, <2>2, <2>3, <3>2 DEF Lifecycle!Next, Lifecycle!Store
  <2>4. CASE ~(phase[c] = "absent" /\ credentials'[c] # NoStored)
    <3>1. phase' = phase
      BY <2>1, <2>4 DEF phase
    <3> QED
      BY <2>2, <3>1 DEF Lifecycle!vars
  <2> QED
    BY <2>3, <2>4
<1>5. ASSUME NEW w \in Workers, StoreBinding(w)
      PROVE  [Lifecycle!Next]_(Lifecycle!vars)
  <2> DEFINE c == job[w].cred
  <2>1. /\ c \in Creds /\ pc[w] = "binding"
        /\ UNCHANGED <<credentials, published, confirmed>>
        /\ \A d \in Creds \ {c} : bindings'[d] = bindings[d]
        /\ bindings' = bindings \/ bindings'[c] # NoBinding
    BY <1>5, StoreBindingEffect
  <2>2. UNCHANGED <<announced, confirmed>>
    BY <2>1 DEF announced
  <2>3. credentials[c] # NoStored
    BY <1>0, <2>1 DEF Progress
  <2> HIDE DEF c
  <2>4. CASE bindings' = bindings
    BY <1>1, <2>1, <2>4
  <2>5. CASE phase[c] = "stored" /\ bindings'[c] # NoBinding
    <3>1. phase' = [phase EXCEPT ![c] = "bound"]
      BY <2>1, <2>5 DEF phase
    <3> QED
      BY <2>1, <2>2, <2>5, <3>1 DEF Lifecycle!Next, Lifecycle!Bind
  <2>6. CASE phase[c] # "stored" /\ bindings'[c] # NoBinding
    <3>1. bindings[c] # NoBinding
      BY <2>1, <2>3, <2>6 DEF phase
    <3>2. phase' = phase
      BY <2>1, <2>6, <3>1 DEF phase
    <3> QED
      BY <2>2, <3>2 DEF Lifecycle!vars
  <2> QED
    BY <2>1, <2>4, <2>5, <2>6
<1>6. ASSUME NEW w \in Workers, NotifyInstanceUpdate(w)
      PROVE  [Lifecycle!Next]_(Lifecycle!vars)
  <2> DEFINE c == job[w].cred
             i == job[w].instance
  <2>1. /\ c \in Creds /\ i \in Instances /\ pc[w] = "notify"
        /\ UNCHANGED <<credentials, bindings, confirmed>>
        /\ \A j \in Instances, d \in Creds :
             <<j, d>> # <<i, c>> => published'[j][d] = published[j][d]
        /\ published' = published \/ published'[i][c] # None
    BY <1>6, NotifyEffect
  <2>2. bindings[c] # NoBinding
    BY <1>0, <2>1 DEF Progress
  <2> HIDE DEF c, i
  <2>3. CASE published' = published
    BY <1>1, <2>1, <2>3
  <2>4. CASE published'[i][c] # None
    <3>1. announced' = announced \cup {<<c, i>>}
      BY <2>1, <2>4 DEF announced
    <3>2. phase[c] = "bound" /\ UNCHANGED <<phase, confirmed>>
      BY <2>1, <2>2 DEF phase
    <3> QED
      BY <2>1, <3>1, <3>2 DEF Lifecycle!Next, Lifecycle!Announce
  <2> QED
    BY <2>1, <2>3, <2>4
<1>7. ASSUME NEW w \in Workers, Answer(w)
      PROVE  [Lifecycle!Next]_(Lifecycle!vars)
  <2> DEFINE c == job[w].cred
             i == job[w].instance
  <2>1. /\ c \in Creds /\ i \in Instances /\ pc[w] = "answer"
        /\ UNCHANGED <<credentials, bindings, published>>
        /\ confirmed' = confirmed \cup {<<c, i>>}
    BY <1>7, JobFacts DEF Answer
  <2>2. published[i][c] # None
    BY <1>0, <2>1 DEF Progress
  <2> HIDE DEF c, i
  <2>3. <<c, i>> \in announced /\ UNCHANGED <<phase, announced>>
    BY <2>1, <2>2 DEF announced, phase
  <2> QED
    BY <2>1, <2>3 DEF Lifecycle!Next, Lifecycle!Confirm
<1> QED
  BY <1>2, <1>3, <1>4, <1>5, <1>6, <1>7 DEF Next, Assign

\* Assignments implement the life of a credential.
THEOREM Refinement == Spec => ImplementsLifecycle
<1>1. Init => Lifecycle!Init
  BY AssignmentAssumption DEF Init, Lifecycle!Init, phase, announced, NoStored, NoBinding
<1>2. IInv /\ [Next]_vars => [Lifecycle!Next]_(Lifecycle!vars)
  BY LifecycleStep
<1> QED
  BY <1>1, <1>2, Invariance, PTL DEF Spec, ImplementsLifecycle, Lifecycle!Spec

\* What a confirmed assignment has left: the credential is stored and bound, and
\* the instance of the answer was told of it.
ConfirmedIsKept ==
    \A ci \in confirmed :
        /\ credentials[ci[1]] # NoStored /\ bindings[ci[1]] # NoBinding
        /\ published[ci[2]][ci[1]] # None

\* No failure, crash or overlap takes back what was confirmed: read off the life
\* of a credential, which the assignments implement.
THEOREM ConfirmedKept == Spec => []ConfirmedIsKept
<1> DEFINE Order == /\ \A ci \in announced : phase[ci[1]] = "bound"
                    /\ confirmed \subseteq announced
<1>1. Init => Order
  BY AssignmentAssumption DEF Init, announced
<1>2. IInv /\ Order /\ [Next]_vars => Order'
  <2> SUFFICES ASSUME IInv, Order, [Next]_vars PROVE Order'
    OBVIOUS
  <2>1. CASE UNCHANGED Lifecycle!vars
    BY <2>1 DEF Lifecycle!vars
  <2>2. ASSUME NEW c \in Creds, Lifecycle!Store(c) \/ Lifecycle!Bind(c)
        PROVE  Order'
    <3>1. \A d \in Creds : phase[d] = "bound" => phase'[d] = "bound"
      BY <2>2 DEF Lifecycle!Store, Lifecycle!Bind, phase
    <3>2. announced' = announced /\ confirmed' = confirmed
      BY <2>2 DEF Lifecycle!Store, Lifecycle!Bind
    <3> QED
      BY <3>1, <3>2 DEF announced
  <2>3. ASSUME NEW c \in Creds, NEW i \in Instances,
               Lifecycle!Announce(c, i) \/ Lifecycle!Confirm(c, i)
        PROVE  Order'
    BY <2>3 DEF Lifecycle!Announce, Lifecycle!Confirm
  <2> QED
    BY <2>1, <2>2, <2>3, LifecycleStep DEF Lifecycle!Next
<1>3. IInv /\ Order => ConfirmedIsKept
  <2> SUFFICES ASSUME IInv, Order, NEW ci \in confirmed
               PROVE  /\ credentials[ci[1]] # NoStored /\ bindings[ci[1]] # NoBinding
                      /\ published[ci[2]][ci[1]] # None
    BY DEF ConfirmedIsKept
  <2>1. ci[1] \in Creds /\ ci \in announced /\ phase[ci[1]] = "bound"
    BY DEF announced
  <2>2. bindings[ci[1]] # NoBinding /\ published[ci[2]][ci[1]] # None
    BY <2>1 DEF phase, announced
  <2> QED
    BY <2>1, <2>2 DEF IInv, Progress
<1> QED
  BY <1>1, <1>2, <1>3, Invariance, PTL DEF Spec

=============================================================================
