-------------------- MODULE CredentialDistributionProofs --------------------
(***************************************************************************)
(* Proofs about CredentialDistribution for any number of credentials,      *)
(* exchanges, instances and requests: what an instance holds, whatever     *)
(* Redis loses and whoever dies.                                           *)
(***************************************************************************)
EXTENDS CredentialDistribution, CredentialQueryProofs, SequenceTheorems

\* The answer of a query leads back to bindings.
Known ==
    /\ \A c \in mine : bindings[c] # NoBinding
    /\ qpc = "credentials" => toRead \subseteq mine
    /\ \A a \in answer : a[1] \in mine

Assigned(c) == credentials[c] # NoStored /\ bindings[c] # NoBinding

\* A holding that instance i was told to use for exchange e.
Announced(i, e, h) ==
    Assigned(h[1]) /\ ExchangeOf[h[2]] = e /\ published[i][h[1]] # None

HeldGood ==
    \A i \in Instances : \A e \in Labels : held[i][e] # <<>> =>
        IF e = Unnamed THEN Assigned(held[i][e][1]) ELSE Announced(i, e, held[i][e])

InboxGood ==
    \A i \in Instances : \A n \in 1 .. Len(inbox[i]) : inbox[i][n].action = "add" =>
        /\ inbox[i][n].value \in Holdings
        /\ Announced(i, inbox[i][n].exchange, inbox[i][n].value)

\* An instance that has not restored anything yet holds nothing.
ColdInv == \A i \in Instances : stage[i] \in {"down", "restoring"} => held[i] = Nothing

\* Once instance i has handled what it received, it holds v for e.
Settled(i, e, v) ==
    \/ /\ \A n \in 1 .. Len(inbox[i]) : inbox[i][n].exchange # e
       /\ held[i][e] = v
    \/ \E n \in 1 .. Len(inbox[i]) :
         /\ inbox[i][n].exchange = e /\ Said(inbox[i][n]) = v
         /\ \A m \in n + 1 .. Len(inbox[i]) : inbox[i][m].exchange # e

ReachedInv ==
    \A i \in Instances, e \in Exchanges : Settled(i, e, reached[i][e])

\* If the last message of an exchange was heard and announced c, then c was not
\* announced for this exchange with another key since.
HeardInv ==
    \A i \in Instances : \A e \in heard[i] : \A c \in Creds :
        /\ reached[i][e] # <<>> /\ reached[i][e][1] = c
        /\ published[i][c] # None /\ ExchangeOf[published[i][c]] = e
        => reached[i][e][2] = published[i][c]

DInv ==
    /\ QInv /\ StoryInv /\ DTypeOK /\ Known
    /\ HeldGood /\ InboxGood /\ ColdInv /\ ReachedInv /\ HeardInv

-----------------------------------------------------------------------------

LEMMA EmptyIsNoHolding == <<>> \notin Holdings
<1> SUFFICES ASSUME NEW c \in Creds, NEW k \in Keys, <<>> = <<c, k>> PROVE FALSE
  BY DEF Holdings
<1>1. Len(<<c, k>>) = 2 /\ Len(<<>>) = 0
  OBVIOUS
<1> QED
  BY <1>1

LEMMA InitDInv == DInit => DInv
<1> SUFFICES ASSUME DInit PROVE DInv
  OBVIOUS
<1>1. QInv /\ StoryInv
  BY InitQInv, InitIInv DEF DInit, QInit
<1>2. DTypeOK
  BY DistributionAssumption DEF DInit, DTypeOK, Nothing, Untold, Stages
<1>3. Known
  BY DEF DInit, QInit, Known
<1>4. HeldGood /\ InboxGood /\ ColdInv /\ HeardInv
  BY DEF DInit, HeldGood, Nothing, InboxGood, ColdInv, HeardInv
<1>5. ReachedInv
  BY DEF DInit, ReachedInv, Settled, Nothing, Untold, Labels
<1> QED
  BY <1>1, <1>2, <1>3, <1>4, <1>5 DEF DInv

\* For good: what is stored, bound or announced is so ever after, under another
\* value perhaps.
LEMMA ForGood ==
  ASSUME IInv, [Next]_vars
  PROVE  /\ \A c \in Creds : credentials[c] # NoStored => credentials'[c] # NoStored
         /\ \A c \in Creds : bindings[c] # NoBinding => bindings'[c] # NoBinding
         /\ \A i \in Instances, c \in Creds :
              published[i][c] # None => published'[i][c] # None
<1>1. \A c \in Creds : credentials[c] # NoStored => credentials'[c] # NoStored
  BY StoredForGood
<1>2. ASSUME NEW w \in Workers, StoreBinding(w)
      PROVE  \A c \in Creds : bindings[c] # NoBinding => bindings'[c] # NoBinding
  BY <1>2, StoreBindingEffect
<1>3. UNCHANGED bindings \/ \E w \in Workers : StoreBinding(w)
  BY DEF Next, Assign, RegisterInstance, Request, ResolveInstance, ResolveFails,
     StoreCredentials, NotifyInstanceUpdate, Answer, Crash, vars, stores
<1>4. ASSUME NEW w \in Workers, NotifyInstanceUpdate(w),
             NEW i \in Instances, NEW c \in Creds, published[i][c] # None
      PROVE  published'[i][c] # None
  BY <1>4, NotifyEffect
<1>5. UNCHANGED published \/ \E w \in Workers : NotifyInstanceUpdate(w)
  BY DEF Next, Assign, RegisterInstance, Request, ResolveInstance, ResolveFails,
     StoreCredentials, StoreBinding, Answer, Crash, vars, stores
<1> QED
  BY <1>1, <1>2, <1>3, <1>4, <1>5

\* A step seen by the access manager is one of its own, or none.
LEMMA ManagerStep ==
  ASSUME QInv, [DNext]_dvars
  PROVE  [QNext]_<<vars, query, quiet>> /\ [Next]_vars
<1>0. quiet \in BOOLEAN
  BY DEF QInv, QTypeOK
<1>1. ASSUME NEW i \in Instances, Manager(i)
      PROVE  [QNext]_<<vars, query, quiet>>
  BY <1>1 DEF Manager, RestoreBegins, RestoreFails, Subscribe, Disconnect, HandleUpdate,
     InstanceDies, QNext, Query
<1>2. ASSUME AnswerArrives
      PROVE  [QNext]_<<vars, query, quiet>>
  BY <1>2 DEF AnswerArrives, QNext, Query
<1>3. ASSUME Answering /\ UNCHANGED <<vars, instance>>
      PROVE  [QNext]_<<vars, query, quiet>>
  BY <1>3 DEF Answering, QNext, Query
<1>4. ASSUME NEW w \in Workers, Announce(w)
      PROVE  [QNext]_<<vars, query, quiet>>
  <2>1. Next
    BY <1>4 DEF Announce, Next, Assign
  <2>2. UNCHANGED <<credentials, bindings>> /\ UNCHANGED query /\ quiet' = quiet
    BY <1>4 DEF Announce, NotifyInstanceUpdate, query
  <2>3. quiet' = (quiet /\ UNCHANGED <<credentials, bindings>>)
    BY <1>0, <2>2
  <2> QED
    BY <2>1, <2>2, <2>3 DEF QNext, Elsewhere
<1>5. ASSUME NEW i \in Instances, NEW e \in Exchanges, Withdraw(i, e)
      PROVE  [QNext]_<<vars, query, quiet>>
  BY <1>5 DEF Withdraw
<1>6. ASSUME Unannounced /\ WatchStores /\ UNCHANGED <<query, instance>>
      PROVE  [QNext]_<<vars, query, quiet>>
  BY <1>6 DEF Unannounced, WatchStores, QNext, Elsewhere, Next, Assign
<1>7. ASSUME UNCHANGED dvars
      PROVE  [QNext]_<<vars, query, quiet>>
  BY <1>7 DEF dvars
<1>8. [QNext]_<<vars, query, quiet>>
  BY <1>1, <1>2, <1>3, <1>4, <1>5, <1>6, <1>7 DEF DNext
<1>9. [Next]_vars
  BY <1>8 DEF QNext, Elsewhere
<1> QED
  BY <1>8, <1>9

\* The stores and the query keep what the instances rely on.
LEMMA KnownStep ==
  ASSUME QInv, Known, [QNext]_<<vars, query, quiet>>
  PROVE  Known'
<1>0. QTypeOK /\ Reading /\ IInv
  BY DEF QInv
<1>1. ASSUME Elsewhere PROVE Known'
  BY <1>0, <1>1, ForGood DEF Elsewhere, Known, query, QTypeOK
<1>2. ASSUME NEW i \in Instances, ListBindings(i), UNCHANGED vars PROVE Known'
  BY <1>2 DEF ListBindings, Known
<1>3. ASSUME NEW c \in Creds, ReadBinding(c), UNCHANGED vars PROVE Known'
  <2>1. asker \in Instances /\ asker # None
    BY <1>0, <1>3, AssignmentAssumption DEF ReadBinding, Reading
  <2>2. BoundTo(c, asker) => bindings[c] # NoBinding
    BY <2>1 DEF BoundTo, NoBinding
  <2> QED
    BY <1>3, <2>2 DEF ReadBinding, Known, vars, stores
<1>4. ASSUME NEW c \in Creds, ReadCredentials(c), UNCHANGED vars PROVE Known'
  BY <1>4 DEF ReadCredentials, Known, vars, stores
<1>5. ASSUME BindingsRead \/ CredentialsRead \/ NextQuery, UNCHANGED vars PROVE Known'
  BY <1>5 DEF BindingsRead, CredentialsRead, NextQuery, Known, vars, stores
<1>6. ASSUME UNCHANGED <<vars, query, quiet>> PROVE Known'
  BY <1>6 DEF Known, vars, stores, query
<1> QED
  BY <1>1, <1>2, <1>3, <1>4, <1>5, <1>6 DEF QNext, Query


-----------------------------------------------------------------------------
(***************************************************************************)
(* What the steps do to what an instance holds and has received.           *)
(***************************************************************************)
LEMMA UpdateFacts ==
  ASSUME NEW u \in Updates
  PROVE  /\ u.action \in {"add", "remove"} /\ u.exchange \in Exchanges
         /\ u.value \in Holdings \cup {<<>>}
         /\ Said(u) \in Holdings \cup {<<>>}
         /\ Said(u) = IF u.action = "remove" THEN <<>> ELSE u.value
  BY DEF Updates, Said

\* A message is appended, or lost and no longer the one that was heard last.
LEMMA DeliverEffect ==
  ASSUME NEW i \in Instances, NEW u \in Updates, DTypeOK, Deliver(i, u)
  PROVE  /\ inbox' \in [Instances -> Seq(Updates)]
         /\ \A j \in Instances : Len(inbox'[j]) <= ChannelSize
         /\ heard' \in [Instances -> SUBSET Exchanges]
         /\ reached' \in [Instances -> [Exchanges -> Holdings \cup {<<>>}]]
         /\ \A j \in Instances \ {i} :
              inbox'[j] = inbox[j] /\ heard'[j] = heard[j] /\ reached'[j] = reached[j]
         /\ \A e \in Exchanges \ {u.exchange} : reached'[i][e] = reached[i][e]
         /\ heard'[i] \subseteq heard[i] \cup {u.exchange}
         /\ \/ inbox'[i] = Append(inbox[i], u) /\ reached'[i][u.exchange] = Said(u)
            \/ inbox'[i] = inbox[i] /\ reached'[i] = reached[i] /\ u.exchange \notin heard'[i]
<1>0. /\ inbox \in [Instances -> Seq(Updates)] /\ heard \in [Instances -> SUBSET Exchanges]
      /\ reached \in [Instances -> [Exchanges -> Holdings \cup {<<>>}]]
      /\ \A j \in Instances : Len(inbox[j]) <= ChannelSize
      /\ ChannelSize \in Nat
      /\ inbox[i] \in Seq(Updates) /\ u.exchange \in Exchanges
      /\ Said(u) \in Holdings \cup {<<>>}
  BY UpdateFacts, DistributionAssumption DEF DTypeOK
<1>1. Append(inbox[i], u) \in Seq(Updates) /\ Len(Append(inbox[i], u)) = Len(inbox[i]) + 1
  BY <1>0, AppendProperties
<1>2. CASE /\ stage[i] = "listening" /\ Len(inbox[i]) < ChannelSize
           /\ inbox' = [inbox EXCEPT ![i] = Append(inbox[i], u)]
           /\ heard' = [heard EXCEPT ![i] = heard[i] \cup {u.exchange}]
           /\ reached' = [reached EXCEPT ![i][u.exchange] = Said(u)]
  <2>1. Len(inbox[i]) + 1 <= ChannelSize
    BY <1>0, <1>2
  <2>2. heard' \in [Instances -> SUBSET Exchanges]
    BY <1>0, <1>2
  <2>3. /\ reached' \in [Instances -> [Exchanges -> Holdings \cup {<<>>}]]
        /\ \A j \in Instances \ {i} : reached'[j] = reached[j]
        /\ \A e \in Exchanges \ {u.exchange} : reached'[i][e] = reached[i][e]
        /\ reached'[i][u.exchange] = Said(u)
    BY <1>0, <1>2
  <2>4. /\ inbox' \in [Instances -> Seq(Updates)] /\ inbox'[i] = Append(inbox[i], u)
        /\ \A j \in Instances \ {i} : inbox'[j] = inbox[j]
    BY <1>0, <1>1, <1>2
  <2>5. \A j \in Instances : Len(inbox'[j]) <= ChannelSize
    BY <1>0, <1>1, <2>1, <2>4
  <2>6. heard'[i] = heard[i] \cup {u.exchange} /\ \A j \in Instances \ {i} : heard'[j] = heard[j]
    BY <1>0, <1>2
  <2> QED
    BY <2>2, <2>3, <2>4, <2>5, <2>6
<1>3. CASE /\ heard' = [heard EXCEPT ![i] = heard[i] \ {u.exchange}]
           /\ UNCHANGED <<inbox, reached>>
  <2>1. /\ heard' \in [Instances -> SUBSET Exchanges] /\ heard'[i] = heard[i] \ {u.exchange}
        /\ \A j \in Instances \ {i} : heard'[j] = heard[j]
    BY <1>0, <1>3
  <2> QED
    BY <1>0, <1>3, <2>1
<1> QED
  BY <1>2, <1>3 DEF Deliver

LEMMA NotificationIsUpdate ==
  ASSUME NEW w \in Workers, QInv, Announce(w)
  PROVE  /\ Notification(w) \in Updates
         /\ job[w].cred \in Creds /\ job[w].key \in Keys /\ job[w].instance \in Instances
         /\ Notification(w).action = "add"
         /\ Notification(w).exchange = ExchangeOf[job[w].key]
         /\ Notification(w).value = <<job[w].cred, job[w].key>>
         /\ <<job[w].cred, job[w].key>> \in Holdings
         /\ Assigned(job[w].cred)
<1>1. IInv /\ pc[w] = "notify"
  BY DEF QInv, Announce, NotifyInstanceUpdate
<1>2. job[w].cred \in Creds /\ job[w].key \in Keys /\ job[w].instance \in Instances
  BY <1>1, JobFacts
<1>3. Assigned(job[w].cred)
  BY <1>1 DEF IInv, Progress, Assigned
<1>4. ExchangeOf[job[w].key] \in Exchanges
  BY <1>2, DistributionAssumption
<1>5. <<job[w].cred, job[w].key>> \in Holdings
  BY <1>2 DEF Holdings
<1> QED
  BY <1>2, <1>3, <1>4, <1>5 DEF Notification, Updates

\* The head of the inbox is handled: one label changes.
LEMMA HandleEffect ==
  ASSUME NEW i \in Instances, DTypeOK, HandleUpdate(i)
  PROVE  /\ inbox[i] \in Seq(Updates) /\ inbox[i] # <<>>
         /\ Len(inbox[i]) \in Nat /\ Len(inbox[i]) >= 1
         /\ inbox[i][1] \in Updates /\ Head(inbox[i]) = inbox[i][1]
         /\ inbox' \in [Instances -> Seq(Updates)]
         /\ inbox'[i] = Tail(inbox[i]) /\ Len(inbox'[i]) = Len(inbox[i]) - 1
         /\ \A n \in 1 .. Len(inbox[i]) - 1 : inbox'[i][n] = inbox[i][n + 1]
         /\ held' \in [Instances -> [Labels -> Holdings \cup {<<>>}]]
         /\ \A j \in Instances \ {i} : held'[j] = held[j] /\ inbox'[j] = inbox[j]
         /\ \A e \in Labels \ {inbox[i][1].exchange} : held'[i][e] = held[i][e]
         /\ held'[i][inbox[i][1].exchange] = Said(inbox[i][1])
         /\ UNCHANGED <<heard, reached>>
<1>0. /\ inbox \in [Instances -> Seq(Updates)] /\ inbox[i] \in Seq(Updates) /\ inbox[i] # <<>>
      /\ held \in [Instances -> [Labels -> Holdings \cup {<<>>}]]
      /\ inbox' = [inbox EXCEPT ![i] = Tail(inbox[i])]
      /\ UNCHANGED <<heard, reached>>
  BY DEF DTypeOK, HandleUpdate
<1>1. /\ Len(inbox[i]) \in Nat /\ Len(inbox[i]) >= 1
      /\ inbox[i][1] \in Updates /\ Head(inbox[i]) = inbox[i][1]
      /\ Tail(inbox[i]) \in Seq(Updates) /\ Len(Tail(inbox[i])) = Len(inbox[i]) - 1
      /\ \A n \in 1 .. Len(inbox[i]) - 1 : Tail(inbox[i])[n] = inbox[i][n + 1]
  BY <1>0, SMT
<1>2. PICK u \in Updates : u = inbox[i][1]
  BY <1>1
<1>3. u.exchange \in Labels /\ Said(u) \in Holdings \cup {<<>>}
  BY UpdateFacts DEF Labels
<1>4. held' = [held EXCEPT ![i][u.exchange] = Said(u)]
  BY <1>1, <1>2 DEF HandleUpdate
<1>5. /\ held' \in [Instances -> [Labels -> Holdings \cup {<<>>}]]
      /\ \A j \in Instances \ {i} : held'[j] = held[j]
      /\ \A e \in Labels \ {u.exchange} : held'[i][e] = held[i][e]
      /\ held'[i][u.exchange] = Said(u)
  BY <1>0, <1>3, <1>4
<1>6. /\ inbox' \in [Instances -> Seq(Updates)] /\ inbox'[i] = Tail(inbox[i])
      /\ \A j \in Instances \ {i} : inbox'[j] = inbox[j]
  BY <1>0, <1>1
<1> QED
  BY <1>0, <1>1, <1>2, <1>5, <1>6

\* Restored credentials end under the empty exchange id.
LEMMA AnswerEffect ==
  ASSUME QInv, DTypeOK, AnswerArrives
  PROVE  /\ held' \in [Instances -> [Labels -> Holdings \cup {<<>>}]]
         /\ UNCHANGED <<inbox, heard, reached>>
         /\ \A i \in Instances, e \in Labels :
              \/ held'[i][e] = held[i][e]
              \/ /\ e = Unnamed /\ stage[i] = "restoring"
                 /\ \E a \in answer : held'[i][e] = <<a[1], a[2].key>>
<1>0. /\ held \in [Instances -> [Labels -> Holdings \cup {<<>>}]]
      /\ UNCHANGED <<inbox, heard, reached>>
  BY DEF DTypeOK, AnswerArrives
<1>1. CASE UNCHANGED held
  BY <1>0, <1>1
<1>2. CASE /\ stage[asker] = "restoring"
           /\ \E h \in Filed(asker) : held' = [held EXCEPT ![asker] = h]
  <2>1. PICK h \in Filed(asker) : held' = [held EXCEPT ![asker] = h]
    BY <1>2
  <2>2. asker \in Instances
    BY DEF QInv, Reading, AnswerArrives, NextQuery
  <2>3. h \in [Labels -> Holdings \cup {<<>>}]
    BY DEF Filed
  <2>4. ASSUME NEW e \in Labels
        PROVE  \/ h[e] = held[asker][e]
               \/ e = Unnamed /\ \E a \in answer : h[e] = <<a[1], a[2].key>>
    BY DEF Filed, RestoredLabel
  <2> QED
    BY <1>0, <1>2, <2>1, <2>2, <2>3, <2>4
<1> QED
  BY <1>1, <1>2 DEF AnswerArrives

LEMMA DTypeStep ==
  ASSUME QInv, DTypeOK, [DNext]_dvars
  PROVE  DTypeOK'
<1>0. /\ stage \in [Instances -> Stages]
      /\ held \in [Instances -> [Labels -> Holdings \cup {<<>>}]]
      /\ inbox \in [Instances -> Seq(Updates)]
      /\ \A i \in Instances : Len(inbox[i]) <= ChannelSize
      /\ heard \in [Instances -> SUBSET Exchanges]
      /\ reached \in [Instances -> [Exchanges -> Holdings \cup {<<>>}]]
  BY DEF DTypeOK
<1>1. ASSUME NEW i \in Instances,
             RestoreBegins(i) \/ RestoreFails(i) \/ Subscribe(i) \/ Disconnect(i)
      PROVE  DTypeOK'
  BY <1>0, <1>1 DEF DTypeOK, Stages, Enter, RestoreBegins, RestoreFails, Subscribe, Disconnect
<1>2. ASSUME NEW i \in Instances, HandleUpdate(i) PROVE DTypeOK'
  <2>1. stage' = stage /\ heard' = heard /\ reached' = reached
    BY <1>2 DEF HandleUpdate
  <2>2. \A j \in Instances : Len(inbox'[j]) <= ChannelSize
    <3>1. Len(inbox'[i]) = Len(inbox[i]) - 1 /\ Len(inbox[i]) \in Nat
          /\ \A j \in Instances \ {i} : inbox'[j] = inbox[j]
      BY <1>2, HandleEffect
    <3>2. Len(inbox[i]) <= ChannelSize /\ ChannelSize \in Nat
      BY <1>0, DistributionAssumption
    <3>3. Len(inbox'[i]) <= ChannelSize
      BY <3>1, <3>2
    <3> QED
      BY <1>0, <3>1, <3>3
  <2>3. /\ inbox' \in [Instances -> Seq(Updates)]
        /\ held' \in [Instances -> [Labels -> Holdings \cup {<<>>}]]
    BY <1>2, HandleEffect
  <2> QED
    BY <1>0, <2>1, <2>2, <2>3 DEF DTypeOK
<1>3. ASSUME NEW i \in Instances, InstanceDies(i) PROVE DTypeOK'
  <2>1. Nothing \in [Labels -> Holdings \cup {<<>>}]
    BY DEF Nothing
  <2>2. <<>> \in Seq(Updates) /\ Len(<<>>) <= ChannelSize
    BY DistributionAssumption
  <2>3. stage' \in [Instances -> Stages] /\ heard' \in [Instances -> SUBSET Exchanges]
    BY <1>0, <1>3 DEF InstanceDies, Enter, Stages
  <2>4. held' \in [Instances -> [Labels -> Holdings \cup {<<>>}]]
    BY <1>0, <1>3, <2>1 DEF InstanceDies
  <2>5. /\ inbox' \in [Instances -> Seq(Updates)]
        /\ \A j \in Instances : Len(inbox'[j]) <= ChannelSize
    BY <1>0, <1>3, <2>2 DEF InstanceDies
  <2>6. reached' \in [Instances -> [Exchanges -> Holdings \cup {<<>>}]]
    BY <1>0, <1>3 DEF InstanceDies, Untold
  <2> QED
    BY <2>3, <2>4, <2>5, <2>6 DEF DTypeOK
<1>4. ASSUME AnswerArrives PROVE DTypeOK'
  <2>1. stage' \in [Instances -> Stages]
    BY <1>0, <1>4 DEF AnswerArrives, Enter, Stages
  <2> QED
    BY <1>0, <1>4, <2>1, AnswerEffect DEF DTypeOK
<1>5. ASSUME NEW w \in Workers, Announce(w) PROVE DTypeOK'
  <2>1. stage' = stage /\ held' = held
    BY <1>5 DEF Announce
  <2>2. CASE UNCHANGED <<inbox, heard, reached>>
    BY <1>0, <2>1, <2>2 DEF DTypeOK
  <2>3. CASE Deliver(job[w].instance, Notification(w))
    BY <1>0, <1>5, <2>1, <2>3, NotificationIsUpdate, DeliverEffect DEF DTypeOK
  <2> QED
    BY <1>5, <2>2, <2>3 DEF Announce
<1>6. ASSUME NEW i \in Instances, NEW e \in Exchanges, Withdraw(i, e) PROVE DTypeOK'
  <2>1. [action |-> "remove", exchange |-> e, value |-> <<>>] \in Updates
    BY DEF Updates
  <2>2. stage' = stage /\ held' = held
    BY <1>6 DEF Withdraw
  <2> QED
    BY <1>0, <1>6, <2>1, <2>2, DeliverEffect DEF DTypeOK, Withdraw
<1>7. ASSUME UNCHANGED instance PROVE DTypeOK'
  BY <1>7 DEF instance, DTypeOK
<1> QED
  BY <1>1, <1>2, <1>3, <1>4, <1>5, <1>6, <1>7 DEF DNext, Manager, dvars


LEMMA HoldingFacts ==
  ASSUME NEW h \in Holdings
  PROVE  h[1] \in Creds /\ h[2] \in Keys /\ h = <<h[1], h[2]>>
  BY DEF Holdings

\* What may happen to what an instance holds under a label.
LEMMA HeldChange ==
  ASSUME NEW i \in Instances, NEW e \in Labels, QInv, DTypeOK, [DNext]_dvars
  PROVE  \/ held'[i][e] = held[i][e]
         \/ held'[i][e] = <<>> /\ stage'[i] = "down"
         \/ /\ e = Unnamed /\ stage[i] = "restoring"
            /\ \E a \in answer : held'[i][e] = <<a[1], a[2].key>>
         \/ /\ inbox[i] # <<>> /\ inbox'[i] = Tail(inbox[i])
            /\ 1 \in 1 .. Len(inbox[i]) /\ Head(inbox[i]) = inbox[i][1]
            /\ inbox[i][1] \in Updates /\ inbox[i][1].exchange = e
            /\ held'[i][e] = Said(inbox[i][1])
<1>0. held \in [Instances -> [Labels -> Holdings \cup {<<>>}]] /\ stage \in [Instances -> Stages]
  BY DEF DTypeOK
<1>1. CASE UNCHANGED held
  BY <1>1
<1>2. ASSUME NEW j \in Instances, HandleUpdate(j)
      PROVE  \/ held'[i][e] = held[i][e]
             \/ /\ inbox[i] # <<>> /\ inbox'[i] = Tail(inbox[i])
                /\ 1 \in 1 .. Len(inbox[i]) /\ Head(inbox[i]) = inbox[i][1]
                /\ inbox[i][1] \in Updates /\ inbox[i][1].exchange = e
                /\ held'[i][e] = Said(inbox[i][1])
  <2>1. CASE i # j
    BY <1>2, <2>1, HandleEffect
  <2>2. CASE i = j
    <3>1. /\ inbox[i] # <<>> /\ Len(inbox[i]) \in Nat /\ Len(inbox[i]) >= 1
          /\ Head(inbox[i]) = inbox[i][1]
          /\ inbox[i][1] \in Updates /\ inbox'[i] = Tail(inbox[i])
      BY <1>2, <2>2, HandleEffect
    <3>2. 1 \in 1 .. Len(inbox[i])
      BY <3>1
    <3>3. /\ \A f \in Labels \ {inbox[i][1].exchange} : held'[i][f] = held[i][f]
          /\ held'[i][inbox[i][1].exchange] = Said(inbox[i][1])
      BY <1>2, <2>2, HandleEffect
    <3> QED
      BY <3>1, <3>2, <3>3
  <2> QED
    BY <2>1, <2>2
<1>3. ASSUME NEW j \in Instances, InstanceDies(j)
      PROVE  held'[i][e] = held[i][e] \/ (held'[i][e] = <<>> /\ stage'[i] = "down")
  BY <1>0, <1>3 DEF InstanceDies, Enter, Nothing
<1>4. CASE AnswerArrives
  BY <1>4, AnswerEffect
<1>5. \/ UNCHANGED held \/ AnswerArrives
      \/ \E j \in Instances : HandleUpdate(j) \/ InstanceDies(j)
  BY DEF DNext, Manager, RestoreBegins, RestoreFails, Subscribe, Disconnect, Announce,
     Withdraw, dvars, instance
<1> QED
  BY <1>1, <1>2, <1>3, <1>4, <1>5

\* What was good to hold stays good to hold.
LEMMA AnnouncedForGood ==
  ASSUME QInv, [DNext]_dvars, NEW c \in Creds
  PROVE  /\ Assigned(c) => Assigned(c)'
         /\ \A i \in Instances, e \in Labels, h \in Holdings :
              h[1] = c /\ Announced(i, e, h) => Announced(i, e, h)'
<1>1. IInv /\ [Next]_vars
  BY ManagerStep DEF QInv
<1> QED
  BY <1>1, ForGood DEF Assigned, Announced

LEMMA HeldGoodStep ==
  ASSUME QInv, DTypeOK, Known, HeldGood, InboxGood, [DNext]_dvars
  PROVE  HeldGood'
<1> SUFFICES ASSUME NEW i \in Instances, NEW e \in Labels, held'[i][e] # <<>>
             PROVE  IF e = Unnamed THEN Assigned(held[i][e][1])'
                    ELSE Announced(i, e, held[i][e])'
  BY DEF HeldGood
<1>1. CASE held'[i][e] = held[i][e]
  <2>1. PICK h \in Holdings : h = held[i][e] /\ h = held'[i][e]
    BY <1>1 DEF DTypeOK
  <2>2. h[1] \in Creds
    BY HoldingFacts
  <2>3. IF e = Unnamed THEN Assigned(h[1]) ELSE Announced(i, e, h)
    BY <1>1, <2>1 DEF HeldGood
  <2>4. IF e = Unnamed THEN Assigned(h[1])' ELSE Announced(i, e, h)'
    BY <2>2, <2>3, AnnouncedForGood
  <2> QED
    BY <2>1, <2>4 DEF Assigned, Announced
<1>2. ASSUME NEW a \in answer, e = Unnamed, held'[i][e] = <<a[1], a[2].key>>
      PROVE  Assigned(held[i][e][1])'
  <2>1. PICK c \in Creds : c = a[1] /\ c \in mine
    BY DEF Known, QInv, QTypeOK
  <2>2. Assigned(c)
    BY <2>1 DEF Known, QInv, BoundIsReadable, Assigned
  <2>3. Assigned(c)' /\ held'[i][e][1] = c
    BY <1>2, <2>1, <2>2, AnnouncedForGood
  <2> QED
    BY <2>3 DEF Assigned
<1>3. CASE /\ 1 \in 1 .. Len(inbox[i]) /\ inbox[i][1] \in Updates
           /\ inbox[i][1].exchange = e /\ held'[i][e] = Said(inbox[i][1])
  <2>1. e \in Exchanges /\ e # Unnamed
    BY <1>3, UpdateFacts, DistributionAssumption
  <2>2. inbox[i][1].action = "add" /\ held'[i][e] = inbox[i][1].value
    BY <1>3, UpdateFacts
  <2>3. inbox[i][1].value \in Holdings /\ Announced(i, e, inbox[i][1].value)
    BY <1>3, <2>2 DEF InboxGood
  <2>4. PICK h \in Holdings : h = inbox[i][1].value /\ h = held'[i][e] /\ Announced(i, e, h)
    BY <2>2, <2>3
  <2>5. Announced(i, e, h)'
    BY <2>4, HoldingFacts, AnnouncedForGood
  <2> QED
    BY <2>1, <2>4, <2>5 DEF Assigned, Announced
<1> QED
  BY <1>1, <1>2, <1>3, HeldChange

\* Only the answer to a restoring instance and its messages fill what it holds.
LEMMA ColdStep ==
  ASSUME QInv, DTypeOK, ColdInv, [DNext]_dvars
  PROVE  ColdInv'
<1> SUFFICES ASSUME NEW i \in Instances, stage'[i] \in {"down", "restoring"}
             PROVE  held'[i] = Nothing
  BY DEF ColdInv
<1>0. held \in [Instances -> [Labels -> Holdings \cup {<<>>}]] /\ stage \in [Instances -> Stages]
  BY DEF DTypeOK
<1>1. CASE stage'[i] = stage[i] /\ held'[i] = held[i]
  BY <1>1 DEF ColdInv
<1>2. ASSUME NEW j \in Instances,
             RestoreBegins(j) \/ RestoreFails(j) \/ Subscribe(j) \/ Disconnect(j)
      PROVE  held'[i] = Nothing
  <2>1. UNCHANGED held
    BY <1>2 DEF RestoreBegins, RestoreFails, Subscribe, Disconnect
  <2>2. i # j => stage'[i] = stage[i]
    BY <1>0, <1>2 DEF RestoreBegins, RestoreFails, Subscribe, Disconnect, Enter
  <2>3. i = j => RestoreBegins(i)
    BY <1>0, <1>2 DEF RestoreFails, Subscribe, Disconnect, Enter
  <2> QED
    BY <2>1, <2>2, <2>3 DEF ColdInv, RestoreBegins
<1>3. ASSUME NEW j \in Instances, HandleUpdate(j) PROVE held'[i] = Nothing
  <2>1. stage' = stage /\ stage[j] \notin {"down", "restoring"}
    BY <1>3 DEF HandleUpdate
  <2>2. i # j
    BY <2>1
  <2> QED
    BY <1>1, <1>3, <2>1, <2>2, HandleEffect
<1>4. ASSUME NEW j \in Instances, InstanceDies(j) PROVE held'[i] = Nothing
  BY <1>0, <1>1, <1>4 DEF InstanceDies, Enter
<1>5. CASE AnswerArrives
  <2>1. asker \in Instances
    BY <1>5 DEF QInv, Reading, AnswerArrives, NextQuery
  <2>2. \/ UNCHANGED <<stage, held>>
        \/ /\ stage' = [stage EXCEPT ![asker] = "restored"]
           /\ \E h \in Filed(asker) : held' = [held EXCEPT ![asker] = h]
    BY <1>5 DEF AnswerArrives, Enter
  <2>3. i = asker => UNCHANGED <<stage, held>>
    BY <1>0, <2>1, <2>2
  <2> QED
    BY <1>0, <1>1, <2>1, <2>2, <2>3
<1>6. CASE UNCHANGED <<stage, held>>
  BY <1>1, <1>6
<1>7. \/ UNCHANGED <<stage, held>> \/ AnswerArrives
      \/ \E j \in Instances :
           \/ RestoreBegins(j) \/ RestoreFails(j) \/ Subscribe(j) \/ Disconnect(j)
           \/ HandleUpdate(j) \/ InstanceDies(j)
  BY DEF DNext, Manager, Announce, Withdraw, dvars, instance
<1> QED
  BY <1>2, <1>3, <1>4, <1>5, <1>6, <1>7

\* Only an announcement changes what Redis was told, and it is an "add".
LEMMA AnnounceEffect ==
  ASSUME NEW w \in Workers, QInv, DTypeOK, Announce(w)
  PROVE  /\ \/ UNCHANGED <<inbox, heard, reached>>
            \/ /\ Deliver(job[w].instance, Notification(w))
               /\ published'[job[w].instance][job[w].cred] = job[w].key
         /\ \A i \in Instances, c \in Creds :
              published'[i][c] # published[i][c] =>
                 /\ i = job[w].instance /\ c = job[w].cred
                 /\ published'[i][c] = job[w].key
                 /\ Deliver(job[w].instance, Notification(w))
         /\ job[w].key # None /\ UNCHANGED held
<1>0. /\ IInv /\ NotifyInstanceUpdate(w) /\ UNCHANGED held
      /\ job[w].cred \in Creds /\ job[w].instance \in Instances
      /\ published \in [Instances -> [Creds -> Keys \cup {None}]]
  BY NotificationIsUpdate DEF QInv, Announce, IInv, TypeOK
<1>1. \A i \in Instances, c \in Creds :
        <<i, c>> # <<job[w].instance, job[w].cred>> => published'[i][c] = published[i][c]
  BY <1>0, NotifyEffect
<1>2. job[w].key # None
  BY <1>0, NotifyEffect
<1>3. CASE published' = published /\ UNCHANGED <<inbox, heard, reached>>
  BY <1>0, <1>2, <1>3
<1>4. CASE published' = NewPublished(w) /\ Deliver(job[w].instance, Notification(w))
  <2>1. published'[job[w].instance][job[w].cred] = job[w].key
    BY <1>0, <1>4 DEF NewPublished
  <2> QED
    BY <1>0, <1>1, <1>2, <1>4, <2>1
<1> QED
  BY <1>3, <1>4 DEF Announce

\* What may happen to what an instance has received.
LEMMA InboxChange ==
  ASSUME NEW i \in Instances, QInv, DTypeOK, [DNext]_dvars
  PROVE  \/ inbox'[i] = inbox[i] \/ inbox'[i] = <<>>
         \/ HandleUpdate(i)
         \/ \E u \in Updates :
              /\ inbox'[i] = Append(inbox[i], u)
              /\ u.action = "add" =>
                   u.value \in Holdings /\ Announced(i, u.exchange, u.value)'
<1>0. inbox \in [Instances -> Seq(Updates)]
  BY DEF DTypeOK
<1>1. CASE UNCHANGED inbox
  BY <1>1
<1>2. ASSUME NEW j \in Instances, HandleUpdate(j)
      PROVE  inbox'[i] = inbox[i] \/ HandleUpdate(i)
  BY <1>2, HandleEffect
<1>3. ASSUME NEW j \in Instances, InstanceDies(j)
      PROVE  inbox'[i] = inbox[i] \/ inbox'[i] = <<>>
  BY <1>0, <1>3 DEF InstanceDies
<1>4. ASSUME NEW w \in Workers, Announce(w)
      PROVE  \/ inbox'[i] = inbox[i]
             \/ \E u \in Updates :
                  /\ inbox'[i] = Append(inbox[i], u)
                  /\ u.action = "add" =>
                       u.value \in Holdings /\ Announced(i, u.exchange, u.value)'
  <2>1. CASE UNCHANGED inbox
    BY <2>1
  <2>2. CASE /\ Deliver(job[w].instance, Notification(w))
             /\ published'[job[w].instance][job[w].cred] = job[w].key
    <3>1. PICK c \in Creds, k \in Keys : c = job[w].cred /\ k = job[w].key
      BY <1>4, NotificationIsUpdate
    <3>2. PICK u \in Updates : u = Notification(w)
      BY <1>4, NotificationIsUpdate
    <3>3. u.exchange = ExchangeOf[k] /\ u.value = <<c, k>> /\ <<c, k>> \in Holdings /\ Assigned(c)
      BY <1>4, <3>1, <3>2, NotificationIsUpdate
    <3>4. Assigned(c)'
      BY <3>3, AnnouncedForGood
    <3>5. \/ inbox'[i] = inbox[i]
          \/ i = job[w].instance /\ inbox'[i] = Append(inbox[i], u)
      <4>1. PICK j \in Instances : j = job[w].instance /\ Deliver(j, u)
        BY <1>4, <2>2, <3>2, NotificationIsUpdate
      <4> QED
        BY <4>1, DeliverEffect
    <3>6. i = job[w].instance => published'[i][c] # None
      BY <1>4, <2>2, <3>1, AnnounceEffect
    <3>7. i = job[w].instance => Announced(i, u.exchange, u.value)'
      BY <3>3, <3>4, <3>6 DEF Announced
    <3> QED
      BY <3>3, <3>5, <3>7
  <2> QED
    BY <1>4, <2>1, <2>2, AnnounceEffect
<1>5. ASSUME NEW j \in Instances, NEW e \in Exchanges, Withdraw(j, e)
      PROVE  \/ inbox'[i] = inbox[i]
             \/ \E u \in Updates : inbox'[i] = Append(inbox[i], u) /\ u.action # "add"
  <2>1. PICK u \in Updates : u = [action |-> "remove", exchange |-> e, value |-> <<>>]
    BY DEF Updates
  <2> QED
    BY <1>5, <2>1, DeliverEffect DEF Withdraw
<1>6. \/ UNCHANGED inbox \/ \E j \in Instances : HandleUpdate(j) \/ InstanceDies(j)
      \/ \E w \in Workers : Announce(w)
      \/ \E j \in Instances, e \in Exchanges : Withdraw(j, e)
  BY DEF DNext, Manager, RestoreBegins, RestoreFails, Subscribe, Disconnect, AnswerArrives,
     dvars, instance
<1> QED
  BY <1>1, <1>2, <1>3, <1>4, <1>5, <1>6

LEMMA InboxGoodStep ==
  ASSUME QInv, DTypeOK, InboxGood, [DNext]_dvars
  PROVE  InboxGood'
<1> SUFFICES ASSUME NEW i \in Instances, NEW n \in 1 .. Len(inbox'[i]),
                    inbox'[i][n].action = "add"
             PROVE  /\ inbox'[i][n].value \in Holdings
                    /\ Announced(i, inbox[i][n].exchange, inbox[i][n].value)'
  BY DEF InboxGood
<1>0. inbox[i] \in Seq(Updates) /\ Len(inbox[i]) \in Nat
  BY DEF DTypeOK
\* A message that was there before.
<1>1. ASSUME NEW m \in 1 .. Len(inbox[i]), inbox'[i][n] = inbox[i][m]
      PROVE  /\ inbox'[i][n].value \in Holdings
             /\ Announced(i, inbox[i][n].exchange, inbox[i][n].value)'
  <2>1. PICK u \in Updates : u = inbox[i][m]
    BY <1>0
  <2>2. u.value \in Holdings /\ Announced(i, u.exchange, u.value)
    BY <1>1, <2>1 DEF InboxGood
  <2>3. u.exchange \in Labels /\ u.value[1] \in Creds
    BY <2>2, UpdateFacts, HoldingFacts DEF Labels
  <2>4. Announced(i, u.exchange, u.value)'
    BY <2>2, <2>3, AnnouncedForGood
  <2> QED
    BY <1>1, <2>1, <2>2, <2>4 DEF Announced, Assigned
<1>2. CASE inbox'[i] = inbox[i]
  BY <1>1, <1>2
<1>3. CASE inbox'[i] = <<>>
  BY <1>3
<1>4. CASE HandleUpdate(i)
  <2>1. /\ Len(inbox'[i]) = Len(inbox[i]) - 1
        /\ \A k \in 1 .. Len(inbox[i]) - 1 : inbox'[i][k] = inbox[i][k + 1]
    BY <1>4, HandleEffect
  <2>2. n + 1 \in 1 .. Len(inbox[i]) /\ inbox'[i][n] = inbox[i][n + 1]
    BY <1>0, <2>1
  <2> QED
    BY <1>1, <2>2
<1>5. ASSUME NEW u \in Updates, inbox'[i] = Append(inbox[i], u),
             u.action = "add" =>
               u.value \in Holdings /\ Announced(i, u.exchange, u.value)'
      PROVE  /\ inbox'[i][n].value \in Holdings
             /\ Announced(i, inbox[i][n].exchange, inbox[i][n].value)'
  <2>1. /\ Len(inbox'[i]) = Len(inbox[i]) + 1
        /\ n \in 1 .. Len(inbox[i]) => inbox'[i][n] = inbox[i][n]
        /\ n = Len(inbox[i]) + 1 => inbox'[i][n] = u
    BY <1>0, <1>5, AppendProperties
  <2>2. CASE n = Len(inbox[i]) + 1
    BY <1>5, <2>1, <2>2 DEF Announced, Assigned
  <2>3. CASE n # Len(inbox[i]) + 1
    <3>1. n \in 1 .. Len(inbox[i])
      BY <1>0, <2>1, <2>3
    <3> QED
      BY <1>1, <2>1, <3>1
  <2> QED
    BY <2>2, <2>3
<1> QED
  BY <1>2, <1>3, <1>4, <1>5, InboxChange

-----------------------------------------------------------------------------
(***************************************************************************)
(* The last message of an exchange.                                        *)
(***************************************************************************)
LEMMA SettledFrame ==
  ASSUME NEW i \in Instances, NEW e \in Labels, NEW v,
         inbox'[i] = inbox[i], held'[i][e] = held[i][e], Settled(i, e, v)
  PROVE  Settled(i, e, v)'
  BY DEF Settled, Said

\* A message of another exchange is received.
LEMMA SettledAppend ==
  ASSUME NEW i \in Instances, NEW e \in Labels, NEW v, NEW u \in Updates, DTypeOK,
         inbox'[i] = Append(inbox[i], u), u.exchange # e,
         held'[i][e] = held[i][e], Settled(i, e, v)
  PROVE  Settled(i, e, v)'
<1>0. PICK L \in Nat : L = Len(inbox[i])
  BY DEF DTypeOK
<1>1. /\ Len(inbox'[i]) = L + 1 /\ inbox'[i][L + 1] = u
      /\ \A n \in 1 .. L : inbox'[i][n] = inbox[i][n]
  BY <1>0, AppendProperties DEF DTypeOK
<1>2. CASE /\ \A n \in 1 .. Len(inbox[i]) : inbox[i][n].exchange # e
           /\ held[i][e] = v
  <2>1. \A n \in 1 .. L + 1 : inbox'[i][n].exchange # e
    BY <1>0, <1>1, <1>2
  <2> QED
    BY <1>1, <1>2, <2>1 DEF Settled
<1>3. CASE \E n \in 1 .. Len(inbox[i]) :
             /\ inbox[i][n].exchange = e /\ Said(inbox[i][n]) = v
             /\ \A m \in n + 1 .. Len(inbox[i]) : inbox[i][m].exchange # e
  <2>1. PICK n \in 1 .. L :
             /\ inbox[i][n].exchange = e /\ Said(inbox[i][n]) = v
             /\ \A m \in n + 1 .. L : inbox[i][m].exchange # e
    BY <1>0, <1>3
  <2>2. \A m \in n + 1 .. L + 1 : inbox'[i][m].exchange # e
    BY <1>1, <2>1
  <2>3. n \in 1 .. L + 1 /\ inbox'[i][n] = inbox[i][n]
    BY <1>1
  <2>4. inbox'[i][n].exchange = e /\ Said(inbox[i][n])' = v
    BY <2>1, <2>3 DEF Said
  <2> QED
    BY <1>1, <2>2, <2>3, <2>4 DEF Settled
<1> QED
  BY <1>2, <1>3 DEF Settled

\* A message of the exchange is received.
LEMMA SettledReceived ==
  ASSUME NEW i \in Instances, NEW e \in Labels, NEW u \in Updates, DTypeOK,
         inbox'[i] = Append(inbox[i], u), u.exchange = e
  PROVE  Settled(i, e, Said(u))'
<1>0. PICK L \in Nat : L = Len(inbox[i])
  BY DEF DTypeOK
<1>1. Len(inbox'[i]) = L + 1 /\ inbox'[i][L + 1] = u
  BY <1>0, AppendProperties DEF DTypeOK
<1>2. L + 1 \in 1 .. L + 1 /\ \A m \in (L + 1) + 1 .. L + 1 : FALSE
  OBVIOUS
<1>3. Said(inbox[i][L + 1])' = Said(u)
  BY <1>1 DEF Said
<1> QED
  BY <1>1, <1>2, <1>3 DEF Settled, Said

\* The head of the inbox is handled.
LEMMA SettledHandled ==
  ASSUME NEW i \in Instances, NEW e \in Labels, NEW v, DTypeOK,
         HandleUpdate(i), Settled(i, e, v)
  PROVE  Settled(i, e, v)'
<1>0. PICK L \in Nat : L = Len(inbox[i])
  BY DEF DTypeOK
<1>1. /\ L >= 1 /\ Len(inbox'[i]) = L - 1
      /\ \A n \in 1 .. L - 1 : inbox'[i][n] = inbox[i][n + 1]
      /\ \A f \in Labels \ {inbox[i][1].exchange} : held'[i][f] = held[i][f]
      /\ held'[i][inbox[i][1].exchange] = Said(inbox[i][1])
  BY <1>0, HandleEffect
<1>2. CASE /\ \A n \in 1 .. Len(inbox[i]) : inbox[i][n].exchange # e
           /\ held[i][e] = v
  <2>1. \A n \in 1 .. L - 1 : inbox'[i][n].exchange # e
    BY <1>0, <1>1, <1>2
  <2>2. 1 \in 1 .. Len(inbox[i])
    BY <1>0, <1>1
  <2>3. held'[i][e] = v
    BY <1>1, <1>2, <2>2
  <2> QED
    BY <1>1, <2>1, <2>3 DEF Settled
<1>3. CASE \E n \in 1 .. Len(inbox[i]) :
             /\ inbox[i][n].exchange = e /\ Said(inbox[i][n]) = v
             /\ \A m \in n + 1 .. Len(inbox[i]) : inbox[i][m].exchange # e
  <2>1. PICK n \in 1 .. L :
             /\ inbox[i][n].exchange = e /\ Said(inbox[i][n]) = v
             /\ \A m \in n + 1 .. L : inbox[i][m].exchange # e
    BY <1>0, <1>3
  <2>2. CASE n = 1
    <3>1. \A m \in 1 .. L - 1 : inbox'[i][m].exchange # e
      <4> SUFFICES ASSUME NEW m \in 1 .. L - 1 PROVE inbox'[i][m].exchange # e
        OBVIOUS
      <4>1. m + 1 \in n + 1 .. L
        BY <2>2
      <4> QED
        BY <1>1, <2>1, <4>1
    <3>2. held'[i][e] = v
      BY <1>1, <2>1, <2>2
    <3> QED
      BY <1>1, <3>1, <3>2 DEF Settled
  <2>3. CASE n # 1
    <3>1. n - 1 \in 1 .. L - 1 /\ inbox'[i][n - 1] = inbox[i][n]
      <4>1. n - 1 \in 1 .. L - 1 /\ (n - 1) + 1 = n
        BY <2>3
      <4> QED
        BY <1>1, <4>1
    <3>2. \A m \in (n - 1) + 1 .. L - 1 : inbox'[i][m].exchange # e
      <4> SUFFICES ASSUME NEW m \in (n - 1) + 1 .. L - 1 PROVE inbox'[i][m].exchange # e
        OBVIOUS
      <4>1. m \in 1 .. L - 1 /\ m + 1 \in n + 1 .. L
        BY <2>3
      <4> QED
        BY <1>1, <2>1, <4>1
    <3>3. inbox'[i][n - 1].exchange = e /\ Said(inbox[i][n - 1])' = v
      BY <2>1, <3>1 DEF Said
    <3> QED
      BY <1>1, <3>1, <3>2, <3>3 DEF Settled
  <2> QED
    BY <2>2, <2>3
<1> QED
  BY <1>2, <1>3 DEF Settled

\* An instance that died has received nothing and holds nothing.
LEMMA SettledNothing ==
  ASSUME NEW i \in Instances, NEW e \in Labels, inbox'[i] = <<>>, held'[i][e] = <<>>
  PROVE  Settled(i, e, <<>>)'
  BY DEF Settled

LEMMA ReachedStep ==
  ASSUME QInv, DTypeOK, ReachedInv, [DNext]_dvars
  PROVE  ReachedInv'
<1> SUFFICES ASSUME NEW i \in Instances, NEW e \in Exchanges
             PROVE  Settled(i, e, reached[i][e])'
  BY DEF ReachedInv
<1>0. /\ e \in Labels /\ e # Unnamed
      /\ held \in [Instances -> [Labels -> Holdings \cup {<<>>}]]
      /\ inbox \in [Instances -> Seq(Updates)]
      /\ reached \in [Instances -> [Exchanges -> Holdings \cup {<<>>}]]
  BY DistributionAssumption DEF DTypeOK, Labels
<1>1. PICK v : v = reached[i][e]
  OBVIOUS
<1>2. Settled(i, e, v)
  BY <1>1 DEF ReachedInv
<1>3. ASSUME reached'[i][e] = v, Settled(i, e, v)'
      PROVE  Settled(i, e, reached[i][e])'
  BY <1>3 DEF Settled
<1>4. CASE inbox'[i] = inbox[i] /\ held'[i][e] = held[i][e] /\ reached'[i][e] = reached[i][e]
  BY <1>0, <1>1, <1>2, <1>3, <1>4, SettledFrame
<1>5. ASSUME NEW j \in Instances, HandleUpdate(j)
      PROVE  Settled(i, e, reached[i][e])'
  <2>1. CASE i = j
    <3>1. Settled(i, e, v)'
      BY <1>0, <1>2, <1>5, <2>1, SettledHandled
    <3> QED
      BY <1>1, <1>3, <1>5, <3>1 DEF HandleUpdate
  <2>2. CASE i # j
    BY <1>4, <1>5, <2>2, HandleEffect
  <2> QED
    BY <2>1, <2>2
<1>6. ASSUME NEW j \in Instances, InstanceDies(j)
      PROVE  Settled(i, e, reached[i][e])'
  <2>1. CASE i = j
    <3>1. inbox'[i] = <<>> /\ held'[i][e] = <<>> /\ reached'[i][e] = <<>>
      BY <1>0, <1>6, <2>1 DEF InstanceDies, Nothing, Untold
    <3>2. Settled(i, e, <<>>)'
      BY <1>0, <3>1, SettledNothing
    <3> QED
      BY <3>1, <3>2 DEF Settled
  <2>2. CASE i # j
    BY <1>0, <1>4, <1>6, <2>2 DEF InstanceDies
  <2> QED
    BY <2>1, <2>2
<1>7. ASSUME NEW j \in Instances, NEW u \in Updates, Deliver(j, u), UNCHANGED held
      PROVE  Settled(i, e, reached[i][e])'
  <2>1. CASE i # j \/ (inbox'[i] = inbox[i] /\ reached'[i] = reached[i])
    BY <1>4, <1>7, <2>1, DeliverEffect
  <2>2. CASE /\ i = j /\ inbox'[i] = Append(inbox[i], u)
             /\ reached'[i][u.exchange] = Said(u)
    <3>1. CASE e = u.exchange
      <4>1. Settled(i, e, Said(u))'
        BY <1>0, <1>7, <2>2, <3>1, SettledReceived
      <4> QED
        BY <2>2, <3>1, <4>1 DEF Settled
    <3>2. CASE e # u.exchange
      <4>1. reached'[i][e] = v
        BY <1>1, <1>7, <2>2, <3>2, DeliverEffect
      <4>2. Settled(i, e, v)'
        BY <1>0, <1>2, <1>7, <2>2, <3>2, SettledAppend
      <4> QED
        BY <1>3, <4>1, <4>2
    <3> QED
      BY <3>1, <3>2
  <2> QED
    BY <1>7, <2>1, <2>2, DeliverEffect
<1>8. CASE AnswerArrives
  BY <1>0, <1>4, <1>8, AnswerEffect
<1>9. ASSUME NEW w \in Workers, Announce(w)
      PROVE  Settled(i, e, reached[i][e])'
  <2>1. CASE UNCHANGED <<inbox, heard, reached>>
    BY <1>4, <1>9, <2>1, AnnounceEffect
  <2>2. CASE Deliver(job[w].instance, Notification(w))
    BY <1>7, <1>9, <2>2, NotificationIsUpdate, AnnounceEffect
  <2> QED
    BY <1>9, <2>1, <2>2, AnnounceEffect
<1>10. ASSUME NEW j \in Instances, NEW f \in Exchanges, Withdraw(j, f)
       PROVE  Settled(i, e, reached[i][e])'
  <2>1. PICK u \in Updates : u = [action |-> "remove", exchange |-> f, value |-> <<>>]
    BY DEF Updates
  <2> QED
    BY <1>7, <1>10, <2>1 DEF Withdraw
<1>11. CASE UNCHANGED <<inbox, held, reached>>
  BY <1>4, <1>11
<1>12. \/ UNCHANGED <<inbox, held, reached>> \/ AnswerArrives
       \/ \E j \in Instances : HandleUpdate(j) \/ InstanceDies(j)
       \/ \E w \in Workers : Announce(w)
       \/ \E j \in Instances, f \in Exchanges : Withdraw(j, f)
  BY DEF DNext, Manager, RestoreBegins, RestoreFails, Subscribe, Disconnect, dvars, instance
<1> QED
  BY <1>5, <1>6, <1>8, <1>9, <1>10, <1>11, <1>12

\* Heard of c for e at instance i, as far as HeardInv goes.
HeardOf(i, e, c) ==
    /\ reached[i][e] # <<>> /\ reached[i][e][1] = c
    /\ published[i][c] # None /\ ExchangeOf[published[i][c]] = e
    => reached[i][e][2] = published[i][c]

LEMMA HeardStep ==
  ASSUME QInv, DTypeOK, HeardInv, [DNext]_dvars
  PROVE  HeardInv'
<1> SUFFICES ASSUME NEW i \in Instances, NEW e \in heard'[i], NEW c \in Creds
             PROVE  HeardOf(i, e, c)'
  BY DEF HeardInv, HeardOf
<1>0. /\ DTypeOK' /\ e \in Exchanges /\ e \in Labels
      /\ heard \in [Instances -> SUBSET Exchanges]
  BY DTypeStep DEF DTypeOK, Labels
<1>1. e \in heard[i] => HeardOf(i, e, c)
  BY DEF HeardInv, HeardOf
\* What was heard before, and c was not announced since.
<1>2. CASE /\ e \in heard[i] /\ reached'[i][e] = reached[i][e]
           /\ published'[i][c] = published[i][c]
  BY <1>1, <1>2 DEF HeardOf
<1>3. CASE UNCHANGED <<heard, reached, published>>
  BY <1>2, <1>3
<1>4. ASSUME NEW j \in Instances, InstanceDies(j) PROVE HeardOf(i, e, c)'
  <2>1. e \in heard[i] /\ i # j
    BY <1>0, <1>4 DEF InstanceDies
  <2>2. reached'[i] = reached[i] /\ published' = published
    BY <1>4, <2>1 DEF InstanceDies, DTypeOK, vars, stores
  <2> QED
    BY <1>2, <2>1, <2>2
\* A message is sent to j, who gets it or not.
<1>5. ASSUME NEW j \in Instances, NEW u \in Updates, Deliver(j, u),
             i # j \/ e # u.exchange, published'[i][c] = published[i][c]
      PROVE  HeardOf(i, e, c)'
  BY <1>0, <1>2, <1>5, DeliverEffect
<1>6. ASSUME NEW w \in Workers, Announce(w) PROVE HeardOf(i, e, c)'
  <2>1. PICK j \in Instances, d \in Creds, k \in Keys, u \in Updates :
             /\ j = job[w].instance /\ d = job[w].cred /\ k = job[w].key /\ u = Notification(w)
             /\ u.exchange = ExchangeOf[k] /\ u.action = "add" /\ u.value = <<d, k>>
    BY <1>6, NotificationIsUpdate
  <2>2. CASE UNCHANGED <<inbox, heard, reached>> /\ published'[i][c] = published[i][c]
    BY <1>2, <2>2
  <2>3. CASE Deliver(j, u) /\ published'[i][c] = published[i][c] /\ (i # j \/ e # u.exchange)
    BY <1>5, <2>3
  <2>4. CASE Deliver(j, u) /\ i = j /\ e = u.exchange /\ published'[j][d] = k
    <3>1. reached'[i][e] = Said(u)
      BY <1>0, <2>4, DeliverEffect
    <3>2. reached'[i][e] = <<d, k>>
      BY <2>1, <3>1 DEF Said
    <3> QED
      BY <2>4, <3>2 DEF HeardOf
  <2>5. CASE Deliver(j, u) /\ i = j /\ e # u.exchange /\ c = d /\ published'[j][d] = k
    BY <2>1, <2>5 DEF HeardOf
  <2>6. published'[i][c] # published[i][c] => i = j /\ c = d /\ Deliver(j, u)
    BY <1>6, <2>1, AnnounceEffect
  <2>7. \/ UNCHANGED <<inbox, heard, reached>>
        \/ Deliver(j, u) /\ published'[j][d] = k
    BY <1>6, <2>1, AnnounceEffect
  <2>8. published'[i][c] # published[i][c] => published'[j][d] = k
    BY <1>6, <2>1, AnnounceEffect
  <2> QED
    BY <2>2, <2>3, <2>4, <2>5, <2>6, <2>7, <2>8
<1>7. ASSUME NEW j \in Instances, NEW f \in Exchanges, Withdraw(j, f) PROVE HeardOf(i, e, c)'
  <2>1. PICK u \in Updates : u = [action |-> "remove", exchange |-> f, value |-> <<>>]
    BY DEF Updates
  <2>2. Deliver(j, u) /\ UNCHANGED published
    BY <1>7, <2>1 DEF Withdraw, vars, stores
  <2>3. CASE i = j /\ e = u.exchange
    <3>1. reached'[i][e] = Said(u)
      BY <1>0, <2>2, <2>3, DeliverEffect
    <3>2. reached'[i][e] = <<>>
      BY <2>1, <3>1 DEF Said
    <3> QED
      BY <3>2 DEF HeardOf
  <2> QED
    BY <1>5, <2>2, <2>3
<1>8. ASSUME NEW j \in Instances, Manager(j), ~InstanceDies(j) PROVE HeardOf(i, e, c)'
  <2>1. UNCHANGED <<heard, reached, published>>
    BY <1>8 DEF Manager, RestoreBegins, RestoreFails, Subscribe, Disconnect, HandleUpdate,
       vars, stores
  <2> QED
    BY <1>3, <2>1
<1>9. ASSUME Unannounced /\ UNCHANGED instance PROVE HeardOf(i, e, c)'
  <2>1. UNCHANGED published
    BY <1>9 DEF Unannounced, RegisterInstance, Request, ResolveInstance, ResolveFails,
       StoreCredentials, StoreBinding, Answer, Crash, stores
  <2> QED
    BY <1>3, <1>9, <2>1 DEF instance
<1>10. CASE AnswerArrives
  BY <1>3, <1>10 DEF AnswerArrives, vars, stores
<1>11. CASE UNCHANGED <<vars, instance>>
  BY <1>3, <1>11 DEF instance, vars, stores
<1> QED
  BY <1>4, <1>6, <1>7, <1>8, <1>9, <1>10, <1>11 DEF DNext, dvars

-----------------------------------------------------------------------------

LEMMA DInvStep == DInv /\ [DNext]_dvars => DInv'
<1> SUFFICES ASSUME DInv, [DNext]_dvars PROVE DInv'
  OBVIOUS
<1>0. /\ QInv /\ StoryInv /\ DTypeOK /\ Known
      /\ HeldGood /\ InboxGood /\ ColdInv /\ ReachedInv /\ HeardInv
  BY DEF DInv
<1>1. [QNext]_<<vars, query, quiet>> /\ [Next]_vars
  BY <1>0, ManagerStep
<1>2. QInv' /\ StoryInv'
  BY <1>0, <1>1, QInvStep, StoryStep DEF QInv
<1>3. Known'
  BY <1>0, <1>1, KnownStep
<1> QED
  BY <1>0, <1>2, <1>3, DTypeStep, HeldGoodStep, InboxGoodStep, ColdStep, ReachedStep, HeardStep
     DEF DInv

LEMMA DistributionInvariance == DSpec => []DInv
  BY InitDInv, DInvStep, PTL DEF DSpec

\* What an instance holds, has received and was heard to be told keeps its type.
THEOREM DistributionTypeCorrect == DSpec => []DTypeOK
<1>1. DInv => DTypeOK
  BY DEF DInv
<1> QED
  BY <1>1, DistributionInvariance, PTL

\* Whatever was lost, withdrawn or restarted, an instance holds only credentials
\* that are stored and bound and, under the name of an exchange, only what was
\* sent for that exchange, of a credential that was announced to this instance.
THEOREM InstancesHoldOnlyAssigned == DSpec => []HoldsOnlyAssigned
<1>1. DInv => HoldsOnlyAssigned
  <2> SUFFICES ASSUME DInv, NEW i \in Instances, NEW e \in Labels, held[i][e] # <<>>
               PROVE  /\ Assigned(held[i][e][1])
                      /\ e # Unnamed => ExchangeOf[held[i][e][2]] = e
                                        /\ published[i][held[i][e][1]] # None
    BY DEF HoldsOnlyAssigned, Assigned
  <2> QED
    BY DEF DInv, HeldGood, Announced
<1> QED
  BY <1>1, DistributionInvariance, PTL

\* An instance without unhandled messages holds what the last one told it.
LEMMA HeldIsReached ==
  ASSUME DInv, NEW i \in Instances, NEW e \in Exchanges, inbox[i] = <<>>
  PROVE  held[i][e] = reached[i][e]
<1>1. Settled(i, e, reached[i][e])
  BY DEF DInv, ReachedInv
<1>2. \A n \in 1 .. Len(inbox[i]) : FALSE
  OBVIOUS
<1> QED
  BY <1>1, <1>2 DEF Settled

\* The channel keeps its order: with all messages handled, an instance holds for
\* every exchange what the last message that reached it said of this exchange.
THEOREM InstancesHoldWhatReached == DSpec => []HeldAsReached
<1>1. DInv => HeldAsReached
  BY HeldIsReached DEF HeldAsReached
<1> QED
  BY <1>1, DistributionInvariance, PTL

\* A credential that is stored for an instance and held there for the exchange it
\* is stored for has the key that Vault has, with all messages handled.  Excluded
\* are credentials with an assignment that was torn, overlapped or is under way,
\* and exchanges whose last message was lost.
THEOREM InstancesHoldWhatIsStored == DSpec => []HeldAsStored
<1>1. DInv => HeldAsStored
  <2> SUFFICES ASSUME DInv, NEW i \in Instances, NEW c \in Creds \ (interrupted \cup overlapped),
                      Writing(c) = {}, credentials[c].instance = i, inbox[i] = <<>>,
                      NEW e, e = ExchangeOf[credentials[c].key],
                      e \in heard[i], held[i][e] # <<>>, held[i][e][1] = c
               PROVE  held[i][e][2] = credentials[c].key
    BY DEF HeldAsStored
  <2>1. credentials[c] # NoStored
    BY AssignmentAssumption DEF NoStored
  <2>2. published[i][c] = credentials[c].key
    BY <2>1 DEF DInv, StoryInv, Untorn, OneStory
  <2>3. credentials[c].key \in Keys
    BY <2>1 DEF DInv, QInv, IInv, TypeOK, Stored
  <2>4. e \in Exchanges /\ held[i][e] = reached[i][e]
    BY <2>3, HeldIsReached, DistributionAssumption
  <2>5. published[i][c] # None
    BY <2>2, <2>3, AssignmentAssumption
  <2> QED
    BY <2>2, <2>4, <2>5 DEF DInv, HeardInv
<1> QED
  BY <1>1, DistributionInvariance, PTL

\* What an instance holds for an exchange changes only with a restart or with the
\* message about this exchange that it handles, and goes only with a "remove".
THEOREM HeldUntilTold == DSpec => KeptUntilTold
<1>1. DInv /\ [DNext]_dvars =>
        [\A i \in Instances, e \in Labels :
           held[i][e] # <<>> /\ held'[i][e] # held[i][e] =>
             \/ stage'[i] = "down"
             \/ /\ inbox[i] # <<>> /\ Head(inbox[i]).exchange = e
                /\ inbox'[i] = Tail(inbox[i])
                /\ held'[i][e] = <<>> => Head(inbox[i]).action = "remove"]_dvars
  <2> SUFFICES ASSUME DInv, [DNext]_dvars, NEW i \in Instances, NEW e \in Labels,
                      held[i][e] # <<>>, held'[i][e] # held[i][e]
               PROVE  \/ stage'[i] = "down"
                      \/ /\ inbox[i] # <<>> /\ Head(inbox[i]).exchange = e
                         /\ inbox'[i] = Tail(inbox[i])
                         /\ held'[i][e] = <<>> => Head(inbox[i]).action = "remove"
    OBVIOUS
  <2>0. QInv /\ DTypeOK /\ InboxGood /\ ColdInv
    BY DEF DInv
  <2>1. stage[i] # "restoring"
    BY <2>0 DEF ColdInv, Nothing
  <2>2. CASE /\ inbox[i] # <<>> /\ inbox'[i] = Tail(inbox[i])
             /\ 1 \in 1 .. Len(inbox[i]) /\ Head(inbox[i]) = inbox[i][1]
             /\ inbox[i][1] \in Updates /\ inbox[i][1].exchange = e
             /\ held'[i][e] = Said(inbox[i][1])
    <3>1. inbox[i][1].action = "add" => inbox[i][1].value \in Holdings
      BY <2>0, <2>2 DEF InboxGood
    <3>2. held'[i][e] = <<>> => inbox[i][1].action = "remove"
      BY <2>2, <3>1, UpdateFacts, EmptyIsNoHolding
    <3> QED
      BY <2>2, <3>2
  <2> QED
    BY <2>0, <2>1, <2>2, HeldChange
<1> QED
  BY <1>1, DistributionInvariance, PTL DEF DSpec, KeptUntilTold

=============================================================================
