--------------------------- MODULE JobFeedProofs ----------------------------
(***************************************************************************)
(* Proofs about JobFeed, for any number of jobs, connections and slots of  *)
(* the channel.                                                            *)
(*                                                                         *)
(* A subscription and a first job may cross in many ways.  What holds      *)
(* throughout is that a miner without a job is still going to be sent one: *)
(* by the poll loop, from the channel or by the broadcast that runs.       *)
(***************************************************************************)
EXTENDS JobFeed, TLAPS

(* a subscribed miner that was not yet sent what there is to send *)
Waiting(c) ==
  /\ up[c] /\ stage[c] = "idle" /\ current # None
  /\ job[c] = None \/ told[c] = None

Due(c) == unsent # None \/ queue # << >> \/ c \in batch.todo

(* how far the two senders of a connection have come *)
Senders ==
  \A c \in Conns :
    /\ ~up[c] => stage[c] = "new"
    /\ up[c] => listening
    /\ stage[c] \in {"record", "write"} => hand[c] # None
    /\ stage[c] = "write" => job[c] # None
    /\ batch.at = c => job[c] # None

IInv == FeedTypeOK /\ Senders /\ \A c \in Conns : Waiting(c) => Due(c)

-----------------------------------------------------------------------------
(* At the start there is neither a job nor a connection. *)
LEMMA InitInvariant == FeedInit => IInv
<1> SUFFICES ASSUME FeedInit PROVE IInv
  OBVIOUS
<1>1. << >> \in Seq(Jobs) /\ Len(<< >>) = 0
  OBVIOUS
<1>2. FeedTypeOK
  <2>1. tpl \in Templates
    BY TemplatesAssumption DEF FeedInit, Templates
  <2>2. queue \in Seq(Jobs) /\ Len(queue) <= QueueCap
    BY <1>1, QueueCapAssumption DEF FeedInit
  <2>3. /\ batch \in [job : Jobs \cup {None}, todo : SUBSET Conns, at : Conns \cup {None}]
        /\ batch.todo = {} /\ batch.at = None
    BY DEF FeedInit
  <2> QED BY <2>1, <2>2, <2>3 DEF FeedInit, FeedTypeOK
<1>3. Senders /\ \A c \in Conns : Waiting(c) => Due(c)
  BY NoneAssumption DEF FeedInit, Senders, Waiting, Due
<1> QED BY <1>2, <1>3 DEF IInv

(* The poll loop: a job that is made is due until it is in the channel.    *)
LEMMA MakerStep ==
  ASSUME IInv, ChainMoves \/ (\E j \in Jobs : Poll(j)) \/ Notify \/ Listen
  PROVE  IInv'
<1> USE TemplatesAssumption, QueueCapAssumption, NoneAssumption
<1>1. CASE ChainMoves
  BY <1>1 DEF ChainMoves, castVars, connVars, IInv, FeedTypeOK, Senders,
              Waiting, Due, Templates
<1>2. CASE \E j \in Jobs : Poll(j)
  BY <1>2 DEF Poll, castVars, connVars, IInv, FeedTypeOK, Senders, Waiting, Due
<1>3. CASE Notify
  <2>1. /\ unsent \in Jobs /\ unsent' = None /\ Send(unsent)
        /\ UNCHANGED <<tpl, current, listening, batch, connVars>>
    BY <1>3 DEF Notify, IInv, FeedTypeOK
  <2>2. queue' \in Seq(Jobs) /\ Len(queue') <= QueueCap
    BY <2>1 DEF Send, IInv, FeedTypeOK
  <2>3. listening => queue' # << >>
    BY <2>1 DEF Send, IInv, FeedTypeOK
  <2>4. FeedTypeOK' /\ Senders'
    BY <2>1, <2>2 DEF IInv, FeedTypeOK, Senders, connVars
  <2>5. \A c \in Conns : Waiting(c)' => Due(c)'
    BY <2>1, <2>3 DEF IInv, Senders, Waiting, Due, connVars
  <2> QED BY <2>4, <2>5 DEF IInv
<1>4. CASE Listen
  BY <1>4 DEF Listen, makerVars, connVars, IInv, FeedTypeOK, Senders, Waiting, Due
<1> QED BY <1>1, <1>2, <1>3, <1>4

(* The broadcaster: whoever is up is listed, and is struck off the list    *)
(* only with a job recorded and told.                                      *)
LEMMA BroadcastStep ==
  ASSUME IInv, Broadcaster
  PROVE  IInv'
<1> USE QueueCapAssumption, NoneAssumption
<1>1. CASE TakeJob
  <2>1. /\ queue # << >> /\ queue \in Seq(Jobs)
        /\ batch' = [job |-> Head(queue), todo |-> Listed, at |-> None]
        /\ queue' = Tail(queue) /\ UNCHANGED <<makerVars, listening, connVars>>
    BY <1>1 DEF TakeJob, IInv, FeedTypeOK
  <2>2. /\ Head(queue) \in Jobs /\ Tail(queue) \in Seq(Jobs)
        /\ Len(Tail(queue)) <= QueueCap /\ Listed \subseteq Conns
    BY <2>1 DEF IInv, FeedTypeOK, Listed
  <2>3. FeedTypeOK' /\ Senders'
    BY <2>1, <2>2 DEF IInv, FeedTypeOK, Senders, makerVars, connVars
  <2>4. \A c \in Conns : Waiting(c)' => Due(c)'
    BY <2>1 DEF Waiting, Due, Listed, connVars
  <2> QED BY <2>3, <2>4 DEF IInv
<1>2. ASSUME NEW c \in Conns, CastRecord(c)
      PROVE  IInv'
  <2>1. /\ c \in batch.todo /\ batch' = [batch EXCEPT !.at = c] /\ batch.job \in Jobs
        /\ job' = [job EXCEPT ![c] = batch.job]
        /\ UNCHANGED <<makerVars, queue, listening, up, stage, hand, told>>
    BY <1>2 DEF CastRecord, IInv, FeedTypeOK
  <2>2. FeedTypeOK'
    BY <2>1 DEF IInv, FeedTypeOK, makerVars
  <2>3. Senders'
    BY <2>1 DEF IInv, FeedTypeOK, Senders
  <2>4. \A d \in Conns : Waiting(d)' => Due(d)'
    BY <2>1 DEF IInv, FeedTypeOK, Waiting, Due, makerVars
  <2> QED BY <2>2, <2>3, <2>4 DEF IInv
<1>3. ASSUME NEW c \in Conns, CastWrite(c)
      PROVE  IInv'
  <2>1. /\ batch.at = c /\ batch.job \in Jobs
        /\ batch' = [batch EXCEPT !.at = None, !.todo = @ \ {c}]
        /\ told' = [told EXCEPT ![c] = batch.job]
        /\ UNCHANGED <<makerVars, queue, listening, up, stage, hand, job>>
    BY <1>3 DEF CastWrite, IInv, FeedTypeOK
  <2>2. FeedTypeOK'
    <3>1. batch' \in [job : Jobs \cup {None}, todo : SUBSET Conns, at : Conns \cup {None}]
      BY <2>1 DEF IInv, FeedTypeOK
    <3>2. batch'.at = None /\ batch'.job = batch.job
      BY <2>1 DEF IInv, FeedTypeOK
    <3>3. told' \in [Conns -> Jobs \cup {None}]
      BY <2>1 DEF IInv, FeedTypeOK
    <3> QED BY <2>1, <3>1, <3>2, <3>3 DEF IInv, FeedTypeOK, makerVars
  <2>3. Senders'
    BY <2>1 DEF IInv, FeedTypeOK, Senders
  <2>4. \A d \in Conns : Waiting(d)' => Due(d)'
    BY <2>1 DEF IInv, FeedTypeOK, Senders, Waiting, Due, makerVars
  <2> QED BY <2>2, <2>3, <2>4 DEF IInv
<1> QED BY <1>1, <1>2, <1>3 DEF Broadcaster

(* A connection: its handler is done with a subscription when the socket   *)
(* has a job, or when there was none.                                      *)
LEMMA ConnStep ==
  ASSUME IInv, NEW c \in Conns, Accept(c) \/ Subscription(c) \/ Hangup(c)
  PROVE  IInv'
<1> USE NoneAssumption
<1>1. CASE Accept(c)
  BY <1>1 DEF Accept, makerVars, castVars, IInv, FeedTypeOK, Senders, Waiting, Due
<1>2. CASE HandleSubscribe(c)
  <2>1. /\ up[c] /\ hand' = [hand EXCEPT ![c] = current]
        /\ stage' = [stage EXCEPT ![c] = IF current = None THEN "idle" ELSE "record"]
        /\ UNCHANGED <<makerVars, castVars, up, job, told>>
    BY <1>2 DEF HandleSubscribe
  <2>2. FeedTypeOK'
    BY <2>1 DEF IInv, FeedTypeOK, makerVars, castVars
  <2>3. Senders'
    BY <2>1 DEF IInv, FeedTypeOK, Senders, castVars
  <2>4. \A d \in Conns : Waiting(d)' => Due(d)'
    BY <2>1 DEF IInv, FeedTypeOK, Waiting, Due, makerVars, castVars
  <2> QED BY <2>2, <2>3, <2>4 DEF IInv
<1>3. CASE SendRecord(c)
  BY <1>3 DEF SendRecord, makerVars, castVars, IInv, FeedTypeOK, Senders, Waiting, Due
<1>4. CASE SendWrite(c)
  BY <1>4 DEF SendWrite, makerVars, castVars, IInv, FeedTypeOK, Senders, Waiting, Due
<1>5. CASE Hangup(c)
  <2>1. /\ batch' = [batch EXCEPT !.todo = @ \ {c}, !.at = IF @ = c THEN None ELSE @]
        /\ up' = [up EXCEPT ![c] = FALSE] /\ stage' = [stage EXCEPT ![c] = "new"]
        /\ hand' = [hand EXCEPT ![c] = None] /\ job' = [job EXCEPT ![c] = None]
        /\ told' = [told EXCEPT ![c] = None]
        /\ UNCHANGED <<makerVars, queue, listening>>
    BY <1>5 DEF Hangup
  <2>2. FeedTypeOK'
    <3>1. batch' \in [job : Jobs \cup {None}, todo : SUBSET Conns, at : Conns \cup {None}]
      BY <2>1 DEF IInv, FeedTypeOK
    <3>2. /\ batch'.job = batch.job /\ batch'.todo = batch.todo \ {c}
          /\ batch'.at # None => batch'.at = batch.at /\ batch.at # c
      BY <2>1 DEF IInv, FeedTypeOK
    <3>3. UNCHANGED <<tpl, current, unsent, queue, listening>>
      BY <2>1 DEF makerVars
    <3> QED BY <2>1, <3>1, <3>2, <3>3 DEF IInv, FeedTypeOK
  <2>3. Senders'
    BY <2>1 DEF IInv, FeedTypeOK, Senders
  <2>4. \A d \in Conns : Waiting(d)' => Due(d)'
    BY <2>1 DEF IInv, FeedTypeOK, Waiting, Due, makerVars
  <2> QED BY <2>2, <2>3, <2>4 DEF IInv
<1> QED BY <1>1, <1>2, <1>3, <1>4, <1>5 DEF Subscription

(* Every step of every goroutine keeps the invariant. *)
LEMMA StepInvariant == IInv /\ [FeedNext]_feedVars => IInv'
<1> SUFFICES ASSUME IInv, [FeedNext]_feedVars PROVE IInv'
  OBVIOUS
<1>1. CASE UNCHANGED feedVars
  BY <1>1 DEF feedVars, makerVars, castVars, connVars, IInv, FeedTypeOK,
              Senders, Waiting, Due
<1>2. CASE FeedNext
  BY <1>2, MakerStep, BroadcastStep, ConnStep DEF FeedNext
<1> QED BY <1>1, <1>2

(* The channel stays within its capacity and holds only jobs that were     *)
(* built, and a broadcaster at rest has nobody left to send to.            *)
THEOREM FeedTyped == FeedSpec => []FeedTypeOK
<1>1. FeedSpec => []IInv
  BY InitInvariant, StepInvariant, PTL DEF FeedSpec
<1>2. IInv => FeedTypeOK
  BY DEF IInv
<1> QED BY <1>1, <1>2, PTL

(* Wherever a subscription meets the first poll, its announcement and the  *)
(* listing of the connections, once everything made is delivered every     *)
(* subscribed miner has a job, also when the channel dropped some.         *)
THEOREM NobodyLeftOut == FeedSpec => []EveryMinerHasWork
<1>1. FeedSpec => []IInv
  BY InitInvariant, StepInvariant, PTL DEF FeedSpec
<1>2. IInv => EveryMinerHasWork
  BY DEF IInv, Waiting, Due, EveryMinerHasWork, Resting
<1> QED BY <1>1, <1>2, PTL

-----------------------------------------------------------------------------
(* The order of the jobs on their way: the broadcast, the channel from its *)
(* head on, the job about to be notified and the daemon's template.        *)

NotAfter(j, t) == j # None => TemplateOf[j] <= t

Ordered ==
  /\ NotAfter(batch.job, tpl) /\ NotAfter(unsent, tpl)
  /\ unsent # None => NotAfter(batch.job, TemplateOf[unsent])
  /\ \A i \in DOMAIN queue :
       /\ TemplateOf[queue[i]] <= tpl
       /\ NotAfter(batch.job, TemplateOf[queue[i]])
       /\ unsent # None => TemplateOf[queue[i]] <= TemplateOf[unsent]
       /\ \A k \in DOMAIN queue : i <= k => TemplateOf[queue[i]] <= TemplateOf[queue[k]]

(* Templates are numbers, and what is under way was built from one.        *)
LEMMA TemplatesType ==
  ASSUME FeedTypeOK
  PROVE  /\ tpl \in Nat /\ \A j \in Jobs : TemplateOf[j] \in Nat
         /\ Len(queue) \in Nat /\ DOMAIN queue = 1..Len(queue)
         /\ \A i \in DOMAIN queue : queue[i] \in Jobs
         /\ batch.job \in Jobs \cup {None} /\ unsent \in Jobs \cup {None}
BY TemplatesAssumption DEF FeedTypeOK, Templates

(* No step of a goroutine lets a job overtake another.                     *)
LEMMA OrderStep == IInv /\ Ordered /\ [FeedNext]_feedVars => Ordered'
<1> SUFFICES ASSUME FeedTypeOK, FeedTypeOK', Ordered, [FeedNext]_feedVars PROVE Ordered'
  BY StepInvariant DEF IInv
<1>0. /\ tpl \in Nat /\ \A j \in Jobs : TemplateOf[j] \in Nat
      /\ Len(queue) \in Nat /\ DOMAIN queue = 1..Len(queue)
      /\ \A i \in DOMAIN queue : queue[i] \in Jobs
      /\ batch.job \in Jobs \cup {None} /\ unsent \in Jobs \cup {None}
      /\ queue \in Seq(Jobs)
  BY TemplatesType DEF FeedTypeOK
<1>1. CASE ChainMoves
  BY <1>0, <1>1 DEF ChainMoves, castVars, Ordered, NotAfter
<1>2. ASSUME NEW j \in Jobs, Poll(j) PROVE Ordered'
  BY <1>0, <1>2 DEF Poll, castVars, Ordered, NotAfter
<1>3. CASE Notify
  <2>1. /\ unsent # None /\ unsent' = None /\ UNCHANGED <<tpl, batch>>
        /\ queue' = queue \/ queue' = Append(queue, unsent)
    BY <1>3 DEF Notify, Send
  <2>2. CASE queue' = queue
    BY <2>1, <2>2 DEF Ordered, NotAfter
  <2>3. CASE queue' = Append(queue, unsent)
    <3>1. /\ DOMAIN queue' = 1..(Len(queue) + 1) /\ queue'[Len(queue) + 1] = unsent
          /\ \A i \in DOMAIN queue : queue'[i] = queue[i]
      BY <1>0, <2>1, <2>3
    <3>2. \A i \in DOMAIN queue' : i \in DOMAIN queue \/ i = Len(queue) + 1
      BY <1>0, <3>1
    <3>3. \A i \in DOMAIN queue' :
            /\ TemplateOf[queue'[i]] <= tpl /\ TemplateOf[queue'[i]] <= TemplateOf[unsent]
            /\ NotAfter(batch.job, TemplateOf[queue'[i]])
      BY <1>0, <2>1, <3>1, <3>2 DEF Ordered, NotAfter
    <3>4. ASSUME NEW i \in DOMAIN queue', NEW k \in DOMAIN queue', i <= k
          PROVE  TemplateOf[queue'[i]] <= TemplateOf[queue'[k]]
      <4>1. CASE k \in DOMAIN queue
        <5>1. i \in DOMAIN queue
          BY <1>0, <3>1, <3>4, <4>1
        <5> QED BY <3>1, <3>4, <4>1, <5>1 DEF Ordered
      <4>2. CASE k = Len(queue) + 1
        BY <3>1, <3>3, <4>2
      <4> QED BY <3>2, <4>1, <4>2
    <3> QED BY <2>1, <3>3, <3>4 DEF Ordered, NotAfter
  <2> QED BY <2>1, <2>2, <2>3
<1>4. CASE TakeJob
  <2>1. /\ queue # << >> /\ batch'.job = Head(queue) /\ queue' = Tail(queue)
        /\ UNCHANGED <<tpl, unsent>>
    BY <1>4 DEF TakeJob, makerVars
  <2>2. /\ batch'.job = queue[1] /\ 1 \in DOMAIN queue
        /\ \A i \in DOMAIN queue' : /\ i \in Nat /\ i + 1 \in DOMAIN queue
                                   /\ queue'[i] = queue[i + 1]
    BY <1>0, <2>1
  <2>3. NotAfter(batch.job, tpl)' /\ NotAfter(unsent, tpl)'
    BY <1>0, <2>1, <2>2 DEF Ordered, NotAfter
  <2>4. unsent' # None => NotAfter(batch'.job, TemplateOf[unsent'])
    BY <1>0, <2>1, <2>2 DEF Ordered, NotAfter
  <2>5. \A i \in DOMAIN queue' :
          /\ TemplateOf[queue'[i]] <= tpl
          /\ NotAfter(batch'.job, TemplateOf[queue'[i]])
          /\ unsent # None => TemplateOf[queue'[i]] <= TemplateOf[unsent]
    BY <1>0, <2>2 DEF Ordered, NotAfter
  <2>6. \A i, k \in DOMAIN queue' : i <= k => TemplateOf[queue'[i]] <= TemplateOf[queue'[k]]
    BY <1>0, <2>2 DEF Ordered
  <2> QED BY <2>1, <2>3, <2>4, <2>5, <2>6 DEF Ordered
<1>5. CASE UNCHANGED <<makerVars, queue>> /\ batch'.job = batch.job
  BY <1>5 DEF makerVars, Ordered, NotAfter
<1>6. ASSUME NEW c \in Conns, CastRecord(c) \/ CastWrite(c) \/ Hangup(c) PROVE Ordered'
  <2>1. batch'.job = batch.job
    BY <1>6 DEF CastRecord, CastWrite, Hangup, FeedTypeOK
  <2> QED BY <1>5, <1>6, <2>1 DEF CastRecord, CastWrite, Hangup, makerVars
<1> QED
  BY <1>1, <1>2, <1>3, <1>4, <1>5, <1>6
  DEF FeedNext, Broadcaster, Listen, Accept, Subscription, HandleSubscribe, SendRecord,
      SendWrite, castVars, feedVars

(* However the poll loop, the daemon and the broadcaster interleave, and   *)
(* whatever a full channel drops: no broadcast is of an older template     *)
(* than the one before it.                                                 *)
THEOREM BroadcastsForward == FeedSpec => BroadcastsInOrder
<1> DEFINE Forward == batch.job # None /\ batch'.job # batch.job
                        => TemplateOf[batch.job] <= TemplateOf[batch'.job]
<1>1. FeedInit => IInv /\ Ordered
  BY InitInvariant DEF FeedInit, Ordered, NotAfter
<1>2. IInv /\ Ordered /\ [FeedNext]_feedVars => (IInv /\ Ordered)'
  BY StepInvariant, OrderStep
<1>3. IInv /\ Ordered /\ [FeedNext]_feedVars => [Forward]_feedVars
  <2> SUFFICES ASSUME FeedTypeOK, Ordered, FeedNext PROVE Forward
    BY DEF IInv
  <2>1. CASE TakeJob
    <3>1. batch'.job = queue[1] /\ 1 \in DOMAIN queue
      BY <2>1 DEF TakeJob, FeedTypeOK
    <3> QED BY <3>1 DEF Ordered, NotAfter
  <2>2. CASE batch'.job = batch.job
    BY <2>2
  <2>3. ASSUME NEW c \in Conns, CastRecord(c) \/ CastWrite(c) \/ Hangup(c) PROVE Forward
    BY <2>3 DEF CastRecord, CastWrite, Hangup, FeedTypeOK
  <2> QED BY <2>1, <2>2, <2>3
    DEF FeedNext, Broadcaster, ChainMoves, Poll, Notify, Listen, Accept, Subscription,
        HandleSubscribe, SendRecord, SendWrite, castVars
<1> QED BY <1>1, <1>2, <1>3, PTL DEF FeedSpec, BroadcastsInOrder
=============================================================================
