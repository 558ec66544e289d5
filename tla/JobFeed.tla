------------------------------ MODULE JobFeed -------------------------------
(***************************************************************************)
(* How a job reaches the miners: the poll loop of internal/job/job.go, the *)
(* channel it feeds, the broadcaster and the connection handlers of        *)
(* internal/stratum/server.go.                                             *)
(*                                                                         *)
(* Three kinds of goroutines share the current job and the connections.    *)
(* Whatever happens under one lock, and reads nothing another goroutine    *)
(* writes, is one action; sendJob is two, since it records the job and     *)
(* writes it to the socket under separate acquisitions of the lock.        *)
(*                                                                         *)
(* What a job holds follows from the template it was built from, but for   *)
(* its id: JobFeed leaves open which jobs are built from one template, the *)
(* modules that need ids say so.  The clean flag is left out: no property  *)
(* here tells clean jobs apart.                                            *)
(***************************************************************************)
EXTENDS Integers, Sequences

CONSTANTS
  Jobs,        \* what buildJob can build
  TemplateOf,  \* the template each job is built from
  LastTpl,     \* bound: the daemon goes through the templates 1..LastTpl
  Conns,       \* slots for connections
  QueueCap,    \* capacity of the channel that Subscribe makes: 4
  None

Templates == 1..LastTpl

ASSUME TemplatesAssumption == LastTpl \in Nat \ {0} /\ TemplateOf \in [Jobs -> Templates]
ASSUME QueueCapAssumption  == QueueCap \in Nat \ {0}
ASSUME NoneAssumption      == None \notin Conns \cup Jobs

VARIABLES
  tpl,        \* what the daemon answers now
  current,    \* Maker.current
  unsent,     \* the job Run is about to notify
  queue,      \* the channel of the only subscriber
  listening,  \* ListenAndServe has subscribed
  batch,      \* the job the broadcaster sends, the connections left, the one at hand
  up,         \* Server.conns
  stage,      \* where the handler of each connection stands
  hand,       \* the job handleSubscribe read
  job,        \* Conn.currentJob
  told        \* the last job written to the socket

makerVars == <<tpl, current, unsent>>
castVars  == <<queue, listening, batch>>
connVars  == <<up, stage, hand, job, told>>
feedVars  == <<makerVars, castVars, connVars>>

FeedInit ==
  /\ tpl = 1
  /\ current = None /\ unsent = None
  /\ queue = << >> /\ listening = FALSE
  /\ batch = [job |-> None, todo |-> {}, at |-> None]
  /\ up = [c \in Conns |-> FALSE]
  /\ stage = [c \in Conns |-> "new"]
  /\ hand = [c \in Conns |-> None]
  /\ job = [c \in Conns |-> None]
  /\ told = [c \in Conns |-> None]

-----------------------------------------------------------------------------
(* The daemon sees a block or other transactions: no template comes back. *)
ChainMoves ==
  /\ tpl < LastTpl
  /\ tpl' = tpl + 1
  /\ UNCHANGED <<current, unsent, castVars, connVars>>

(* One round of Run up to the assignment under mu.  A round that fails,    *)
(* in getblocktemplate or in buildJob, changes nothing here.               *)
Poll(j) ==
  /\ unsent = None
  /\ TemplateOf[j] = tpl
  /\ unsent' = j /\ current' = j
  /\ UNCHANGED <<tpl, castVars, connVars>>

(* mutant: a job for the template announced last is not announced *)
SendIfNews(j) ==
  queue' = IF listening /\ Len(queue) < QueueCap /\ batch.job # j
           THEN Append(queue, j) ELSE queue

(* mutant: the capacity is not looked at *)
SendAlways(j) == queue' = IF listening THEN Append(queue, j) ELSE queue

(* mutant: the job goes in front of those that wait *)
SendFirst(j) ==
  queue' = IF listening /\ Len(queue) < QueueCap THEN << j >> \o queue ELSE queue

(* a full channel drops the newest job *)
Send(j) ==
  queue' = IF listening /\ Len(queue) < QueueCap THEN Append(queue, j) ELSE queue

Notify ==
  /\ unsent # None
  /\ Send(unsent)
  /\ unsent' = None
  /\ UNCHANGED <<tpl, current, listening, batch, connVars>>

-----------------------------------------------------------------------------
Listen ==
  /\ ~listening
  /\ listening' = TRUE
  /\ UNCHANGED <<makerVars, queue, batch, connVars>>

Resting == batch.todo = {}

(* mutant: a connection without a job is thought not to have subscribed *)
ListedAtWork == {c \in Conns : up[c] /\ job[c] # None}

Listed == {c \in Conns : up[c]}

(* The broadcaster lists the connections of this moment. *)
TakeJob ==
  /\ Resting
  /\ queue # << >>
  /\ batch' = [job |-> Head(queue), todo |-> Listed, at |-> None]
  /\ queue' = Tail(queue)
  /\ UNCHANGED <<makerVars, listening, connVars>>

(* sendJob of the broadcaster, under the lock and then to the socket *)
CastRecord(c) ==
  /\ batch.at = None /\ c \in batch.todo
  /\ batch' = [batch EXCEPT !.at = c]
  /\ job' = [job EXCEPT ![c] = batch.job]
  /\ UNCHANGED <<makerVars, queue, listening, up, stage, hand, told>>

CastWrite(c) ==
  /\ batch.at = c
  /\ batch' = [batch EXCEPT !.at = None, !.todo = @ \ {c}]
  /\ told' = [told EXCEPT ![c] = batch.job]
  /\ UNCHANGED <<makerVars, queue, listening, up, stage, hand, job>>

-----------------------------------------------------------------------------
Accept(c) ==
  /\ listening /\ ~up[c]
  /\ up' = [up EXCEPT ![c] = TRUE]
  /\ UNCHANGED <<makerVars, castVars, stage, hand, job, told>>

(* handleSubscribe: up to the call of Current, then its own sendJob *)
HandleSubscribe(c) ==
  /\ up[c] /\ stage[c] \in {"new", "idle"}
  /\ hand' = [hand EXCEPT ![c] = current]
  /\ stage' = [stage EXCEPT ![c] = IF current = None THEN "idle" ELSE "record"]
  /\ UNCHANGED <<makerVars, castVars, up, job, told>>

SendRecord(c) ==
  /\ stage[c] = "record"
  /\ job' = [job EXCEPT ![c] = hand[c]]
  /\ stage' = [stage EXCEPT ![c] = "write"]
  /\ UNCHANGED <<makerVars, castVars, up, hand, told>>

SendWrite(c) ==
  /\ stage[c] = "write"
  /\ told' = [told EXCEPT ![c] = hand[c]]
  /\ hand' = [hand EXCEPT ![c] = None]
  /\ stage' = [stage EXCEPT ![c] = "idle"]
  /\ UNCHANGED <<makerVars, castVars, up, job>>

(* The connection ends.  What the broadcaster still does to its object     *)
(* nobody sees; the slot stands for another connection from here on.       *)
Hangup(c) ==
  /\ up[c]
  /\ up' = [up EXCEPT ![c] = FALSE]
  /\ stage' = [stage EXCEPT ![c] = "new"]
  /\ hand' = [hand EXCEPT ![c] = None]
  /\ job' = [job EXCEPT ![c] = None]
  /\ told' = [told EXCEPT ![c] = None]
  /\ batch' = [batch EXCEPT !.todo = @ \ {c}, !.at = IF @ = c THEN None ELSE @]
  /\ UNCHANGED <<makerVars, queue, listening>>

-----------------------------------------------------------------------------
Broadcaster == TakeJob \/ \E c \in Conns : CastRecord(c) \/ CastWrite(c)

Subscription(c) == HandleSubscribe(c) \/ SendRecord(c) \/ SendWrite(c)

FeedNext ==
  \/ ChainMoves
  \/ \E j \in Jobs : Poll(j)
  \/ Notify \/ Listen \/ Broadcaster
  \/ \E c \in Conns : Accept(c) \/ Subscription(c) \/ Hangup(c)

FeedSpec == FeedInit /\ [][FeedNext]_feedVars

(* Run polls for ever; goroutines run; a write has a deadline. *)
FairFeedSpec ==
  /\ FeedSpec
  /\ WF_feedVars(\E j \in Jobs : Poll(j)) /\ WF_feedVars(Notify)
  /\ WF_feedVars(Broadcaster)
  /\ \A c \in Conns : WF_feedVars(SendRecord(c) \/ SendWrite(c))

-----------------------------------------------------------------------------
FeedTypeOK ==
  /\ tpl \in Templates
  /\ current \in Jobs \cup {None}
  /\ unsent \in {None, current}
  /\ queue \in Seq(Jobs) /\ Len(queue) <= QueueCap
  /\ listening \in BOOLEAN
  /\ batch \in [job : Jobs \cup {None}, todo : SUBSET Conns, at : Conns \cup {None}]
  /\ batch.at # None => batch.at \in batch.todo
  /\ batch.todo # {} => batch.job # None
  /\ up \in [Conns -> BOOLEAN]
  /\ stage \in [Conns -> {"new", "record", "write", "idle"}]
  /\ hand \in [Conns -> Jobs \cup {None}]
  /\ job \in [Conns -> Jobs \cup {None}]
  /\ told \in [Conns -> Jobs \cup {None}]

(* No connection falls between the broadcast and the subscription: once    *)
(* what was made is delivered, every subscribed miner has a job, wherever  *)
(* its subscription met the first poll, the announcement and the listing.  *)
EveryMinerHasWork ==
  unsent = None /\ queue = << >> /\ Resting /\ current # None =>
    \A c \in Conns : up[c] /\ stage[c] = "idle" => job[c] # None /\ told[c] # None

(* A full channel loses jobs and the broadcaster lags behind the poll loop *)
(* by as many as fit, but it never goes back: no broadcast is of an older  *)
(* template than the one before it.                                        *)
BroadcastsInOrder ==
  [][batch.job # None /\ batch'.job # batch.job
       => TemplateOf[batch.job] <= TemplateOf[batch'.job]]_feedVars

(* the server checks a miner's shares against the daemon's template, which *)
(* is the one the miner was told                                           *)
Following(c) ==
  up[c] /\ stage[c] = "idle" =>
    /\ job[c] # None /\ TemplateOf[job[c]] = tpl
    /\ told[c] # None /\ TemplateOf[told[c]] = tpl

(* The broadcaster and handleSubscribe may leave a connection with an old  *)
(* job, or its socket with another one than was recorded, and a full       *)
(* channel drops the newest.  Each is made good: no miner is left behind   *)
(* for ever.                                                               *)
MinersFollowTip == \A c \in Conns : []<>Following(c)
=============================================================================
