------------------------ MODULE StratumServerProofs -------------------------
(***************************************************************************)
(* Proofs about StratumServer, for any number of connections, jobs,        *)
(* solutions, failures and restarts and whatever the hashes are good for.  *)
(*                                                                         *)
(* The table decides: a share that is about to be acknowledged has its row *)
(* and no other one can be inserted for the same work, neither on another  *)
(* connection nor after a restart, while what was acknowledged keeps its   *)
(* row for ever.                                                           *)
(***************************************************************************)
EXTENDS StratumServer, FiniteSetTheorems, TLAPS

HasRow(w) == \E r \in shares : r.work = w /\ r.type = Grade[w]

(* who is about to reply has a row that nobody was told of, of its own *)
AboutToReply ==
  \A c \in Conns : stage[c] = "reply" =>
    /\ HasRow(work[c]) /\ acked[work[c]] = 0
    /\ \A d \in Conns \ {c} : stage[d] = "reply" => work[d] # work[c]

(* a submission in hand is for a job, on a connection, and goes on only    *)
(* when its hash is good for something                                     *)
Served ==
  \A c \in Conns :
    /\ stage[c] # "idle" => en1[c] # 0 /\ Len(made) > 0
    /\ work[c] # None => Grade[work[c]] # "low"

(* no work has two rows *)
RowsOnce == \A r1, r2 \in shares : r1.work = r2.work => r1 = r2

IInv ==
  /\ TypeOK /\ Served
  /\ AckedIsRecorded /\ AckedOnce /\ AboutToReply /\ RowsOnce

-----------------------------------------------------------------------------
(* A process that starts on an empty table satisfies the invariant. *)
LEMMA InitInvariant == Init => IInv
<1> SUFFICES ASSUME Init PROVE IInv
  OBVIOUS
<1> USE BoundsAssumption
<1>1. TypeOK
  BY DEF Init, TypeOK, Templates
<1>2. Served /\ AckedIsRecorded /\ AckedOnce
  BY DEF Init, Served, AckedIsRecorded, AckedOnce
<1>3. AboutToReply /\ RowsOnce
  BY DEF Init, AboutToReply, RowsOnce
<1> QED BY <1>1, <1>2, <1>3 DEF IInv

(* What stays outside the table, the replies and the submissions in hand   *)
(* keeps the invariant if it keeps the types.                              *)
LEMMA Elsewhere ==
  ASSUME IInv, UNCHANGED <<stage, work, shares, acked>>, TypeOK', Served'
  PROVE  IInv'
BY DEF IInv, AckedIsRecorded, AckedOnce, AboutToReply, RowsOnce, HasRow

(* The daemon and the poll loop. *)
LEMMA PollStep ==
  ASSUME IInv, ChainMoves \/ BuildJob
  PROVE  IInv'
<1> USE BoundsAssumption DEF IInv
<1>1. CASE ChainMoves
  <2>1. tpl' \in Templates /\ UNCHANGED <<made, connVars, stage, key, work, dbVars, faults>>
    BY <1>1 DEF ChainMoves, TypeOK, Templates
  <2>2. TypeOK' /\ Served'
    BY <2>1 DEF TypeOK, Served, connVars, dbVars
  <2> QED BY <2>1, <2>2, Elsewhere DEF dbVars
<1>2. CASE BuildJob
  <2>1. /\ made' \in Seq(Templates) /\ Len(made') = Len(made) + 1 /\ Len(made) \in Nat
        /\ Len(made) < MaxJobs
        /\ UNCHANGED <<tpl, connVars, stage, key, work, dbVars, faults>>
    BY <1>2 DEF BuildJob, TypeOK
  <2>2. Len(made') <= MaxJobs /\ job' \in [Conns -> 0..Len(made')]
    BY <2>1 DEF TypeOK, connVars
  <2>3. TypeOK' /\ Served'
    BY <2>1, <2>2 DEF TypeOK, Served, connVars, dbVars
  <2> QED BY <2>1, <2>3, Elsewhere DEF dbVars
<1> QED BY <1>1, <1>2

(* Connections come, authorize and go. *)
LEMMA ConnStep ==
  ASSUME IInv, NEW c \in Conns, HandleConn(c) \/ Leave(c) \/ HandleAuthorize(c)
  PROVE  IInv'
<1> USE BoundsAssumption DEF IInv
<1>1. UNCHANGED <<makerVars, stage, key, work, dbVars, faults>>
  BY DEF HandleConn, Leave, HandleAuthorize
<1>2. CASE HandleConn(c)
  <2>1. /\ nextEN1' \in 1..MaxEN1 /\ en1' = [en1 EXCEPT ![c] = nextEN1']
        /\ UNCHANGED <<authorized, job, submitted>>
    BY <1>2 DEF HandleConn, TypeOK
  <2>2. TypeOK' /\ Served'
    BY <1>1, <2>1 DEF TypeOK, Served, makerVars, dbVars
  <2> QED BY <1>1, <2>2, Elsewhere DEF dbVars
<1>3. CASE Leave(c)
  <2>1. TypeOK' /\ Served'
    BY <1>1, <1>3 DEF Leave, Awaiting, TypeOK, Served, makerVars, dbVars
  <2> QED BY <1>1, <2>1, Elsewhere DEF dbVars
<1>4. CASE HandleAuthorize(c)
  <2>1. TypeOK' /\ Served'
    BY <1>1, <1>4 DEF HandleAuthorize, TypeOK, Served, makerVars, dbVars
  <2> QED BY <1>1, <2>1, Elsewhere DEF dbVars
<1> QED BY <1>2, <1>3, <1>4

(* A job reaches a connection. *)
LEMMA SendStep ==
  ASSUME IInv, NEW c \in Conns, NEW id \in JobIds, SendJob(c, id)
  PROVE  IInv'
<1> USE BoundsAssumption DEF IInv
<1>1. /\ id \in 0..Len(made)
      /\ job' = [job EXCEPT ![c] = id] /\ submitted' = [submitted EXCEPT ![c] = {}]
      /\ UNCHANGED <<makerVars, nextEN1, en1, authorized, stage, key, work, dbVars, faults>>
  BY DEF SendJob, TypeOK
<1>2. TypeOK' /\ Served'
  BY <1>1 DEF TypeOK, Served, makerVars, dbVars
<1> QED BY <1>1, <1>2, Elsewhere DEF dbVars

(* A handler that only turns to something else than a reply, without       *)
(* touching table and replies, keeps the invariant if it keeps the types.  *)
LEMMA NoReply ==
  ASSUME IInv, NEW c \in Conns, stage'[c] # "reply",
         \A d \in Conns \ {c} : stage'[d] = stage[d] /\ work'[d] = work[d],
         UNCHANGED <<shares, acked>>, TypeOK', Served'
  PROVE  IInv'
BY DEF IInv, AckedIsRecorded, AckedOnce, AboutToReply, RowsOnce, HasRow

(* Taking a submission for the job recorded. *)
LEMMA SubmitStep ==
  ASSUME IInv, NEW c \in Conns, NEW s \in Solutions, HandleSubmit(c, s)
  PROVE  IInv'
<1> USE BoundsAssumption, NoneAssumption DEF IInv
<1>1. /\ stage' = [stage EXCEPT ![c] = "mark"] /\ stage[c] = "idle"
      /\ key' = [key EXCEPT ![c] = [id |-> job[c], sol |-> s]]
      /\ job[c] # 0 /\ en1[c] # 0
      /\ UNCHANGED <<tpl, made, nextEN1, en1, authorized, job, submitted, work,
                     chain, shares, acked, faults>>
  BY DEF HandleSubmit, Awaiting, Goto, makerVars, connVars, dbVars
<1>2. job[c] \in JobIds /\ Len(made) > 0
  BY <1>1 DEF TypeOK, JobIds
<1>3. [id |-> job[c], sol |-> s] \in Key
  BY <1>2 DEF Key
<1>4. TypeOK'
  BY <1>1, <1>3 DEF TypeOK
<1>5. Served'
  BY <1>1, <1>2 DEF Served, TypeOK
<1>6. stage'[c] # "reply" /\ \A d \in Conns \ {c} : stage'[d] = stage[d] /\ work'[d] = work[d]
  BY <1>1 DEF TypeOK
<1> QED BY <1>1, <1>4, <1>5, <1>6, NoReply

(* Marking, validating and refusing it. *)
LEMMA HandlingStep ==
  ASSUME IInv, NEW c \in Conns,
         MarkSubmitted(c) \/ RejectLow(c) \/ Validate(c) \/ InsertFails(c)
  PROVE  IInv'
<1> USE BoundsAssumption, NoneAssumption, GradeAssumption DEF IInv
<1>1. UNCHANGED <<tpl, made, nextEN1, en1, authorized, job, shares, acked>>
  BY DEF MarkSubmitted, RejectLow, Validate, InsertFails, makerVars, connVars, dbVars
<1>2. ASSUME NEW t \in {"idle", "validate", "insert"},
             stage[c] # "idle", stage' = [stage EXCEPT ![c] = t],
             \A d \in Conns \ {c} : work'[d] = work[d],
             work'[c] # None => Grade[work'[c]] # "low", TypeOK'
      PROVE  IInv'
  <2>1. stage'[c] = t /\ \A d \in Conns \ {c} : stage'[d] = stage[d]
    BY <1>2 DEF TypeOK
  <2>2. Served'
    BY <1>1, <1>2, <2>1 DEF Served
  <2>3. stage'[c] # "reply" /\ UNCHANGED <<shares, acked>>
    BY <1>1, <2>1
  <2> HIDE DEF IInv
  <2> QED BY <1>2, <2>1, <2>2, <2>3, NoReply
<1>3. CASE MarkSubmitted(c)
  <2>1. stage[c] = "mark" /\ key[c] \in Key /\ work[c] = None
    BY <1>3 DEF MarkSubmitted, TypeOK
  <2>2. UNCHANGED <<chain, faults>>
    BY <1>3 DEF MarkSubmitted, dbVars
  <2>3. CASE key[c] \in submitted[c]
    <3>1. /\ stage' = [stage EXCEPT ![c] = "idle"] /\ UNCHANGED submitted
          /\ key' = [key EXCEPT ![c] = None] /\ work' = [work EXCEPT ![c] = None]
      BY <1>3, <2>3 DEF MarkSubmitted, Goto, Forget
    <3>2. TypeOK'
      BY <1>1, <2>2, <3>1 DEF TypeOK
    <3>3. work'[c] = None /\ \A d \in Conns \ {c} : work'[d] = work[d]
      BY <3>1 DEF TypeOK
    <3> HIDE DEF IInv
    <3> QED BY <1>2, <2>1, <3>1, <3>2, <3>3
  <2>4. CASE key[c] \notin submitted[c]
    <3>1. /\ stage' = [stage EXCEPT ![c] = "validate"]
          /\ submitted' = [submitted EXCEPT ![c] = @ \cup {key[c]}]
          /\ UNCHANGED <<key, work>>
      BY <1>3, <2>4 DEF MarkSubmitted, Goto
    <3>2. TypeOK'
      BY <1>1, <2>1, <2>2, <3>1 DEF TypeOK
    <3> HIDE DEF IInv
    <3> QED BY <1>2, <2>1, <3>1, <3>2
  <2> QED BY <2>3, <2>4
<1>4. CASE RejectLow(c)
  <2>1. /\ stage[c] = "validate" /\ stage' = [stage EXCEPT ![c] = "idle"]
        /\ key' = [key EXCEPT ![c] = None] /\ work' = [work EXCEPT ![c] = None]
        /\ UNCHANGED <<submitted, chain, faults>>
    BY <1>4 DEF RejectLow, Goto, Forget, connVars, dbVars
  <2>2. TypeOK'
    BY <1>1, <2>1 DEF TypeOK
  <2>3. work'[c] = None /\ \A d \in Conns \ {c} : work'[d] = work[d]
    BY <2>1 DEF TypeOK
  <2> HIDE DEF IInv
  <2> QED BY <1>2, <2>1, <2>2, <2>3
<1>5. CASE Validate(c)
  <2>1. /\ stage[c] = "validate" /\ key[c] \in Key
        /\ stage' = [stage EXCEPT ![c] = "insert"]
        /\ work' = [work EXCEPT ![c] = Header(c)]
        /\ UNCHANGED <<submitted, key>>
    BY <1>5 DEF Validate, Goto, TypeOK, connVars
  <2>2. Header(c) \in Work
    <3>1. en1[c] \in 0..MaxEN1 /\ en1[c] # 0 /\ made \in Seq(Templates) /\ Len(made) > 0
      BY <2>1 DEF TypeOK, Served
    <3> HIDE DEF IInv
    <3>2. en1[c] \in 1..MaxEN1 /\ made[Len(made)] \in Templates
      BY <3>1
    <3> QED BY <2>1, <3>2, DecodeAssumption DEF Header, Work, Key
  <2>3. chain' \subseteq Work /\ faults' \in 0..MaxFaults
    BY <1>5, <2>2 DEF Validate, Fault, TypeOK
  <2>4. TypeOK'
    BY <1>1, <2>1, <2>2, <2>3 DEF TypeOK
  <2>5. Grade[Header(c)] # "low"
    BY <1>5 DEF Validate
  <2>6. work'[c] = Header(c) /\ \A d \in Conns \ {c} : work'[d] = work[d]
    BY <2>1 DEF TypeOK
  <2> HIDE DEF IInv
  <2> QED BY <1>2, <2>1, <2>4, <2>5, <2>6
<1>6. CASE InsertFails(c)
  <2>1. /\ stage[c] = "insert" /\ stage' = [stage EXCEPT ![c] = "idle"]
        /\ key' = [key EXCEPT ![c] = None] /\ work' = [work EXCEPT ![c] = None]
        /\ UNCHANGED <<submitted, chain>> /\ faults' \in 0..MaxFaults
    BY <1>6 DEF InsertFails, Refuse, Goto, Forget, Fault, TypeOK, connVars, dbVars
  <2>2. TypeOK'
    BY <1>1, <2>1 DEF TypeOK
  <2>3. work'[c] = None /\ \A d \in Conns \ {c} : work'[d] = work[d]
    BY <2>1 DEF TypeOK
  <2> HIDE DEF IInv
  <2> QED BY <1>2, <2>1, <2>2, <2>3
<1> QED BY <1>3, <1>4, <1>5, <1>6

(* The row is inserted only when no row has the same work: nobody was told *)
(* of that work, and nobody else is about to be.                           *)
LEMMA InsertStep ==
  ASSUME IInv, NEW c \in Conns, InsertAcceptedShare(c)
  PROVE  IInv'
<1> USE GradeAssumption, NoneAssumption DEF IInv
<1>1. /\ stage[c] = "insert" /\ key[c] \in Key /\ work[c] \in Work
      /\ stage' = [stage EXCEPT ![c] = "reply"]
      /\ UNCHANGED <<tpl, made, nextEN1, en1, authorized, job, submitted,
                     key, work, chain, acked, faults>>
  BY DEF InsertAcceptedShare, Goto, TypeOK, makerVars, connVars
<1>2. shares' = shares \cup {Row(c)} /\ \A r \in shares : r.work # work[c]
  BY DEF InsertAcceptedShare, IsFree
<1>3. Grade[work[c]] \in {"share", "block"}
  BY <1>1 DEF Served
<1>4. TypeOK'
  BY <1>1, <1>2, <1>3 DEF TypeOK, Row
<1>5. acked[work[c]] = 0
  <2>1. acked[work[c]] \in Nat
    BY <1>1 DEF TypeOK
  <2>2. ~(acked[work[c]] > 0)
    BY <1>1, <1>2 DEF AckedIsRecorded
  <2> QED BY <2>1, <2>2
<1>6. \A d \in Conns \ {c} : stage[d] = "reply" => work[d] # work[c]
  BY <1>2 DEF AboutToReply, HasRow
<1>7. \A w : HasRow(w) => HasRow(w)'
  BY <1>2 DEF HasRow
<1>8. HasRow(work[c])'
  <2>1. Row(c) \in shares' /\ Row(c).work = work'[c] /\ Row(c).type = Grade[work'[c]]
    BY <1>1, <1>2 DEF Row
  <2> QED BY <2>1 DEF HasRow
<1>9. AckedIsRecorded' /\ Served'
  BY <1>1, <1>2 DEF AckedIsRecorded, Served, TypeOK
<1>10. AboutToReply'
  BY <1>1, <1>5, <1>6, <1>7, <1>8 DEF AboutToReply, TypeOK
<1>11. AckedOnce' /\ RowsOnce'
  BY <1>1, <1>2 DEF AckedOnce, RowsOnce, Row
<1> QED BY <1>4, <1>9, <1>10, <1>11

(* A row more than was acknowledged does no harm. *)
LEMMA AnswerLostStep ==
  ASSUME IInv, NEW c \in Conns, InsertAnswerLost(c)
  PROVE  IInv'
<1> USE BoundsAssumption, GradeAssumption, NoneAssumption DEF IInv
<1>1. /\ stage[c] = "insert" /\ key[c] \in Key /\ work[c] \in Work
      /\ stage' = [stage EXCEPT ![c] = "idle"]
      /\ key' = [key EXCEPT ![c] = None] /\ work' = [work EXCEPT ![c] = None]
      /\ UNCHANGED <<tpl, made, nextEN1, en1, authorized, job, submitted, chain, acked>>
  BY DEF InsertAnswerLost, Refuse, Goto, Forget, TypeOK, makerVars, connVars
<1>2. /\ shares' = shares \cup {Row(c)} /\ faults' \in 0..MaxFaults
      /\ \A r \in shares : r.work # work[c]
  BY DEF InsertAnswerLost, IsFree, Fault, TypeOK
<1>3. Grade[work[c]] \in {"share", "block"}
  BY <1>1 DEF Served
<1>4. TypeOK'
  BY <1>1, <1>2, <1>3 DEF TypeOK, Row
<1>5. \A w : HasRow(w) => HasRow(w)'
  BY <1>2 DEF HasRow
<1>6. AckedIsRecorded' /\ Served'
  BY <1>1, <1>2 DEF AckedIsRecorded, Served, TypeOK
<1>7. AboutToReply'
  BY <1>1, <1>5 DEF AboutToReply, TypeOK
<1>8. AckedOnce' /\ RowsOnce'
  BY <1>1, <1>2 DEF AckedOnce, RowsOnce, Row
<1> QED BY <1>4, <1>6, <1>7, <1>8

(* The reply moves one work from those about to be told to those told. *)
LEMMA ReplyStep ==
  ASSUME IInv, NEW c \in Conns, Reply(c)
  PROVE  IInv'
<1> USE NoneAssumption DEF IInv
<1>1. /\ stage[c] = "reply" /\ work[c] \in Work
      /\ acked' = [acked EXCEPT ![work[c]] = @ + 1]
      /\ stage' = [stage EXCEPT ![c] = "idle"]
      /\ key' = [key EXCEPT ![c] = None] /\ work' = [work EXCEPT ![c] = None]
      /\ UNCHANGED <<tpl, made, nextEN1, en1, authorized, job, submitted,
                     chain, shares, faults>>
  BY DEF Reply, Goto, Forget, TypeOK, makerVars, connVars
<1>2. HasRow(work[c]) /\ acked[work[c]] = 0
  BY <1>1 DEF AboutToReply
<1>3. /\ acked' \in [Work -> Nat] /\ acked'[work[c]] = 1
      /\ \A w \in Work \ {work[c]} : acked'[w] = acked[w]
  BY <1>1, <1>2 DEF TypeOK
<1>4. TypeOK'
  BY <1>1, <1>3 DEF TypeOK
<1>5. AckedIsRecorded' /\ AckedOnce' /\ RowsOnce'
  BY <1>1, <1>2, <1>3 DEF AckedIsRecorded, AckedOnce, RowsOnce, HasRow
<1>6. Served'
  BY <1>1 DEF Served, TypeOK
<1>7. AboutToReply'
  <2> SUFFICES ASSUME NEW d \in Conns, stage'[d] = "reply"
               PROVE  /\ HasRow(work[d])' /\ acked'[work'[d]] = 0
                      /\ \A e \in Conns \ {d} : stage'[e] = "reply" => work'[e] # work'[d]
    BY DEF AboutToReply
  <2>1. d # c /\ stage[d] = "reply" /\ work'[d] = work[d]
    BY <1>1 DEF TypeOK
  <2>2. work[d] \in Work /\ work[d] # work[c] /\ HasRow(work[d]) /\ acked[work[d]] = 0
    BY <1>1, <2>1 DEF AboutToReply, TypeOK
  <2>3. \A e \in Conns \ {d} : stage'[e] = "reply" => work'[e] # work'[d]
    BY <1>1, <2>1 DEF AboutToReply, TypeOK
  <2> QED BY <1>1, <1>3, <2>1, <2>2, <2>3 DEF HasRow
<1> QED BY <1>4, <1>5, <1>6, <1>7

(* A restart leaves the table and forgets who was about to reply. *)
LEMMA RestartStep ==
  ASSUME IInv, Restart
  PROVE  IInv'
<1> USE BoundsAssumption DEF IInv
<1>1. TypeOK'
  BY DEF Restart, Fault, TypeOK, dbVars
<1>2. Served' /\ AckedIsRecorded' /\ AckedOnce' /\ AboutToReply' /\ RowsOnce'
  BY DEF Restart, Served, AckedIsRecorded, AckedOnce, AboutToReply, RowsOnce, dbVars
<1> QED BY <1>1, <1>2

(* Every step keeps the invariant. *)
LEMMA StepInvariant == IInv /\ [Next]_vars => IInv'
<1> SUFFICES ASSUME IInv, [Next]_vars PROVE IInv'
  OBVIOUS
<1>1. CASE UNCHANGED vars
  BY <1>1 DEF vars, makerVars, connVars, dbVars, IInv, TypeOK, Served,
              AckedIsRecorded, AckedOnce, AboutToReply, RowsOnce, HasRow
<1>2. CASE ChainMoves \/ BuildJob
  BY <1>2, PollStep
<1>3. CASE Restart
  BY <1>3, RestartStep
<1>4. ASSUME NEW c \in Conns, Handler(c)
      PROVE  IInv'
  <2>1. CASE HandleConn(c) \/ Leave(c) \/ HandleAuthorize(c)
    BY <2>1, ConnStep
  <2>2. CASE \E s \in Solutions : HandleSubmit(c, s)
    BY <2>2, SubmitStep
  <2>3. CASE MarkSubmitted(c) \/ RejectLow(c) \/ Validate(c) \/ InsertFails(c)
    BY <2>3, HandlingStep
  <2>4. CASE InsertAcceptedShare(c)
    BY <2>4, InsertStep
  <2>5. CASE Reply(c)
    BY <2>5, ReplyStep
  <2>6. CASE InsertAnswerLost(c)
    BY <2>6, AnswerLostStep
  <2> QED BY <1>4, <2>1, <2>2, <2>3, <2>4, <2>5, <2>6 DEF Handler
<1>5. ASSUME NEW c \in Conns, NEW id \in JobIds, SendJob(c, id)
      PROVE  IInv'
  BY <1>5, SendStep
<1> QED BY <1>1, <1>2, <1>3, <1>4, <1>5 DEF Next

(* Jobs, connections, submissions and rows keep their types: no connection *)
(* is on a job that was not made, and a handler holds a header exactly     *)
(* while it inserts and replies.                                           *)
THEOREM ServerTyped == Spec => []TypeOK
<1>1. Spec => []IInv
  BY InitInvariant, StepInvariant, PTL DEF Spec
<1>2. IInv => TypeOK
  BY DEF IInv
<1> QED BY <1>1, <1>2, PTL

(* What a miner was told is accepted has its row, as a block when it is    *)
(* one: replies are given after the insert and rows stay.                  *)
THEOREM RepliesHaveRows == Spec => []AckedIsRecorded
<1>1. Spec => []IInv
  BY InitInvariant, StepInvariant, PTL DEF Spec
<1>2. IInv => AckedIsRecorded
  BY DEF IInv
<1> QED BY <1>1, <1>2, PTL

(* No work is acknowledged twice, on whatever connections, under whatever  *)
(* job ids and across restarts.                                            *)
THEOREM RepliesOnce == Spec => []AckedOnce
<1>1. Spec => []IInv
  BY InitInvariant, StepInvariant, PTL DEF Spec
<1>2. IInv => AckedOnce
  BY DEF IInv
<1> QED BY <1>1, <1>2, PTL

-----------------------------------------------------------------------------
(* Blocks.  Rows and blocks are what their hashes are good for, and what   *)
(* is about to be inserted under a key is a header of the key's solution.  *)

BlockInv ==
  /\ \A r \in shares : r.type = Grade[r.work]
  /\ \A w \in chain : Grade[w] = "block"
  /\ \A c \in Conns : stage[c] = "insert" => work[c].sol = Decode[key[c].sol]
  /\ BlockOrNamesake

(* A step that leaves blocks, rows and the inserts in hand as they are.    *)
LEMMA BlocksElsewhere ==
  ASSUME IInv, BlockInv, faults <= faults', TypeOK', UNCHANGED <<chain, shares>>,
         \A c \in Conns : /\ stage'[c] = "insert" <=> stage[c] = "insert"
                          /\ stage[c] = "insert" => work'[c] = work[c] /\ key'[c] = key[c]
  PROVE  BlockInv'
<1>1. faults \in Nat /\ faults' \in Nat
  BY BoundsAssumption DEF IInv, TypeOK
<1>2. faults' = 0 => faults = 0
  BY <1>1
<1>3. BlockOrNamesake'
  <2> SUFFICES ASSUME faults' = 0, NEW w \in chain PROVE HasRowOrNamesake(w)'
    BY DEF BlockOrNamesake, HasRowOrNamesake
  <2>1. HasRowOrNamesake(w)
    BY <1>2 DEF BlockInv, BlockOrNamesake, HasRowOrNamesake
  <2> QED BY <2>1 DEF HasRowOrNamesake
<1>4. \A c \in Conns : stage'[c] = "insert" => work'[c].sol = Decode[key'[c].sol]
  BY DEF BlockInv
<1> QED BY <1>3, <1>4 DEF BlockInv

(* A header goes from the daemon to the insert in one step.                *)
LEMMA BlocksValidate ==
  ASSUME IInv, BlockInv, NEW c \in Conns, Validate(c)
  PROVE  BlockInv'
<1> USE BoundsAssumption DEF IInv
<1>1. /\ stage[c] = "validate" /\ stage' = [stage EXCEPT ![c] = "insert"]
      /\ work' = [work EXCEPT ![c] = Header(c)]
      /\ UNCHANGED <<key, shares>> /\ faults <= faults'
      /\ faults \in Nat /\ faults' \in Nat
  BY DEF Validate, Goto, Fault, TypeOK
<1>2. chain' = chain \/ (Grade[Header(c)] = "block" /\ chain' = chain \cup {Header(c)})
  BY DEF Validate
<1>3. /\ stage'[c] = "insert" /\ work'[c] = Header(c)
      /\ \A d \in Conns \ {c} : stage'[d] = stage[d] /\ work'[d] = work[d]
  BY <1>1 DEF TypeOK
<1>4. Header(c).sol = Decode[key[c].sol]
  BY DEF Header
<1>5. BlockOrNamesake'
  <2> SUFFICES ASSUME faults' = 0, NEW w \in chain' PROVE HasRowOrNamesake(w)'
    BY DEF BlockOrNamesake, HasRowOrNamesake
  <2>1. CASE w = Header(c)
    BY <1>3, <2>1 DEF HasRowOrNamesake
  <2>2. CASE w # Header(c)
    <3>1. HasRowOrNamesake(w)
      BY <1>1, <1>2, <2>2 DEF BlockInv, BlockOrNamesake, HasRowOrNamesake
    <3> QED BY <1>1, <1>3, <3>1 DEF HasRowOrNamesake
  <2> QED BY <2>1, <2>2
<1> QED BY <1>1, <1>2, <1>3, <1>4, <1>5 DEF BlockInv

(* An insert that succeeds makes the row, one that is refused although     *)
(* nothing failed was refused for a row of the work or of its solution.    *)
LEMMA BlocksInsert ==
  ASSUME IInv, BlockInv, NEW c \in Conns,
         InsertAcceptedShare(c) \/ InsertAnswerLost(c) \/ InsertFails(c)
  PROVE  BlockInv'
<1> USE BoundsAssumption, NoneAssumption DEF IInv
<1>1. /\ stage[c] = "insert" /\ key[c] \in Key /\ work[c] \in Work
      /\ chain' = chain /\ faults <= faults' /\ faults \in Nat /\ faults' \in Nat
      /\ shares' = shares \/ shares' = shares \cup {Row(c)}
  BY DEF InsertAcceptedShare, InsertAnswerLost, InsertFails, Fault, TypeOK, dbVars
<1>2. /\ stage'[c] # "insert"
      /\ \A d \in Conns \ {c} : stage'[d] = stage[d] /\ work'[d] = work[d] /\ key'[d] = key[d]
  BY DEF InsertAcceptedShare, InsertAnswerLost, InsertFails, Refuse, Goto, Forget, TypeOK
<1>3. Row(c).type = Grade[Row(c).work] /\ Row(c).work = work[c]
  BY DEF Row
<1>4. BlockOrNamesake'
  <2> SUFFICES ASSUME faults' = 0, NEW w \in chain PROVE HasRowOrNamesake(w)'
    BY <1>1 DEF BlockOrNamesake, HasRowOrNamesake
  <2>1. HasRowOrNamesake(w) /\ Grade[w] = "block"
    BY <1>1 DEF BlockInv, BlockOrNamesake, HasRowOrNamesake
  <2>2. CASE w # work[c]
    BY <1>1, <1>2, <2>1, <2>2 DEF HasRowOrNamesake
  <2>3. CASE w = work[c] /\ InsertFails(c)
    <3>1. ~IsFree(key[c], work[c]) /\ shares' = shares
      BY <1>1, <2>3 DEF InsertFails, Fault, dbVars
    <3>2. PICK r \in shares : r.key = key[c] \/ r.work = w
      BY <2>3, <3>1 DEF IsFree
    <3>3. CASE r.work = w
      BY <2>1, <3>1, <3>2, <3>3 DEF HasRowOrNamesake, BlockInv
    <3>4. CASE r.work # w
      <4>1. Decode[r.key.sol] = w.sol
        BY <1>1, <2>3, <3>2, <3>4 DEF BlockInv
      <4> QED BY <3>1, <3>4, <4>1 DEF HasRowOrNamesake
    <3> QED BY <3>3, <3>4
  <2>4. CASE w = work[c] /\ ~InsertFails(c)
    <3>1. Row(c) \in shares'
      BY <2>4 DEF InsertAcceptedShare, InsertAnswerLost
    <3> QED BY <1>3, <2>1, <2>4, <3>1 DEF HasRowOrNamesake
  <2> QED BY <2>2, <2>3, <2>4
<1> QED BY <1>1, <1>2, <1>3, <1>4 DEF BlockInv

(* Every step of the server keeps blocks accounted for. *)
LEMMA BlocksNext == IInv /\ BlockInv /\ [Next]_vars => BlockInv'
<1> SUFFICES ASSUME IInv, BlockInv, [Next]_vars PROVE BlockInv'
  OBVIOUS
<1>0. TypeOK /\ TypeOK' /\ faults \in Nat /\ faults' \in Nat
  <2>1. IInv'
    BY StepInvariant
  <2>2. TypeOK /\ TypeOK'
    BY <2>1 DEF IInv
  <2>3. faults \in 0..MaxFaults /\ faults' \in 0..MaxFaults
    BY <2>2 DEF TypeOK
  <2> QED BY <2>2, <2>3, BoundsAssumption
<1>1. CASE UNCHANGED <<stage, work, key, chain, shares, faults>>
  BY <1>0, <1>1, BlocksElsewhere
<1>2. CASE Restart
  <2>1. faults' # 0 /\ UNCHANGED <<chain, shares>>
    BY <1>0, <1>2 DEF Restart, Fault, dbVars
  <2>2. \A c \in Conns : stage'[c] # "insert"
    BY <1>2 DEF Restart
  <2> QED BY <2>1, <2>2 DEF BlockInv, BlockOrNamesake
<1>3. ASSUME NEW c \in Conns, Handler(c) PROVE BlockInv'
  <2>1. CASE HandleConn(c) \/ Leave(c) \/ HandleAuthorize(c)
    BY <1>1, <2>1 DEF HandleConn, Leave, HandleAuthorize, dbVars
  <2>2. CASE \/ \E s \in Solutions : HandleSubmit(c, s)
             \/ MarkSubmitted(c) \/ RejectLow(c) \/ Reply(c)
    <3>1. UNCHANGED <<chain, shares, faults>>
      BY <2>2 DEF HandleSubmit, MarkSubmitted, RejectLow, Reply, dbVars
    <3>2. DOMAIN stage = Conns /\ DOMAIN work = Conns /\ DOMAIN key = Conns
      BY <1>0 DEF TypeOK
    <3>3. \A d \in Conns \ {c} :
             stage'[d] = stage[d] /\ work'[d] = work[d] /\ key'[d] = key[d]
      <4>1. CASE \E s \in Solutions : HandleSubmit(c, s)
        BY <3>2, <4>1 DEF HandleSubmit, Goto
      <4>2. CASE MarkSubmitted(c)
        BY <3>2, <4>2 DEF MarkSubmitted, Goto, Forget
      <4>3. CASE RejectLow(c) \/ Reply(c)
        BY <3>2, <4>3 DEF RejectLow, Reply, Goto, Forget
      <4> QED BY <2>2, <4>1, <4>2, <4>3
    <3>4. stage[c] # "insert" /\ stage'[c] # "insert"
      BY <2>2, <3>2 DEF HandleSubmit, MarkSubmitted, RejectLow, Reply, Awaiting, Goto
    <3>5. \A d \in Conns : /\ stage'[d] = "insert" <=> stage[d] = "insert"
                           /\ stage[d] = "insert" => work'[d] = work[d] /\ key'[d] = key[d]
      BY <3>3, <3>4
    <3> QED BY <1>0, <3>1, <3>5, BlocksElsewhere
  <2>3. CASE Validate(c)
    BY <2>3, BlocksValidate
  <2>4. CASE InsertAcceptedShare(c) \/ InsertAnswerLost(c) \/ InsertFails(c)
    BY <2>4, BlocksInsert
  <2> QED BY <1>3, <2>1, <2>2, <2>3, <2>4 DEF Handler
<1> QED BY <1>1, <1>2, <1>3
        DEF Next, ChainMoves, BuildJob, SendJob, dbVars, vars

(* For any hashes, jobs and interleaving of the handlers: while nothing    *)
(* fails, a block loses its row to other work of the same solution only.   *)
THEOREM BlocksLostToNamesakes == Spec => []BlockOrNamesake
<1>1. Init => IInv /\ BlockInv
  BY InitInvariant DEF Init, BlockInv, BlockOrNamesake
<1>2. IInv /\ BlockInv /\ [Next]_vars => (IInv /\ BlockInv)'
  BY StepInvariant, BlocksNext
<1>3. BlockInv => BlockOrNamesake
  BY DEF BlockInv
<1> QED BY <1>1, <1>2, <1>3, PTL DEF Spec

-----------------------------------------------------------------------------
(* The server implements ShareLedger. *)

RowsLike(e) == {r \in shares : r.work = e.work /\ r.type = e.type}

(* A step that writes no row and gives no reply is a stutter of the ledger. *)
LEMMA QuietForLedger ==
  ASSUME UNCHANGED <<shares, acked>>
  PROVE  UNCHANGED Promise!ledger
BY DEF Promise!ledger, Rows, Entries

(* An empty table is an empty bag. *)
LEMMA EmptyTable == Init => Promise!Init
<1> SUFFICES ASSUME Init PROVE Promise!Init
  OBVIOUS
<1>1. Entries = {}
  BY DEF Init, Entries
<1>2. Rows = Promise!EmptyBag
  BY <1>1 DEF Rows, Promise!EmptyBag, Promise!SetToBag
<1> QED BY <1>2 DEF Init, Promise!Init

(* The bag has every entry once. *)
LEMMA SingleRows ==
  ASSUME IInv, NEW e \in Entries
  PROVE  Rows[e] = 1
<1>1. PICK r \in shares : r.work = e.work /\ r.type = e.type
  BY DEF Entries
<1>2. RowsLike(e) = {r}
  BY <1>1 DEF RowsLike, IInv, RowsOnce
<1>3. Cardinality(RowsLike(e)) = 1
  BY <1>2, FS_Singleton
<1> QED BY <1>3 DEF Rows, RowsLike

(* A new row is an entry that the bag did not have, of work that it did    *)
(* not have as whatever type.                                              *)
LEMMA RowIsCounted ==
  ASSUME IInv, NEW c \in Conns, InsertAcceptedShare(c) \/ InsertAnswerLost(c)
  PROVE  Promise!Count(work[c])
<1>1. PICK new : new = [work |-> work[c], type |-> Grade[work[c]]]
  OBVIOUS
<1>2. /\ \A r \in shares : r.work # work[c]
      /\ shares' = shares \cup {Row(c)} /\ acked' = acked
  BY DEF InsertAcceptedShare, InsertAnswerLost, IsFree
<1>3. new.work = work[c] /\ Row(c).work = new.work /\ Row(c).type = new.type
  BY <1>1 DEF Row
<1>4. \A e \in Entries : e.work # new.work
  BY <1>2, <1>3 DEF Entries
<1>5. Entries' = Entries \cup {new}
  <2> DEFINE cut(r) == [work |-> r.work, type |-> r.type]
  <2>1. cut(Row(c)) = new
    BY <1>1 DEF Row
  <2>2. Entries = {cut(r) : r \in shares} /\ Entries' = {cut(r) : r \in shares'}
    BY DEF Entries
  <2> HIDE DEF cut
  <2> QED BY <1>2, <2>1, <2>2
<1>6. Cardinality(RowsLike(new)') = 1
  <2>1. RowsLike(new)' = {Row(c)}
    BY <1>2, <1>3 DEF RowsLike
  <2> QED BY <2>1, FS_Singleton
<1>7. \A e \in Entries : RowsLike(e)' = RowsLike(e)
  BY <1>2, <1>3, <1>4 DEF RowsLike
<1>8. /\ Rows = [e \in Entries |-> Cardinality(RowsLike(e))]
      /\ Rows' = [e \in Entries' |-> Cardinality(RowsLike(e)')]
  BY DEF Rows, RowsLike
<1>9. \A e \in Entries : Rows[e] = 1
  BY SingleRows
<1>10. Rows' = Promise!(+)(Rows, Promise!SetToBag({new}))
  <2> DEFINE sum == Promise!(+)(Rows, Promise!SetToBag({new}))
  <2>1. DOMAIN Rows = Entries /\ new \notin Entries
    BY <1>4, <1>8
  <2>2. sum = [e \in Entries \cup {new} |-> 1]
    BY <1>9, <2>1 DEF Promise!(+), Promise!SetToBag
  <2>3. \A e \in Entries : Cardinality(RowsLike(e)') = 1
    BY <1>7, <1>8, <1>9
  <2>4. Rows' = [e \in Entries \cup {new} |-> 1]
    BY <1>5, <1>6, <1>8, <2>3
  <2> QED BY <2>2, <2>4
<1>11. \A e \in Promise!BagToSet(Rows) : e.work # work[c]
  BY <1>3, <1>4, <1>8 DEF Promise!BagToSet
<1>12. Promise!Entry(work[c]) = new
  BY <1>1 DEF Promise!Entry
<1> QED BY <1>2, <1>10, <1>11, <1>12 DEF Promise!Count

(* A reply confirms work that counts and was not confirmed before.         *)
LEMMA ReplyIsConfirmed ==
  ASSUME IInv, NEW c \in Conns, Reply(c)
  PROVE  Promise!Confirm(work[c])
<1>1. stage[c] = "reply" /\ acked' = [acked EXCEPT ![work[c]] = @ + 1] /\ shares' = shares
  BY DEF Reply
<1>2. acked[work[c]] = 0 /\ HasRow(work[c])
  BY <1>1 DEF IInv, AboutToReply
<1>3. Promise!BagIn(Promise!Entry(work[c]), Rows)
  BY <1>2 DEF HasRow, Rows, Entries, Promise!BagIn, Promise!BagToSet, Promise!Entry
<1>4. acked' = [acked EXCEPT ![work[c]] = 1]
  BY <1>1, <1>2
<1>5. Rows' = Rows
  BY <1>1 DEF Rows, Entries
<1> QED BY <1>2, <1>3, <1>4, <1>5 DEF Promise!Confirm

(* The handlers keep the promises of ShareLedger, on any number of         *)
(* connections, whatever fails and however often the process restarts.     *)
THEOREM ServerKeepsPromise == Spec => ImplementsPromise
<1>1. Spec => []IInv
  BY InitInvariant, StepInvariant, PTL DEF Spec
<1>2. IInv /\ [Next]_vars => [Promise!Next]_(Promise!ledger)
  <2> SUFFICES ASSUME IInv, [Next]_vars
               PROVE  Promise!Next \/ UNCHANGED Promise!ledger
    OBVIOUS
  <2>1. CASE UNCHANGED vars \/ ChainMoves \/ BuildJob \/ Restart
    <3>1. UNCHANGED <<shares, acked>>
      BY <2>1 DEF vars, dbVars, ChainMoves, BuildJob, Restart
    <3> QED BY <3>1, QuietForLedger
  <2>2. CASE \E c \in Conns, id \in JobIds : SendJob(c, id)
    <3>1. UNCHANGED <<shares, acked>>
      BY <2>2 DEF SendJob, dbVars
    <3> QED BY <3>1, QuietForLedger
  <2>3. ASSUME NEW c \in Conns, Handler(c)
        PROVE  Promise!Next \/ UNCHANGED Promise!ledger
    <3>0. stage[c] \in {"insert", "reply"} => work[c] \in Work
      BY NoneAssumption DEF IInv, TypeOK
    <3>1. CASE InsertAcceptedShare(c) \/ InsertAnswerLost(c)
      <4>1. work[c] \in Work /\ Promise!Count(work[c])
        BY <3>0, <3>1, RowIsCounted DEF InsertAcceptedShare, InsertAnswerLost
      <4> QED BY <4>1 DEF Promise!Next
    <3>2. CASE Reply(c)
      <4>1. work[c] \in Work /\ Promise!Confirm(work[c])
        BY <3>0, <3>2, ReplyIsConfirmed DEF Reply
      <4> QED BY <4>1 DEF Promise!Next
    <3>3. CASE \/ HandleConn(c) \/ Leave(c) \/ HandleAuthorize(c)
               \/ \E s \in Solutions : HandleSubmit(c, s)
               \/ MarkSubmitted(c) \/ RejectLow(c) \/ Validate(c) \/ InsertFails(c)
      <4>1. UNCHANGED <<shares, acked>>
        BY <3>3 DEF HandleConn, Leave, HandleAuthorize, HandleSubmit, MarkSubmitted,
                    RejectLow, Validate, InsertFails, dbVars
      <4> QED BY <4>1, QuietForLedger
    <3> QED BY <2>3, <3>1, <3>2, <3>3 DEF Handler
  <2> QED BY <2>1, <2>2, <2>3 DEF Next
<1> QED BY <1>1, <1>2, EmptyTable, PTL DEF Spec, ImplementsPromise, Promise!Spec
=============================================================================
