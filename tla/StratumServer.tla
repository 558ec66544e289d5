--------------------------- MODULE StratumServer ----------------------------
(***************************************************************************)
(* What becomes of a share: handleSubmit of internal/stratum/server.go,    *)
(* Validate of internal/share/validator.go and InsertAcceptedShare of      *)
(* internal/accounting/postgres_store.go.                                  *)
(*                                                                         *)
(* A connection's handler takes one submission at a time, but reads its    *)
(* connection, marks the submission, reads the maker's current job,        *)
(* submits a block and inserts the share in steps of their own: jobs and   *)
(* the other handlers come between any two of them.                        *)
(*                                                                         *)
(* Which job reaches a connection when is the subject of JobFeed.  Here    *)
(* the connection may be sent any job made so far, the current or an older *)
(* one, at any time: the broadcaster and handleSubscribe take a job from   *)
(* the channel or from Current and may hold it for as long as they like.   *)
(*                                                                         *)
(* A solution is what a miner sends besides the job's id: extranonce2,     *)
(* time and nonce, in hexadecimal digits.  Decode maps the spellings of    *)
(* one solution, in small letters and capitals, to one of them.  The       *)
(* header that is hashed follows from the template, the connection's       *)
(* extranonce1 and the decoded solution, and Grade says what the hash is   *)
(* good for: "low" is also what cannot be decoded.  Worker and difficulty  *)
(* are copied along and left out.                                          *)
(***************************************************************************)
EXTENDS Integers, Sequences, FiniteSets

CONSTANTS
  Conns,       \* slots for connections
  LastTpl,     \* bound: the daemon goes through the templates 1..LastTpl
  MaxJobs,     \* bound: jobs made until the process ends
  MaxEN1,      \* bound: connections accepted until the process ends
  Solutions,   \* as they are written in a request
  Decode,      \* the bytes each stands for
  Grade,       \* what the hash of each header is good for
  MaxFaults,   \* bound: statements and calls that fail, and crashes
  None

Templates == 1..LastTpl
JobIds    == 1..MaxJobs
Key       == [id : JobIds, sol : Solutions]
Work      == [tpl : Templates, en1 : 1..MaxEN1, sol : {Decode[s] : s \in Solutions}]

ASSUME BoundsAssumption == LastTpl \in Nat \ {0} /\ {MaxJobs, MaxEN1, MaxFaults} \subseteq Nat
ASSUME DecodeAssumption == Decode \in [Solutions -> Solutions]
ASSUME GradeAssumption  == Grade \in [Work -> {"low", "share", "block"}]
ASSUME NoneAssumption   == None \notin Key \cup Work

VARIABLES
  tpl,         \* what the daemon answers now
  made,        \* the template of each job made so far; the last is Maker.current
  nextEN1,     \* Server.nextEN1
  en1,         \* Conn.en1; 0 in a slot without a connection
  authorized,  \* Conn.authorized
  job,         \* Conn.currentJob; 0 before the first job
  submitted,   \* Conn.submitted: the keys marked since that job was recorded
  stage,       \* where the handler of each connection stands
  key,         \* the submission it has in hand
  work,        \* the header that was validated
  chain,       \* the headers of the blocks the daemon took
  shares,      \* table shares
  acked,       \* how many times miners were told that each work is accepted
  faults

makerVars == <<tpl, made>>
connVars  == <<nextEN1, en1, authorized, job, submitted>>
dbVars    == <<chain, shares, acked>>
vars      == <<makerVars, connVars, stage, key, work, dbVars, faults>>

Init ==
  /\ made = << >> /\ nextEN1 = 0
  /\ en1 = [c \in Conns |-> 0]
  /\ authorized = [c \in Conns |-> FALSE]
  /\ job = [c \in Conns |-> 0]
  /\ submitted = [c \in Conns |-> {}]
  /\ stage = [c \in Conns |-> "idle"]
  /\ key = [c \in Conns |-> None] /\ work = [c \in Conns |-> None]
  /\ tpl = 1 /\ faults = 0
  /\ chain = {} /\ shares = {} /\ acked = [w \in Work |-> 0]

Fault == faults < MaxFaults /\ faults' = faults + 1

-----------------------------------------------------------------------------
(* The daemon sees a block or other transactions. *)
ChainMoves ==
  /\ tpl < LastTpl
  /\ tpl' = tpl + 1
  /\ UNCHANGED <<made, connVars, stage, key, work, dbVars, faults>>

(* A round of Run makes a job, whether or not the template is another one. *)
BuildJob ==
  /\ Len(made) < MaxJobs
  /\ made' = Append(made, tpl)
  /\ UNCHANGED <<tpl, connVars, stage, key, work, dbVars, faults>>

HandleConn(c) ==
  /\ en1[c] = 0 /\ nextEN1 < MaxEN1
  /\ nextEN1' = nextEN1 + 1
  /\ en1' = [en1 EXCEPT ![c] = nextEN1']
  /\ UNCHANGED <<makerVars, authorized, job, submitted, stage, key, work, dbVars, faults>>

Awaiting(c) == en1[c] # 0 /\ stage[c] = "idle"

(* The handler finds its connection closed when it reads the next request. *)
Leave(c) ==
  /\ Awaiting(c)
  /\ en1' = [en1 EXCEPT ![c] = 0]
  /\ authorized' = [authorized EXCEPT ![c] = FALSE]
  /\ job' = [job EXCEPT ![c] = 0]
  /\ submitted' = [submitted EXCEPT ![c] = {}]
  /\ UNCHANGED <<makerVars, nextEN1, stage, key, work, dbVars, faults>>

HandleAuthorize(c) ==
  /\ Awaiting(c)
  /\ authorized' = [authorized EXCEPT ![c] = TRUE]
  /\ UNCHANGED <<makerVars, nextEN1, en1, job, submitted, stage, key, work, dbVars, faults>>

(* By handleSubscribe or by the broadcaster, also while a submission is    *)
(* being handled: the job is recorded, and what was submitted is forgotten. *)
SendJob(c, id) ==
  /\ en1[c] # 0
  /\ id \in DOMAIN made
  /\ job' = [job EXCEPT ![c] = id]
  /\ submitted' = [submitted EXCEPT ![c] = {}]
  /\ UNCHANGED <<makerVars, nextEN1, en1, authorized, stage, key, work, dbVars, faults>>

-----------------------------------------------------------------------------
Goto(c, s) == stage' = [stage EXCEPT ![c] = s]

(* A submission for the job recorded.  Any other one, and any before the   *)
(* authorization, is refused without a trace.                              *)
HandleSubmit(c, s) ==
  /\ Awaiting(c) /\ authorized[c]
  /\ job[c] # 0
  /\ key' = [key EXCEPT ![c] = [id |-> job[c], sol |-> s]]
  /\ Goto(c, "mark")
  /\ UNCHANGED <<makerVars, connVars, work, dbVars, faults>>

Forget(c) ==
  /\ key' = [key EXCEPT ![c] = None]
  /\ work' = [work EXCEPT ![c] = None]

MarkSubmitted(c) ==
  /\ stage[c] = "mark"
  /\ IF key[c] \in submitted[c]
     THEN Goto(c, "idle") /\ Forget(c) /\ UNCHANGED submitted
     ELSE /\ Goto(c, "validate")
          /\ submitted' = [submitted EXCEPT ![c] = @ \cup {key[c]}]
          /\ UNCHANGED <<key, work>>
  /\ UNCHANGED <<makerVars, nextEN1, en1, authorized, job, dbVars, faults>>

(* The header is built from the maker's current job, whatever job the      *)
(* submission is for, and from the bytes, not from the text of the key.    *)
Header(c) == [tpl |-> made[Len(made)], en1 |-> en1[c], sol |-> Decode[key[c].sol]]

RejectLow(c) ==
  /\ stage[c] = "validate" /\ Grade[Header(c)] = "low"
  /\ Goto(c, "idle") /\ Forget(c)
  /\ UNCHANGED <<makerVars, connVars, dbVars, faults>>

(* A block goes to the daemon at once.  When the daemon does not take it,  *)
(* that is logged and the share goes on as a block.                        *)
Validate(c) ==
  /\ stage[c] = "validate" /\ Grade[Header(c)] # "low"
  /\ Goto(c, "insert")
  /\ work' = [work EXCEPT ![c] = Header(c)]
  /\ \/ /\ chain' = IF Grade[Header(c)] = "block" THEN chain \cup {Header(c)} ELSE chain
        /\ UNCHANGED faults
     \/ Grade[Header(c)] = "block" /\ Fault /\ UNCHANGED chain
  /\ UNCHANGED <<makerVars, connVars, key, shares, acked>>

(* mutant: only the key is unique in a pool *)
KeyIsFree(k, w) == \A r \in shares : r.key # k

(* the unique indexes of shares; the hash stands for the header *)
IsFree(k, w) == \A r \in shares : r.key # k /\ r.work # w

(* mutant: an insert that is refused is a share that was accounted for *)
StillAccepted(c) == Goto(c, "reply") /\ UNCHANGED <<key, work>>

(* mutant: a refused submission stays in hand *)
RefuseKeeping(c) == Goto(c, "idle") /\ UNCHANGED <<key, work>>

Refuse(c) == Goto(c, "idle") /\ Forget(c)

(* mutant: a block is recorded as a share *)
RowOfShare(c) == [key |-> key[c], work |-> work[c], type |-> "share"]

Row(c) == [key |-> key[c], work |-> work[c], type |-> Grade[work[c]]]

InsertAcceptedShare(c) ==
  /\ stage[c] = "insert"
  /\ IsFree(key[c], work[c])
  /\ shares' = shares \cup {Row(c)}
  /\ Goto(c, "reply")
  /\ UNCHANGED <<makerVars, connVars, key, work, chain, acked, faults>>

(* The row is committed and the connection to the database breaks: the     *)
(* miner is told that the share is not accounted for.                      *)
InsertAnswerLost(c) ==
  /\ stage[c] = "insert"
  /\ IsFree(key[c], work[c])
  /\ shares' = shares \cup {Row(c)}
  /\ Fault
  /\ Refuse(c)
  /\ UNCHANGED <<makerVars, connVars, chain, acked>>

InsertFails(c) ==
  /\ stage[c] = "insert"
  /\ IF IsFree(key[c], work[c]) THEN Fault ELSE UNCHANGED faults
  /\ Refuse(c)
  /\ UNCHANGED <<makerVars, connVars, dbVars>>

Reply(c) ==
  /\ stage[c] = "reply"
  /\ acked' = [acked EXCEPT ![work[c]] = @ + 1]
  /\ Goto(c, "idle") /\ Forget(c)
  /\ UNCHANGED <<makerVars, connVars, chain, shares, faults>>

(* The process ends between any two steps and is started again: jobs and   *)
(* connections are counted from the beginning.                             *)
Restart ==
  /\ Fault
  /\ made' = << >> /\ nextEN1' = 0
  /\ en1' = [c \in Conns |-> 0]
  /\ authorized' = [c \in Conns |-> FALSE]
  /\ job' = [c \in Conns |-> 0]
  /\ submitted' = [c \in Conns |-> {}]
  /\ stage' = [c \in Conns |-> "idle"]
  /\ key' = [c \in Conns |-> None] /\ work' = [c \in Conns |-> None]
  /\ UNCHANGED <<tpl, dbVars>>

Handler(c) ==
  \/ HandleConn(c) \/ Leave(c) \/ HandleAuthorize(c)
  \/ \E s \in Solutions : HandleSubmit(c, s)
  \/ MarkSubmitted(c) \/ RejectLow(c) \/ Validate(c)
  \/ InsertAcceptedShare(c) \/ InsertAnswerLost(c) \/ InsertFails(c) \/ Reply(c)

Next ==
  \/ ChainMoves \/ BuildJob \/ Restart
  \/ \E c \in Conns : Handler(c) \/ \E id \in JobIds : SendJob(c, id)

Spec == Init /\ [][Next]_vars

-----------------------------------------------------------------------------
TypeOK ==
  /\ tpl \in Templates
  /\ made \in Seq(Templates) /\ Len(made) <= MaxJobs
  /\ nextEN1 \in 0..MaxEN1
  /\ en1 \in [Conns -> 0..MaxEN1]
  /\ authorized \in [Conns -> BOOLEAN]
  /\ job \in [Conns -> 0..Len(made)]
  /\ submitted \in [Conns -> SUBSET Key]
  /\ stage \in [Conns -> {"idle", "mark", "validate", "insert", "reply"}]
  /\ key \in [Conns -> Key \cup {None}]
  /\ work \in [Conns -> Work \cup {None}]
  /\ \A c \in Conns :
       /\ key[c] = None <=> stage[c] = "idle"
       /\ work[c] # None <=> stage[c] \in {"insert", "reply"}
  /\ chain \subseteq Work
  /\ shares \subseteq [key : Key, work : Work, type : {"share", "block"}]
  /\ acked \in [Work -> Nat]
  /\ faults \in 0..MaxFaults

(* Work is acknowledged once: sendJob forgets what was submitted, equal    *)
(* templates come back under other ids, extranonces come back with a       *)
(* restart, and still no miner is told twice that the same work counts.    *)
AckedOnce == \A w \in Work : acked[w] <= 1

(* What a miner was told is accepted is paid for: it is in the table, as   *)
(* a block when it is one.                                                 *)
AckedIsRecorded ==
  \A w \in Work : acked[w] > 0 => \E r \in shares : r.work = w /\ r.type = Grade[w]

(* Every block the daemon took is recorded as one, so that the payout      *)
(* engine follows it and pays the round it ends, or is about to be.        *)
BlockRecorded ==
  \A w \in chain :
    \/ \E r \in shares : r.work = w /\ r.type = "block"
    \/ \E c \in Conns : stage[c] = "insert" /\ work[c] = w

(* A block has its row, is about to have it, or there is a row of other    *)
(* work with its extranonce2, time and nonce.                              *)
HasRowOrNamesake(w) ==
  \/ \E r \in shares : r.work = w /\ r.type = "block"
  \/ \E c \in Conns : stage[c] = "insert" /\ work[c] = w
  \/ \E r \in shares : r.work # w /\ Decode[r.key.sol] = w.sol

(* While nothing fails, only a namesake takes a block's row: a block that  *)
(* the daemon took and the table does not have was refused for a row of    *)
(* other work with the same solution, and not because jobs changed, marks  *)
(* were forgotten or handlers overtook each other.                         *)
BlockOrNamesake == faults = 0 => \A w \in chain : HasRowOrNamesake(w)

Entries == {[work |-> r.work, type |-> r.type] : r \in shares}

(* how many rows the table has of each work, as each type *)
Rows == [e \in Entries |-> Cardinality({r \in shares : r.work = e.work /\ r.type = e.type})]

(* The handlers keep the promises of ShareLedger: between a submission and *)
(* its reply lie a mark that can be forgotten, a job that can change, an   *)
(* insert whose answer can be lost and a restart, and yet each work has at *)
(* most one row, of its type, and one reply, which follows the row.        *)
Promise == INSTANCE ShareLedger WITH
  Worth     <- Grade,
  counted   <- Rows,
  confirmed <- acked

ImplementsPromise == Promise!Spec
=============================================================================
