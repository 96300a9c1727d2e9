----------------------------- MODULE AiGeneration -----------------------------
(***************************************************************************)
(* Paid AI image generation: the HTTP handlers of ai.controller.ts, the    *)
(* per-draft lock, the in-memory idempotency cache, the BullMQ queue and   *)
(* the worker of ai.worker.ts, running in the processes Servers over one   *)
(* database.  A step is what one process does between two awaits, or one   *)
(* database transaction.  With a Redis URL configured the lock is a Redis  *)
(* key and jobs go through the queue; without one the lock is a Set of the *)
(* process and the handler generates inline.                               *)
(*                                                                         *)
(* A request creates at most one AiJob, so jobs carry the request's name.  *)
(***************************************************************************)
EXTENDS Ledger, FiniteSets

CONSTANTS
  Requests, Drafts, Keys, Servers,
  Owner,             \* Owner[d]: the user of draft d, who pays
  Inputs,            \* what a request may ask: op, draft, idempotency key, server
  StartBalances,     \* balances a user may hold when the requests arrive
  TopUpAmount,       \* credits of one grant or purchase
  NoOne,             \* not a request and not a server
  RedisConfigured,   \* env.REDIS_URL is set and its libraries are installed
  MaxAttempts,       \* defaultJobOptions.attempts: 3
  MaxStalls,         \* BullMQ's maxStalledCount: 1
  Faults,            \* which of FaultKinds a behaviour may contain
  MaxCrashes, MaxTopUps   \* bounds of the exploration

Ops == {"generate", "regen"}
FaultKinds == {"db", "redis", "slow-holder", "slow-worker", "idem-expiry"}

ASSUME AiAssumption ==
  /\ Owner \in [Drafts -> Users]
  /\ Inputs \subseteq [op : Ops, draft : Drafts, key : Keys, at : Servers]
  /\ StartBalances \subseteq Nat
  /\ TopUpAmount \in Nat \ {0}
  /\ NoOne \notin Requests /\ NoOne \notin Servers
  /\ RedisConfigured \in BOOLEAN
  /\ MaxAttempts \in Nat \ {0} /\ MaxStalls \in Nat
  /\ Faults \subseteq FaultKinds
  /\ MaxCrashes \in Nat /\ MaxTopUps \in Nat

VARIABLES
  args,         \* args[r]: r's input
  pc,           \* pc[r]: the step r's handler takes next
  answer,       \* answer[r]: the response r was given
  seen,         \* seen[r]: the draft's aiRegenCount as r read it
  funds,        \* funds[r]: the wallet balance as r read it
  regenCount,   \* Draft.aiRegenCount
  job,          \* AiJob.status
  saved,        \* saved[r]: all of the job's images have a file and a row
  refunds,      \* how many refunds were posted for a job
  redisLock,    \* the Redis key lock:draft:<d>, and who set it
  memLock,      \* activeLocks, per process
  idem,         \* idemCache, per process
  queue,        \* state of the BullMQ job of an AiJob
  holder,       \* the process whose worker holds an active BullMQ job
  attempts,     \* attemptsMade: failed runs of the BullMQ job
  stalls,       \* how often it was taken from its holder
  task, step,   \* the job a process's worker runs, and where it is in it
  made,         \* attemptsMade of that job as the worker was given it
  crashes, topUps,
  overlapped    \* overlapped[u]: two requests of u once were between reading
                \* the wallet and charging it at the same time (history)

handlerVars == <<args, pc, answer, seen, funds>>
lockVars == <<redisLock, memLock, idem>>
jobVars == <<job, saved, refunds>>
queueVars == <<queue, holder, attempts, stalls>>
workerVars == <<task, step, made>>
envVars == <<crashes, topUps, overlapped>>
vars == <<ledgerVars, handlerVars, regenCount, jobVars, lockVars, queueVars,
          workerVars, envVars>>

Steps == {"new", "wallet", "decide", "lock", "charge", "deliver", "mark", "fail",
          "refund", "finish", "release", "done", "lost"}
Answers == {"none", "accepted", "cached", "poor", "busy", "refused", "error", "failed"}
QueueStates == {"absent", "waiting", "active", "finished"}
WorkerSteps == {"idle", "check", "generate", "mark", "fail", "refund", "throw", "ack"}

HandlersTypeOK ==
  /\ args \in [Requests -> Inputs]
  /\ pc \in [Requests -> Steps]
  /\ answer \in [Requests -> Answers]
  /\ seen \in [Requests -> Nat]
  /\ funds \in [Requests -> Int]

JobsTypeOK ==
  /\ regenCount \in [Drafts -> Nat]
  /\ job \in [Requests -> {"none", "queued", "completed", "failed"}]
  /\ saved \in [Requests -> BOOLEAN]
  /\ refunds \in [Requests -> Nat]

LocksTypeOK ==
  /\ redisLock \in [Drafts -> Requests \cup {NoOne}]
  /\ memLock \in [Servers -> SUBSET Drafts]
  /\ idem \in [Servers -> [Keys -> Requests \cup {NoOne}]]

\* An active job has a holder, and a busy worker a job.
QueueTypeOK ==
  /\ queue \in [Requests -> QueueStates]
  /\ holder \in [Requests -> Servers \cup {NoOne}]
  /\ \A j \in Requests : queue[j] = "active" => holder[j] \in Servers
  /\ attempts \in [Requests -> Nat]
  /\ stalls \in [Requests -> Nat]

WorkersTypeOK ==
  /\ task \in [Servers -> Requests \cup {NoOne}]
  /\ step \in [Servers -> WorkerSteps]
  /\ \A s \in Servers : step[s] # "idle" => task[s] \in Requests
  /\ made \in [Servers -> Nat]

EnvTypeOK ==
  /\ crashes \in Nat
  /\ topUps \in Nat
  /\ overlapped \in [Users -> BOOLEAN]

TypeOK ==
  /\ LedgerTypeOK /\ HandlersTypeOK /\ JobsTypeOK
  /\ LocksTypeOK /\ QueueTypeOK /\ WorkersTypeOK /\ EnvTypeOK

Draft(r) == args[r].draft
Server(r) == args[r].at
Payer(r) == Owner[Draft(r)]
IsGenerate(r) == args[r].op = "generate"

\* The price of the next image set of a draft after n regenerations.
Price(n) == IF n >= 2 THEN 300 ELSE 100 + n * 100
Cost(r) == Price(seen[r])

\* Holding the draft lock: from taking it to the finally block.
Section == {"charge", "deliver", "mark", "fail", "refund", "finish", "release"}
InSection(r) == IsGenerate(r) /\ pc[r] \in Section

\* Wallet read, wallet not yet charged.
Deciding(u) == {r \in Requests : Payer(r) = u /\ pc[r] \in {"decide", "lock", "charge"}}

Init ==
  /\ balance \in [Users -> StartBalances]
  /\ OpenedWith(balance)
  /\ args \in [Requests -> Inputs]
  /\ pc = [r \in Requests |-> "new"]
  /\ answer = [r \in Requests |-> "none"]
  /\ seen = [r \in Requests |-> 0]
  /\ funds = [r \in Requests |-> 0]
  /\ regenCount = [d \in Drafts |-> 0]
  /\ job = [r \in Requests |-> "none"]
  /\ saved = [r \in Requests |-> FALSE]
  /\ refunds = [r \in Requests |-> 0]
  /\ redisLock = [d \in Drafts |-> NoOne]
  /\ memLock = [s \in Servers |-> {}]
  /\ idem = [s \in Servers |-> [k \in Keys |-> NoOne]]
  /\ queue = [r \in Requests |-> "absent"]
  /\ holder = [r \in Requests |-> NoOne]
  /\ attempts = [r \in Requests |-> 0] /\ stalls = [r \in Requests |-> 0]
  /\ task = [s \in Servers |-> NoOne]
  /\ step = [s \in Servers |-> "idle"]
  /\ made = [s \in Servers |-> 0]
  /\ crashes = 0 /\ topUps = 0
  /\ overlapped = [u \in Users |-> FALSE]
-------------------------------------------------------------------------------
(* Moves of a handler that change nothing but where it is. *)

Goto(r, next) == pc' = [pc EXCEPT ![r] = next] /\ UNCHANGED answer

Reply(r, response, next) ==
  /\ pc' = [pc EXCEPT ![r] = next]
  /\ answer' = [answer EXCEPT ![r] = response]

\* Leaving the body of the handler: generate passes its finally block, which
\* frees the lock; regen has none.
Leave(r, response) == Reply(r, response, IF IsGenerate(r) THEN "release" ELSE "done")
-------------------------------------------------------------------------------
(* The handler, up to the charge. *)

\* Draft unknown or someone else's, or a database error before anything is held.
Refuse(r) ==
  /\ \/ pc[r] = "new"
     \/ pc[r] = "wallet" /\ "db" \in Faults
  /\ Reply(r, "refused", "done")
  /\ UNCHANGED <<ledgerVars, args, seen, funds, regenCount, jobVars, lockVars,
                 queueVars, workerVars, envVars>>

ReadDraft(r) ==
  /\ pc[r] = "new"
  /\ seen' = [seen EXCEPT ![r] = regenCount[Draft(r)]]
  /\ Goto(r, "wallet")
  /\ UNCHANGED <<ledgerVars, args, funds, regenCount, jobVars, lockVars, queueVars,
                 workerVars, envVars>>

ReadWallet(r) ==
  /\ pc[r] = "wallet"
  /\ funds' = [funds EXCEPT ![r] = balance[Payer(r)]]
  /\ overlapped' = [overlapped EXCEPT ![Payer(r)] = @ \/ Deciding(Payer(r)) # {}]
  /\ Goto(r, "decide")
  /\ UNCHANGED <<ledgerVars, args, seen, regenCount, jobVars, lockVars, queueVars,
                 workerVars, crashes, topUps>>

\* 402, 400 for an unsafe prompt (generate only), or 202 with the job cached
\* under the same key.
TurnAway(r) ==
  /\ pc[r] = "decide"
  /\ \/ funds[r] < Cost(r) /\ Reply(r, "poor", "done")
     \/ funds[r] >= Cost(r) /\ IsGenerate(r) /\ Reply(r, "refused", "done")
     \/ /\ funds[r] >= Cost(r) /\ IsGenerate(r)
        /\ idem[Server(r)][args[r].key] # NoOne
        /\ Reply(r, "cached", "done")
  /\ UNCHANGED <<ledgerVars, args, seen, funds, regenCount, jobVars, lockVars,
                 queueVars, workerVars, envVars>>

\* Mutant of AdmitRegen: exactly the price is neither enough nor too little.
AdmitRegenStrict(r) ==
  /\ pc[r] = "decide" /\ ~IsGenerate(r)
  /\ funds[r] > Cost(r)
  /\ Goto(r, "charge")
  /\ UNCHANGED <<ledgerVars, args, seen, funds, regenCount, jobVars, lockVars,
                 queueVars, workerVars, envVars>>

\* Regen charges straight away: it takes no lock.
AdmitRegen(r) ==
  /\ pc[r] = "decide" /\ ~IsGenerate(r)
  /\ funds[r] >= Cost(r)
  /\ Goto(r, "charge")
  /\ UNCHANGED <<ledgerVars, args, seen, funds, regenCount, jobVars, lockVars,
                 queueVars, workerVars, envVars>>

\* Mutant of MemAcquire: the set is filled but not looked at.
MemAcquireBlind(r) ==
  /\ memLock' = [memLock EXCEPT ![Server(r)] = @ \cup {Draft(r)}]
  /\ Goto(r, "charge")
  /\ UNCHANGED redisLock

MemAcquire(r) ==
  /\ \/ /\ Draft(r) \in memLock[Server(r)]
        /\ Reply(r, "busy", "done")
        /\ UNCHANGED memLock
     \/ /\ Draft(r) \notin memLock[Server(r)]
        /\ memLock' = [memLock EXCEPT ![Server(r)] = @ \cup {Draft(r)}]
        /\ Goto(r, "charge")
  /\ UNCHANGED redisLock

\* Mutant of RedisAcquire: SET without NX.
RedisAcquireBlind(r) ==
  /\ redisLock' = [redisLock EXCEPT ![Draft(r)] = r]
  /\ Goto(r, "charge")
  /\ UNCHANGED memLock

RedisAcquire(r) ==
  /\ \/ /\ redisLock[Draft(r)] # NoOne
        /\ Reply(r, "busy", "done")
        /\ UNCHANGED redisLock
     \/ /\ redisLock[Draft(r)] = NoOne
        /\ redisLock' = [redisLock EXCEPT ![Draft(r)] = r]
        /\ Goto(r, "charge")
  /\ UNCHANGED memLock

\* Mutant of AdmitGenerate: the balance is not compared with the price.
AdmitGenerateUnpaid(r) ==
  /\ pc[r] = "decide" /\ IsGenerate(r)
  /\ idem[Server(r)][args[r].key] = NoOne
  /\ \/ ~RedisConfigured /\ MemAcquire(r)
     \/ RedisConfigured /\ Goto(r, "lock") /\ UNCHANGED <<redisLock, memLock>>
  /\ UNCHANGED <<ledgerVars, args, seen, funds, regenCount, jobVars, idem, queueVars,
                 workerVars, envVars>>

\* The key is not cached.  Without Redis the look-up and the lock are one
\* synchronous step; with it the handler awaits SET NX.
AdmitGenerate(r) ==
  /\ pc[r] = "decide" /\ IsGenerate(r)
  /\ funds[r] >= Cost(r)
  /\ idem[Server(r)][args[r].key] = NoOne
  /\ \/ ~RedisConfigured /\ MemAcquire(r)
     \/ RedisConfigured /\ Goto(r, "lock") /\ UNCHANGED <<redisLock, memLock>>
  /\ UNCHANGED <<ledgerVars, args, seen, funds, regenCount, jobVars, idem, queueVars,
                 workerVars, envVars>>

\* SET NX, or the in-memory set when Redis answers with an error.
Lock(r) ==
  /\ pc[r] = "lock"
  /\ \/ RedisAcquire(r)
     \/ "redis" \in Faults /\ MemAcquire(r)
  /\ UNCHANGED <<ledgerVars, args, seen, funds, regenCount, jobVars, idem, queueVars,
                 workerVars, envVars>>

\* Mutant of Charge: the credits are taken before, and apart from, the job.
ChargeBeforeJob(r) ==
  /\ pc[r] = "charge"
  /\ Post(Payer(r), "spend", -Cost(r))
  /\ Goto(r, "deliver")
  /\ UNCHANGED <<args, seen, funds, regenCount, jobVars, lockVars, queueVars,
                 workerVars, envVars>>

\* The transaction that takes the credits and creates the job; the balance is
\* not read again.
Charge(r) ==
  /\ pc[r] = "charge"
  /\ Post(Payer(r), "spend", -Cost(r))
  /\ job' = [job EXCEPT ![r] = "queued"]
  /\ Goto(r, "deliver")
  /\ UNCHANGED <<args, seen, funds, regenCount, saved, refunds, lockVars, queueVars,
                 workerVars, envVars>>

\* A database error leaves through the finally block: in the transaction, in
\* the query between it and the delivery, or in the inline catch block.
DbError(r) ==
  /\ "db" \in Faults
  /\ \/ pc[r] \in {"charge", "fail", "refund"}
     \/ pc[r] = "deliver" /\ (RedisConfigured => ~IsGenerate(r))
  /\ Leave(r, "error")
  /\ UNCHANGED <<ledgerVars, args, seen, funds, regenCount, jobVars, lockVars,
                 queueVars, workerVars, envVars>>
-------------------------------------------------------------------------------
(* The handler after the charge: through the queue... *)

\* From generate, the cache is filled after add has answered; regen replies.
Enqueue(r) ==
  /\ RedisConfigured /\ pc[r] = "deliver"
  /\ queue' = [queue EXCEPT ![r] = "waiting"]
  /\ \/ IsGenerate(r) /\ Goto(r, "finish")
     \/ ~IsGenerate(r) /\ Reply(r, "accepted", "done")
  /\ UNCHANGED <<ledgerVars, args, seen, funds, regenCount, jobVars, lockVars,
                 holder, attempts, stalls, workerVars, envVars>>

EnqueueError(r) ==
  /\ RedisConfigured /\ pc[r] = "deliver"
  /\ "redis" \in Faults
  /\ Leave(r, "error")
  /\ UNCHANGED <<ledgerVars, args, seen, funds, regenCount, jobVars, lockVars,
                 queueVars, workerVars, envVars>>

(* ...or inline. *)

\* The provider and the image files: all saved, or an error, which may also be
\* that of the job's update when all of them are.
InlineGenerate(r) ==
  /\ ~RedisConfigured /\ pc[r] = "deliver"
  /\ \/ saved' = [saved EXCEPT ![r] = TRUE] /\ Goto(r, "mark")
     \/ \E all \in BOOLEAN : saved' = [saved EXCEPT ![r] = all] /\ Goto(r, "fail")
  /\ UNCHANGED <<ledgerVars, args, seen, funds, regenCount, job, refunds, lockVars,
                 queueVars, workerVars, envVars>>

\* Mutant of InlineComplete: generate counts as a regeneration too.
InlineCompleteCounting(r) ==
  /\ pc[r] = "mark"
  /\ job' = [job EXCEPT ![r] = "completed"]
  /\ regenCount' = [regenCount EXCEPT ![Draft(r)] = seen[r] + 1]
  /\ \/ IsGenerate(r) /\ Goto(r, "finish")
     \/ ~IsGenerate(r) /\ Reply(r, "accepted", "done")
  /\ UNCHANGED <<ledgerVars, args, seen, funds, saved, refunds, lockVars, queueVars,
                 workerVars, envVars>>

\* regen also writes the count it read at the start, plus one.
InlineComplete(r) ==
  /\ pc[r] = "mark"
  /\ job' = [job EXCEPT ![r] = "completed"]
  /\ \/ IsGenerate(r) /\ Goto(r, "finish") /\ UNCHANGED regenCount
     \/ /\ ~IsGenerate(r)
        /\ regenCount' = [regenCount EXCEPT ![Draft(r)] = seen[r] + 1]
        /\ Reply(r, "accepted", "done")
  /\ UNCHANGED <<ledgerVars, args, seen, funds, saved, refunds, lockVars, queueVars,
                 workerVars, envVars>>

\* Mutant of InlineFail: the failure is answered without a refund.
InlineFailKeepingCredits(r) ==
  /\ pc[r] = "fail"
  /\ job' = [job EXCEPT ![r] = "failed"]
  /\ Leave(r, "failed")
  /\ UNCHANGED <<ledgerVars, args, seen, funds, regenCount, saved, refunds, lockVars,
                 queueVars, workerVars, envVars>>

\* Mutant of InlineFail: a status the schema's comment does not list.
InlineFailAsError(r) ==
  /\ pc[r] = "fail"
  /\ job' = [job EXCEPT ![r] = "error"]
  /\ Goto(r, "refund")
  /\ UNCHANGED <<ledgerVars, args, seen, funds, regenCount, saved, refunds, lockVars,
                 queueVars, workerVars, envVars>>

InlineFail(r) ==
  /\ pc[r] = "fail"
  /\ job' = [job EXCEPT ![r] = "failed"]
  /\ Goto(r, "refund")
  /\ UNCHANGED <<ledgerVars, args, seen, funds, regenCount, saved, refunds, lockVars,
                 queueVars, workerVars, envVars>>

InlineRefund(r) ==
  /\ pc[r] = "refund"
  /\ Post(Payer(r), "refund", Cost(r))
  /\ refunds' = [refunds EXCEPT ![r] = @ + 1]
  /\ Leave(r, "failed")
  /\ UNCHANGED <<args, seen, funds, regenCount, job, saved, lockVars, queueVars,
                 workerVars, envVars>>

\* releaseDraftLock: DEL whatever the key holds, then forget the draft here.
FreeLock(r) ==
  /\ \/ RedisConfigured /\ redisLock' = [redisLock EXCEPT ![Draft(r)] = NoOne]
     \/ (RedisConfigured => "redis" \in Faults) /\ UNCHANGED redisLock
  /\ memLock' = [memLock EXCEPT ![Server(r)] = @ \ {Draft(r)}]

\* Mutant of Finish: the lock is freed before the cache is filled.
FinishUncached(r) ==
  /\ pc[r] = "finish"
  /\ \/ ~RedisConfigured /\ FreeLock(r) /\ Reply(r, "accepted", "done")
     \/ /\ RedisConfigured /\ Reply(r, "accepted", "release")
        /\ UNCHANGED <<redisLock, memLock>>
  /\ UNCHANGED <<ledgerVars, args, seen, funds, regenCount, jobVars, idem, queueVars,
                 workerVars, envVars>>

\* Fill the cache and reply.  Without Redis the finally block runs in the same
\* step; with it the handler first awaits DEL.
Finish(r) ==
  /\ pc[r] = "finish"
  /\ idem' = [idem EXCEPT ![Server(r)] = [@ EXCEPT ![args[r].key] = r]]
  /\ \/ ~RedisConfigured /\ FreeLock(r) /\ Reply(r, "accepted", "done")
     \/ /\ RedisConfigured /\ Reply(r, "accepted", "release")
        /\ UNCHANGED <<redisLock, memLock>>
  /\ UNCHANGED <<ledgerVars, args, seen, funds, regenCount, jobVars, queueVars,
                 workerVars, envVars>>

Release(r) ==
  /\ pc[r] = "release"
  /\ FreeLock(r)
  /\ Goto(r, "done")
  /\ UNCHANGED <<ledgerVars, args, seen, funds, regenCount, jobVars, idem, queueVars,
                 workerVars, envVars>>

Handler(r) ==
  \/ Refuse(r) \/ ReadDraft(r) \/ ReadWallet(r) \/ TurnAway(r)
  \/ AdmitRegen(r) \/ AdmitGenerate(r) \/ Lock(r) \/ Charge(r) \/ DbError(r)
  \/ Enqueue(r) \/ EnqueueError(r)
  \/ InlineGenerate(r) \/ InlineComplete(r) \/ InlineFail(r) \/ InlineRefund(r)
  \/ Finish(r) \/ Release(r)
-------------------------------------------------------------------------------
(* The worker of process s.  BullMQ moves a waiting job to one worker, counts  *)
(* an attempt for each failed run, and drops the result of a worker whose own  *)
(* lock on the job was lost.                                                   *)

WorkerGoto(s, next) == step' = [step EXCEPT ![s] = next] /\ UNCHANGED <<task, made>>

Idle(s) ==
  /\ task' = [task EXCEPT ![s] = NoOne]
  /\ step' = [step EXCEPT ![s] = "idle"]
  /\ made' = [made EXCEPT ![s] = 0]

HoldsJob(s) == queue[task[s]] = "active" /\ holder[task[s]] = s

\* BullMQ's record of job j when its holder is done with it.
PutBack(j, state) ==
  /\ queue' = [queue EXCEPT ![j] = state]
  /\ holder' = [holder EXCEPT ![j] = NoOne]

Take(s, j) ==
  /\ step[s] = "idle"
  /\ queue[j] = "waiting"
  /\ queue' = [queue EXCEPT ![j] = "active"]
  /\ holder' = [holder EXCEPT ![j] = s]
  /\ task' = [task EXCEPT ![s] = j]
  /\ step' = [step EXCEPT ![s] = "check"]
  /\ made' = [made EXCEPT ![s] = attempts[j]]
  /\ UNCHANGED <<ledgerVars, handlerVars, regenCount, jobVars, lockVars, attempts,
                 stalls, envVars>>

\* Mutant of Check: whatever the status, the job is run.
CheckNothing(s) ==
  /\ step[s] = "check"
  /\ WorkerGoto(s, "generate")
  /\ UNCHANGED <<ledgerVars, handlerVars, regenCount, jobVars, lockVars, queueVars,
                 envVars>>

\* Only a job still queued is run; any other status returns, which BullMQ
\* takes for a success.  An error of the look-up is thrown before the try.
Check(s) ==
  /\ step[s] = "check"
  /\ \/ WorkerGoto(s, IF job[task[s]] = "queued" THEN "generate" ELSE "ack")
     \/ "db" \in Faults /\ WorkerGoto(s, "throw")
  /\ UNCHANGED <<ledgerVars, handlerVars, regenCount, jobVars, lockVars, queueVars,
                 envVars>>

\* Mutant of WorkerGenerate: an image that cannot be saved is skipped.
WorkerGenerateLenient(s) ==
  /\ step[s] = "generate"
  /\ \E all \in BOOLEAN : saved' = [saved EXCEPT ![task[s]] = @ \/ all]
  /\ WorkerGoto(s, "mark")
  /\ UNCHANGED <<ledgerVars, handlerVars, regenCount, job, refunds, lockVars,
                 queueVars, envVars>>

WorkerGenerate(s) ==
  /\ step[s] = "generate"
  /\ \/ saved' = [saved EXCEPT ![task[s]] = TRUE] /\ WorkerGoto(s, "mark")
     \/ /\ \E all \in BOOLEAN : saved' = [saved EXCEPT ![task[s]] = @ \/ all]
        /\ WorkerGoto(s, "fail")
  /\ UNCHANGED <<ledgerVars, handlerVars, regenCount, job, refunds, lockVars,
                 queueVars, envVars>>

WorkerComplete(s) ==
  /\ step[s] = "mark"
  /\ job' = [job EXCEPT ![task[s]] = "completed"]
  /\ WorkerGoto(s, "ack")
  /\ UNCHANGED <<ledgerVars, handlerVars, regenCount, saved, refunds, lockVars,
                 queueVars, envVars>>

\* The run of s now failing is the last that BullMQ gives the job.
LastAttempt(s) == made[s] + 1 >= MaxAttempts

\* Mutant of WorkerFail: the status is left for the retry to set.
WorkerFailQuietly(s) ==
  /\ step[s] = "fail"
  /\ WorkerGoto(s, IF LastAttempt(s) THEN "refund" ELSE "throw")
  /\ UNCHANGED <<ledgerVars, handlerVars, regenCount, jobVars, lockVars, queueVars,
                 envVars>>

\* Marks the job failed on every failed attempt; an error of that update
\* leaves the catch block with the job still queued.
WorkerFail(s) ==
  /\ step[s] = "fail"
  /\ \/ /\ job' = [job EXCEPT ![task[s]] = "failed"]
        /\ WorkerGoto(s, IF LastAttempt(s) THEN "refund" ELSE "throw")
     \/ "db" \in Faults /\ WorkerGoto(s, "throw") /\ UNCHANGED job
  /\ UNCHANGED <<ledgerVars, handlerVars, regenCount, saved, refunds, lockVars,
                 queueVars, envVars>>

\* walletService.increase; its error is logged and swallowed.
WorkerRefund(s) ==
  /\ step[s] = "refund"
  /\ \/ /\ Post(Payer(task[s]), "refund", Cost(task[s]))
        /\ refunds' = [refunds EXCEPT ![task[s]] = @ + 1]
     \/ "db" \in Faults /\ UNCHANGED <<ledgerVars, refunds>>
  /\ WorkerGoto(s, "throw")
  /\ UNCHANGED <<handlerVars, regenCount, job, saved, lockVars, queueVars, envVars>>

\* The handler threw: retry after the backoff while attempts remain.
Throw(s) ==
  /\ step[s] = "throw"
  /\ \/ /\ HoldsJob(s)
        /\ PutBack(task[s], IF LastAttempt(s) THEN "finished" ELSE "waiting")
        /\ attempts' = [attempts EXCEPT ![task[s]] = @ + 1]
     \/ ~HoldsJob(s) /\ UNCHANGED <<queue, holder, attempts>>
  /\ Idle(s)
  /\ UNCHANGED <<ledgerVars, handlerVars, regenCount, jobVars, lockVars, stalls,
                 envVars>>

Ack(s) ==
  /\ step[s] = "ack"
  /\ \/ /\ HoldsJob(s)
        /\ PutBack(task[s], "finished")
     \/ ~HoldsJob(s) /\ UNCHANGED <<queue, holder>>
  /\ Idle(s)
  /\ UNCHANGED <<ledgerVars, handlerVars, regenCount, jobVars, lockVars, attempts,
                 stalls, envVars>>

WorkerStep(s) ==
  \/ Check(s) \/ WorkerGenerate(s) \/ WorkerComplete(s) \/ WorkerFail(s)
  \/ WorkerRefund(s) \/ Throw(s) \/ Ack(s)

\* Active in the queue, but its worker has crashed.
Abandoned(j) == queue[j] = "active" /\ task[holder[j]] # j

\* An active job whose worker no longer renews its lock (it crashed, or is
\* slower than the renewal) goes back to the queue, or is given up after
\* MaxStalls times.
Stall(j) ==
  /\ queue[j] = "active"
  /\ Abandoned(j) \/ "slow-worker" \in Faults
  /\ PutBack(j, IF stalls[j] >= MaxStalls THEN "finished" ELSE "waiting")
  /\ stalls' = [stalls EXCEPT ![j] = @ + 1]
  /\ UNCHANGED <<ledgerVars, handlerVars, regenCount, jobVars, lockVars, attempts,
                 workerVars, envVars>>
-------------------------------------------------------------------------------
(* The environment. *)

\* The key's 60 s are over.  Unless holders may be that slow, only the key of
\* a holder that is gone expires.
ExpireLock(d) ==
  /\ redisLock[d] # NoOne
  /\ "slow-holder" \in Faults \/ ~InSection(redisLock[d])
  /\ redisLock' = [redisLock EXCEPT ![d] = NoOne]
  /\ UNCHANGED <<ledgerVars, handlerVars, regenCount, jobVars, memLock, idem,
                 queueVars, workerVars, envVars>>

\* IDEM_TTL_MS is over.
ExpireKey(s, k) ==
  /\ "idem-expiry" \in Faults
  /\ idem[s][k] # NoOne
  /\ idem' = [idem EXCEPT ![s] = [@ EXCEPT ![k] = NoOne]]
  /\ UNCHANGED <<ledgerVars, handlerVars, regenCount, jobVars, redisLock, memLock,
                 queueVars, workerVars, envVars>>

\* An admin grant or a purchase: WalletService.increase.
TopUp(u, kind) ==
  /\ topUps < MaxTopUps
  /\ Post(u, kind, TopUpAmount)
  /\ topUps' = topUps + 1
  /\ UNCHANGED <<handlerVars, regenCount, jobVars, lockVars, queueVars, workerVars,
                 crashes, overlapped>>

\* Process s dies and is started again: its requests are lost, what it kept in
\* memory is gone, the database and Redis stay.
Crash(s) ==
  /\ crashes < MaxCrashes
  /\ crashes' = crashes + 1
  /\ pc' = [r \in Requests |->
              IF Server(r) = s /\ pc[r] \notin {"new", "done"} THEN "lost" ELSE pc[r]]
  /\ memLock' = [memLock EXCEPT ![s] = {}]
  /\ idem' = [idem EXCEPT ![s] = [k \in Keys |-> NoOne]]
  /\ Idle(s)
  /\ UNCHANGED <<ledgerVars, args, answer, seen, funds, regenCount, jobVars,
                 redisLock, queueVars, topUps, overlapped>>

Next ==
  \/ \E r \in Requests : Handler(r)
  \/ \E s \in Servers : WorkerStep(s) \/ Crash(s)
  \/ \E s \in Servers, j \in Requests : Take(s, j)
  \/ \E j \in Requests : Stall(j)
  \/ \E d \in Drafts : ExpireLock(d)
  \/ \E s \in Servers, k \in Keys : ExpireKey(s, k)
  \/ \E u \in Users, kind \in {"gift", "purchase"} : TopUp(u, kind)

Spec == Init /\ [][Next]_vars

\* Handlers and workers run on: Prisma and Redis answer or fail, and the
\* provider is called at most three times with a 60 s abort each.  Nobody has
\* to send a request, crash, top up, or be slow.
Fairness ==
  /\ \A r \in Requests : WF_vars(pc[r] # "new" /\ Handler(r))
  /\ \A s \in Servers : WF_vars(WorkerStep(s))
  /\ \A j \in Requests : WF_vars(\E s \in Servers : Take(s, j))
  /\ \A j \in Requests : WF_vars(Abandoned(j) /\ Stall(j))

FairSpec == Spec /\ Fairness
-------------------------------------------------------------------------------
(* What the code keeps. *)

\* A wallet goes below zero only for a user two of whose requests were once
\* between reading the balance and charging it at the same time: one request
\* at a time is never let through with less than its price.
OnlyOverlapOverdraws == \A u \in Users : ~overlapped[u] => balance[u] >= 0

\* The draft lock does what it is for: two generate requests of one draft are
\* never both past it (in one process, when the lock is the process's own set).
LockExclusive ==
  \A r, t \in Requests :
    /\ InSection(r) /\ InSection(t) /\ Draft(r) = Draft(t)
    /\ RedisConfigured \/ Server(r) = Server(t)
    => r = t

\* The response tells what became of the credits: 202 only for a paid job
\* (finished, when generated inline), 502 only for a failed and refunded one,
\* and every other refusal left the wallet alone.
AnswerMatchesAccount ==
  \A r \in Requests :
    /\ answer[r] = "accepted" =>
         IF RedisConfigured THEN job[r] # "none"
         ELSE job[r] = "completed" /\ refunds[r] = 0
    /\ answer[r] = "failed" => job[r] = "failed" /\ refunds[r] = 1
    /\ answer[r] \in {"cached", "poor", "busy", "refused"} => job[r] = "none"

\* A client that repeats a generate request under its idempotency key pays
\* once: no two of them on one draft are both charged and not refunded.
OneChargePerKey ==
  \A r, t \in Requests :
    /\ IsGenerate(r) /\ IsGenerate(t)
    /\ Draft(r) = Draft(t) /\ args[r].key = args[t].key
    /\ job[r] # "none" /\ refunds[r] = 0
    /\ job[t] # "none" /\ refunds[t] = 0
    => r = t \/ job[r] = "failed" \/ job[t] = "failed"

\* At most one requested generation of a draft is under way.
OneGenerationAtATime ==
  \A r, t \in Requests :
    /\ IsGenerate(r) /\ IsGenerate(t) /\ Draft(r) = Draft(t)
    /\ job[r] = "queued" /\ job[t] = "queued"
    => r = t

\* A job called completed has all its images, on every path and after every
\* crash between saving them and saying so.
CompletedHasImages == \A r \in Requests : job[r] = "completed" => saved[r]

\* aiRegenCount, which sets the price, never counts a regeneration that was
\* not delivered, however stale the count it was computed from.
RegenCountSound ==
  \A d \in Drafts :
    regenCount[d] <= Cardinality({r \in Requests : /\ Draft(r) = d /\ ~IsGenerate(r)
                                                   /\ job[r] = "completed"})

\* A completed or failed job stays what it is: no redelivery, retry or late
\* worker turns a delivered job into a failed one or the other way round.
JobOutcomeFinal ==
  [][\A r \in Requests : job[r] \in {"completed", "failed"} => job'[r] = job[r]]_vars

\* Detailed steps only move credits as the abstract account allows: one charge
\* per job, at most one refund, of the same amount and to the same user.
Account == INSTANCE CreditAccount WITH
  Jobs <- Requests,
  Prices <- {100, 200, 300},
  Amounts <- {TopUpAmount},
  charge <- [j \in Requests |->
               IF job[j] = "none" THEN [state |-> "none"]
               ELSE [state |-> IF refunds[j] = 0 THEN "spent" ELSE "returned",
                     payer |-> Payer(j), amount |-> Cost(j)]]
AccountSpec == Account!Spec

\* Every request that was received is answered.
EveryRequestAnswered ==
  \A r \in Requests : pc[r] = "wallet" ~> pc[r] = "done"

\* Inline, whatever was charged ends as a delivered job or a refund.
EveryChargeSettled ==
  \A r \in Requests : job[r] = "queued" ~> job[r] = "completed" \/ refunds[r] = 1

\* A job that reached the queue gets an outcome, also when the process running
\* it crashes on the way.
EnqueuedJobSettles ==
  \A r \in Requests : queue[r] = "waiting" ~> job[r] \in {"completed", "failed"}
-------------------------------------------------------------------------------
(* What the repository says and the code does not do. *)

\* A job whose generation failed for good was refunded.
FailedJobRefunded ==
  \A r \in Requests : queue[r] = "finished" /\ job[r] = "failed" => refunds[r] = 1

\* A request the wallet cannot pay for is refused, so no balance is negative.
NeverOverdrawn == \A u \in Users : balance[u] >= 0
===============================================================================
