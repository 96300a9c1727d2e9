---------------------------- MODULE AiOutcomesProofs ----------------------------
(* What becomes of the jobs and credits of AiGeneration: answers, images, the  *)
(* count that sets the price, idempotency, and the abstract account.           *)
EXTENDS AiGenerationProofs, FiniteSetTheorems

Early == {"new", "wallet", "decide", "lock", "charge"}
Over == {"release", "done", "lost"}

\* What the answer to r says is so.
AnswerTrue(r) ==
  /\ answer[r] = "accepted" =>
       IF RedisConfigured THEN job[r] # "none"
       ELSE job[r] = "completed" /\ refunds[r] = 0
  /\ answer[r] = "failed" => job[r] = "failed" /\ refunds[r] = 1
  /\ answer[r] \in {"cached", "poor", "busy", "refused"} =>
       job[r] = "none" /\ pc[r] \in {"done", "lost"}

\* The step that r's handler takes next tells what it has done to its job; inline
\* nobody else does anything to it.
HandlerTrue(r) ==
  /\ pc[r] \in Early => job[r] = "none"
  /\ pc[r] \in {"deliver", "finish"} => job[r] # "none"
  /\ pc[r] \notin Over => answer[r] = "none"
  /\ pc[r] \in {"mark", "fail", "refund"} \/ answer[r] = "failed" => ~RedisConfigured
  /\ ~RedisConfigured =>
       /\ pc[r] \in {"deliver", "mark", "fail"} => job[r] = "queued"
       /\ pc[r] = "mark" => saved[r]
       /\ pc[r] = "refund" => job[r] = "failed"
       /\ pc[r] = "finish" => job[r] = "completed"
       /\ refunds[r] > 0 => pc[r] \in Over /\ job[r] = "failed"

\* What has happened to a job has happened to one that exists, and only jobs in
\* the queue of a deployment that has one reach a worker.
JobTrue(r) ==
  /\ job[r] = "none" => refunds[r] = 0
  /\ job[r] = "none" \/ pc[r] = "deliver" => queue[r] = "absent"
  /\ job[r] = "completed" => saved[r]
  /\ queue[r] # "absent" => RedisConfigured

WorkerTrue(s) ==
  step[s] # "idle" =>
    /\ queue[task[s]] # "absent"
    /\ step[s] = "mark" => saved[task[s]]

OutcomeInv ==
  /\ \A r \in Requests : HandlerTrue(r) /\ JobTrue(r) /\ AnswerTrue(r)
  /\ \A s \in Servers : WorkerTrue(s)

\* The regenerations of d that were delivered, and what was read of their count.
Delivered(d) ==
  {r \in Requests : Draft(r) = d /\ ~IsGenerate(r) /\ job[r] = "completed"}

CountTrue ==
  /\ IsFiniteSet({r \in Requests : job[r] # "none"})
  /\ \A d \in Drafts : IF RedisConfigured THEN regenCount[d] = 0
                       ELSE regenCount[d] <= Cardinality(Delivered(d))
  /\ \A r \in Requests : IF RedisConfigured THEN seen[r] = 0
                         ELSE seen[r] <= Cardinality(Delivered(Draft(r)))

\* Without slow workers only one has a job, and it knows what became of it.
HolderTrue(s) ==
  step[s] # "idle" =>
    /\ queue[task[s]] = "active" /\ holder[task[s]] = s
    /\ step[s] \in {"generate", "mark", "fail"} => job[task[s]] = "queued"
    /\ step[s] = "refund" => job[task[s]] = "failed" /\ refunds[task[s]] = 0

HoldersInv ==
  /\ \A s \in Servers : HolderTrue(s)
  /\ \A r \in Requests : refunds[r] > 0 => job[r] = "failed"
-------------------------------------------------------------------------------
(* What a step leaves alone. *)

\* The variables that these invariants are about are functions.
LEMMA Tables ==
  ASSUME TypeOK
  PROVE  /\ pc \in [Requests -> Steps] /\ answer \in [Requests -> Answers]
         /\ job \in [Requests -> {"none", "queued", "completed", "failed"}]
         /\ saved \in [Requests -> BOOLEAN] /\ refunds \in [Requests -> Nat]
         /\ queue \in [Requests -> QueueStates]
         /\ holder \in [Requests -> Servers \cup {NoOne}]
         /\ step \in [Servers -> WorkerSteps]
         /\ task \in [Servers -> Requests \cup {NoOne}]
         /\ seen \in [Requests -> Nat] /\ regenCount \in [Drafts -> Nat]
         /\ \A s \in Servers : step[s] # "idle" => task[s] \in Requests
         /\ RedisConfigured \in BOOLEAN
  BY AiAssumption DEF TypeOK, HandlersTypeOK, JobsTypeOK, QueueTypeOK, WorkersTypeOK

\* A handler writes what is its own.
LEMMA HandlersOwn ==
  ASSUME TypeOK, NEW r \in Requests, Handler(r)
  PROVE  /\ args' = args /\ UNCHANGED workerVars /\ holder' = holder
         /\ \A t \in Requests \ {r} :
              /\ pc'[t] = pc[t] /\ answer'[t] = answer[t] /\ job'[t] = job[t]
              /\ saved'[t] = saved[t] /\ refunds'[t] = refunds[t] /\ queue'[t] = queue[t]
              /\ seen'[t] = seen[t]
  <1>1. CASE Refuse(r) \/ ReadDraft(r) \/ ReadWallet(r) \/ TurnAway(r) \/ AdmitRegen(r)
    BY <1>1, Tables DEF Refuse, ReadDraft, ReadWallet, TurnAway, AdmitRegen, Goto, Reply,
                        jobVars, queueVars
  <1>2. CASE AdmitGenerate(r) \/ Lock(r) \/ Finish(r) \/ Release(r)
    BY <1>2, Tables DEF AdmitGenerate, Lock, Finish, Release, MemAcquire, RedisAcquire,
                        Goto, Reply, jobVars, queueVars
  <1>3. CASE Charge(r) \/ DbError(r) \/ Enqueue(r) \/ EnqueueError(r)
    BY <1>3, Tables DEF Charge, DbError, Enqueue, EnqueueError, Goto, Reply, Leave,
                        jobVars, queueVars
  <1>4. CASE InlineGenerate(r) \/ InlineComplete(r) \/ InlineFail(r) \/ InlineRefund(r)
    BY <1>4, Tables DEF InlineGenerate, InlineComplete, InlineFail, InlineRefund,
                        Goto, Reply, Leave, jobVars, queueVars
  <1>5. QED BY <1>1, <1>2, <1>3, <1>4 DEF Handler

\* A worker writes about its task.
LEMMA WorkersOwn ==
  ASSUME TypeOK, NEW s \in Servers, WorkerStep(s)
  PROVE  /\ UNCHANGED <<handlerVars, lockVars, regenCount>>
         /\ step[s] # "idle" /\ task[s] \in Requests
         /\ \A t \in Requests \ {task[s]} :
              /\ job'[t] = job[t] /\ saved'[t] = saved[t] /\ refunds'[t] = refunds[t]
              /\ queue'[t] = queue[t] /\ holder'[t] = holder[t]
         /\ \A o \in Servers \ {s} : step'[o] = step[o] /\ task'[o] = task[o]
         /\ step'[s] # "idle" => task'[s] = task[s]
  <1>1. step[s] # "idle" /\ task[s] \in Requests
    BY Tables DEF WorkerStep, Check, WorkerGenerate, WorkerComplete, WorkerFail,
                  WorkerRefund, Throw, Ack
  <1>2. CASE Check(s) \/ WorkerGenerate(s) \/ WorkerComplete(s)
    BY <1>1, <1>2, Tables DEF Check, WorkerGenerate, WorkerComplete, WorkerGoto, jobVars,
                              queueVars
  <1>3. CASE WorkerFail(s) \/ WorkerRefund(s)
    BY <1>1, <1>3, Tables DEF WorkerFail, WorkerRefund, WorkerGoto, jobVars, queueVars
  <1>4. CASE Throw(s) \/ Ack(s)
    BY <1>1, <1>4, Tables DEF Throw, Ack, Idle, PutBack, jobVars, queueVars
  <1>5. QED BY <1>2, <1>3, <1>4 DEF WorkerStep

\* What is in memory, and who sends requests, is another matter.
LEMMA EnvironmentOwns ==
  ASSUME \/ \E d \in Drafts : ExpireLock(d)
         \/ \E s \in Servers, k \in Keys : ExpireKey(s, k)
         \/ \E u \in Users, kind \in {"gift", "purchase"} : TopUp(u, kind)
         \/ UNCHANGED vars
  PROVE  UNCHANGED <<handlerVars, jobVars, regenCount, queueVars, workerVars>>
  BY DEF ExpireLock, ExpireKey, TopUp, vars
-------------------------------------------------------------------------------
(* Jobs, answers and images. *)

LEMMA HandlerOutcome ==
  ASSUME TypeOK, OutcomeInv, NEW r \in Requests, Handler(r)
  PROVE  OutcomeInv'
  <1>1. HandlerTrue(r) /\ JobTrue(r) /\ AnswerTrue(r)
    BY DEF OutcomeInv
  <1>2. HandlerTrue(r)' /\ JobTrue(r)' /\ AnswerTrue(r)'
    <2>1. CASE Refuse(r) \/ ReadDraft(r) \/ ReadWallet(r) \/ TurnAway(r) \/ AdmitRegen(r)
      BY <1>1, <2>1, Tables
      DEF Refuse, ReadDraft, ReadWallet, TurnAway, AdmitRegen, Goto, Reply, jobVars,
          queueVars, HandlerTrue, JobTrue, AnswerTrue, Early, Over
    <2>2. CASE AdmitGenerate(r) \/ Lock(r)
      BY <1>1, <2>2, Tables
      DEF AdmitGenerate, Lock, MemAcquire, RedisAcquire, Goto, Reply, jobVars,
          queueVars, HandlerTrue, JobTrue, AnswerTrue, Early, Over
    <2>3. CASE Charge(r)
      BY <1>1, <2>3, Tables
      DEF Charge, Goto, queueVars, HandlerTrue, JobTrue, AnswerTrue, Early, Over
    <2>4. CASE DbError(r) \/ EnqueueError(r)
      BY <1>1, <2>4, Tables
      DEF DbError, EnqueueError, Leave, Reply, jobVars, queueVars, HandlerTrue, JobTrue,
          AnswerTrue, Early, Over
    <2>5. CASE Enqueue(r)
      BY <1>1, <2>5, Tables
      DEF Enqueue, Goto, Reply, jobVars, HandlerTrue, JobTrue, AnswerTrue, Early, Over
    <2>6. CASE InlineGenerate(r) \/ InlineComplete(r)
      BY <1>1, <2>6, Tables
      DEF InlineGenerate, InlineComplete, Goto, Reply, queueVars, HandlerTrue, JobTrue,
          AnswerTrue, Early, Over
    <2>7. CASE InlineFail(r) \/ InlineRefund(r)
      BY <1>1, <2>7, Tables
      DEF InlineFail, InlineRefund, Goto, Reply, Leave, queueVars, HandlerTrue, JobTrue,
          AnswerTrue, Early, Over
    <2>8. CASE Finish(r) \/ Release(r)
      BY <1>1, <2>8, Tables
      DEF Finish, Release, Goto, Reply, jobVars, queueVars, HandlerTrue, JobTrue,
          AnswerTrue, Early, Over
    <2>9. QED BY <2>1, <2>2, <2>3, <2>4, <2>5, <2>6, <2>7, <2>8 DEF Handler
  <1>3. ASSUME NEW t \in Requests \ {r}
        PROVE  HandlerTrue(t)' /\ JobTrue(t)' /\ AnswerTrue(t)'
    BY HandlersOwn DEF OutcomeInv, HandlerTrue, JobTrue, AnswerTrue
  <1>4. ASSUME NEW s \in Servers, step'[s] # "idle" PROVE WorkerTrue(s)'
    <2>1. step'[s] = step[s] /\ task'[s] = task[s]
      BY HandlersOwn DEF workerVars
    <2>2. PICK j \in Requests : j = task[s]
      BY <1>4, <2>1, Tables
    <2>3. queue[j] # "absent" /\ (step[s] = "mark" => saved[j])
      BY <1>4, <2>1, <2>2 DEF OutcomeInv, WorkerTrue
    <2>4. RedisConfigured
      BY <2>3 DEF OutcomeInv, JobTrue
    <2>5. queue'[j] # "absent" /\ saved'[j] = saved[j]
      <3>1. CASE j # r
        BY <2>3, <3>1, HandlersOwn
      <3>2. CASE j = r
        BY <1>1, <1>2, <2>3, <2>4, <3>2, Tables
        DEF Handler, Refuse, ReadDraft, ReadWallet, TurnAway, AdmitRegen, AdmitGenerate,
            Lock, Charge, DbError, Enqueue, EnqueueError, InlineGenerate, InlineComplete,
            InlineFail, InlineRefund, Finish, Release, jobVars, queueVars, HandlerTrue,
            JobTrue
      <3>3. QED BY <3>1, <3>2
    <2>6. QED BY <2>1, <2>2, <2>3, <2>5 DEF WorkerTrue
  <1>5. QED BY <1>2, <1>3, <1>4 DEF OutcomeInv, WorkerTrue

LEMMA WorkerOutcome ==
  ASSUME TypeOK, OutcomeInv, NEW s \in Servers, WorkerStep(s)
  PROVE  OutcomeInv'
  <1>1. PICK j \in Requests : j = task[s]
    BY WorkersOwn
  <1>2. /\ step[s] # "idle" /\ queue[j] # "absent" /\ (step[s] = "mark" => saved[j])
        /\ HandlerTrue(j) /\ JobTrue(j) /\ AnswerTrue(j)
    BY <1>1, WorkersOwn DEF OutcomeInv, WorkerTrue
  <1>3. RedisConfigured /\ job[j] # "none" /\ pc[j] \notin Early \cup {"deliver"}
    BY <1>2 DEF JobTrue, HandlerTrue
  <1>4. /\ job'[j] # "none" /\ queue'[j] # "absent" /\ (saved[j] => saved'[j])
        /\ job'[j] = "completed" => saved'[j]
        /\ step'[s] = "mark" => saved'[j]
    <2>1. CASE Check(s) \/ WorkerGenerate(s) \/ WorkerComplete(s)
      BY <1>1, <1>2, <1>3, <2>1, Tables
      DEF Check, WorkerGenerate, WorkerComplete, WorkerGoto, jobVars, queueVars, JobTrue
    <2>2. CASE WorkerFail(s) \/ WorkerRefund(s)
      BY <1>1, <1>2, <1>3, <2>2, Tables
      DEF WorkerFail, WorkerRefund, WorkerGoto, jobVars, queueVars, JobTrue
    <2>3. CASE Throw(s) \/ Ack(s)
      BY <1>1, <1>2, <1>3, <2>3, Tables
      DEF Throw, Ack, Idle, PutBack, jobVars, queueVars, JobTrue
    <2>4. QED BY <2>1, <2>2, <2>3 DEF WorkerStep
  <1>5. HandlerTrue(j)' /\ JobTrue(j)' /\ AnswerTrue(j)'
    BY <1>2, <1>3, <1>4, WorkersOwn
    DEF handlerVars, HandlerTrue, JobTrue, AnswerTrue, Early
  <1>6. ASSUME NEW t \in Requests, t # j
        PROVE  HandlerTrue(t)' /\ JobTrue(t)' /\ AnswerTrue(t)'
    BY <1>1, <1>6, WorkersOwn DEF OutcomeInv, handlerVars, HandlerTrue, JobTrue, AnswerTrue
  <1>7. ASSUME NEW o \in Servers PROVE WorkerTrue(o)'
    <2>1. CASE o = s
      BY <1>1, <1>4, <2>1, WorkersOwn DEF WorkerTrue
    <2>2. CASE o # s /\ step[o] # "idle"
      <3>1. task[o] \in Requests /\ step'[o] = step[o] /\ task'[o] = task[o]
        BY <2>2, WorkersOwn, Tables
      <3>2. WorkerTrue(o)
        BY DEF OutcomeInv
      <3>3. QED BY <1>1, <1>4, <2>2, <3>1, <3>2, WorkersOwn DEF WorkerTrue
    <2>3. CASE o # s /\ step[o] = "idle"
      BY <2>3, WorkersOwn DEF WorkerTrue
    <2>4. QED BY <2>1, <2>2, <2>3
  <1>8. QED BY <1>5, <1>6, <1>7 DEF OutcomeInv

LEMMA EnvironmentOutcome ==
  ASSUME TypeOK, OutcomeInv
  PROVE  /\ \A s \in Servers, j \in Requests : Take(s, j) => OutcomeInv'
         /\ \A s \in Servers : Crash(s) => OutcomeInv'
         /\ \A j \in Requests : Stall(j) => OutcomeInv'
  <1>1. ASSUME NEW s \in Servers, NEW j \in Requests, Take(s, j) PROVE OutcomeInv'
    <2>1. /\ UNCHANGED <<handlerVars, jobVars>>
          /\ queue[j] = "waiting" /\ queue' = [queue EXCEPT ![j] = "active"]
          /\ task' = [task EXCEPT ![s] = j] /\ step' = [step EXCEPT ![s] = "check"]
      BY <1>1 DEF Take
    <2>2. \A r \in Requests : HandlerTrue(r)' /\ JobTrue(r)' /\ AnswerTrue(r)'
      BY <2>1, Tables DEF OutcomeInv, handlerVars, jobVars, HandlerTrue, JobTrue, AnswerTrue
    <2>3. \A o \in Servers : WorkerTrue(o)'
      BY <2>1, Tables DEF OutcomeInv, jobVars, WorkerTrue
    <2>4. QED BY <2>2, <2>3 DEF OutcomeInv
  <1>2. ASSUME NEW s \in Servers, Crash(s) PROVE OutcomeInv'
    <2>1. /\ UNCHANGED <<args, answer, jobVars, queueVars>>
          /\ \A r \in Requests :
               pc'[r] = pc[r] \/ (pc'[r] = "lost" /\ pc[r] # "done")
          /\ task' = [task EXCEPT ![s] = NoOne] /\ step' = [step EXCEPT ![s] = "idle"]
      BY <1>2 DEF Crash, Idle
    <2>2. \A r \in Requests : HandlerTrue(r)' /\ JobTrue(r)' /\ AnswerTrue(r)'
      BY <2>1, Tables
      DEF OutcomeInv, jobVars, queueVars, HandlerTrue, JobTrue, AnswerTrue, Early, Over
    <2>3. \A o \in Servers : WorkerTrue(o)'
      BY <2>1, Tables DEF OutcomeInv, jobVars, queueVars, WorkerTrue
    <2>4. QED BY <2>2, <2>3 DEF OutcomeInv
  <1>3. ASSUME NEW j \in Requests, Stall(j) PROVE OutcomeInv'
    <2>1. /\ UNCHANGED <<handlerVars, jobVars, workerVars>>
          /\ queue[j] = "active"
          /\ queue' = [queue EXCEPT ![j] =
                         IF stalls[j] >= MaxStalls THEN "finished" ELSE "waiting"]
      BY <1>3 DEF Stall, PutBack
    <2>2. \A r \in Requests : HandlerTrue(r)' /\ JobTrue(r)' /\ AnswerTrue(r)'
      BY <2>1, Tables DEF OutcomeInv, handlerVars, jobVars, HandlerTrue, JobTrue, AnswerTrue
    <2>3. \A o \in Servers : WorkerTrue(o)'
      BY <2>1, Tables DEF OutcomeInv, jobVars, workerVars, WorkerTrue
    <2>4. QED BY <2>2, <2>3 DEF OutcomeInv
  <1>4. QED BY <1>1, <1>2, <1>3

LEMMA OutcomeKept == TypeOK /\ OutcomeInv /\ [Next]_vars => OutcomeInv'
  <1> SUFFICES ASSUME TypeOK, OutcomeInv, [Next]_vars PROVE OutcomeInv'
    OBVIOUS
  <1>1. CASE UNCHANGED <<handlerVars, jobVars, regenCount, queueVars, workerVars>>
    BY <1>1 DEF handlerVars, jobVars, queueVars, workerVars, OutcomeInv, HandlerTrue,
                JobTrue, AnswerTrue, WorkerTrue
  <1>2. QED
    BY <1>1, HandlerOutcome, WorkerOutcome, EnvironmentOutcome, EnvironmentOwns DEF Next

LEMMA OutcomeHolds == Spec => []OutcomeInv
  <1>1. Init => OutcomeInv
    BY DEF Init, OutcomeInv, HandlerTrue, JobTrue, AnswerTrue, WorkerTrue, Early, Over
  <1>2. QED BY <1>1, OutcomeKept, TypeCorrect, PTL DEF Spec

\* The response tells what became of the credits, whatever faults and crashes
\* there were: 202 only for a job that was paid, and finished if it was generated
\* inline; 502 only for one that failed and was refunded; no other refusal charges.
THEOREM AnswersAreTrue == Spec => []AnswerMatchesAccount
  <1>1. OutcomeInv => AnswerMatchesAccount
    BY DEF OutcomeInv, AnswerTrue, AnswerMatchesAccount
  <1>2. QED BY <1>1, OutcomeHolds, PTL

\* A job called completed has all its images, inline or through the queue, even if
\* two workers run it at once.
THEOREM ImagesAreThere == Spec => []CompletedHasImages
  <1>1. OutcomeInv => CompletedHasImages
    BY DEF OutcomeInv, JobTrue, CompletedHasImages
  <1>2. QED BY <1>1, OutcomeHolds, PTL

-------------------------------------------------------------------------------
(* The count that sets the price. *)

Jobs == {r \in Requests : job[r] # "none"}

\* A step that delivers no regeneration: at most one job appears, none is taken
\* back, and the count is at most read.
Counted ==
  /\ args' = args /\ regenCount' = regenCount
  /\ \E r \in Requests : Jobs' \subseteq Jobs \cup {r}
  /\ ~RedisConfigured =>
       \A r \in Requests : job[r] = "completed" => job'[r] = "completed"
  /\ \A r \in Requests : seen'[r] \in {seen[r], regenCount[Draft(r)]}

\* Inline, r is delivered and counted.
Counts(r) ==
  /\ args' = args /\ seen' = seen
  /\ ~RedisConfigured /\ ~IsGenerate(r) /\ job[r] = "queued"
  /\ job' = [job EXCEPT ![r] = "completed"]
  /\ regenCount' = [regenCount EXCEPT ![Draft(r)] = seen[r] + 1]

LEMMA CountMoves ==
  ASSUME TypeOK, OutcomeInv, [Next]_vars, Requests # {}
  PROVE  Counted \/ \E r \in Requests : Counts(r)
  <1>1. ASSUME NEW r \in Requests, Handler(r) PROVE Counted \/ Counts(r)
    <2>1. HandlerTrue(r)
      BY DEF OutcomeInv
    <2>2. CASE InlineComplete(r)
      <3>1. ~RedisConfigured /\ job[r] = "queued"
        BY <2>1, <2>2 DEF InlineComplete, HandlerTrue
      <3>2. QED
        BY <2>2, <3>1, Tables DEF InlineComplete, Counted, Counts, Jobs
    <2>3. CASE Refuse(r) \/ ReadDraft(r) \/ ReadWallet(r) \/ TurnAway(r) \/ AdmitRegen(r)
      BY <2>3, Tables DEF Refuse, ReadDraft, ReadWallet, TurnAway, AdmitRegen, jobVars,
                          Counted, Jobs
    <2>4. CASE AdmitGenerate(r) \/ Lock(r) \/ DbError(r) \/ Enqueue(r) \/ EnqueueError(r)
      BY <2>4, Tables DEF AdmitGenerate, Lock, DbError, Enqueue, EnqueueError, jobVars,
                          Counted, Jobs
    <2>5. CASE InlineGenerate(r) \/ InlineRefund(r) \/ Finish(r) \/ Release(r)
      BY <2>5, Tables DEF InlineGenerate, InlineRefund, Finish, Release, jobVars, Counted,
                          Jobs
    <2>6. CASE Charge(r) \/ InlineFail(r)
      BY <2>1, <2>6, Tables DEF Charge, InlineFail, Counted, Jobs, HandlerTrue, Early
    <2>7. QED BY <1>1, <2>2, <2>3, <2>4, <2>5, <2>6 DEF Handler
  <1>2. ASSUME NEW s \in Servers, WorkerStep(s) PROVE Counted
    <2>1. PICK j \in Requests : j = task[s]
      BY <1>2, WorkersOwn
    <2>2. RedisConfigured
      BY <1>2, <2>1, WorkersOwn DEF OutcomeInv, WorkerTrue, JobTrue
    <2>3. \A t \in Requests \ {j} : job'[t] = job[t]
      BY <1>2, <2>1, WorkersOwn
    <2>4. QED
      BY <1>2, <2>2, <2>3, WorkersOwn DEF handlerVars, Counted, Jobs
  <1>3. ASSUME UNCHANGED <<args, seen, regenCount, job>> PROVE Counted
    BY <1>3 DEF Counted, Jobs
  <1>4. ASSUME \/ \E s \in Servers, j \in Requests : Take(s, j)
               \/ \E s \in Servers : Crash(s)
               \/ \E j \in Requests : Stall(j)
        PROVE  UNCHANGED <<args, seen, regenCount, job>>
    BY <1>4 DEF Take, Crash, Stall, handlerVars, jobVars
  <1>5. QED
    BY <1>1, <1>2, <1>3, <1>4, EnvironmentOwns DEF Next, handlerVars, jobVars

LEMMA CountKept ==
  ASSUME TypeOK, OutcomeInv, CountTrue, [Next]_vars
  PROVE  CountTrue'
  <1>0. /\ \A r \in Requests : Draft(r) \in Drafts
        /\ regenCount \in [Drafts -> Nat] /\ seen \in [Requests -> Nat]
    BY InputsTyped, Tables DEF TypeOK
  <1>1. CASE Requests = {}
    <2>1. /\ {r \in Requests : job'[r] # "none"} = {}
          /\ \A d \in Drafts : Delivered(d) = {} /\ Delivered(d)' = {}
      BY <1>1 DEF Delivered
    <2>2. UNCHANGED regenCount
      <3>1. \A s \in Servers : ~WorkerStep(s)
        BY <1>1, WorkersOwn
      <3>2. QED
        BY <1>1, <3>1, EnvironmentOwns DEF Next, Crash
    <2>3. QED BY <1>1, <2>1, <2>2, FS_EmptySet DEF CountTrue
  <1>2. CASE Counted
    <2>1. PICK r \in Requests : Jobs' \subseteq Jobs \cup {r}
      BY <1>2 DEF Counted
    <2>2. IsFiniteSet(Jobs) /\ IsFiniteSet(Jobs')
      <3>1. IsFiniteSet(Jobs)
        BY DEF CountTrue, Jobs
      <3>2. IsFiniteSet(Jobs \cup {r})
        BY <3>1, FS_AddElement
      <3>3. QED BY <2>1, <3>1, <3>2, FS_Subset
    <2>3. ASSUME NEW d \in Drafts, ~RedisConfigured
          PROVE  /\ Cardinality(Delivered(d)) \in Nat /\ Cardinality(Delivered(d)') \in Nat
                 /\ Cardinality(Delivered(d)) <= Cardinality(Delivered(d)')
      <3>1. Delivered(d)' \subseteq Jobs' /\ Delivered(d) \subseteq Delivered(d)'
        BY <1>2, <2>3 DEF Counted, Delivered, Jobs, Draft, IsGenerate
      <3>2. IsFiniteSet(Delivered(d)')
        BY <2>2, <3>1, FS_Subset
      <3>3. QED BY <3>1, <3>2, FS_Subset, FS_CardinalityType
    <2>4. QED
      <3>1. IsFiniteSet({t \in Requests : job'[t] # "none"})
        BY <2>2 DEF Jobs
      <3>2. ASSUME NEW d \in Drafts
            PROVE  IF RedisConfigured THEN regenCount'[d] = 0
                   ELSE regenCount'[d] <= Cardinality(Delivered(d)')
        <4>1. CASE RedisConfigured
          BY <1>2, <4>1 DEF Counted, CountTrue
        <4>2. CASE ~RedisConfigured
          <5>1. regenCount'[d] = regenCount[d] /\ regenCount[d] \in Nat
            BY <1>0, <1>2 DEF Counted
          <5>2. regenCount[d] <= Cardinality(Delivered(d))
            BY <4>2 DEF CountTrue
          <5>3. QED BY <2>3, <4>2, <5>1, <5>2
        <4>3. QED BY <4>1, <4>2
      <3>3. ASSUME NEW t \in Requests
            PROVE  IF RedisConfigured THEN seen'[t] = 0
                   ELSE seen'[t] <= Cardinality(Delivered(Draft(t))')
        <4>1. PICK d \in Drafts : d = Draft(t)
          BY <1>0
        <4>2. /\ seen'[t] = seen[t] \/ seen'[t] = regenCount[d]
              /\ seen[t] \in Nat /\ regenCount[d] \in Nat
          BY <1>0, <1>2, <4>1 DEF Counted
        <4>3. CASE RedisConfigured
          BY <4>2, <4>3 DEF CountTrue
        <4>4. CASE ~RedisConfigured
          <5>1. /\ seen[t] <= Cardinality(Delivered(d))
                /\ regenCount[d] <= Cardinality(Delivered(d))
            BY <4>1, <4>4 DEF CountTrue
          <5>2. Delivered(Draft(t))' = Delivered(d)'
            BY <1>2, <4>1 DEF Counted, Draft, Delivered
          <5>3. QED BY <2>3, <4>2, <4>4, <5>1, <5>2
        <4>5. QED BY <4>3, <4>4
      <3>4. QED BY <3>1, <3>2, <3>3 DEF CountTrue
  <1>3. ASSUME NEW r \in Requests, Counts(r) PROVE CountTrue'
    <2>1. /\ Draft(r) \in Drafts /\ ~RedisConfigured /\ seen[r] \in Nat
          /\ \A t \in Requests : seen'[t] = seen[t]
          /\ \A d \in Drafts : /\ d # Draft(r) => regenCount'[d] = regenCount[d]
                               /\ d = Draft(r) => regenCount'[d] = seen[r] + 1
      BY <1>0, <1>3 DEF Counts
    <2>2. /\ Jobs' = Jobs
          /\ \A t \in Requests : Draft(t)' = Draft(t)
          /\ \A d \in Drafts :
               Delivered(d)' = IF d = Draft(r) THEN Delivered(d) \cup {r} ELSE Delivered(d)
      BY <1>3, Tables DEF Counts, Jobs, Delivered, Draft, IsGenerate
    <2>3. r \notin Delivered(Draft(r))
      BY <1>3 DEF Counts, Delivered
    <2>4. IsFiniteSet(Jobs) /\ \A d \in Drafts : Delivered(d) \subseteq Jobs
      BY DEF CountTrue, Jobs, Delivered
    <2>5. ASSUME NEW d \in Drafts
          PROVE  /\ Cardinality(Delivered(d)) \in Nat
                 /\ Cardinality(Delivered(d)')
                      = Cardinality(Delivered(d)) + (IF d = Draft(r) THEN 1 ELSE 0)
      <3>1. IsFiniteSet(Delivered(d))
        BY <2>4, FS_Subset
      <3>2. Cardinality(Delivered(d)) \in Nat
        BY <3>1, FS_CardinalityType
      <3>3. CASE d = Draft(r)
        BY <2>2, <2>3, <3>1, <3>2, <3>3, FS_AddElement
      <3>4. CASE d # Draft(r)
        BY <2>2, <3>2, <3>4
      <3>5. QED BY <3>2, <3>3, <3>4
    <2>6. ASSUME NEW d \in Drafts PROVE regenCount'[d] <= Cardinality(Delivered(d)')
      <3>1. regenCount[d] \in Nat /\ regenCount[d] <= Cardinality(Delivered(d))
        BY <1>0, <2>1 DEF CountTrue
      <3>2. CASE d = Draft(r)
        <4>1. seen[r] <= Cardinality(Delivered(d))
          BY <2>1, <3>2 DEF CountTrue
        <4>2. QED BY <2>1, <2>5, <3>2, <4>1
      <3>3. CASE d # Draft(r)
        <4>1. Cardinality(Delivered(d)') = Cardinality(Delivered(d)) + 0
          BY <2>5, <3>3
        <4>2. Cardinality(Delivered(d)) \in Nat /\ regenCount'[d] = regenCount[d]
          BY <2>1, <2>5, <3>3
        <4>3. QED BY <3>1, <4>1, <4>2
      <3>4. QED BY <3>2, <3>3
    <2>7. ASSUME NEW t \in Requests PROVE seen'[t] <= Cardinality(Delivered(Draft(t)))'
      <3>1. PICK d \in Drafts : d = Draft(t)
        BY <1>0
      <3>2. Delivered(Draft(t))' = Delivered(d)'
        BY <2>2, <3>1 DEF Delivered
      <3>3. seen'[t] = seen[t] /\ seen[t] \in Nat /\ seen[t] <= Cardinality(Delivered(d))
        BY <1>0, <2>1, <3>1 DEF CountTrue
      <3>4. QED BY <2>5, <3>2, <3>3
    <2>8. IsFiniteSet(Jobs')
      BY <2>2, <2>4
    <2>9. QED BY <2>1, <2>6, <2>7, <2>8 DEF CountTrue, Jobs
  <1>4. QED BY <1>1, <1>2, <1>3, CountMoves

\* The count that sets the price of the next regeneration never runs ahead of the
\* regenerations delivered, however stale the count a request computed it from,
\* for any number of requests, processes, faults and crashes.
THEOREM CountIsSound == Spec => []RegenCountSound
  <1>1. Init => CountTrue
    <2> SUFFICES ASSUME Init PROVE CountTrue
      OBVIOUS
    <2>1. /\ {r \in Requests : job[r] # "none"} = {}
          /\ \A d \in Drafts : Delivered(d) = {} /\ regenCount[d] = 0
          /\ \A r \in Requests : Draft(r) \in Drafts /\ seen[r] = 0
      BY InitTypeOK, InputsTyped DEF Init, Delivered, TypeOK
    <2>2. IsFiniteSet({}) /\ Cardinality({}) = 0
      BY FS_EmptySet
    <2>3. \A d \in Drafts : Cardinality(Delivered(d)) = 0
      BY <2>1, <2>2
    <2>4. QED BY <2>1, <2>2, <2>3 DEF CountTrue
  <1>2. TypeOK /\ OutcomeInv /\ CountTrue /\ [Next]_vars => CountTrue'
    BY CountKept
  <1>3. CountTrue => RegenCountSound
    <2> SUFFICES ASSUME CountTrue, NEW d \in Drafts
                 PROVE  regenCount[d] <= Cardinality(Delivered(d))
      BY DEF RegenCountSound, Delivered
    <2>1. Cardinality(Delivered(d)) \in Nat
      <3>1. Delivered(d) \subseteq {r \in Requests : job[r] # "none"}
        BY DEF Delivered
      <3>2. QED BY <3>1, FS_Subset, FS_CardinalityType DEF CountTrue
    <2>2. QED BY <2>1 DEF CountTrue
  <1>4. QED BY <1>1, <1>2, <1>3, OutcomeHolds, TypeCorrect, PTL DEF Spec
-------------------------------------------------------------------------------
(* Without slow workers: outcomes are final, and the account is implemented. *)

\* No worker outlives the lock it has on its job.
PromptWorkers == "slow-worker" \notin Faults

LEMMA HandlerHolders ==
  ASSUME TypeOK, OutcomeInv, HoldersInv, NEW r \in Requests, Handler(r)
  PROVE  /\ HoldersInv'
         /\ job[r] \in {"completed", "failed"} => job'[r] = job[r]
  <1>1. HandlerTrue(r) /\ JobTrue(r) /\ (refunds[r] > 0 => job[r] = "failed")
    BY DEF OutcomeInv, HoldersInv
  <1>2. /\ job[r] \in {"completed", "failed"} => job'[r] = job[r]
        /\ refunds'[r] > 0 => job'[r] = "failed"
        /\ queue[r] # "absent" =>
             job'[r] = job[r] /\ refunds'[r] = refunds[r] /\ queue'[r] = queue[r]
    <2>1. CASE Refuse(r) \/ ReadDraft(r) \/ ReadWallet(r) \/ TurnAway(r) \/ AdmitRegen(r)
      BY <1>1, <2>1, Tables DEF Refuse, ReadDraft, ReadWallet, TurnAway, AdmitRegen,
                                jobVars, queueVars
    <2>2. CASE AdmitGenerate(r) \/ Lock(r) \/ DbError(r) \/ EnqueueError(r)
      BY <1>1, <2>2, Tables DEF AdmitGenerate, Lock, DbError, EnqueueError, jobVars,
                                queueVars
    <2>3. CASE Finish(r) \/ Release(r)
      BY <1>1, <2>3, Tables DEF Finish, Release, jobVars, queueVars
    <2>4. CASE Charge(r) \/ Enqueue(r)
      BY <1>1, <2>4, Tables DEF Charge, Enqueue, jobVars, queueVars, HandlerTrue, JobTrue,
                                Early
    <2>5. CASE InlineGenerate(r) \/ InlineComplete(r)
      BY <1>1, <2>5, Tables DEF InlineGenerate, InlineComplete, queueVars, HandlerTrue,
                                JobTrue, Over
    <2>6. CASE InlineFail(r) \/ InlineRefund(r)
      BY <1>1, <2>6, Tables DEF InlineFail, InlineRefund, queueVars, HandlerTrue, JobTrue,
                                Over
    <2>7. QED BY <2>1, <2>2, <2>3, <2>4, <2>5, <2>6 DEF Handler
  <1>3. ASSUME NEW s \in Servers, step'[s] # "idle" PROVE HolderTrue(s)'
    <2>1. step'[s] = step[s] /\ task'[s] = task[s] /\ holder' = holder
      BY HandlersOwn DEF workerVars
    <2>2. PICK j \in Requests : j = task[s]
      BY <1>3, <2>1, Tables
    <2>3. /\ queue[j] = "active" /\ holder[j] = s
          /\ step[s] \in {"generate", "mark", "fail"} => job[j] = "queued"
          /\ step[s] = "refund" => job[j] = "failed" /\ refunds[j] = 0
      BY <1>3, <2>1, <2>2 DEF HoldersInv, HolderTrue
    <2>4. queue'[j] = queue[j] /\ job'[j] = job[j] /\ refunds'[j] = refunds[j]
      BY <1>2, <2>3, HandlersOwn
    <2>5. QED BY <2>1, <2>2, <2>3, <2>4 DEF HolderTrue
  <1>4. \A t \in Requests : refunds'[t] > 0 => job'[t] = "failed"
    BY <1>2, HandlersOwn DEF HoldersInv
  <1>5. QED BY <1>2, <1>3, <1>4 DEF HoldersInv, HolderTrue

LEMMA WorkerHolders ==
  ASSUME TypeOK, OutcomeInv, HoldersInv, NEW s \in Servers, WorkerStep(s)
  PROVE  /\ HoldersInv'
         /\ \A r \in Requests : job[r] \in {"completed", "failed"} => job'[r] = job[r]
  <1>1. PICK j \in Requests : j = task[s]
    BY WorkersOwn
  <1>2. /\ step[s] # "idle" /\ queue[j] = "active" /\ holder[j] = s
        /\ step[s] \in {"generate", "mark", "fail"} => job[j] = "queued"
        /\ step[s] = "refund" => job[j] = "failed" /\ refunds[j] = 0
        /\ refunds[j] > 0 => job[j] = "failed"
    BY <1>1, WorkersOwn DEF HoldersInv, HolderTrue
  <1>3. /\ job[j] \in {"completed", "failed"} => job'[j] = job[j]
        /\ refunds'[j] > 0 => job'[j] = "failed"
        /\ step'[s] # "idle" =>
             /\ queue'[j] = "active" /\ holder'[j] = s
             /\ step'[s] \in {"generate", "mark", "fail"} => job'[j] = "queued"
             /\ step'[s] = "refund" => job'[j] = "failed" /\ refunds'[j] = 0
    <2>0. s \in Servers /\ refunds[j] \in Nat
      BY Tables
    <2>1. CASE Check(s) \/ WorkerGenerate(s) \/ WorkerComplete(s)
      BY <1>1, <1>2, <2>0, <2>1, Tables
      DEF Check, WorkerGenerate, WorkerComplete, WorkerGoto, jobVars, queueVars
    <2>2. CASE WorkerFail(s)
      BY <1>1, <1>2, <2>0, <2>2, Tables DEF WorkerFail, WorkerGoto, jobVars, queueVars
    <2>3. CASE WorkerRefund(s)
      BY <1>1, <1>2, <2>0, <2>3, Tables DEF WorkerRefund, WorkerGoto, jobVars, queueVars
    <2>4. CASE Throw(s) \/ Ack(s)
      BY <1>1, <1>2, <2>0, <2>4, Tables DEF Throw, Ack, Idle, jobVars
    <2>5. QED BY <2>1, <2>2, <2>3, <2>4 DEF WorkerStep
  <1>4. HolderTrue(s)'
    BY <1>1, <1>3, WorkersOwn DEF HolderTrue
  <1>5. ASSUME NEW o \in Servers, o # s, step'[o] # "idle" PROVE HolderTrue(o)'
    <2>1. step'[o] = step[o] /\ task'[o] = task[o]
      BY <1>5, WorkersOwn
    <2>2. PICK i \in Requests : i = task[o]
      BY <1>5, <2>1, Tables
    <2>3. /\ queue[i] = "active" /\ holder[i] = o
          /\ step[o] \in {"generate", "mark", "fail"} => job[i] = "queued"
          /\ step[o] = "refund" => job[i] = "failed" /\ refunds[i] = 0
      BY <1>5, <2>1, <2>2 DEF HoldersInv, HolderTrue
    <2>4. i # j
      BY <1>2, <1>5, <2>3
    <2>5. /\ job'[i] = job[i] /\ refunds'[i] = refunds[i]
          /\ queue'[i] = queue[i] /\ holder'[i] = holder[i]
      BY <1>1, <2>4, WorkersOwn
    <2>6. QED BY <2>1, <2>2, <2>3, <2>5 DEF HolderTrue
  <1>6. ASSUME NEW t \in Requests, t # j
        PROVE  job'[t] = job[t] /\ (refunds'[t] > 0 => job'[t] = "failed")
    BY <1>1, <1>6, WorkersOwn DEF HoldersInv
  <1>7. QED BY <1>3, <1>4, <1>5, <1>6 DEF HoldersInv, HolderTrue

LEMMA EnvironmentHolders ==
  ASSUME TypeOK, HoldersInv, PromptWorkers
  PROVE  /\ \A s \in Servers, j \in Requests : Take(s, j) => HoldersInv' /\ job' = job
         /\ \A s \in Servers : Crash(s) => HoldersInv' /\ job' = job
         /\ \A j \in Requests : Stall(j) => HoldersInv' /\ job' = job
  <1>1. ASSUME NEW s \in Servers, NEW j \in Requests, Take(s, j)
        PROVE  HoldersInv' /\ job' = job
    <2>1. /\ UNCHANGED jobVars /\ queue[j] = "waiting"
          /\ queue' = [queue EXCEPT ![j] = "active"]
          /\ holder' = [holder EXCEPT ![j] = s]
          /\ task' = [task EXCEPT ![s] = j] /\ step' = [step EXCEPT ![s] = "check"]
      BY <1>1 DEF Take
    <2>2. ASSUME NEW o \in Servers PROVE HolderTrue(o)'
      <3>1. CASE o = s
        BY <2>1, <3>1, Tables DEF HolderTrue
      <3>2. CASE o # s
        BY <2>1, <3>2, Tables DEF HoldersInv, HolderTrue, jobVars
      <3>3. QED BY <3>1, <3>2
    <2>3. QED BY <2>1, <2>2 DEF HoldersInv, jobVars
  <1>2. ASSUME NEW s \in Servers, Crash(s) PROVE HoldersInv' /\ job' = job
    <2>1. /\ UNCHANGED <<jobVars, queueVars>>
          /\ task' = [task EXCEPT ![s] = NoOne] /\ step' = [step EXCEPT ![s] = "idle"]
      BY <1>2 DEF Crash, Idle
    <2>2. QED BY <2>1, Tables DEF HoldersInv, HolderTrue, jobVars, queueVars
  <1>3. ASSUME NEW j \in Requests, Stall(j) PROVE HoldersInv' /\ job' = job
    <2>1. /\ UNCHANGED <<jobVars, workerVars>>
          /\ queue[j] = "active" /\ task[holder[j]] # j
          /\ \E q : queue' = [queue EXCEPT ![j] = q]
          /\ holder' = [holder EXCEPT ![j] = NoOne]
      BY <1>3 DEF Stall, PutBack, Abandoned, PromptWorkers
    <2>2. ASSUME NEW s \in Servers, step[s] # "idle" PROVE task[s] # j
      BY <2>1, <2>2 DEF HoldersInv, HolderTrue
    <2>3. QED BY <2>1, <2>2, Tables DEF HoldersInv, HolderTrue, jobVars, workerVars
  <1>4. QED BY <1>1, <1>2, <1>3

LEMMA HoldersKept ==
  ASSUME TypeOK, OutcomeInv, HoldersInv, PromptWorkers, [Next]_vars
  PROVE  /\ HoldersInv'
         /\ \A r \in Requests : job[r] \in {"completed", "failed"} => job'[r] = job[r]
  <1>1. CASE UNCHANGED <<handlerVars, jobVars, regenCount, queueVars, workerVars>>
    BY <1>1 DEF jobVars, queueVars, workerVars, HoldersInv, HolderTrue
  <1>2. ASSUME NEW r \in Requests, Handler(r)
        PROVE  /\ HoldersInv'
               /\ \A t \in Requests : job[t] \in {"completed", "failed"} => job'[t] = job[t]
    BY <1>2, HandlerHolders, HandlersOwn
  <1>3. QED BY <1>1, <1>2, WorkerHolders, EnvironmentHolders, EnvironmentOwns DEF Next

LEMMA HoldersHold == PromptWorkers => (Spec => []HoldersInv)
  <1>1. Init => HoldersInv
    BY DEF Init, HoldersInv, HolderTrue
  <1>2. PromptWorkers /\ TypeOK /\ OutcomeInv /\ HoldersInv /\ [Next]_vars => HoldersInv'
    BY HoldersKept
  <1>3. SUFFICES ASSUME PromptWorkers PROVE Spec => []HoldersInv
    OBVIOUS
  <1>4. QED BY <1>1, <1>2, <1>3, OutcomeHolds, TypeCorrect, PTL DEF Spec

\* A job that completed or failed stays what it is: while no worker outlives its
\* lock, no redelivery, retry or crash turns a delivered job into a failed one or
\* the other way round.
THEOREM OutcomesAreFinal ==
  ASSUME PromptWorkers
  PROVE  Spec => JobOutcomeFinal
  <1>1. TypeOK /\ OutcomeInv /\ HoldersInv /\ [Next]_vars =>
          [\A r \in Requests : job[r] \in {"completed", "failed"} => job'[r] = job[r]]_vars
    BY HoldersKept
  <1>2. QED
    BY <1>1, HoldersHold, OutcomeHolds, TypeCorrect, PTL DEF Spec, JobOutcomeFinal

\* What the account knows of j's payment is not touched by a step...
Still(j) ==
  /\ job'[j] = "none" <=> job[j] = "none"
  /\ job[j] # "none" => refunds'[j] = refunds[j] /\ seen'[j] = seen[j]

\* ...which charges j, refunds it, or tops a wallet up.
Charges(j) ==
  /\ job[j] = "none" /\ job'[j] # "none" /\ refunds'[j] = 0 /\ seen'[j] = seen[j]
  /\ Post(Payer(j), "spend", -Cost(j))

Refunds(j) ==
  /\ job[j] # "none" /\ job'[j] # "none" /\ seen'[j] = seen[j]
  /\ refunds[j] = 0 /\ refunds'[j] = 1
  /\ Post(Payer(j), "refund", Cost(j))

LEMMA MoneyMoves ==
  ASSUME TypeOK, OutcomeInv, HoldersInv, [Next]_vars
  PROVE  /\ args' = args
         /\ \/ /\ \A j \in Requests : Still(j)
               /\ \/ UNCHANGED ledgerVars
                  \/ \E u \in Users, kind \in {"gift", "purchase"} :
                       Post(u, kind, TopUpAmount)
            \/ \E j \in Requests : /\ Charges(j) \/ Refunds(j)
                                   /\ \A t \in Requests \ {j} : Still(t)
  <1>1. ASSUME NEW r \in Requests, Handler(r)
        PROVE  /\ args' = args
               /\ \A t \in Requests \ {r} : Still(t)
               /\ (UNCHANGED ledgerVars /\ Still(r)) \/ Charges(r) \/ Refunds(r)
    <2>1. HandlerTrue(r) /\ JobTrue(r) /\ args' = args
      BY <1>1, HandlersOwn DEF OutcomeInv
    <2>2. \A t \in Requests \ {r} : Still(t)
      BY <1>1, HandlersOwn DEF Still
    <2>3. CASE Refuse(r) \/ ReadDraft(r) \/ ReadWallet(r) \/ TurnAway(r) \/ AdmitRegen(r)
      BY <2>1, <2>3, Tables DEF Refuse, ReadDraft, ReadWallet, TurnAway, AdmitRegen,
                                jobVars, Still, HandlerTrue, Early
    <2>4. CASE AdmitGenerate(r) \/ Lock(r) \/ DbError(r) \/ Enqueue(r) \/ EnqueueError(r)
      BY <2>4 DEF AdmitGenerate, Lock, DbError, Enqueue, EnqueueError, jobVars, Still
    <2>5. CASE InlineGenerate(r) \/ Finish(r) \/ Release(r)
      BY <2>5 DEF InlineGenerate, Finish, Release, jobVars, Still
    <2>6. CASE InlineComplete(r) \/ InlineFail(r)
      BY <2>1, <2>6, Tables DEF InlineComplete, InlineFail, Still, HandlerTrue
    <2>7. CASE Charge(r)
      BY <2>1, <2>2, <2>7, Tables DEF Charge, Charges, HandlerTrue, JobTrue, Early
    <2>8. CASE InlineRefund(r)
      BY <2>1, <2>2, <2>8, Tables DEF InlineRefund, Refunds, HandlerTrue, Over
    <2>9. QED BY <1>1, <2>1, <2>2, <2>3, <2>4, <2>5, <2>6, <2>7, <2>8 DEF Handler
  <1>2. ASSUME NEW s \in Servers, WorkerStep(s)
        PROVE  /\ args' = args
               /\ \E j \in Requests : /\ \A t \in Requests \ {j} : Still(t)
                                      /\ (UNCHANGED ledgerVars /\ Still(j)) \/ Refunds(j)
    <2>1. PICK j \in Requests : j = task[s]
      BY <1>2, WorkersOwn
    <2>2. /\ args' = args /\ seen' = seen
          /\ \A t \in Requests \ {j} : Still(t)
      BY <1>2, <2>1, WorkersOwn DEF handlerVars, Still
    <2>3. job[j] # "none" /\ (step[s] = "refund" => refunds[j] = 0)
      BY <1>2, <2>1, WorkersOwn DEF OutcomeInv, JobTrue, WorkerTrue, HoldersInv, HolderTrue
    <2>4. CASE Check(s) \/ WorkerGenerate(s) \/ Throw(s) \/ Ack(s)
      BY <2>2, <2>4 DEF Check, WorkerGenerate, Throw, Ack, jobVars, Still
    <2>5. CASE WorkerComplete(s) \/ WorkerFail(s)
      BY <2>1, <2>2, <2>3, <2>5, Tables DEF WorkerComplete, WorkerFail, Still
    <2>6. CASE WorkerRefund(s)
      BY <2>1, <2>2, <2>3, <2>6, Tables DEF WorkerRefund, Still, Refunds
    <2>7. QED BY <1>2, <2>2, <2>4, <2>5, <2>6 DEF WorkerStep
  <1>3. CASE UNCHANGED <<ledgerVars, args, seen, jobVars>>
    BY <1>3 DEF Still, jobVars
  <1>4. CASE \/ \E s \in Servers, j \in Requests : Take(s, j)
             \/ \E s \in Servers : Crash(s)
             \/ \E j \in Requests : Stall(j)
             \/ \E d \in Drafts : ExpireLock(d)
             \/ \E s \in Servers, k \in Keys : ExpireKey(s, k)
             \/ UNCHANGED vars
    BY <1>3, <1>4 DEF Take, Crash, Stall, ExpireLock, ExpireKey, handlerVars, vars
  <1>5. CASE \E u \in Users, kind \in {"gift", "purchase"} : TopUp(u, kind)
    BY <1>5 DEF TopUp, Still, handlerVars, jobVars
  <1>6. QED BY <1>1, <1>2, <1>4, <1>5 DEF Next

LEMMA AccountStep ==
  ASSUME TypeOK, OutcomeInv, HoldersInv, [Next]_vars
  PROVE  [Account!Next]_(Account!accountVars)
  <1> DEFINE Charged(j) ==
               IF job[j] = "none" THEN [state |-> "none"]
               ELSE [state |-> IF refunds[j] = 0 THEN "spent" ELSE "returned",
                     payer |-> Payer(j), amount |-> Cost(j)]
             table == [j \in Requests |-> Charged(j)]
  <1>0. /\ args' = args => \A j \in Requests : Payer(j)' = Payer(j)
        /\ \A j \in Requests : Payer(j) \in Users /\ Cost(j) \in {100, 200, 300}
    BY InputsTyped DEF TypeOK, Payer, Draft
  <1>1. args' = args => \A j \in Requests : Still(j) => Charged(j)' = Charged(j)
    BY DEF Still, Payer, Draft, Cost
  <1>2. ASSUME args' = args, \A j \in Requests : Still(j) PROVE table' = table
    BY <1>1, <1>2
  <1>3. ASSUME args' = args, NEW j \in Requests, \A t \in Requests \ {j} : Still(t)
        PROVE  table' = [table EXCEPT ![j] = Charged(j)']
    BY <1>1, <1>3
  <1>4. ASSUME args' = args, NEW j \in Requests, Charges(j),
               \A t \in Requests \ {j} : Still(t)
        PROVE  Account!Spend(j)
    <2>1. PICK u \in Users, a \in {100, 200, 300} : u = Payer(j) /\ a = Cost(j)
      BY <1>0
    <2>2. table[j] = [state |-> "none"]
      BY <1>4 DEF Charges
    <2>3. Charged(j)' = [state |-> "spent", payer |-> u, amount |-> a]
      BY <1>0, <1>4, <2>1 DEF Charges, Cost
    <2>4. table' = [table EXCEPT ![j] = [state |-> "spent", payer |-> u, amount |-> a]]
      BY <1>3, <1>4, <2>3
    <2> DEFINE Pays(v, b) ==
                 /\ table' = [table EXCEPT ![j] = [state |-> "spent", payer |-> v,
                                                   amount |-> b]]
                 /\ Post(v, "spend", -b)
    <2>5. Pays(u, a)
      BY <1>4, <2>1, <2>4 DEF Charges
    <2> HIDE DEF Pays
    <2>6. table[j] = [state |-> "none"] /\ (\E v \in Users, b \in {100, 200, 300} : Pays(v, b))
            => Account!Spend(j)
      BY DEF Pays, Account!Spend, Account!NoCharge, Account!Post, Post
    <2> HIDE DEF table
    <2>7. QED BY <2>1, <2>2, <2>5, <2>6
  <1>5. ASSUME args' = args, NEW j \in Requests, Refunds(j),
               \A t \in Requests \ {j} : Still(t)
        PROVE  Account!GiveBack(j)
    <2>1. table[j] = [state |-> "spent", payer |-> Payer(j), amount |-> Cost(j)]
      BY <1>5 DEF Refunds
    <2>2. Charged(j)' = [state |-> "returned", payer |-> Payer(j), amount |-> Cost(j)]
      BY <1>0, <1>5 DEF Refunds, Cost
    <2>3. table' = [table EXCEPT ![j] =
                      [state |-> "returned", payer |-> Payer(j), amount |-> Cost(j)]]
      BY <1>3, <1>5, <2>2
    <2>4. Post(Payer(j), "refund", Cost(j))
      BY <1>5 DEF Refunds
    <2>5. /\ table[j] # [state |-> "none"] /\ table[j].state = "spent"
          /\ table[j].payer = Payer(j) /\ table[j].amount = Cost(j)
      BY <2>1
    <2>6. QED
      BY <2>3, <2>4, <2>5 DEF Account!GiveBack, Account!NoCharge, Account!Post, Post
  <1>6. ASSUME args' = args, \A j \in Requests : Still(j),
               NEW u \in Users, NEW kind \in {"gift", "purchase"},
               Post(u, kind, TopUpAmount)
        PROVE  Account!TopUp(u)
    BY <1>2, <1>6 DEF Account!TopUp, Account!Post, Post
  <1>7. ASSUME args' = args, \A j \in Requests : Still(j), UNCHANGED ledgerVars
        PROVE  UNCHANGED Account!accountVars
    BY <1>2, <1>7 DEF Account!accountVars, ledgerVars
  <1> HIDE DEF table, Charged
  <1>8. QED
    BY <1>4, <1>5, <1>6, <1>7, MoneyMoves DEF Account!Next

\* The handlers, the queue and the workers implement the abstract account: a job
\* is charged at most once, gets at most one refund, of what was charged and to
\* the user who paid, and nothing else but a top-up moves credits.
THEOREM ImplementsAccount ==
  ASSUME PromptWorkers
  PROVE  Spec => AccountSpec
  <1>1. Init => Account!Init
    <2> SUFFICES ASSUME Init PROVE Account!Init
      OBVIOUS
    <2>1. balance \in [Users -> Nat]
      BY AiAssumption DEF Init
    <2>2. QED
      BY <2>1 DEF Init, OpenedWith, Kinds, Account!Init, Account!OpenedWith, Account!Kinds,
                  Account!NoCharge
  <1>2. TypeOK /\ OutcomeInv /\ HoldersInv /\ [Next]_vars
          => [Account!Next]_(Account!accountVars)
    BY AccountStep
  <1>3. QED
    BY <1>1, <1>2, HoldersHold, OutcomeHolds, TypeCorrect, PTL
    DEF Spec, AccountSpec, Account!Spec
-------------------------------------------------------------------------------
(* Inline, in one process that neither crashes nor loses its database. *)

Undisturbed ==
  /\ ~RedisConfigured
  /\ \A s, t \in Servers : s = t
  /\ "db" \notin Faults
  /\ MaxCrashes = 0

\* A job under way has the lock, and only one that failed leaves through the
\* finally block alone.
UnderLock ==
  \A r \in Requests : IsGenerate(r) =>
    /\ job[r] = "queued" => InSection(r)
    /\ pc[r] = "release" => job[r] = "failed"

Paid(r) == IsGenerate(r) /\ (InSection(r) \/ job[r] = "completed")

\* Until its key is cached a job has the lock; after that the key speaks for it.
Claims ==
  /\ \A r \in Requests :
       IsGenerate(r) /\ job[r] = "completed" /\ pc[r] # "finish" =>
         idem[Server(r)][args[r].key] # NoOne
  /\ \A r, t \in Requests :
       Paid(r) /\ Paid(t) /\ Draft(r) = Draft(t) /\ args[r].key = args[t].key => r = t

\* What a step does to the request it is about.
Advance(r) ==
  /\ args' = args
  /\ \A t \in Requests \ {r} : pc'[t] = pc[t] /\ job'[t] = job[t]
  /\ IsGenerate(r) =>
       /\ job'[r] = "queued" => pc'[r] \in Section
       /\ pc'[r] = "release" => job'[r] = "failed"
       /\ \/ pc[r] \notin Section /\ pc'[r] \notin Section /\ job'[r] = job[r]
          \/ pc[r] \in Section
          \/ AdmitGenerate(r) /\ pc'[r] = "charge" /\ job'[r] = "none"
       /\ job'[r] = "completed" => pc'[r] = "finish" \/ pc[r] = "finish"
                                   \/ (job[r] = "completed" /\ pc[r] # "finish")

LEMMA HandlerAdvances ==
  ASSUME TypeOK, OutcomeInv, LockHeld, UnderLock, Undisturbed,
         NEW r \in Requests, Handler(r)
  PROVE  Advance(r)
  <1>1. /\ HandlerTrue(r) /\ ~RedisConfigured /\ "db" \notin Faults
        /\ IsGenerate(r) => /\ job[r] = "queued" => pc[r] \in Section
                            /\ pc[r] = "release" => job[r] = "failed"
        /\ pc[r] # "lock" /\ args' = args
        /\ \A t \in Requests \ {r} : pc'[t] = pc[t] /\ job'[t] = job[t]
    BY HandlersOwn DEF OutcomeInv, LockHeld, UnderLock, InSection, Undisturbed
  <1>2. CASE Refuse(r) \/ ReadDraft(r) \/ ReadWallet(r) \/ TurnAway(r) \/ AdmitRegen(r)
    BY <1>1, <1>2, Tables DEF Refuse, ReadDraft, ReadWallet, TurnAway, AdmitRegen, Goto,
                              Reply, jobVars, Advance, Section, HandlerTrue, Early
  <1>3. CASE AdmitGenerate(r)
    BY <1>1, <1>3, Tables DEF AdmitGenerate, MemAcquire, Goto, Reply, jobVars, Advance,
                              Section, HandlerTrue, Early
  <1>4. CASE Lock(r) \/ DbError(r) \/ Enqueue(r) \/ EnqueueError(r)
    BY <1>1, <1>4, Tables DEF Lock, MemAcquire, RedisAcquire, DbError, Enqueue,
                              EnqueueError, Goto, Reply, jobVars, Advance, Section,
                              HandlerTrue, Early
  <1>5. CASE Charge(r) \/ InlineGenerate(r) \/ InlineComplete(r)
    BY <1>1, <1>5, Tables DEF Charge, InlineGenerate, InlineComplete, Goto, Reply, Advance,
                              Section, HandlerTrue
  <1>6. CASE InlineFail(r) \/ InlineRefund(r)
    BY <1>1, <1>6, Tables DEF InlineFail, InlineRefund, Goto, Reply, Leave, Advance,
                              Section, HandlerTrue
  <1>7. CASE Finish(r) \/ Release(r)
    BY <1>1, <1>7, Tables DEF Finish, Release, Goto, Reply, jobVars, Advance, Section,
                              HandlerTrue
  <1>8. QED BY <1>2, <1>3, <1>4, <1>5, <1>6, <1>7 DEF Handler

\* Nobody but a handler does anything to a request.
LEMMA OthersWait ==
  ASSUME TypeOK, OutcomeInv, Undisturbed, [Next]_vars, \A r \in Requests : ~Handler(r)
  PROVE  /\ UNCHANGED <<args, pc, job>>
         /\ idem' = idem \/ \E s \in Servers, k \in Keys : ExpireKey(s, k)
  <1>1. \A s \in Servers : ~WorkerStep(s) /\ ~Crash(s)
    <2>1. ASSUME NEW s \in Servers, WorkerStep(s) PROVE FALSE
      BY <2>1, WorkersOwn DEF OutcomeInv, WorkerTrue, JobTrue, Undisturbed
    <2>2. crashes \in Nat
      BY DEF TypeOK, EnvTypeOK
    <2>3. QED BY <2>1, <2>2 DEF Crash, Undisturbed
  <1>2. CASE \/ \E s \in Servers, j \in Requests : Take(s, j)
             \/ \E j \in Requests : Stall(j)
             \/ \E d \in Drafts : ExpireLock(d)
             \/ \E s \in Servers, k \in Keys : ExpireKey(s, k)
             \/ \E u \in Users, kind \in {"gift", "purchase"} : TopUp(u, kind)
             \/ UNCHANGED vars
    BY <1>2 DEF Take, Stall, ExpireLock, ExpireKey, TopUp, vars, handlerVars, jobVars,
                lockVars
  <1>3. QED BY <1>1, <1>2 DEF Next

LEMMA UnderLockKept ==
  ASSUME TypeOK, OutcomeInv, LockHeld, UnderLock, Undisturbed, [Next]_vars
  PROVE  UnderLock'
  <1>1. ASSUME NEW r \in Requests, Advance(r) PROVE UnderLock'
    BY <1>1 DEF Advance, UnderLock, InSection, IsGenerate
  <1>2. ASSUME UNCHANGED <<args, pc, job>> PROVE UnderLock'
    BY <1>2 DEF UnderLock, InSection, IsGenerate
  <1>3. QED BY <1>1, <1>2, HandlerAdvances, OthersWait

LEMMA IdemKept ==
  ASSUME TypeOK, NEW r \in Requests, Handler(r)
  PROVE  /\ \A s \in Servers, k \in Keys : idem[s][k] # NoOne => idem'[s][k] # NoOne
         /\ pc[r] = "finish" /\ pc'[r] # "finish" /\ job'[r] = "completed"
              => idem'[Server(r)][args[r].key] # NoOne
  <1>0. /\ Server(r) \in Servers /\ args[r].key \in Keys /\ NoOne # r
        /\ idem \in [Servers -> [Keys -> Requests \cup {NoOne}]]
    BY InputsTyped, AiAssumption DEF TypeOK, LocksTypeOK
  <1>1. CASE Finish(r)
    BY <1>0, <1>1 DEF Finish
  <1>2. CASE pc[r] # "finish" /\ idem' = idem
    BY <1>2
  <1>3. CASE Refuse(r) \/ ReadDraft(r) \/ ReadWallet(r) \/ TurnAway(r) \/ AdmitRegen(r)
    BY <1>2, <1>3 DEF Refuse, ReadDraft, ReadWallet, TurnAway, AdmitRegen, lockVars
  <1>4. CASE AdmitGenerate(r) \/ Lock(r) \/ Release(r)
    BY <1>2, <1>4 DEF AdmitGenerate, Lock, Release
  <1>5. CASE Charge(r) \/ DbError(r) \/ Enqueue(r) \/ EnqueueError(r)
    BY <1>2, <1>5 DEF Charge, DbError, Enqueue, EnqueueError, lockVars
  <1>6. CASE InlineGenerate(r) \/ InlineComplete(r) \/ InlineFail(r) \/ InlineRefund(r)
    BY <1>2, <1>6 DEF InlineGenerate, InlineComplete, InlineFail, InlineRefund, lockVars
  <1>7. QED BY <1>1, <1>3, <1>4, <1>5, <1>6 DEF Handler

LEMMA ClaimsKept ==
  ASSUME TypeOK, OutcomeInv, LockHeld, LockHeld', UnderLock, Claims, Undisturbed,
         "idem-expiry" \notin Faults, [Next]_vars
  PROVE  Claims'
  <1>0. \A t \in Requests : Server(t) \in Servers /\ args[t].key \in Keys
    BY InputsTyped DEF TypeOK
  <1>1. ASSUME NEW r \in Requests, Handler(r) PROVE Claims'
    <2>1. Advance(r)
      BY <1>1, HandlerAdvances
    <2>2. \A t \in Requests :
            /\ Draft(t)' = Draft(t) /\ Server(t)' = Server(t)
            /\ args'[t].key = args[t].key /\ (IsGenerate(t)' <=> IsGenerate(t))
      BY <2>1 DEF Advance, Draft, Server, IsGenerate
    <2>3. \A t \in Requests \ {r} : /\ InSection(t)' <=> InSection(t)
                                    /\ Paid(t)' <=> Paid(t)
      BY <2>1, <2>2 DEF Advance, InSection, Paid
    <2>4. ASSUME NEW t \in Requests, IsGenerate(t)', job'[t] = "completed", pc'[t] # "finish"
          PROVE  idem'[Server(t)][args[t].key] # NoOne
      <3>1. CASE t # r
        BY <1>0, <1>1, <2>1, <2>2, <2>4, <3>1, IdemKept DEF Advance, Claims
      <3>2. CASE t = r /\ pc[r] = "finish"
        BY <1>1, <2>4, <3>2, IdemKept
      <3>3. CASE t = r /\ pc[r] # "finish"
        <4>1. job[r] = "completed" /\ IsGenerate(r)
          BY <2>1, <2>2, <2>4, <3>3 DEF Advance
        <4>2. QED BY <1>0, <1>1, <3>3, <4>1, IdemKept DEF Claims
      <3>4. QED BY <3>1, <3>2, <3>3
    <2>5. ASSUME Paid(r)', NEW t \in Requests \ {r}, Paid(t), Draft(t) = Draft(r),
                 args[t].key = args[r].key
          PROVE  FALSE
      <3>1. IsGenerate(r) /\ Server(t) = Server(r) /\ ~Paid(r)
        BY <1>0, <2>2, <2>5 DEF Paid, Claims, Undisturbed
      <3>2. pc[r] \notin Section /\ job[r] # "completed"
        BY <3>1 DEF Paid, InSection
      <3>3. AdmitGenerate(r) /\ pc'[r] = "charge"
        BY <2>1, <2>2, <2>5, <3>1, <3>2 DEF Advance, Paid, InSection
      <3>4. InSection(r)'
        BY <2>2, <3>1, <3>3 DEF InSection, Section
      <3>5. ~InSection(t)
        BY <2>2, <2>3, <2>5, <3>1, <3>4 DEF LockHeld, LockExclusive
      <3>6. IsGenerate(t) /\ job[t] = "completed" /\ pc[t] # "finish"
        BY <2>5, <3>5 DEF Paid, InSection, Section
      <3>7. idem[Server(r)][args[r].key] # NoOne
        BY <2>5, <3>1, <3>6 DEF Claims
      <3>8. QED BY <3>3, <3>7 DEF AdmitGenerate
    <2>6. \A t, o \in Requests :
            /\ Paid(t)' /\ Paid(o)' /\ Draft(t) = Draft(o) /\ args[t].key = args[o].key
            => t = o
      BY <2>3, <2>5 DEF Claims
    <2>7. QED BY <2>2, <2>4, <2>6 DEF Claims
  <1>2. CASE \A r \in Requests : ~Handler(r)
    <2>1. UNCHANGED <<args, pc, job, idem>>
      BY <1>2, OthersWait DEF ExpireKey
    <2>2. QED
      BY <2>1 DEF Claims, Paid, InSection, IsGenerate, Draft, Server
  <1>3. QED BY <1>1, <1>2

LEMMA UnderLockHolds == Undisturbed => (Spec => [](UnderLock /\ LockHeld))
  <1>1. Init => UnderLock
    BY DEF Init, UnderLock
  <1>2. Undisturbed /\ TypeOK /\ OutcomeInv /\ LockHeld /\ UnderLock /\ [Next]_vars
        => UnderLock'
    BY UnderLockKept
  <1>3. Undisturbed => ReliableLock
    BY DEF Undisturbed, ReliableLock
  <1>4. SUFFICES ASSUME Undisturbed PROVE Spec => [](UnderLock /\ LockHeld)
    OBVIOUS
  <1>5. Spec => []LockHeld
    BY <1>3, <1>4, LockHolds
  <1>6. QED BY <1>1, <1>2, <1>4, <1>5, OutcomeHolds, TypeCorrect, PTL DEF Spec

\* Inline, at most one requested generation of a draft is under way: in one process
\* that neither crashes nor loses its database, a job in state queued has the lock.
THEOREM GenerationsTakeTurns ==
  ASSUME Undisturbed
  PROVE  Spec => []OneGenerationAtATime
  <1>1. TypeOK /\ UnderLock /\ LockHeld => OneGenerationAtATime
    <2> SUFFICES ASSUME TypeOK, UnderLock, LockHeld, NEW r \in Requests, NEW t \in Requests,
                        IsGenerate(r), IsGenerate(t), Draft(r) = Draft(t),
                        job[r] = "queued", job[t] = "queued"
                 PROVE  r = t
      BY DEF OneGenerationAtATime
    <2>1. InSection(r) /\ InSection(t)
      BY DEF UnderLock
    <2>2. Server(r) = Server(t)
      BY InputsTyped DEF Undisturbed, TypeOK
    <2>3. QED BY <2>1, <2>2 DEF LockHeld, LockExclusive
  <1>2. QED BY <1>1, UnderLockHolds, TypeCorrect, PTL

\* A client that repeats a generate request under its idempotency key while the key
\* is remembered pays once: the lock covers the time from the look-up to the cache.
THEOREM KeyPaysOnce ==
  ASSUME Undisturbed, "idem-expiry" \notin Faults
  PROVE  Spec => []OneChargePerKey
  <1>1. Init => Claims
    BY DEF Init, Claims, Paid, InSection, Section
  <1>2. TypeOK /\ OutcomeInv /\ LockHeld /\ LockHeld' /\ UnderLock /\ Claims /\ [Next]_vars
        => Claims'
    BY ClaimsKept
  <1>3. UnderLock /\ Claims /\ TypeOK => OneChargePerKey
    BY Tables DEF OneChargePerKey, UnderLock, Claims, Paid
  <1>4. QED
    BY <1>1, <1>2, <1>3, UnderLockHolds, OutcomeHolds, TypeCorrect, PTL DEF Spec

=================================================================================
