-------------------------- MODULE AiGenerationProofs --------------------------
(* What holds of AiGeneration for every number of users, drafts, requests and  *)
(* processes.                                                                  *)
EXTENDS AiGeneration, TLAPS

\* A post keeps the types of the two credit tables...
LEMMA PostTyped ==
  ASSUME LedgerTypeOK,
         NEW u \in Users, NEW kind \in Kinds, NEW delta \in Int, Post(u, kind, delta)
  PROVE  /\ LedgerTypeOK'
         /\ balance'[u] = balance[u] + delta
         /\ \A v \in Users \ {u} : balance'[v] = balance[v]
         /\ \A v \in Users \ {u} : ledger'[v] = ledger[v]
         /\ ledger'[u] = [ledger[u] EXCEPT ![kind] = ledger[u][kind] + delta]
  <1> DEFINE moved == [ledger[u] EXCEPT ![kind] = ledger[u][kind] + delta]
  <1>1. moved \in [Kinds -> Int]
    <2>1. ledger[u] \in [Kinds -> Int]
      BY DEF LedgerTypeOK
    <2>2. ledger[u][kind] + delta \in Int
      BY <2>1
    <2>3. QED BY <2>1, <2>2
  <1>2. ledger' = [ledger EXCEPT ![u] = moved]
    BY DEF Post
  <1>3. balance' = [balance EXCEPT ![u] = balance[u] + delta]
    BY DEF Post
  <1> HIDE DEF moved
  <1>4. /\ LedgerTypeOK'
        /\ balance'[u] = balance[u] + delta
        /\ \A v \in Users \ {u} : balance'[v] = balance[v] /\ ledger'[v] = ledger[v]
        /\ ledger'[u] = moved
    BY <1>1, <1>2, <1>3 DEF LedgerTypeOK
  <1>5. QED BY <1>4 DEF moved

\* ...and their agreement.
LEMMA PostMatches ==
  ASSUME LedgerTypeOK, BalanceMatchesLedger,
         NEW u \in Users, NEW kind \in Kinds, NEW delta \in Int, Post(u, kind, delta)
  PROVE  BalanceMatchesLedger'
  <1> DEFINE moved == [ledger[u] EXCEPT ![kind] = ledger[u][kind] + delta]
  <1>1. /\ balance'[u] = balance[u] + delta /\ ledger'[u] = moved
        /\ \A v \in Users \ {u} : balance'[v] = balance[v] /\ ledger'[v] = ledger[v]
    BY PostTyped
  <1>2. /\ ledger[u] \in [Kinds -> Int]
        /\ balance[u] = LedgerTotal(u)
    BY DEF LedgerTypeOK, BalanceMatchesLedger
  <1>3. moved["gift"] + moved["purchase"] + moved["spend"] + moved["refund"]
          = LedgerTotal(u) + delta
    BY <1>2 DEF LedgerTotal, Kinds
  <1> HIDE DEF moved
  <1>4. ASSUME NEW v \in Users PROVE balance'[v] = LedgerTotal(v)'
    <2>1. CASE v # u
      BY <1>1, <2>1 DEF BalanceMatchesLedger, LedgerTotal
    <2>2. CASE v = u
      BY <1>1, <1>2, <1>3, <2>2 DEF LedgerTotal
    <2>3. QED BY <2>1, <2>2
  <1>5. QED
    BY <1>4 DEF BalanceMatchesLedger

\* Prices are credits, and inputs name a draft, a payer, a key and a process.
LEMMA InputsTyped ==
  ASSUME HandlersTypeOK, NEW r \in Requests
  PROVE  /\ Draft(r) \in Drafts /\ Payer(r) \in Users /\ Server(r) \in Servers
         /\ args[r].key \in Keys
         /\ IsGenerate(r) \in BOOLEAN
         /\ Cost(r) \in {100, 200, 300}
  <1>1. args[r] \in [op : Ops, draft : Drafts, key : Keys, at : Servers]
    BY AiAssumption DEF HandlersTypeOK
  <1>2. Draft(r) \in Drafts /\ Payer(r) \in Users /\ Server(r) \in Servers
    BY <1>1, AiAssumption DEF Draft, Payer, Server
  <1>3. Cost(r) \in {100, 200, 300}
    <2>1. seen[r] \in Nat
      BY DEF HandlersTypeOK
    <2>2. QED BY <2>1 DEF Cost, Price
  <1>4. QED BY <1>1, <1>2, <1>3 DEF IsGenerate

LEMMA InitTypeOK == Init => TypeOK
  <1> SUFFICES ASSUME Init PROVE TypeOK
    OBVIOUS
  <1>1. LedgerTypeOK
    <2>1. balance \in [Users -> Int]
      <3>1. balance \in [Users -> StartBalances]
        BY DEF Init
      <3>2. StartBalances \subseteq Int
        BY AiAssumption
      <3>3. QED BY <3>1, <3>2
    <2>2. \A u \in Users :
            [k \in Kinds |-> IF k = "gift" THEN balance[u] ELSE 0] \in [Kinds -> Int]
      <3>1. TAKE u \in Users
      <3>2. balance[u] \in Int
        BY <2>1
      <3>3. QED BY <3>2
    <2>3. QED BY <2>1, <2>2 DEF Init, OpenedWith, LedgerTypeOK
  <1>2. HandlersTypeOK
    BY DEF Init, HandlersTypeOK, Steps, Answers
  <1>3. JobsTypeOK
    BY DEF Init, JobsTypeOK
  <1>4. LocksTypeOK
    BY DEF Init, LocksTypeOK
  <1>5. QueueTypeOK
    BY DEF Init, QueueTypeOK, QueueStates
  <1>6. WorkersTypeOK
    BY DEF Init, WorkersTypeOK, WorkerSteps
  <1>7. EnvTypeOK
    BY DEF Init, EnvTypeOK
  <1>8. QED BY <1>1, <1>2, <1>3, <1>4, <1>5, <1>6, <1>7 DEF TypeOK

\* What a step leaves alone keeps its types.
LEMMA UnchangedTyped ==
  /\ LedgerTypeOK /\ UNCHANGED ledgerVars => LedgerTypeOK'
  /\ HandlersTypeOK /\ UNCHANGED handlerVars => HandlersTypeOK'
  /\ JobsTypeOK /\ UNCHANGED regenCount /\ UNCHANGED jobVars => JobsTypeOK'
  /\ LocksTypeOK /\ UNCHANGED lockVars => LocksTypeOK'
  /\ QueueTypeOK /\ UNCHANGED queueVars => QueueTypeOK'
  /\ WorkersTypeOK /\ UNCHANGED workerVars => WorkersTypeOK'
  /\ EnvTypeOK /\ UNCHANGED envVars => EnvTypeOK'
  BY DEF LedgerTypeOK, HandlersTypeOK, JobsTypeOK, LocksTypeOK, QueueTypeOK, WorkersTypeOK,
         EnvTypeOK, ledgerVars, handlerVars, jobVars, lockVars, queueVars, workerVars, envVars

LEMMA HandlerTypeOK ==
  ASSUME TypeOK, NEW r \in Requests, Handler(r)
  PROVE  TypeOK'
  <1> USE DEF TypeOK
  <1>0. /\ Draft(r) \in Drafts /\ Payer(r) \in Users /\ Server(r) \in Servers
        /\ args[r].key \in Keys
        /\ Cost(r) \in Int /\ -Cost(r) \in Int
    BY InputsTyped
  <1>1. CASE Refuse(r)
    <2>1. HandlersTypeOK'
      BY <1>0, <1>1 DEF Refuse, Reply, HandlersTypeOK, Steps, Answers
    <2>2. QED
      BY <1>1, <2>1, UnchangedTyped DEF Refuse
  <1>2. CASE ReadDraft(r)
    <2>1. HandlersTypeOK'
      BY <1>0, <1>2 DEF ReadDraft, Goto, HandlersTypeOK, JobsTypeOK, Steps, Answers
    <2>2. QED
      BY <1>2, <2>1, UnchangedTyped DEF ReadDraft
  <1>3. CASE ReadWallet(r)
    <2>1. HandlersTypeOK'
      BY <1>0, <1>3 DEF ReadWallet, Goto, HandlersTypeOK, LedgerTypeOK, Steps, Answers
    <2>2. EnvTypeOK'
      BY <1>0, <1>3 DEF ReadWallet, Goto, EnvTypeOK
    <2>3. QED
      BY <1>3, <2>1, <2>2, UnchangedTyped DEF ReadWallet
  <1>4. CASE TurnAway(r)
    <2>1. HandlersTypeOK'
      BY <1>0, <1>4 DEF TurnAway, Reply, HandlersTypeOK, Steps, Answers
    <2>2. QED
      BY <1>4, <2>1, UnchangedTyped DEF TurnAway
  <1>5. CASE AdmitRegen(r)
    <2>1. HandlersTypeOK'
      BY <1>0, <1>5 DEF AdmitRegen, Goto, HandlersTypeOK, Steps, Answers
    <2>2. QED
      BY <1>5, <2>1, UnchangedTyped DEF AdmitRegen
  <1>6. CASE AdmitGenerate(r)
    <2>1. HandlersTypeOK'
      BY <1>0, <1>6 DEF AdmitGenerate, Goto, Reply, MemAcquire, HandlersTypeOK, Steps, Answers
    <2>2. LocksTypeOK'
      BY <1>0, <1>6 DEF AdmitGenerate, Goto, Reply, MemAcquire, LocksTypeOK
    <2>3. QED
      BY <1>6, <2>1, <2>2, UnchangedTyped DEF AdmitGenerate
  <1>7. CASE Lock(r)
    <2>0. RedisAcquire(r) \/ MemAcquire(r)
      BY <1>7 DEF Lock
    <2>1. HandlersTypeOK'
      <3>1. UNCHANGED <<args, seen, funds>>
        BY <1>7 DEF Lock, handlerVars
      <3>2. CASE RedisAcquire(r)
        BY <1>0, <3>1, <3>2 DEF Goto, Reply, RedisAcquire, HandlersTypeOK, Steps, Answers
      <3>3. CASE MemAcquire(r)
        BY <1>0, <3>1, <3>3 DEF Goto, Reply, MemAcquire, HandlersTypeOK, Steps, Answers
      <3>4. QED BY <2>0, <3>2, <3>3
    <2>2. LocksTypeOK'
      <3>1. idem' = idem
        BY <1>7 DEF Lock
      <3>2. CASE RedisAcquire(r)
        BY <1>0, <3>1, <3>2 DEF Goto, Reply, RedisAcquire, LocksTypeOK
      <3>3. CASE MemAcquire(r)
        BY <1>0, <3>1, <3>3 DEF Goto, Reply, MemAcquire, LocksTypeOK
      <3>4. QED BY <2>0, <3>2, <3>3
    <2>3. QED
      BY <1>7, <2>1, <2>2, UnchangedTyped DEF Lock
  <1>8. CASE Charge(r)
    <2>1. LedgerTypeOK'
      <3>1. Post(Payer(r), "spend", -Cost(r))
        BY <1>8 DEF Charge
      <3>2. QED BY <1>0, <3>1, PostTyped DEF Kinds
    <2>2. HandlersTypeOK'
      BY <1>0, <1>8 DEF Charge, Goto, HandlersTypeOK, Steps, Answers
    <2>3. JobsTypeOK'
      BY <1>0, <1>8 DEF Charge, Goto, JobsTypeOK
    <2>4. QED
      BY <1>8, <2>1, <2>2, <2>3, UnchangedTyped DEF Charge
  <1>9. CASE DbError(r)
    <2>1. HandlersTypeOK'
      BY <1>0, <1>9 DEF DbError, Leave, Reply, HandlersTypeOK, Steps, Answers
    <2>2. QED
      BY <1>9, <2>1, UnchangedTyped DEF DbError
  <1>10. CASE Enqueue(r)
    <2>1. HandlersTypeOK'
      BY <1>0, <1>10 DEF Enqueue, Goto, Reply, HandlersTypeOK, Steps, Answers
    <2>2. QueueTypeOK'
      BY <1>0, <1>10 DEF Enqueue, Goto, Reply, QueueTypeOK, QueueStates
    <2>3. QED
      BY <1>10, <2>1, <2>2, UnchangedTyped DEF Enqueue
  <1>11. CASE EnqueueError(r)
    <2>1. HandlersTypeOK'
      BY <1>0, <1>11 DEF EnqueueError, Leave, Reply, HandlersTypeOK, Steps, Answers
    <2>2. QED
      BY <1>11, <2>1, UnchangedTyped DEF EnqueueError
  <1>12. CASE InlineGenerate(r)
    <2>1. HandlersTypeOK'
      BY <1>0, <1>12 DEF InlineGenerate, Goto, HandlersTypeOK, Steps, Answers
    <2>2. JobsTypeOK'
      BY <1>0, <1>12 DEF InlineGenerate, Goto, JobsTypeOK
    <2>3. QED
      BY <1>12, <2>1, <2>2, UnchangedTyped DEF InlineGenerate
  <1>13. CASE InlineComplete(r)
    <2>1. HandlersTypeOK'
      BY <1>0, <1>13 DEF InlineComplete, Goto, Reply, HandlersTypeOK, Steps, Answers
    <2>2. JobsTypeOK'
      BY <1>0, <1>13 DEF InlineComplete, Goto, Reply, HandlersTypeOK, JobsTypeOK
    <2>3. QED
      BY <1>13, <2>1, <2>2, UnchangedTyped DEF InlineComplete
  <1>14. CASE InlineFail(r)
    <2>1. HandlersTypeOK'
      BY <1>0, <1>14 DEF InlineFail, Goto, HandlersTypeOK, Steps, Answers
    <2>2. JobsTypeOK'
      BY <1>0, <1>14 DEF InlineFail, Goto, JobsTypeOK
    <2>3. QED
      BY <1>14, <2>1, <2>2, UnchangedTyped DEF InlineFail
  <1>15. CASE InlineRefund(r)
    <2>1. LedgerTypeOK'
      <3>1. Post(Payer(r), "refund", Cost(r))
        BY <1>15 DEF InlineRefund
      <3>2. QED BY <1>0, <3>1, PostTyped DEF Kinds
    <2>2. HandlersTypeOK'
      BY <1>0, <1>15 DEF InlineRefund, Leave, Reply, HandlersTypeOK, Steps, Answers
    <2>3. JobsTypeOK'
      BY <1>0, <1>15 DEF InlineRefund, Leave, Reply, JobsTypeOK
    <2>4. QED
      BY <1>15, <2>1, <2>2, <2>3, UnchangedTyped DEF InlineRefund
  <1>16. CASE Finish(r)
    <2>1. HandlersTypeOK'
      BY <1>0, <1>16 DEF Finish, Reply, FreeLock, HandlersTypeOK, Steps, Answers
    <2>2. LocksTypeOK'
      BY <1>0, <1>16 DEF Finish, Reply, FreeLock, LocksTypeOK
    <2>3. QED
      BY <1>16, <2>1, <2>2, UnchangedTyped DEF Finish
  <1>17. CASE Release(r)
    <2>1. HandlersTypeOK'
      BY <1>0, <1>17 DEF Release, Goto, FreeLock, HandlersTypeOK, Steps, Answers
    <2>2. LocksTypeOK'
      BY <1>0, <1>17 DEF Release, Goto, FreeLock, LocksTypeOK
    <2>3. QED
      BY <1>17, <2>1, <2>2, UnchangedTyped DEF Release
  <1>18. QED
    BY <1>1, <1>2, <1>3, <1>4, <1>5, <1>6, <1>7, <1>8, <1>9, <1>10, <1>11, <1>12, <1>13, <1>14, <1>15, <1>16, <1>17 DEF Handler

LEMMA WorkerTypeOK ==
  ASSUME TypeOK, NEW s \in Servers, WorkerStep(s)
  PROVE  TypeOK'
  <1> USE DEF TypeOK
  <1>0. /\ task[s] \in Requests
        /\ Payer(task[s]) \in Users /\ Cost(task[s]) \in Int
    <2>1. step[s] # "idle"
      BY DEF WorkerStep, Check, WorkerGenerate, WorkerComplete, WorkerFail, WorkerRefund,
             Throw, Ack
    <2>2. task[s] \in Requests
      BY <2>1 DEF WorkersTypeOK
    <2>3. QED BY <2>2, InputsTyped
  <1>1. CASE Check(s)
    <2>1. WorkersTypeOK'
      BY <1>0, <1>1 DEF Check, WorkerGoto, WorkersTypeOK, WorkerSteps
    <2>2. QED
      BY <1>1, <2>1, UnchangedTyped DEF Check
  <1>2. CASE WorkerGenerate(s)
    <2>1. JobsTypeOK'
      BY <1>0, <1>2 DEF WorkerGenerate, WorkerGoto, JobsTypeOK
    <2>2. WorkersTypeOK'
      BY <1>0, <1>2 DEF WorkerGenerate, WorkerGoto, WorkersTypeOK, WorkerSteps
    <2>3. QED
      BY <1>2, <2>1, <2>2, UnchangedTyped DEF WorkerGenerate
  <1>3. CASE WorkerComplete(s)
    <2>1. JobsTypeOK'
      BY <1>0, <1>3 DEF WorkerComplete, WorkerGoto, JobsTypeOK
    <2>2. WorkersTypeOK'
      BY <1>0, <1>3 DEF WorkerComplete, WorkerGoto, WorkersTypeOK, WorkerSteps
    <2>3. QED
      BY <1>3, <2>1, <2>2, UnchangedTyped DEF WorkerComplete
  <1>4. CASE WorkerFail(s)
    <2>1. JobsTypeOK'
      BY <1>0, <1>4 DEF WorkerFail, WorkerGoto, JobsTypeOK
    <2>2. WorkersTypeOK'
      BY <1>0, <1>4 DEF WorkerFail, WorkerGoto, WorkersTypeOK, WorkerSteps
    <2>3. QED
      BY <1>4, <2>1, <2>2, UnchangedTyped DEF WorkerFail
  <1>5. CASE WorkerRefund(s)
    <2>1. LedgerTypeOK'
      <3>1. CASE Post(Payer(task[s]), "refund", Cost(task[s]))
        BY <1>0, <3>1, PostTyped DEF Kinds
      <3>2. QED BY <1>5, <3>1, UnchangedTyped DEF WorkerRefund
    <2>2. JobsTypeOK'
      BY <1>0, <1>5 DEF WorkerRefund, WorkerGoto, JobsTypeOK
    <2>3. WorkersTypeOK'
      BY <1>0, <1>5 DEF WorkerRefund, WorkerGoto, WorkersTypeOK, WorkerSteps
    <2>4. QED
      BY <1>5, <2>1, <2>2, <2>3, UnchangedTyped DEF WorkerRefund
  <1>6. CASE Throw(s)
    <2>1. QueueTypeOK'
      BY <1>0, <1>6 DEF Throw, PutBack, Idle, HoldsJob, QueueTypeOK, QueueStates
    <2>2. WorkersTypeOK'
      BY <1>0, <1>6 DEF Throw, PutBack, Idle, HoldsJob, WorkersTypeOK, WorkerSteps
    <2>3. QED
      BY <1>6, <2>1, <2>2, UnchangedTyped DEF Throw
  <1>7. CASE Ack(s)
    <2>1. QueueTypeOK'
      BY <1>0, <1>7 DEF Ack, PutBack, Idle, HoldsJob, QueueTypeOK, QueueStates
    <2>2. WorkersTypeOK'
      BY <1>0, <1>7 DEF Ack, PutBack, Idle, HoldsJob, WorkersTypeOK, WorkerSteps
    <2>3. QED
      BY <1>7, <2>1, <2>2, UnchangedTyped DEF Ack
  <1>8. QED
    BY <1>1, <1>2, <1>3, <1>4, <1>5, <1>6, <1>7 DEF WorkerStep

LEMMA EnvironmentTypeOK ==
  ASSUME TypeOK
  PROVE  /\ \A s \in Servers, j \in Requests : Take(s, j) => TypeOK'
         /\ \A s \in Servers : Crash(s) => TypeOK'
         /\ \A j \in Requests : Stall(j) => TypeOK'
         /\ \A d \in Drafts : ExpireLock(d) => TypeOK'
         /\ \A s \in Servers, k \in Keys : ExpireKey(s, k) => TypeOK'
         /\ \A u \in Users, kind \in {"gift", "purchase"} : TopUp(u, kind) => TypeOK'
  <1> USE DEF TypeOK
  <1>1. ASSUME NEW s \in Servers, NEW j \in Requests, Take(s, j) PROVE TypeOK'
    <2>1. QueueTypeOK'
      BY <1>1 DEF Take, QueueTypeOK, QueueStates
    <2>2. WorkersTypeOK'
      BY <1>1 DEF Take, WorkersTypeOK, WorkerSteps, QueueTypeOK
    <2>3. QED
      BY <1>1, <2>1, <2>2, UnchangedTyped DEF Take
  <1>2. ASSUME NEW s \in Servers, Crash(s) PROVE TypeOK'
    <2>1. HandlersTypeOK'
      BY <1>2 DEF Crash, HandlersTypeOK, Steps, Answers
    <2>2. LocksTypeOK'
      BY <1>2 DEF Crash, LocksTypeOK
    <2>3. WorkersTypeOK'
      BY <1>2 DEF Crash, Idle, WorkersTypeOK, WorkerSteps
    <2>4. EnvTypeOK'
      BY <1>2 DEF Crash, EnvTypeOK
    <2>5. QED
      BY <1>2, <2>1, <2>2, <2>3, <2>4, UnchangedTyped DEF Crash
  <1>3. ASSUME NEW j \in Requests, Stall(j) PROVE TypeOK'
    <2>1. QueueTypeOK'
      BY <1>3 DEF Stall, PutBack, QueueTypeOK, QueueStates
    <2>2. QED
      BY <1>3, <2>1, UnchangedTyped DEF Stall
  <1>4. ASSUME NEW d \in Drafts, ExpireLock(d) PROVE TypeOK'
    <2>1. LocksTypeOK'
      BY <1>4 DEF ExpireLock, LocksTypeOK
    <2>2. QED
      BY <1>4, <2>1, UnchangedTyped DEF ExpireLock
  <1>5. ASSUME NEW s \in Servers, NEW k \in Keys, ExpireKey(s, k) PROVE TypeOK'
    <2>1. LocksTypeOK'
      BY <1>5 DEF ExpireKey, LocksTypeOK
    <2>2. QED
      BY <1>5, <2>1, UnchangedTyped DEF ExpireKey
  <1>6. ASSUME NEW u \in Users, NEW kind \in {"gift", "purchase"}, TopUp(u, kind)
        PROVE  TypeOK'
    <2>1. LedgerTypeOK'
      <3>1. Post(u, kind, TopUpAmount)
        BY <1>6 DEF TopUp
      <3>2. TopUpAmount \in Int /\ kind \in Kinds
        BY AiAssumption DEF Kinds
      <3>3. QED BY <3>1, <3>2, PostTyped
    <2>2. EnvTypeOK'
      BY <1>6 DEF TopUp, EnvTypeOK
    <2>3. QED
      BY <1>6, <2>1, <2>2, UnchangedTyped DEF TopUp
  <1>7. QED BY <1>1, <1>2, <1>3, <1>4, <1>5, <1>6

LEMMA StepTypeOK == TypeOK /\ [Next]_vars => TypeOK'
  <1>1. CASE TypeOK /\ Next
    BY <1>1, HandlerTypeOK, WorkerTypeOK, EnvironmentTypeOK DEF Next
  <1>2. CASE TypeOK /\ UNCHANGED vars
    BY <1>2, UnchangedTyped DEF vars, TypeOK
  <1>3. QED BY <1>1, <1>2

\* Every variable keeps its type, in particular an active job a holder.
THEOREM TypeCorrect == Spec => []TypeOK
  BY InitTypeOK, StepTypeOK, PTL DEF Spec
-------------------------------------------------------------------------------
(* The credit tables. *)

\* Credits move by posts alone, and only Charge takes any.
LEMMA CreditMoves ==
  ASSUME TypeOK, [Next]_vars
  PROVE  \/ UNCHANGED ledgerVars
         \/ \E r \in Requests : Charge(r) /\ Post(Payer(r), "spend", -Cost(r))
         \/ \E u \in Users, kind \in Kinds, n \in Nat : Post(u, kind, n)
  <1> USE DEF TypeOK
  <1>1. ASSUME NEW r \in Requests, Handler(r), ~Charge(r)
        PROVE  UNCHANGED ledgerVars \/ Post(Payer(r), "refund", Cost(r))
    BY <1>1 DEF Handler, Refuse, ReadDraft, ReadWallet, TurnAway, AdmitRegen, AdmitGenerate,
                Lock, DbError, Enqueue, EnqueueError, InlineGenerate, InlineComplete,
                InlineFail, InlineRefund, Finish, Release
  <1>2. ASSUME NEW s \in Servers, WorkerStep(s)
        PROVE  /\ task[s] \in Requests
               /\ UNCHANGED ledgerVars \/ Post(Payer(task[s]), "refund", Cost(task[s]))
    BY <1>2 DEF WorkerStep, Check, WorkerGenerate, WorkerComplete, WorkerFail, WorkerRefund,
                Throw, Ack, WorkersTypeOK
  <1>3. \A r \in Requests : Payer(r) \in Users /\ Cost(r) \in Nat
    BY InputsTyped
  <1>4. "refund" \in Kinds /\ {"gift", "purchase"} \subseteq Kinds
    BY DEF Kinds
  <1>5. ASSUME NEW r \in Requests, Charge(r)
        PROVE  Post(Payer(r), "spend", -Cost(r))
    BY <1>5 DEF Charge
  <1>6. ASSUME NEW u \in Users, NEW kind \in {"gift", "purchase"}, TopUp(u, kind)
        PROVE  Post(u, kind, TopUpAmount) /\ TopUpAmount \in Nat
    BY <1>6, AiAssumption DEF TopUp
  <1>7. CASE \E r \in Requests : Handler(r)
    BY <1>7, <1>1, <1>3, <1>4, <1>5
  <1>8. CASE \E s \in Servers : WorkerStep(s)
    BY <1>8, <1>2, <1>3, <1>4
  <1>9. CASE \E u \in Users, kind \in {"gift", "purchase"} : TopUp(u, kind)
    BY <1>9, <1>6, <1>4
  <1>10. CASE UNCHANGED vars
    BY <1>10 DEF vars
  <1>11. CASE \/ \E s \in Servers : Crash(s)
              \/ \E s \in Servers, j \in Requests : Take(s, j)
              \/ \E j \in Requests : Stall(j)
              \/ \E d \in Drafts : ExpireLock(d)
              \/ \E s \in Servers, k \in Keys : ExpireKey(s, k)
    BY <1>11 DEF Crash, Take, Stall, ExpireLock, ExpireKey
  <1>12. QED BY <1>7, <1>8, <1>9, <1>10, <1>11 DEF Next

\* The balance a user sees is the sum of the user's history: no charge, refund,
\* gift or purchase, by whatever handler or worker, moves one without the other.
THEOREM BalanceIsHistory == Spec => []BalanceMatchesLedger
  <1>1. Init => BalanceMatchesLedger
    <2> SUFFICES ASSUME Init, NEW u \in Users PROVE balance[u] = LedgerTotal(u)
      BY DEF BalanceMatchesLedger
    <2>1. balance[u] \in Int
      BY InitTypeOK DEF TypeOK, LedgerTypeOK
    <2>2. ledger = [v \in Users |-> [k \in Kinds |-> IF k = "gift" THEN balance[v] ELSE 0]]
      BY DEF Init, OpenedWith
    <2>3. QED BY <2>1, <2>2 DEF LedgerTotal, Kinds
  <1>2. TypeOK /\ BalanceMatchesLedger /\ [Next]_vars => BalanceMatchesLedger'
    <2> SUFFICES ASSUME TypeOK, BalanceMatchesLedger, [Next]_vars
                 PROVE  BalanceMatchesLedger'
      OBVIOUS
    <2>1. LedgerTypeOK
      BY DEF TypeOK
    <2>2. CASE UNCHANGED ledgerVars
      BY <2>2 DEF BalanceMatchesLedger, LedgerTotal, ledgerVars
    <2>3. CASE \E r \in Requests : Post(Payer(r), "spend", -Cost(r))
      <3>1. PICK r \in Requests : Post(Payer(r), "spend", -Cost(r))
        BY <2>3
      <3>2. Payer(r) \in Users /\ -Cost(r) \in Int /\ "spend" \in Kinds
        BY InputsTyped DEF TypeOK, Kinds
      <3>3. QED BY <2>1, <3>1, <3>2, PostMatches
    <2>4. CASE \E u \in Users, kind \in Kinds, n \in Nat : Post(u, kind, n)
      BY <2>1, <2>4, PostMatches
    <2>5. QED BY <2>2, <2>3, <2>4, CreditMoves
  <1>3. QED BY <1>1, <1>2, TypeCorrect, PTL DEF Spec
-------------------------------------------------------------------------------
(* Overdrafts. *)

\* While no two requests of u overlapped, the wallet holds what the one request
\* that is deciding about it read there.
Solvent(u) ==
  ~overlapped[u] =>
    /\ balance[u] >= 0
    /\ \A r, t \in Deciding(u) : r = t
    /\ \A r \in Deciding(u) : /\ funds[r] <= balance[u]
                              /\ pc[r] # "decide" => funds[r] >= Cost(r)

AllSolvent == \A u \in Users : Solvent(u)

\* A step that starts no decision and takes no credits.
Harmless ==
  /\ args' = args
  /\ \A u \in Users : balance'[u] >= balance[u] /\ overlapped'[u] = overlapped[u]
  /\ \A r \in Requests :
       pc'[r] \in {"decide", "lock", "charge"} =>
         /\ pc[r] \in {"decide", "lock", "charge"}
         /\ funds'[r] = funds[r] /\ seen'[r] = seen[r]
         /\ pc'[r] # "decide" => pc[r] # "decide" \/ funds[r] >= Cost(r)

LEMMA MostlyHarmless ==
  ASSUME TypeOK, [Next]_vars
  PROVE  Harmless \/ \E r \in Requests : ReadWallet(r) \/ Charge(r)
  <1> USE DEF TypeOK
  <1> SUFFICES ASSUME ~(\E r \in Requests : ReadWallet(r) \/ Charge(r))
               PROVE  Harmless
    OBVIOUS
  <1>1. \A u \in Users : balance'[u] >= balance[u]
    <2> SUFFICES ASSUME NEW u \in Users PROVE balance'[u] >= balance[u]
      OBVIOUS
    <2>1. balance[u] \in Int
      BY DEF LedgerTypeOK
    <2>2. CASE UNCHANGED ledgerVars
      BY <2>1, <2>2 DEF ledgerVars
    <2>3. ASSUME NEW v \in Users, NEW kind \in Kinds, NEW n \in Nat, Post(v, kind, n)
          PROVE  balance'[u] >= balance[u]
      <3>1. balance \in [Users -> Int] /\ balance' = [balance EXCEPT ![v] = balance[v] + n]
        BY <2>3 DEF LedgerTypeOK, Post
      <3>2. CASE u = v
        BY <2>1, <3>1, <3>2
      <3>3. CASE u # v
        BY <2>1, <3>1, <3>3
      <3>4. QED BY <3>2, <3>3
    <2>4. QED BY <2>2, <2>3, CreditMoves
  <1>2. ASSUME NEW r \in Requests, Handler(r)
        PROVE  /\ args' = args /\ overlapped' = overlapped
               /\ \A t \in Requests :
                    pc'[t] \in {"decide", "lock", "charge"} =>
                      /\ pc[t] \in {"decide", "lock", "charge"}
                      /\ funds'[t] = funds[t] /\ seen'[t] = seen[t]
                      /\ pc'[t] # "decide" => pc[t] # "decide" \/ funds[t] >= Cost(t)
    <2>0. /\ pc \in [Requests -> Steps]
          /\ seen \in [Requests -> Nat]
      BY DEF HandlersTypeOK
    <2>1. CASE Refuse(r) \/ ReadDraft(r) \/ TurnAway(r) \/ DbError(r) \/ EnqueueError(r)
               \/ Finish(r) \/ Release(r)
      BY <2>0, <2>1 DEF Refuse, ReadDraft, TurnAway, DbError, EnqueueError, Finish, Release,
                        Goto, Reply, Leave, envVars
    <2>2. CASE AdmitRegen(r) \/ AdmitGenerate(r) \/ Lock(r)
      BY <2>0, <2>2 DEF AdmitRegen, AdmitGenerate, Lock, Goto, Reply, MemAcquire,
                        RedisAcquire, envVars
    <2>3. CASE Enqueue(r) \/ InlineGenerate(r) \/ InlineComplete(r) \/ InlineFail(r)
               \/ InlineRefund(r)
      BY <2>0, <2>3 DEF Enqueue, InlineGenerate, InlineComplete, InlineFail, InlineRefund,
                        Goto, Reply, Leave, envVars
    <2>4. QED BY <1>2, <2>1, <2>2, <2>3 DEF Handler
  <1>3. ASSUME NEW s \in Servers, Crash(s)
        PROVE  UNCHANGED <<args, overlapped, funds, seen>>
               /\ \A t \in Requests : pc'[t] # "lost" => pc'[t] = pc[t]
    BY <1>3 DEF Crash
  <1>4. ASSUME \/ \E s \in Servers : WorkerStep(s)
               \/ \E s \in Servers, j \in Requests : Take(s, j)
               \/ \E j \in Requests : Stall(j)
               \/ \E d \in Drafts : ExpireLock(d)
               \/ \E s \in Servers, k \in Keys : ExpireKey(s, k)
               \/ \E u \in Users, kind \in {"gift", "purchase"} : TopUp(u, kind)
               \/ UNCHANGED vars
        PROVE  UNCHANGED <<args, pc, overlapped, funds, seen>>
    BY <1>4 DEF WorkerStep, Check, WorkerGenerate, WorkerComplete, WorkerFail, WorkerRefund,
                Throw, Ack, Take, Stall, ExpireLock, ExpireKey, TopUp, vars, handlerVars,
                envVars
  <1>5. CASE \E r \in Requests : Handler(r)
    BY <1>1, <1>2, <1>5 DEF Harmless
  <1>6. CASE \E s \in Servers : Crash(s)
    BY <1>1, <1>3, <1>6 DEF Harmless
  <1>7. QED BY <1>1, <1>4, <1>5, <1>6 DEF Next, Harmless

\* The charge does not look at the balance again, and need not while the user's
\* requests come one at a time.
LEMMA SolventKept ==
  ASSUME TypeOK, AllSolvent, [Next]_vars, NEW u \in Users
  PROVE  Solvent(u)'
  <1> USE DEF TypeOK
  <1>0. /\ balance \in [Users -> Int] /\ pc \in [Requests -> Steps]
        /\ funds \in [Requests -> Int] /\ overlapped \in [Users -> BOOLEAN]
        /\ \A r \in Requests : Payer(r) \in Users /\ Cost(r) \in Int
    BY InputsTyped DEF LedgerTypeOK, HandlersTypeOK, EnvTypeOK
  <1>1. CASE Harmless
    <2>1. args' = args /\ balance'[u] >= balance[u] /\ overlapped'[u] = overlapped[u]
      BY <1>1 DEF Harmless
    <2>2. ASSUME NEW r \in Deciding(u)'
          PROVE  /\ r \in Deciding(u) /\ funds'[r] = funds[r] /\ Cost(r)' = Cost(r)
                 /\ pc'[r] # "decide" => pc[r] # "decide" \/ funds[r] >= Cost(r)
      BY <1>1, <2>2 DEF Harmless, Deciding, Payer, Draft, Cost
    <2>3. Deciding(u) \subseteq Requests /\ Deciding(u)' \subseteq Deciding(u)
      BY <2>2 DEF Deciding
    <2>4. CASE overlapped'[u]
      BY <2>4 DEF Solvent
    <2>5. CASE ~overlapped'[u]
      <3>1. /\ balance[u] >= 0
            /\ \A r, t \in Deciding(u) : r = t
            /\ \A r \in Deciding(u) : /\ funds[r] <= balance[u]
                                      /\ pc[r] # "decide" => funds[r] >= Cost(r)
        BY <2>1, <2>5 DEF AllSolvent, Solvent
      <3>2. balance'[u] >= 0
        <4>1. balance[u] \in Int /\ balance'[u] \in Int
          BY StepTypeOK DEF LedgerTypeOK
        <4>2. QED BY <2>1, <3>1, <4>1
      <3>3. \A r, t \in Deciding(u)' : r = t
        BY <2>3, <3>1
      <3>4. ASSUME NEW r \in Deciding(u)'
            PROVE  /\ funds'[r] <= balance'[u]
                   /\ pc'[r] # "decide" => funds'[r] >= Cost(r)'
        <4>1. balance[u] \in Int /\ balance'[u] \in Int
          BY StepTypeOK DEF LedgerTypeOK
        <4>2. r \in Requests /\ funds[r] \in Int
          BY <1>0, <2>3
        <4>3. QED BY <2>1, <2>2, <2>3, <3>1, <4>1, <4>2
      <3>5. QED BY <3>2, <3>3, <3>4 DEF Solvent
    <2>6. QED BY <2>4, <2>5
  <1>2. ASSUME NEW r \in Requests, ReadWallet(r)
        PROVE  Solvent(u)'
    <2>1. args' = args /\ balance' = balance /\ seen' = seen
          /\ pc' = [pc EXCEPT ![r] = "decide"]
          /\ funds' = [funds EXCEPT ![r] = balance[Payer(r)]]
          /\ overlapped' = [overlapped EXCEPT ![Payer(r)] =
                              overlapped[Payer(r)] \/ Deciding(Payer(r)) # {}]
          /\ pc[r] = "wallet"
      BY <1>2 DEF ReadWallet, Goto, ledgerVars
    <2>2. CASE Payer(r) = u /\ Deciding(u) = {}
      <3>1. Deciding(u)' = {r}
        BY <1>0, <2>1, <2>2 DEF Deciding, Payer, Draft
      <3>2. funds'[r] = balance'[u] /\ pc'[r] = "decide"
        BY <1>0, <2>1, <2>2
      <3>3. overlapped'[u] = overlapped[u]
        BY <1>0, <2>1, <2>2
      <3>4. QED BY <1>0, <2>1, <3>1, <3>2, <3>3 DEF AllSolvent, Solvent
    <2>3. CASE Payer(r) = u /\ Deciding(u) # {}
      BY <1>0, <2>1, <2>3 DEF Solvent
    <2>4. CASE Payer(r) # u
      <3>1. Deciding(u)' = Deciding(u) /\ r \notin Deciding(u)
        BY <1>0, <2>1, <2>4 DEF Deciding, Payer, Draft
      <3>2. \A t \in Deciding(u) :
              funds'[t] = funds[t] /\ pc'[t] = pc[t] /\ Cost(t)' = Cost(t)
        BY <1>0, <2>1, <3>1 DEF Deciding, Cost
      <3>3. overlapped'[u] = overlapped[u]
        BY <1>0, <2>1, <2>4
      <3>4. QED BY <2>1, <3>1, <3>2, <3>3 DEF AllSolvent, Solvent
    <2>5. QED BY <2>2, <2>3, <2>4
  <1>3. ASSUME NEW r \in Requests, Charge(r)
        PROVE  Solvent(u)'
    <2>1. args' = args /\ seen' = seen /\ funds' = funds /\ overlapped' = overlapped
          /\ pc' = [pc EXCEPT ![r] = "deliver"] /\ pc[r] = "charge"
          /\ Post(Payer(r), "spend", -Cost(r))
      BY <1>3 DEF Charge, Goto, envVars
    <2>2. /\ balance'[Payer(r)] = balance[Payer(r)] - Cost(r)
          /\ \A v \in Users \ {Payer(r)} : balance'[v] = balance[v]
      <3>1. balance' = [balance EXCEPT ![Payer(r)] = balance[Payer(r)] + (-Cost(r))]
        BY <2>1 DEF Post
      <3>2. balance[Payer(r)] \in Int /\ Cost(r) \in Int
        BY <1>0
      <3>3. balance[Payer(r)] + (-Cost(r)) = balance[Payer(r)] - Cost(r)
        BY <3>2
      <3>4. QED BY <1>0, <3>1, <3>3
    <2>3. CASE Payer(r) = u
      <3>1. r \in Deciding(u)
        BY <2>1, <2>3 DEF Deciding
      <3>2. ASSUME ~overlapped'[u]
            PROVE  Deciding(u)' = {} /\ balance'[u] >= 0
        <4>1. \A t \in Deciding(u) : t = r
          BY <2>1, <3>1, <3>2 DEF AllSolvent, Solvent
        <4>2. funds[r] <= balance[u] /\ funds[r] >= Cost(r)
          BY <2>1, <3>1, <3>2 DEF AllSolvent, Solvent
        <4>3. Deciding(u)' = {}
          BY <1>0, <2>1, <4>1 DEF Deciding, Payer, Draft
        <4>4. QED BY <1>0, <2>2, <2>3, <4>2, <4>3
      <3>3. QED BY <3>2 DEF Solvent
    <2>4. CASE Payer(r) # u
      <3>1. Deciding(u)' = Deciding(u) /\ r \notin Deciding(u)
        BY <1>0, <2>1, <2>4 DEF Deciding, Payer, Draft
      <3>2. \A t \in Deciding(u) :
              funds'[t] = funds[t] /\ pc'[t] = pc[t] /\ Cost(t)' = Cost(t)
        BY <1>0, <2>1, <3>1 DEF Deciding, Cost
      <3>3. QED BY <2>1, <2>2, <2>4, <3>1, <3>2 DEF AllSolvent, Solvent
    <2>5. QED BY <2>3, <2>4
  <1>4. QED BY <1>1, <1>2, <1>3, MostlyHarmless

\* Only overlapping requests can overdraw a wallet: a user who waits for each
\* answer is never charged credits the wallet does not hold.
THEOREM OneAtATimeNeverOverdraws == Spec => []OnlyOverlapOverdraws
  <1>1. Init => AllSolvent
    <2> SUFFICES ASSUME Init, NEW u \in Users PROVE Solvent(u)
      BY DEF AllSolvent
    <2>1. balance[u] \in Nat
      <3>1. balance \in [Users -> StartBalances]
        BY DEF Init
      <3>2. QED BY <3>1, AiAssumption
    <2>2. Deciding(u) = {}
      BY DEF Init, Deciding
    <2>3. QED BY <2>1, <2>2 DEF Solvent
  <1>2. TypeOK /\ AllSolvent /\ [Next]_vars => AllSolvent'
    BY SolventKept DEF AllSolvent
  <1>3. AllSolvent => OnlyOverlapOverdraws
    BY DEF AllSolvent, Solvent, OnlyOverlapOverdraws
  <1>4. QED BY <1>1, <1>2, <1>3, TypeCorrect, PTL DEF Spec
-------------------------------------------------------------------------------
(* The draft lock. *)

\* Having the draft's lock, in the form the deployment uses.
HasLock(r) ==
  IF RedisConfigured THEN redisLock[Draft(r)] = r ELSE Draft(r) \in memLock[Server(r)]

LockHeld ==
  /\ LockExclusive
  /\ \A r \in Requests : InSection(r) => HasLock(r)
  /\ \A r \in Requests :
       /\ pc[r] = "lock" => IsGenerate(r) /\ RedisConfigured
       /\ pc[r] \in {"finish", "release"} => IsGenerate(r)

\* Redis answers, and nobody holds a lock for longer than its key lives.
ReliableLock == RedisConfigured => Faults \cap {"redis", "slow-holder"} = {}

\* Where a handler's step leads: r alone moves, and enters the section only
\* with the lock.
Moves(r) ==
  /\ args' = args
  /\ \A t \in Requests \ {r} : pc'[t] = pc[t]
  /\ pc'[r] = "lock" => IsGenerate(r) /\ RedisConfigured
  /\ pc'[r] \in {"finish", "release"} => IsGenerate(r)

\* No lock changes hands.
KeepsLocks(r) ==
  /\ UNCHANGED <<redisLock, memLock>>
  /\ IsGenerate(r) /\ pc'[r] \in Section => pc[r] \in Section

\* r finds the lock free and takes it.
TakesLock(r) ==
  /\ IsGenerate(r) /\ pc[r] \notin Section
  /\ IF RedisConfigured
     THEN redisLock[Draft(r)] = NoOne /\ redisLock' = [redisLock EXCEPT ![Draft(r)] = r]
     ELSE /\ Draft(r) \notin memLock[Server(r)]
          /\ memLock' = [memLock EXCEPT ![Server(r)] = @ \cup {Draft(r)}]

\* r gives it up and leaves.
GivesLock(r) ==
  /\ IsGenerate(r) /\ pc[r] \in Section /\ pc'[r] \notin Section
  /\ RedisConfigured => redisLock' = [redisLock EXCEPT ![Draft(r)] = NoOne]
  /\ memLock' = [memLock EXCEPT ![Server(r)] = @ \ {Draft(r)}]

LEMMA HandlerLocks ==
  ASSUME TypeOK, LockHeld, ReliableLock, NEW r \in Requests, Handler(r)
  PROVE  Moves(r) /\ (KeepsLocks(r) \/ TakesLock(r) \/ GivesLock(r))
  <1>0. /\ pc \in [Requests -> Steps] /\ RedisConfigured \in BOOLEAN
        /\ pc[r] = "lock" => IsGenerate(r) /\ RedisConfigured
        /\ pc[r] \in {"finish", "release"} => IsGenerate(r)
    BY AiAssumption DEF TypeOK, HandlersTypeOK, LockHeld
  <1>1. CASE Refuse(r) \/ ReadDraft(r) \/ ReadWallet(r) \/ TurnAway(r) \/ AdmitRegen(r)
    BY <1>0, <1>1 DEF Refuse, ReadDraft, ReadWallet, TurnAway, AdmitRegen, Goto, Reply,
                      Moves, KeepsLocks, Section, lockVars
  <1>2. CASE Charge(r) \/ DbError(r) \/ Enqueue(r) \/ EnqueueError(r)
    BY <1>0, <1>2 DEF Charge, DbError, Enqueue, EnqueueError, Goto, Reply, Leave,
                      Moves, KeepsLocks, Section, lockVars
  <1>3. CASE InlineGenerate(r) \/ InlineComplete(r) \/ InlineFail(r) \/ InlineRefund(r)
    BY <1>0, <1>3 DEF InlineGenerate, InlineComplete, InlineFail, InlineRefund, Goto, Reply,
                      Leave, Moves, KeepsLocks, Section, lockVars
  <1>4. CASE AdmitGenerate(r)
    BY <1>0, <1>4 DEF AdmitGenerate, MemAcquire, Goto, Reply, Moves, KeepsLocks, TakesLock,
                      Section
  <1>5. CASE Lock(r)
    <2>1. RedisAcquire(r)
      BY <1>0, <1>5 DEF Lock, ReliableLock
    <2>2. QED
      BY <1>0, <1>5, <2>1 DEF Lock, RedisAcquire, Goto, Reply, Moves, KeepsLocks, TakesLock,
                              Section
  <1>6. CASE Finish(r)
    BY <1>0, <1>6 DEF Finish, FreeLock, Reply, Moves, KeepsLocks, GivesLock, Section
  <1>7. CASE Release(r)
    BY <1>0, <1>7 DEF Release, FreeLock, Goto, Moves, GivesLock, Section, ReliableLock
  <1>8. QED
    BY <1>1, <1>2, <1>3, <1>4, <1>5, <1>6, <1>7 DEF Handler

LEMMA LockHeldKept ==
  ASSUME TypeOK, LockHeld, ReliableLock, [Next]_vars
  PROVE  LockHeld'
  <1>0. /\ pc \in [Requests -> Steps] /\ RedisConfigured \in BOOLEAN
        /\ redisLock \in [Drafts -> Requests \cup {NoOne}]
        /\ memLock \in [Servers -> SUBSET Drafts]
        /\ NoOne \notin Requests
        /\ \A r \in Requests : Draft(r) \in Drafts /\ Server(r) \in Servers
    BY InputsTyped, AiAssumption DEF TypeOK, HandlersTypeOK, LocksTypeOK
  <1>1. ASSUME NEW r \in Requests, Moves(r), KeepsLocks(r)
        PROVE  LockHeld'
    BY <1>0, <1>1 DEF Moves, KeepsLocks, LockHeld, LockExclusive, HasLock, InSection, Draft,
                      Server, IsGenerate
  <1>2. ASSUME NEW r \in Requests, Moves(r), TakesLock(r)
        PROVE  LockHeld'
    <2>1. \A t \in Requests : Draft(t)' = Draft(t) /\ Server(t)' = Server(t)
                              /\ (IsGenerate(t)' <=> IsGenerate(t))
      BY <1>2 DEF Moves, Draft, Server, IsGenerate
    <2>2. \A t \in Requests \ {r} : InSection(t)' <=> InSection(t)
      BY <1>2, <2>1 DEF Moves, InSection
    <2>3. ASSUME NEW t \in Requests \ {r}, InSection(t),
                 RedisConfigured \/ Server(t) = Server(r)
          PROVE  Draft(t) # Draft(r)
      BY <1>0, <1>2, <2>3 DEF TakesLock, LockHeld, HasLock
    <2>4. HasLock(r)'
      BY <1>0, <1>2, <2>1 DEF TakesLock, HasLock
    <2>5. ASSUME NEW t \in Requests \ {r}, InSection(t)
          PROVE  HasLock(t)'
      <3>1. HasLock(t)
        BY <2>5 DEF LockHeld
      <3>2. CASE RedisConfigured
        BY <1>0, <1>2, <2>1, <2>3, <2>5, <3>1, <3>2 DEF TakesLock, HasLock
      <3>3. CASE ~RedisConfigured
        BY <1>0, <1>2, <2>1, <3>1, <3>3 DEF TakesLock, HasLock
      <3>4. QED BY <3>2, <3>3
    <2>6. LockExclusive'
      BY <2>1, <2>2, <2>3 DEF LockExclusive, LockHeld
    <2>7. QED
      BY <1>2, <2>1, <2>2, <2>4, <2>5, <2>6 DEF LockHeld, Moves
  <1>3. ASSUME NEW r \in Requests, Moves(r), GivesLock(r)
        PROVE  LockHeld'
    <2>1. \A t \in Requests : Draft(t)' = Draft(t) /\ Server(t)' = Server(t)
                              /\ (IsGenerate(t)' <=> IsGenerate(t))
      BY <1>3 DEF Moves, Draft, Server, IsGenerate
    <2>2. /\ \A t \in Requests \ {r} : InSection(t)' <=> InSection(t)
          /\ InSection(r) /\ ~InSection(r)'
      BY <1>3, <2>1 DEF Moves, InSection, GivesLock
    <2>3. ASSUME NEW t \in Requests \ {r}, InSection(t)
          PROVE  HasLock(t)'
      <3>1. HasLock(t)
        BY <2>3 DEF LockHeld
      <3>2. (RedisConfigured \/ Server(t) = Server(r)) => Draft(t) # Draft(r)
        BY <2>2, <2>3 DEF LockHeld, LockExclusive
      <3>3. CASE RedisConfigured
        BY <1>0, <1>3, <2>1, <3>1, <3>2, <3>3 DEF GivesLock, HasLock
      <3>4. CASE ~RedisConfigured
        BY <1>0, <1>3, <2>1, <3>1, <3>2, <3>4 DEF GivesLock, HasLock
      <3>5. QED BY <3>3, <3>4
    <2>4. LockExclusive'
      BY <2>1, <2>2 DEF LockExclusive, LockHeld
    <2>5. QED
      BY <1>3, <2>1, <2>2, <2>3, <2>4 DEF LockHeld, Moves
  <1>4. ASSUME NEW s \in Servers, Crash(s)
        PROVE  LockHeld'
    <2>1. /\ args' = args /\ redisLock' = redisLock
          /\ memLock' = [memLock EXCEPT ![s] = {}]
          /\ pc' = [r \in Requests |->
                      IF Server(r) = s /\ pc[r] \notin {"new", "done"} THEN "lost" ELSE pc[r]]
      BY <1>4 DEF Crash
    <2>2. \A t \in Requests : Draft(t)' = Draft(t) /\ Server(t)' = Server(t)
                              /\ (IsGenerate(t)' <=> IsGenerate(t))
      BY <2>1 DEF Draft, Server, IsGenerate
    <2>3. ASSUME NEW t \in Requests, InSection(t)'
          PROVE  InSection(t) /\ Server(t) # s
      BY <2>1, <2>2, <2>3 DEF InSection, Section
    <2>4. ASSUME NEW t \in Requests, InSection(t)'
          PROVE  HasLock(t)'
      BY <1>0, <2>1, <2>2, <2>3, <2>4 DEF LockHeld, HasLock
    <2>5. LockExclusive'
      BY <2>2, <2>3 DEF LockExclusive, LockHeld
    <2>6. QED
      BY <2>1, <2>2, <2>4, <2>5 DEF LockHeld
  <1>5. ASSUME NEW d \in Drafts, ExpireLock(d)
        PROVE  LockHeld'
    <2>1. /\ UNCHANGED <<args, pc, memLock>>
          /\ redisLock' = [redisLock EXCEPT ![d] = NoOne]
          /\ RedisConfigured => ~InSection(redisLock[d])
      BY <1>5 DEF ExpireLock, handlerVars, ReliableLock
    <2>2. QED
      BY <1>0, <2>1 DEF LockHeld, LockExclusive, HasLock, InSection, Draft, Server, IsGenerate
  <1>6. ASSUME \/ \E s \in Servers : WorkerStep(s)
               \/ \E s \in Servers, j \in Requests : Take(s, j)
               \/ \E j \in Requests : Stall(j)
               \/ \E s \in Servers, k \in Keys : ExpireKey(s, k)
               \/ \E u \in Users, kind \in {"gift", "purchase"} : TopUp(u, kind)
               \/ UNCHANGED vars
        PROVE  LockHeld'
    <2>1. UNCHANGED <<args, pc, redisLock, memLock>>
      BY <1>6 DEF WorkerStep, Check, WorkerGenerate, WorkerComplete, WorkerFail, WorkerRefund,
                  Throw, Ack, Take, Stall, ExpireKey, TopUp, vars, handlerVars, lockVars
    <2>2. QED
      BY <2>1 DEF LockHeld, LockExclusive, HasLock, InSection, Draft, Server, IsGenerate
  <1>7. QED
    BY <1>1, <1>2, <1>3, <1>4, <1>5, <1>6, HandlerLocks DEF Next

LEMMA LockHolds == ReliableLock => (Spec => []LockHeld)
  <1>1. Init => LockHeld
    BY DEF Init, LockHeld, LockExclusive, InSection, Section
  <1>2. ReliableLock /\ TypeOK /\ LockHeld /\ [Next]_vars => LockHeld'
    BY LockHeldKept
  <1>3. SUFFICES ASSUME ReliableLock PROVE Spec => []LockHeld
    OBVIOUS
  <1>4. QED BY <1>1, <1>2, <1>3, TypeCorrect, PTL DEF Spec

\* Two generate requests of one draft are never both past its lock: in one
\* process without Redis, whatever crashes; in all processes with it, as long as
\* Redis answers and the holder is faster than the key's 60 s.
THEOREM LockIsExclusive ==
  ASSUME ReliableLock
  PROVE  Spec => []LockExclusive
  <1>1. LockHeld => LockExclusive
    BY DEF LockHeld
  <1>2. QED BY <1>1, LockHolds, PTL
===============================================================================
