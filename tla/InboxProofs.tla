------------------------------- MODULE InboxProofs -------------------------------
(***************************************************************************)
(* Theorems about Inbox for every set of updates, chats and workers and    *)
(* every bound: type correctness, that no update is lost on the way in,    *)
(* that leases exclude each other, that stale workers are fenced, and that *)
(* the inbox implements Delivery.                                          *)
(***************************************************************************)
EXTENDS Inbox, TLAPS

(* The fault budget is never overdrawn.                                    *)
LEMMA FaultBudget ==
  ASSUME faults \in 0..MaxFaults, Fault \/ UNCHANGED faults
  PROVE  faults' \in 0..MaxFaults
BY InboxAssumption DEF Fault

(* Enqueue keeps the inbox a function to rows.                             *)
LEMMA EnqueueType ==
  ASSUME row \in [Updates -> Row], NEW u \in Updates, Enqueue(u)
  PROVE  row' \in [Updates -> Row]
BY DEF Enqueue, EnqueueRow, Stored, Pending, Row, Statuses

(* Type correctness: every step keeps every variable in its set.           *)
THEOREM TypeCorrect == Spec => []TypeOK
<1>1. Init => TypeOK
  BY InboxAssumption
     DEF Init, TypeOK, Row, Job, Poller, Absent, Idle, Statuses, NoUpdate
<1>2. TypeOK /\ [Next]_vars => TypeOK'
  <2> SUFFICES ASSUME TypeOK, [Next]_vars PROVE TypeOK'
    OBVIOUS
  <2> USE InboxAssumption DEF TypeOK, Row, Poller, Statuses
  <2>1. ASSUME NEW u \in Updates, Arrive(u) PROVE TypeOK'
    BY <2>1 DEF Arrive, dbVars
  <2>2. ASSUME NEW u \in Updates, StoreNext(u) PROVE TypeOK'
    <3>1. row' \in [Updates -> Row]
      BY <2>2, EnqueueType DEF StoreNext
    <3>. QED BY <2>2, <3>1 DEF StoreNext, telegramVars
  <2>3. ASSUME NEW u \in Updates, WebhookPost(u) PROVE TypeOK'
    <3>1. row' \in [Updates -> Row] /\ faults' \in 0..MaxFaults
      BY <2>3, EnqueueType, FaultBudget DEF WebhookPost
    <3>2. confirmed' \subseteq Updates
      BY <2>3 DEF WebhookPost
    <3>. QED BY <2>3, <3>1, <3>2 DEF WebhookPost
  <2>4. ASSUME NEW u \in Updates, BackoffElapses(u) PROVE TypeOK'
    BY <2>4 DEF BackoffElapses, telegramVars
  <2>5. ASSUME NEW u \in Updates, LeaseExpires(u) PROVE TypeOK'
    <3>1. faults' \in 0..MaxFaults
      BY <2>5, FaultBudget DEF LeaseExpires
    <3>. QED BY <2>5, <3>1 DEF LeaseExpires, telegramVars
  <2>6. ASSUME NEW u \in Updates, RetryDead(u) PROVE TypeOK'
    BY <2>6 DEF RetryDead, Pending, telegramVars
  <2>7. ASSUME NEW u \in Updates, NEW w \in Workers, Claim(w, u) PROVE TypeOK'
    <3>1. faults' \in 0..MaxFaults
      BY <2>7, FaultBudget DEF Claim
    <3>2. row' \in [Updates -> Row] /\ claims' \in [Updates -> Nat]
      BY <2>7 DEF Claim, ClaimedRow
    <3>3. CASE UNCHANGED worker
      BY <2>7, <3>1, <3>2, <3>3 DEF Claim, telegramVars
    <3>4. CASE worker' = [worker EXCEPT ![w] =
                 [phase |-> "handling", job |-> u, attempts |-> row[u].attempts + 1,
                  claim |-> claims[u] + 1, failed |-> FALSE]]
      <4>1. /\ worker' \in [Workers -> Job]
            /\ \A v \in Workers : worker'[v].phase # "idle" => worker'[v].job \in Updates
        BY <3>4 DEF Job
      <4>. QED BY <2>7, <3>1, <3>2, <4>1 DEF Claim, telegramVars
    <3>. QED BY <2>7, <3>3, <3>4 DEF Claim
  <2>8. CASE GetUpdates
    <3>1. faults' \in 0..MaxFaults
      BY <2>8, FaultBudget DEF GetUpdates
    <3> DEFINE batch == {u \in arrived : u >= poll.offset}
    <3>2. poll' \in Poller
      <4>1. batch \in SUBSET Updates
        OBVIOUS
      <4>2. CASE UNCHANGED poll
        BY <4>2
      <4>3. CASE poll' = [poll EXCEPT !.phase = IF batch = {} THEN "ask" ELSE "store",
                                      !.batch = batch]
        <5> HIDE DEF batch
        <5>. QED BY <4>1, <4>3
      <4>. QED BY <2>8, <4>2, <4>3 DEF GetUpdates
    <3>3. confirmed' \subseteq Updates
      BY <2>8 DEF GetUpdates
    <3>. QED BY <2>8, <3>1, <3>2, <3>3 DEF GetUpdates, dbVars
  <2>9. CASE SaveOffset
    BY <2>9 DEF SaveOffset, telegramVars
  <2>10. CASE Crash
    <3>1. faults' \in 0..MaxFaults
      BY <2>10, FaultBudget DEF Crash
    <3>. QED BY <2>10, <3>1 DEF Crash, Idle, Job, NoUpdate, dbVars, telegramVars
  <2>11. ASSUME NEW w \in Workers, HandlerReturns(w) PROVE TypeOK'
    <3>1. PICK failed \in BOOLEAN :
            /\ worker' = [worker EXCEPT ![w] = Returned(worker[w], failed)]
            /\ handled' = IF failed THEN handled ELSE handled \cup {worker[w].job}
      BY <2>11 DEF HandlerReturns
    <3>2. handled' \subseteq Updates
      BY <2>11, <3>1 DEF HandlerReturns
    <3>3. worker[w] \in Job /\ Returned(worker[w], failed) \in Job
      BY DEF Job, Returned
    <3>4. worker' \in [Workers -> Job]
      BY <3>1, <3>3
    <3>5. \A v \in Workers : worker'[v].phase # "idle" => worker'[v].job \in Updates
      BY <2>11, <3>1 DEF HandlerReturns, Job, Returned
    <3>. QED BY <2>11, <3>2, <3>4, <3>5 DEF HandlerReturns, dbVars, telegramVars
  <2>12. ASSUME NEW w \in Workers, Finish(w) PROVE TypeOK'
    <3>1. faults' \in 0..MaxFaults
      BY <2>12, FaultBudget DEF Finish
    <3>2. /\ worker' \in [Workers -> Job]
          /\ \A v \in Workers : worker'[v].phase # "idle" => worker'[v].job \in Updates
      BY <2>12 DEF Finish, Idle, Job, NoUpdate
    <3>3. SettledRow(w) \in Row
      BY DEF SettledRow, Verdict, Job
    <3>4. row' \in [Updates -> Row]
      BY <2>12, <3>3 DEF Finish
    <3>. QED BY <2>12, <3>1, <3>2, <3>4 DEF Finish, telegramVars
  <2>13. CASE UNCHANGED vars
    BY <2>13 DEF vars
  <2>. QED
    BY <2>1, <2>2, <2>3, <2>4, <2>5, <2>6, <2>7, <2>8, <2>9, <2>10, <2>11,
       <2>12, <2>13 DEF Next
<1>. QED BY <1>1, <1>2, PTL DEF Spec

-----------------------------------------------------------------------------
(* What steps do to a row: once stored, an update stays stored.            *)

LEMMA RowsStay ==
  ASSUME TypeOK, [Next]_vars, NEW u \in Updates, Stored(u)
  PROVE  Stored(u)'
<1> USE DEF Stored, TypeOK
<1>1. ASSUME NEW v \in Updates, Enqueue(v) PROVE Stored(u)'
  BY <1>1 DEF Enqueue, EnqueueRow, Pending
<1>2. ASSUME UNCHANGED row PROVE Stored(u)'
  BY <1>2
<1>3. ASSUME NEW v \in Updates, NEW r, r.status # "absent",
             row' = [row EXCEPT ![v] = r]
      PROVE  Stored(u)'
  BY <1>3
<1>4. ASSUME NEW v \in Updates, NEW w \in Workers, Claim(w, v) PROVE Stored(u)'
  BY <1>3, <1>4 DEF Claim, ClaimedRow
<1>5. ASSUME NEW w \in Workers, Finish(w) PROVE Stored(u)'
  <2>1. SettledRow(w).status # "absent" /\ worker[w].job \in Updates
    BY <1>5 DEF SettledRow, Verdict, Finish
  <2>. QED BY <1>2, <1>3, <1>5, <2>1 DEF Finish
<1>6. ASSUME NEW v \in Updates, BackoffElapses(v) \/ LeaseExpires(v) PROVE Stored(u)'
  BY <1>6 DEF BackoffElapses, LeaseExpires, Row
<1>7. ASSUME NEW v \in Updates, RetryDead(v) PROVE Stored(u)'
  BY <1>3, <1>7 DEF RetryDead, Pending
<1>8. ASSUME NEW v \in Updates, Arrive(v) PROVE Stored(u)'
  BY <1>8 DEF Arrive, dbVars
<1>9. ASSUME NEW v \in Updates, StoreNext(v) \/ WebhookPost(v) PROVE Stored(u)'
  BY <1>1, <1>9 DEF StoreNext, WebhookPost
<1>10. CASE GetUpdates \/ SaveOffset \/ Crash \/ UNCHANGED vars
  BY <1>2, <1>10 DEF GetUpdates, SaveOffset, Crash, dbVars, vars
<1>11. ASSUME NEW w \in Workers, HandlerReturns(w) PROVE Stored(u)'
  BY <1>2, <1>11 DEF HandlerReturns, dbVars
<1>. QED BY <1>4, <1>5, <1>6, <1>7, <1>8, <1>9, <1>10, <1>11 DEF Next

(* Why nothing is lost: Poll asks from an offset below which everything is *)
(* stored, stores a batch from its smallest update up, and saves no other  *)
(* offset; so a crash can only make it fetch again.                        *)
PollInv ==
  /\ \A u \in Updates : u < poll.offset \/ u < saved => Stored(u)
  /\ poll.batch \subseteq arrived
  /\ \A u \in arrived, v \in Updates : v < u => v \in arrived
  /\ \A u \in poll.batch, v \in Updates : v < u => v \in poll.batch \/ Stored(v)
  /\ NothingLost

LEMMA PollInvariant == Spec => []PollInv
<1>1. Init => PollInv
  BY InboxAssumption DEF Init, PollInv, NothingLost
<1>2. TypeOK /\ PollInv /\ [Next]_vars => PollInv'
  <2> SUFFICES ASSUME TypeOK, PollInv, [Next]_vars PROVE PollInv'
    OBVIOUS
  <2>1. \A u \in Updates : Stored(u) => Stored(u)'
    BY RowsStay
  <2>2. ASSUME UNCHANGED <<poll, saved, arrived, confirmed>> PROVE PollInv'
    BY <2>1, <2>2 DEF PollInv, NothingLost, TypeOK
  <2>3. ASSUME NEW u \in Updates, Arrive(u) PROVE PollInv'
    BY <2>1, <2>3, InboxAssumption
       DEF Arrive, dbVars, PollInv, NothingLost, TypeOK, Poller
  <2>4. ASSUME NEW u \in Updates, StoreNext(u) PROVE PollInv'
    <3>1. Stored(u)'
      BY <2>4 DEF StoreNext, Enqueue, EnqueueRow, Stored, Pending, TypeOK, Row
    <3>2. /\ u \in poll.batch /\ \A v \in poll.batch : u <= v
          /\ poll'.offset = u + 1 /\ poll'.batch = poll.batch \ {u}
          /\ UNCHANGED <<saved, arrived, confirmed>>
      BY <2>4 DEF StoreNext, telegramVars, TypeOK, Poller
    <3>3. \A v \in Updates : v < u => Stored(v)
      BY <3>2, InboxAssumption DEF PollInv, TypeOK, Poller
    <3>4. \A v \in Updates : v < u + 1 => v < u \/ v = u
      BY InboxAssumption
    <3>. QED BY <2>1, <3>1, <3>2, <3>3, <3>4 DEF PollInv, NothingLost, TypeOK, Poller
  <2>5. ASSUME NEW u \in Updates, WebhookPost(u) PROVE PollInv'
    <3>1. Stored(u)'
      BY <2>5 DEF WebhookPost, Enqueue, EnqueueRow, Stored, Pending, TypeOK, Row
    <3>2. confirmed' \subseteq confirmed \cup {u} /\ UNCHANGED <<poll, saved, arrived>>
      BY <2>5 DEF WebhookPost
    <3>. QED BY <2>1, <3>1, <3>2 DEF PollInv, NothingLost, TypeOK
  <2>6. CASE GetUpdates
    <3> DEFINE batch == {u \in arrived : u >= poll.offset}
    <3>1. /\ confirmed' = confirmed \cup {u \in arrived : u < poll.offset}
          /\ UNCHANGED <<saved, arrived>>
          /\ poll' = poll \/ (poll'.offset = poll.offset /\ poll'.batch = batch)
      BY <2>6 DEF GetUpdates, dbVars, TypeOK, Poller
    <3>2. \A u \in batch, v \in Updates : v < u => v \in batch \/ Stored(v)
      BY InboxAssumption DEF PollInv, TypeOK, Poller
    <3>3. batch \subseteq arrived
      OBVIOUS
    <3>4. NothingLost'
      BY <2>1, <3>1 DEF NothingLost, PollInv, TypeOK
    <3>5. \A u \in Updates : u < poll'.offset \/ u < saved' => Stored(u)'
      BY <2>1, <3>1 DEF PollInv
    <3>6. \A u \in poll'.batch, v \in Updates : v < u => v \in poll'.batch \/ Stored(v)'
      <4> HIDE DEF batch
      <4>. QED BY <2>1, <3>1, <3>2 DEF PollInv
    <3>7. poll'.batch \subseteq arrived'
      <4> HIDE DEF batch
      <4>. QED BY <3>1, <3>3 DEF PollInv
    <3>. QED BY <3>1, <3>4, <3>5, <3>6, <3>7 DEF PollInv
  <2>7. CASE SaveOffset
    <3>1. poll'.offset = poll.offset /\ poll'.batch = poll.batch /\ saved' = poll.offset
      BY <2>7 DEF SaveOffset, TypeOK, Poller
    <3>. QED BY <2>1, <2>7, <3>1 DEF SaveOffset, telegramVars, PollInv, NothingLost, TypeOK
  <2>8. CASE Crash
    BY <2>1, <2>8 DEF Crash, dbVars, telegramVars, PollInv, NothingLost, TypeOK
  <2>9. ASSUME NEW u \in Updates,
               BackoffElapses(u) \/ LeaseExpires(u) \/ RetryDead(u)
                 \/ \E w \in Workers : Claim(w, u)
        PROVE  PollInv'
    BY <2>2, <2>9 DEF BackoffElapses, LeaseExpires, RetryDead, Claim, telegramVars
  <2>10. ASSUME NEW w \in Workers, HandlerReturns(w) \/ Finish(w) PROVE PollInv'
    BY <2>2, <2>10 DEF HandlerReturns, Finish, dbVars, telegramVars
  <2>11. CASE UNCHANGED vars
    BY <2>2, <2>11 DEF vars
  <2>. QED
    BY <2>3, <2>4, <2>5, <2>6, <2>7, <2>8, <2>9, <2>10, <2>11 DEF Next
<1>. QED BY <1>1, <1>2, TypeCorrect, PTL DEF Spec

(* Nothing Telegram was told to forget is missing from MySQL.              *)
THEOREM NoUpdateLost == Spec => []NothingLost
<1>1. PollInv => NothingLost
  BY DEF PollInv
<1>. QED BY <1>1, PollInvariant, PTL

-----------------------------------------------------------------------------
(* Leases.  Without stalls a busy worker's update is still processing, its *)
(* lease still runs and carries the worker's attempt, and no other worker  *)
(* has it: what Claim looks at is then enough to keep workers apart.       *)
Held(w) ==
  LET r == row[worker[w].job] IN
  r.status = "processing" /\ r.leased /\ r.attempts = worker[w].attempts

LeaseInv ==
  ~Stalls =>
    /\ \A w \in Workers : Busy(w) => Held(w)
    /\ OneRunner

LEMMA LeaseInvariant == Spec => []LeaseInv
<1>1. Init => LeaseInv
  BY DEF Init, LeaseInv, OneRunner, Busy, Idle
<1>2. TypeOK /\ LeaseInv /\ [Next]_vars => LeaseInv'
  <2> SUFFICES ASSUME TypeOK, LeaseInv, [Next]_vars, ~Stalls PROVE LeaseInv'
    BY DEF LeaseInv
  <2>0. /\ \A w \in Workers : Busy(w) => Held(w)
        /\ \A v, w \in Workers :
             (v # w /\ Busy(v) /\ Busy(w)) => worker[v].job # worker[w].job
    BY DEF LeaseInv, OneRunner
  <2>1. ASSUME UNCHANGED worker,
               \A w \in Workers : Busy(w) => row'[worker[w].job] = row[worker[w].job]
        PROVE  LeaseInv'
    BY <2>0, <2>1 DEF LeaseInv, OneRunner, Busy, Held
  <2>2. ASSUME NEW u \in Updates, NEW r, row[u].status # "processing",
               UNCHANGED worker, row' = [row EXCEPT ![u] = r]
        PROVE  LeaseInv'
    BY <2>0, <2>1, <2>2 DEF Held, TypeOK
  <2>3. ASSUME NEW u \in Updates, StoreNext(u) \/ WebhookPost(u) PROVE LeaseInv'
    <3>1. Stored(u) => UNCHANGED row
      BY <2>3 DEF StoreNext, WebhookPost, Enqueue, EnqueueRow
    <3>2. ~Stored(u) => row' = [row EXCEPT ![u] = Pending] /\ row[u].status # "processing"
      BY <2>3 DEF StoreNext, WebhookPost, Enqueue, EnqueueRow, Stored
    <3>. QED BY <2>1, <2>2, <2>3, <3>1, <3>2 DEF StoreNext, WebhookPost
  <2>4. ASSUME NEW u \in Updates, BackoffElapses(u) PROVE LeaseInv'
    <3>1. row' = [row EXCEPT ![u] = [row[u] EXCEPT !.ready = TRUE]]
      BY <2>4 DEF BackoffElapses
    <3>. QED BY <2>2, <2>4, <3>1 DEF BackoffElapses
  <2>5. ASSUME NEW u \in Updates, RetryDead(u) PROVE LeaseInv'
    BY <2>2, <2>5 DEF RetryDead
  <2>6. ASSUME NEW u \in Updates, LeaseExpires(u) PROVE LeaseInv'
    <3>1. \A w \in Workers : Busy(w) => worker[w].job # u
      BY <2>0, <2>6 DEF LeaseExpires, HoldsLease, Held
    <3>2. \A w \in Workers : Busy(w) => row'[worker[w].job] = row[worker[w].job]
      BY <2>6, <3>1 DEF LeaseExpires, TypeOK
    <3>. QED BY <2>1, <2>6, <3>2 DEF LeaseExpires
  <2>7. ASSUME NEW u \in Updates, NEW w \in Workers, Claim(w, u) PROVE LeaseInv'
    <3>1. \A v \in Workers : Busy(v) => worker[v].job # u
      BY <2>0, <2>7 DEF Claim, Claimable, Held
    <3>2. \A v \in Workers : Busy(v) => row'[worker[v].job] = row[worker[v].job]
      BY <2>7, <3>1 DEF Claim, TypeOK
    <3>3. CASE UNCHANGED worker
      BY <2>1, <3>2, <3>3
    <3>4. CASE worker' = [worker EXCEPT ![w] =
                 [phase |-> "handling", job |-> u, attempts |-> row[u].attempts + 1,
                  claim |-> claims[u] + 1, failed |-> FALSE]]
      <4>1. /\ worker'[w].job = u /\ worker'[w].attempts = row[u].attempts + 1
            /\ \A v \in Workers \ {w} : worker'[v] = worker[v]
        BY <3>4 DEF TypeOK
      <4>2. row'[u] = ClaimedRow(u)
        BY <2>7 DEF Claim, TypeOK
      <4>3. Held(w)'
        BY <4>1, <4>2 DEF Held, ClaimedRow
      <4>4. \A v \in Workers \ {w} : Busy(v)' => Held(v)' /\ worker'[v].job # u
        <5> SUFFICES ASSUME NEW v \in Workers \ {w}, Busy(v)'
                     PROVE  Held(v)' /\ worker'[v].job # u
          OBVIOUS
        <5>1. worker'[v] = worker[v] /\ Busy(v)
          BY <4>1 DEF Busy
        <5>2. Held(v) /\ worker[v].job # u /\ row'[worker[v].job] = row[worker[v].job]
          BY <2>0, <3>1, <3>2, <5>1
        <5>. QED BY <5>1, <5>2 DEF Held
      <4>. QED BY <2>0, <4>1, <4>3, <4>4 DEF LeaseInv, OneRunner, Busy
    <3>. QED BY <2>7, <3>3, <3>4 DEF Claim
  <2>8. ASSUME NEW w \in Workers, HandlerReturns(w) PROVE LeaseInv'
    <3>1. /\ \A v \in Workers : Busy(v)' <=> Busy(v)
          /\ \A v \in Workers : /\ worker'[v].job = worker[v].job
                                /\ worker'[v].attempts = worker[v].attempts
          /\ UNCHANGED row
      BY <2>8 DEF HandlerReturns, Returned, Busy, TypeOK, dbVars
    <3>. QED BY <2>0, <3>1 DEF LeaseInv, OneRunner, Held
  <2>9. ASSUME NEW w \in Workers, Finish(w) PROVE LeaseInv'
    <3>1. ~Busy(w)' /\ \A v \in Workers \ {w} : worker'[v] = worker[v]
      BY <2>9 DEF Finish, Busy, Idle, TypeOK
    <3>2. Busy(w)
      BY <2>9 DEF Finish, Busy
    <3>3. \A v \in Workers \ {w} : Busy(v) => row'[worker[v].job] = row[worker[v].job]
      <4> SUFFICES ASSUME NEW v \in Workers \ {w}, Busy(v)
                   PROVE  row'[worker[v].job] = row[worker[v].job]
        OBVIOUS
      <4>1. worker[v].job \in Updates /\ worker[v].job # worker[w].job
        BY <2>0, <3>2 DEF Busy, TypeOK
      <4>2. \/ UNCHANGED row
            \/ row' = [row EXCEPT ![worker[w].job] = SettledRow(w)]
        BY <2>9 DEF Finish
      <4>. QED BY <4>1, <4>2 DEF TypeOK
    <3>. QED BY <2>0, <3>1, <3>3 DEF LeaseInv, OneRunner, Busy, Held
  <2>10. CASE Crash
    <3>1. \A v \in Workers : ~Busy(v)'
      BY <2>10 DEF Crash, Busy, Idle
    <3>. QED BY <3>1 DEF LeaseInv, OneRunner
  <2>11. ASSUME NEW u \in Updates, Arrive(u) PROVE LeaseInv'
    BY <2>1, <2>11 DEF Arrive, dbVars
  <2>12. CASE GetUpdates \/ SaveOffset \/ UNCHANGED vars
    BY <2>1, <2>12 DEF GetUpdates, SaveOffset, dbVars, vars
  <2>. QED
    BY <2>3, <2>4, <2>5, <2>6, <2>7, <2>8, <2>9, <2>10, <2>11, <2>12 DEF Next
<1>. QED BY <1>1, <1>2, TypeCorrect, PTL DEF Spec

(* While leases outlive workers, no update is run by two workers.          *)
THEOREM RunnersApart == Spec => []OneRunner
<1>1. LeaseInv => OneRunner
  BY DEF LeaseInv, OneRunner
<1>. QED BY <1>1, LeaseInvariant, PTL

-----------------------------------------------------------------------------
(* Order.  Polling stores the updates from the smallest up, so an older    *)
(* update never comes in behind one that is being run.                     *)
SerialInv ==
  retries = 0 =>
    /\ \A u, v \in Updates : Stored(u) /\ v < u => Stored(v)
    /\ \A w \in Workers : Busy(w) => ~HeldBack(worker[w].job)

LEMMA SerialStep ==
  ASSUME Polling, ~Stalls, TypeOK, PollInv, LeaseInv, SerialInv, [Next]_vars
  PROVE  SerialInv'
<1>. SUFFICES ASSUME retries' = 0 PROVE SerialInv'
  BY DEF SerialInv
<1>0. retries = 0
  BY DEF Next, Arrive, StoreNext, WebhookPost, BackoffElapses, LeaseExpires, RetryDead, Claim,
     GetUpdates, SaveOffset, Crash, HandlerReturns, Finish, vars, TypeOK
<1>1. /\ \A u, v \in Updates : Stored(u) /\ v < u => Stored(v)
      /\ \A w \in Workers : Busy(w) => ~HeldBack(worker[w].job)
      /\ \A w \in Workers : Busy(w) => worker[w].job \in Updates
  BY <1>0 DEF SerialInv, TypeOK, Busy
\* A step that stores nothing and makes nothing wait again.
<1>2. ASSUME \A u \in Updates : Stored(u)' <=> Stored(u),
             \A u \in Updates : Waiting(u)' => Waiting(u),
             \A w \in Workers : Busy(w)' =>
               \/ Busy(w) /\ worker'[w].job = worker[w].job
               \/ worker'[w].job \in Updates /\ ~HeldBack(worker'[w].job)
      PROVE  SerialInv'
  BY <1>1, <1>2 DEF SerialInv, HeldBack
<1>3. ASSUME UNCHANGED <<row, worker>> PROVE SerialInv'
  BY <1>2, <1>3 DEF Stored, Waiting, Busy
<1>4. ASSUME NEW u \in Updates, StoreNext(u) PROVE SerialInv'
  <2>1. CASE Stored(u)
    BY <1>3, <1>4, <2>1 DEF StoreNext, Enqueue, EnqueueRow
  <2>2. CASE ~Stored(u)
    <3>1. row' = [row EXCEPT ![u] = Pending] /\ UNCHANGED worker
      BY <1>4, <2>2 DEF StoreNext, Enqueue, EnqueueRow
    <3>2. Stored(u)' /\ \A v \in Updates \ {u} : row'[v] = row[v]
      BY <3>1 DEF TypeOK, Stored, Pending
    <3>3. \A v \in Updates : v < u => Stored(v)
      BY <1>4, InboxAssumption DEF StoreNext, PollInv, TypeOK, Poller
    <3>4. \A x, v \in Updates : Stored(x)' /\ v < x => Stored(v)'
      BY <1>1, <3>2, <3>3 DEF Stored
    <3>5. ASSUME NEW w \in Workers, Busy(w) PROVE ~(u < worker[w].job)
      <4>1. Stored(worker[w].job)
        BY <3>5 DEF LeaseInv, Held, Stored
      <4>. QED BY <1>1, <2>2, <3>5, <4>1
    <3>6. ASSUME NEW w \in Workers, Busy(w)' PROVE ~HeldBack(worker[w].job)'
      <4>1. Busy(w) /\ worker'[w].job = worker[w].job
        BY <3>1, <3>6 DEF Busy
      <4>. QED BY <1>1, <3>2, <3>5, <4>1 DEF HeldBack, Waiting
    <3>. QED BY <3>1, <3>4, <3>6 DEF SerialInv
  <2>. QED BY <2>1, <2>2
<1>5. ASSUME NEW u \in Updates, BackoffElapses(u) \/ LeaseExpires(u) PROVE SerialInv'
  <2>1. UNCHANGED worker /\ \A v \in Updates : row'[v].status = row[v].status
    BY <1>5 DEF BackoffElapses, LeaseExpires, TypeOK, Row
  <2>. QED BY <1>2, <2>1 DEF Stored, Waiting, Busy
<1>6. ASSUME NEW u \in Updates, NEW w \in Workers, Claim(w, u) PROVE SerialInv'
  <2>1. /\ Waiting(u) /\ Stored(u) /\ ~HeldBack(u)
        /\ row' = [row EXCEPT ![u] = ClaimedRow(u)]
    BY <1>6 DEF Claim, Claimable, Waiting, Stored
  <2>2. \A v \in Updates : v # u => row'[v] = row[v]
    BY <2>1 DEF TypeOK
  <2>3. Stored(u)'
    BY <2>1 DEF TypeOK, Stored, ClaimedRow
  <2>4. \A v \in Updates : (Stored(v)' <=> Stored(v)) /\ (Waiting(v)' => Waiting(v))
    BY <2>1, <2>2, <2>3 DEF Stored, Waiting
  <2>5. \A v \in Workers : worker'[v] = worker[v] \/ worker'[v].job = u
    BY <1>6 DEF Claim, TypeOK
  <2>. QED BY <1>2, <2>1, <2>4, <2>5 DEF Busy
<1>7. ASSUME NEW w \in Workers, HandlerReturns(w) PROVE SerialInv'
  <2>1. UNCHANGED row /\ \A v \in Workers : /\ Busy(v)' => Busy(v)
                                           /\ worker'[v].job = worker[v].job
    BY <1>7 DEF HandlerReturns, Busy, Returned, TypeOK, dbVars
  <2>. QED BY <1>2, <2>1 DEF Stored, Waiting
<1>8. ASSUME NEW w \in Workers, Finish(w) PROVE SerialInv'
  <2>1. \A v \in Workers : Busy(v)' => Busy(v) /\ worker'[v].job = worker[v].job
    BY <1>8 DEF Finish, Busy, Idle, TypeOK
  <2>2. \/ UNCHANGED row
        \/ FenceHolds(w) /\ row' = [row EXCEPT ![worker[w].job] = SettledRow(w)]
    BY <1>8 DEF Finish
  <2>3. CASE FenceHolds(w) /\ row' = [row EXCEPT ![worker[w].job] = SettledRow(w)]
    <3>0. PICK u \in Updates : u = worker[w].job
      BY <1>1, <1>8 DEF Finish, Busy
    <3>1. Waiting(u) /\ Stored(u)
      BY <2>3, <3>0 DEF FenceHolds, Waiting, Stored
    <3>2. Stored(u)' /\ \A v \in Updates \ {u} : row'[v] = row[v]
      BY <2>3, <3>0 DEF SettledRow, Verdict, Stored, TypeOK
    <3>3. \A v \in Updates : (Stored(v)' <=> Stored(v)) /\ (Waiting(v)' => Waiting(v))
      BY <3>1, <3>2 DEF Stored, Waiting
    <3>. QED BY <1>2, <2>1, <3>3
  <2>. QED BY <1>2, <2>1, <2>2, <2>3 DEF Stored, Waiting
<1>9. CASE Crash
  <2>1. UNCHANGED row /\ \A v \in Workers : ~Busy(v)'
    BY <1>9 DEF Crash, Busy, Idle, dbVars
  <2>. QED BY <1>2, <2>1 DEF Stored, Waiting
<1>10. ASSUME NEW u \in Updates, RetryDead(u) PROVE FALSE
  BY <1>0, <1>10 DEF RetryDead
<1>11. ASSUME NEW u \in Updates, WebhookPost(u) PROVE FALSE
  BY <1>11 DEF WebhookPost
<1>12. ASSUME NEW u \in Updates, Arrive(u) PROVE SerialInv'
  BY <1>3, <1>12 DEF Arrive, dbVars
<1>13. CASE GetUpdates \/ SaveOffset \/ UNCHANGED vars
  BY <1>3, <1>13 DEF GetUpdates, SaveOffset, dbVars, vars
<1>. QED
  BY <1>4, <1>5, <1>6, <1>7, <1>8, <1>9, <1>10, <1>11, <1>12, <1>13 DEF Next

(* With polling, and while leases outlive workers, the updates of a chat   *)
(* are run one at a time until an operator puts a dead one back.           *)
THEOREM ChatsAreSerial ==
  Polling /\ ~Stalls => (Spec => []ChatSerialUntilRetried)
<1>. SUFFICES ASSUME Polling, ~Stalls PROVE Spec => []ChatSerialUntilRetried
  OBVIOUS
<1>1. Init => SerialInv
  BY DEF Init, SerialInv, Stored, Absent, Busy, Idle
<1>2. TypeOK /\ PollInv /\ LeaseInv /\ SerialInv /\ [Next]_vars => SerialInv'
  BY SerialStep
<1>3. TypeOK /\ LeaseInv /\ SerialInv => ChatSerialUntilRetried
  <2>. SUFFICES ASSUME TypeOK, LeaseInv, SerialInv, retries = 0,
                       NEW v \in Workers, NEW w \in Workers, v # w, Busy(v), Busy(w),
                       Chat[worker[v].job] = Chat[worker[w].job]
                PROVE  FALSE
    BY DEF ChatSerialUntilRetried, ChatSerial
  <2>1. /\ worker[v].job \in Updates /\ worker[w].job \in Updates
        /\ worker[v].job # worker[w].job
        /\ Waiting(worker[v].job) /\ Waiting(worker[w].job)
    BY DEF TypeOK, Busy, LeaseInv, OneRunner, Held, Waiting
  <2>2. ~(worker[v].job < worker[w].job) /\ ~(worker[w].job < worker[v].job)
    BY <2>1 DEF SerialInv, HeldBack
  <2>. QED BY <2>1, <2>2, InboxAssumption
<1>. QED BY <1>1, <1>2, <1>3, TypeCorrect, PollInvariant, LeaseInvariant, PTL DEF Spec

-----------------------------------------------------------------------------
(* Stale workers.  Until an operator retries a dead update the attempt     *)
(* number of a row counts its claims, so it names one claim.  (RetryDead   *)
(* starts it again from zero: a worker that outlived its lease over such a *)
(* retry could pass the fence.)                                            *)
ClaimInv ==
  /\ \A u \in Updates : row[u].attempts = claims[u]
  /\ \A u \in Updates : Stored(u) \/ row[u].attempts = 0
  /\ \A w \in Workers : worker[w].claim = worker[w].attempts

(* Only the newest claim settles an update, leases outlived or not.        *)
THEOREM StaleRunnersAreFenced == MaxRetries = 0 => (Spec => OnlyNewestClaimSettles)
<1> SUFFICES ASSUME MaxRetries = 0 PROVE Spec => OnlyNewestClaimSettles
  OBVIOUS
<1>1. Init => ClaimInv
  BY DEF Init, ClaimInv, Absent, Idle
<1>2. TypeOK /\ ClaimInv /\ [Next]_vars => ClaimInv'
  <2> SUFFICES ASSUME TypeOK, ClaimInv, [Next]_vars PROVE ClaimInv'
    OBVIOUS
  <2> DEFINE SameAttempts == \A u \in Updates : row'[u].attempts = row[u].attempts
  <2>1. ASSUME UNCHANGED <<worker, claims>>, SameAttempts PROVE ClaimInv'
    BY <2>1, RowsStay DEF ClaimInv
  <2>2. ASSUME NEW u \in Updates, StoreNext(u) \/ WebhookPost(u) PROVE ClaimInv'
    <3>1. SameAttempts
      BY <2>2 DEF StoreNext, WebhookPost, Enqueue, EnqueueRow, Pending, ClaimInv, TypeOK
    <3>. QED BY <2>1, <2>2, <3>1 DEF StoreNext, WebhookPost
  <2>3. ASSUME NEW u \in Updates, BackoffElapses(u) \/ LeaseExpires(u) PROVE ClaimInv'
    <3>1. SameAttempts
      BY <2>3 DEF BackoffElapses, LeaseExpires, TypeOK, Row
    <3>. QED BY <2>1, <2>3, <3>1 DEF BackoffElapses, LeaseExpires
  <2>4. ASSUME NEW u \in Updates, RetryDead(u) PROVE ClaimInv'
    BY <2>4 DEF RetryDead, TypeOK
  <2>5. ASSUME NEW u \in Updates, NEW w \in Workers, Claim(w, u) PROVE ClaimInv'
    <3>1. /\ row'[u].attempts = row[u].attempts + 1
          /\ row'[u].status = "processing" /\ claims'[u] = claims[u] + 1
          /\ \A v \in Updates \ {u} : row'[v] = row[v] /\ claims'[v] = claims[v]
      BY <2>5 DEF Claim, ClaimedRow, TypeOK
    <3>2. \A v \in Workers : worker'[v].claim = worker'[v].attempts
      BY <2>5 DEF Claim, ClaimInv, TypeOK
    <3>. QED BY <3>1, <3>2 DEF ClaimInv, Stored
  <2>6. ASSUME NEW w \in Workers, Finish(w) PROVE ClaimInv'
    <3>1. SameAttempts
      BY <2>6 DEF Finish, FenceHolds, SettledRow, TypeOK
    <3>2. UNCHANGED claims /\ \A v \in Workers : worker'[v].claim = worker'[v].attempts
      BY <2>6 DEF Finish, Idle, ClaimInv, TypeOK
    <3>. QED BY <3>1, <3>2, RowsStay DEF ClaimInv
  <2>7. ASSUME NEW w \in Workers, HandlerReturns(w) PROVE ClaimInv'
    <3>1. UNCHANGED <<row, claims>>
      BY <2>7 DEF HandlerReturns, dbVars
    <3>2. \A v \in Workers : worker'[v].claim = worker'[v].attempts
      BY <2>7 DEF HandlerReturns, Returned, ClaimInv, TypeOK
    <3>. QED BY <3>1, <3>2 DEF ClaimInv, Stored
  <2>8. CASE Crash
    <3>1. UNCHANGED <<row, claims>> /\ \A v \in Workers : worker'[v] = Idle
      BY <2>8 DEF Crash, dbVars
    <3>. QED BY <3>1 DEF ClaimInv, Stored, Idle
  <2>9. ASSUME NEW u \in Updates, Arrive(u) PROVE ClaimInv'
    BY <2>1, <2>9 DEF Arrive, dbVars
  <2>10. CASE GetUpdates \/ SaveOffset \/ UNCHANGED vars
    BY <2>1, <2>10 DEF GetUpdates, SaveOffset, dbVars, vars
  <2>. QED
    BY <2>2, <2>3, <2>4, <2>5, <2>6, <2>7, <2>8, <2>9, <2>10 DEF Next
<1>3. TypeOK /\ ClaimInv /\ [Next]_vars
        => [\A u \in Updates :
              (row[u].status = "processing" /\ row'[u].status # "processing") =>
                \E w \in Workers : /\ worker[w].phase = "finishing"
                                   /\ worker[w].job = u
                                   /\ worker[w].claim = claims[u]]_vars
  <2> SUFFICES ASSUME TypeOK, ClaimInv, [Next]_vars, NEW u \in Updates,
                      row[u].status = "processing", row'[u].status # "processing"
               PROVE  \E w \in Workers : /\ worker[w].phase = "finishing"
                                         /\ worker[w].job = u
                                         /\ worker[w].claim = claims[u]
    OBVIOUS
  <2> USE DEF TypeOK
  <2>1. ASSUME NEW w \in Workers, Finish(w)
        PROVE  /\ worker[w].phase = "finishing"
               /\ worker[w].job = u
               /\ worker[w].claim = claims[u]
    BY <2>1 DEF Finish, FenceHolds, ClaimInv
  <2>2. ASSUME NEW v \in Updates, StoreNext(v) \/ WebhookPost(v) PROVE FALSE
    BY <2>2 DEF StoreNext, WebhookPost, Enqueue, EnqueueRow, Stored
  <2>3. ASSUME NEW v \in Updates, BackoffElapses(v) \/ LeaseExpires(v) PROVE FALSE
    BY <2>3 DEF BackoffElapses, LeaseExpires, Row
  <2>4. ASSUME NEW v \in Updates, RetryDead(v) PROVE FALSE
    BY <2>4 DEF RetryDead
  <2>5. ASSUME NEW v \in Updates, NEW w \in Workers, Claim(w, v) PROVE FALSE
    BY <2>5 DEF Claim, ClaimedRow
  <2>6. ASSUME NEW v \in Updates, Arrive(v) PROVE FALSE
    BY <2>6 DEF Arrive, dbVars
  <2>7. ASSUME NEW w \in Workers, HandlerReturns(w) PROVE FALSE
    BY <2>7 DEF HandlerReturns, dbVars
  <2>8. CASE GetUpdates \/ SaveOffset \/ Crash \/ UNCHANGED vars
    BY <2>8 DEF GetUpdates, SaveOffset, Crash, dbVars, vars
  <2>. QED BY <2>1, <2>2, <2>3, <2>4, <2>5, <2>6, <2>7, <2>8 DEF Next
<1>. QED BY <1>1, <1>2, <1>3, TypeCorrect, PTL DEF Spec, OnlyNewestClaimSettles

-----------------------------------------------------------------------------
(* The inbox implements Delivery: a change of one row is one step of the   *)
(* promise, everything else stutters.                                      *)

State == [u \in Updates |-> DeliveryState(u)]

LEMMA PromisedMove ==
  ASSUME row \in [Updates -> Row], NEW u \in Updates, NEW r,
         row' = [row EXCEPT ![u] = r]
  PROVE  /\ State' = [State EXCEPT ![u] = DeliveryState(u)']
         /\ State[u] = DeliveryState(u)
         /\ row'[u] = r
BY DEF State, DeliveryState

(* A worker has a stored update, and what it reports as handled has been.  *)
RunInv ==
  \A w \in Workers : Busy(w) =>
    /\ Stored(worker[w].job)
    /\ (worker[w].phase = "finishing" /\ ~worker[w].failed) => worker[w].job \in handled

LEMMA RunInvariant == Spec => []RunInv
<1>1. Init => RunInv
  BY DEF Init, RunInv, Busy, Idle
<1>2. TypeOK /\ RunInv /\ [Next]_vars => RunInv'
  <2> SUFFICES ASSUME TypeOK, RunInv, [Next]_vars PROVE RunInv'
    OBVIOUS
  <2>1. \A u \in Updates : Stored(u) => Stored(u)'
    BY RowsStay
  <2>2. ASSUME UNCHANGED <<worker, handled>> PROVE RunInv'
    BY <2>1, <2>2 DEF RunInv, Busy, Stored, TypeOK
  <2>3. ASSUME NEW u \in Updates, NEW w \in Workers, Claim(w, u) PROVE RunInv'
    <3>1. Stored(u)' /\ UNCHANGED handled
      BY <2>3 DEF Claim, ClaimedRow, Stored, TypeOK
    <3>2. \A v \in Workers : \/ worker'[v] = worker[v]
                             \/ worker'[v].phase = "handling" /\ worker'[v].job = u
      BY <2>3 DEF Claim, TypeOK
    <3>. QED BY <2>1, <3>1, <3>2 DEF RunInv, Busy, Stored, TypeOK
  <2>4. ASSUME NEW w \in Workers, HandlerReturns(w) PROVE RunInv'
    <3>1. PICK failed \in BOOLEAN :
            /\ worker' = [worker EXCEPT ![w] = Returned(worker[w], failed)]
            /\ handled' = IF failed THEN handled ELSE handled \cup {worker[w].job}
      BY <2>4 DEF HandlerReturns
    <3>2. /\ Busy(w) /\ worker'[w].job = worker[w].job /\ worker'[w].failed = failed
          /\ \A v \in Workers \ {w} : worker'[v] = worker[v]
      BY <2>4, <3>1 DEF HandlerReturns, Busy, Returned, TypeOK
    <3>. QED BY <2>1, <3>1, <3>2 DEF RunInv, Busy, Stored, TypeOK
  <2>5. ASSUME NEW w \in Workers, Finish(w) PROVE RunInv'
    <3>1. /\ ~Busy(w)' /\ UNCHANGED handled
          /\ \A v \in Workers \ {w} : worker'[v] = worker[v]
      BY <2>5 DEF Finish, Busy, Idle, TypeOK
    <3>. QED BY <2>1, <3>1 DEF RunInv, Busy, Stored, TypeOK
  <2>6. CASE Crash
    BY <2>6 DEF Crash, RunInv, Busy, Idle
  <2>7. ASSUME NEW u \in Updates,
               Arrive(u) \/ StoreNext(u) \/ WebhookPost(u) \/ BackoffElapses(u)
                 \/ LeaseExpires(u) \/ RetryDead(u)
        PROVE  RunInv'
    BY <2>2, <2>7 DEF Arrive, StoreNext, WebhookPost, BackoffElapses, LeaseExpires, RetryDead
  <2>8. CASE GetUpdates \/ SaveOffset \/ UNCHANGED vars
    BY <2>2, <2>8 DEF GetUpdates, SaveOffset, vars
  <2>. QED BY <2>3, <2>4, <2>5, <2>6, <2>7, <2>8 DEF Next
<1>. QED BY <1>1, <1>2, TypeCorrect, PTL DEF Spec

(* Same-chat order of starts, done only after a successful run, duplicates *)
(* without effect: every behaviour of the inbox is one of the promise.     *)
THEOREM InboxImplementsDelivery == Spec => KeepsPromise
<1>1. Init => Promise!Init
  BY DEF Init, Promise!Init, DeliveryState, Absent
<1>2. TypeOK /\ RunInv /\ [Next]_vars => [Promise!Next]_(Promise!vars)
  <2> SUFFICES ASSUME TypeOK, RunInv, [Next]_vars
               PROVE  Promise!Next \/ UNCHANGED Promise!vars
    OBVIOUS
  <2>0. row \in [Updates -> Row]
    BY DEF TypeOK
  <2>1. ASSUME UNCHANGED <<row, handled>> PROVE UNCHANGED Promise!vars
    BY <2>1 DEF Promise!vars, DeliveryState
  <2>2. ASSUME NEW u \in Updates, NEW r, row' = [row EXCEPT ![u] = r], UNCHANGED handled
        PROVE  Promise!Move(u, DeliveryState(u), DeliveryState(u)')
    BY <2>0, <2>2, PromisedMove DEF Promise!Move, State
  <2>3. ASSUME NEW u \in Updates, StoreNext(u) \/ WebhookPost(u)
        PROVE  Promise!Next \/ UNCHANGED Promise!vars
    <3>1. CASE Stored(u)
      BY <2>1, <2>3, <3>1 DEF StoreNext, WebhookPost, Enqueue, EnqueueRow
    <3>2. CASE ~Stored(u)
      <4>1. row' = [row EXCEPT ![u] = Pending] /\ UNCHANGED handled
        BY <2>3, <3>2 DEF StoreNext, WebhookPost, Enqueue, EnqueueRow
      <4>2. DeliveryState(u) = "absent" /\ DeliveryState(u)' = "queued"
        BY <2>0, <3>2, <4>1 DEF Stored, DeliveryState, Pending
      <4>. QED BY <2>2, <4>1, <4>2 DEF Promise!Next, Promise!Accept
    <3>. QED BY <3>1, <3>2
  <2>4. ASSUME NEW u \in Updates, BackoffElapses(u) \/ LeaseExpires(u)
        PROVE  UNCHANGED Promise!vars
    <3>1. UNCHANGED handled /\ \A v \in Updates : row'[v].status = row[v].status
      BY <2>0, <2>4 DEF BackoffElapses, LeaseExpires, Row
    <3>. QED BY <3>1 DEF Promise!vars, DeliveryState
  <2>5. ASSUME NEW u \in Updates, RetryDead(u) PROVE Promise!Next
    <3>1. row' = [row EXCEPT ![u] = Pending] /\ UNCHANGED handled
      BY <2>5 DEF RetryDead
    <3>2. DeliveryState(u) = "dead" /\ DeliveryState(u)' = "queued"
      BY <2>0, <2>5, <3>1 DEF RetryDead, DeliveryState, Pending
    <3>. QED BY <2>2, <3>1, <3>2 DEF Promise!Next, Promise!Reopen
  <2>6. ASSUME NEW u \in Updates, NEW w \in Workers, Claim(w, u)
        PROVE  Promise!Next \/ UNCHANGED Promise!vars
    <3>1. row' = [row EXCEPT ![u] = ClaimedRow(u)] /\ UNCHANGED handled
      BY <2>6 DEF Claim
    <3>2. DeliveryState(u)' = "started"
      BY <2>0, <3>1 DEF DeliveryState, ClaimedRow
    <3>3. CASE row[u].status = "pending"
      <4>1. DeliveryState(u) = "queued"
        BY <3>3 DEF DeliveryState
      <4>2. \A v \in Promise!Older(u) : DeliveryState(v) \notin {"queued", "started"}
        BY <2>0, <2>6
           DEF Claim, Claimable, HeldBack, Waiting, DeliveryState, Promise!Older, Row, Statuses
      <4>3. Promise!Start(u)
        BY <2>2, <3>1, <3>2, <4>1, <4>2 DEF Promise!Start, Promise!Older
      <4>. QED BY <4>3 DEF Promise!Next
    <3>4. CASE row[u].status = "processing"
      <4>1. DeliveryState(u) = "started"
        BY <3>4 DEF DeliveryState
      <4>2. State' = State
        BY <2>0, <3>1, <3>2, <4>1, PromisedMove DEF State
      <4>. QED BY <3>1, <4>2 DEF Promise!vars, State
    <3>. QED BY <2>6, <3>3, <3>4 DEF Claim, Claimable
  <2>7. ASSUME NEW w \in Workers, HandlerReturns(w)
        PROVE  Promise!Next \/ UNCHANGED Promise!vars
    <3>1. /\ worker[w].job \in Updates /\ Stored(worker[w].job)
          /\ UNCHANGED row
          /\ UNCHANGED handled \/ handled' = handled \cup {worker[w].job}
      BY <2>7 DEF HandlerReturns, RunInv, Busy, TypeOK, dbVars
    <3>2. State' = State /\ DeliveryState(worker[w].job) # "absent"
      BY <3>1 DEF State, DeliveryState, Stored
    <3>3. CASE handled' = handled \cup {worker[w].job}
      BY <3>1, <3>2, <3>3 DEF Promise!Next, Promise!Handle, State
    <3>. QED BY <2>1, <3>1, <3>3
  <2>8. ASSUME NEW w \in Workers, Finish(w)
        PROVE  Promise!Next \/ UNCHANGED Promise!vars
    <3>0. PICK u \in Updates : u = worker[w].job
      BY <2>8 DEF Finish, TypeOK
    <3>1. UNCHANGED handled
      BY <2>8 DEF Finish
    <3>2. CASE FenceHolds(w) /\ row' = [row EXCEPT ![u] = SettledRow(w)]
      <4>1. ~worker[w].failed => u \in handled
        BY <2>8, <3>0 DEF Finish, RunInv, Busy
      <4>2. DeliveryState(u) = "started"
        BY <3>0, <3>2 DEF FenceHolds, DeliveryState
      <4>3. Promise!Move(u, "started", DeliveryState(u)')
        BY <2>2, <3>1, <3>2, <4>2
      <4>4. row'[u].status = Verdict(worker[w].failed, worker[w].attempts)
        BY <2>0, <3>2 DEF SettledRow
      <4>5. \/ DeliveryState(u)' = "done" /\ ~worker[w].failed
            \/ DeliveryState(u)' \in {"dead", "queued"}
        BY <4>4 DEF DeliveryState, Verdict
      <4>. QED
        BY <4>1, <4>3, <4>5
           DEF Promise!Next, Promise!Complete, Promise!Abandon, Promise!Postpone
    <3>. QED BY <2>1, <2>8, <3>0, <3>1, <3>2 DEF Finish
  <2>9. ASSUME NEW u \in Updates, Arrive(u) PROVE UNCHANGED Promise!vars
    BY <2>1, <2>9 DEF Arrive, dbVars
  <2>10. CASE GetUpdates \/ SaveOffset \/ Crash \/ UNCHANGED vars
    BY <2>1, <2>10 DEF GetUpdates, SaveOffset, Crash, dbVars, vars
  <2>. QED
    BY <2>3, <2>4, <2>5, <2>6, <2>7, <2>8, <2>9, <2>10 DEF Next
<1>. QED BY <1>1, <1>2, TypeCorrect, RunInvariant, PTL DEF Spec, KeepsPromise, Promise!Spec

=============================================================================
