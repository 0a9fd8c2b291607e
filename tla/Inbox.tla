---------------------------------- MODULE Inbox ----------------------------------
(***************************************************************************)
(* The durable inbox: how a Telegram update reaches MySQL (Poll, or the    *)
(* webhook), how workers lease, run and settle it (store/queue.go,         *)
(* bot/runner.go) and what a crash, a lost statement, an expired lease and *)
(* an operator's retry of a dead update do to it.                          *)
(*                                                                         *)
(* Time is abstracted to two flags of a row: "ready" (available_at has     *)
(* passed) and "leased" (lease_until has not).  A worker is bounded by its *)
(* 45 s handler context plus the 5 s of Finish, so the 90 s lease cannot   *)
(* end under a live worker unless the process stalls (a suspended host, a  *)
(* handler step that ignores its context): that is the constant Stalls.    *)
(***************************************************************************)
EXTENDS Naturals, FiniteSets

CONSTANTS
  Updates,      \* update identifiers, as Telegram numbers them
  Chat,         \* Chat[u]: Update.Partition of u
  Workers,      \* worker goroutines
  MaxAttempts,  \* attempts after which a failed update is dead
  Polling,      \* TRUE: Poll fetches updates; FALSE: Telegram posts them
  Stalls,       \* TRUE: a lease may end under a live worker
  MaxFaults,    \* bound: crashes, stalls, lost statements and lost replies
  MaxRetries    \* bound: operator retries of dead updates

ASSUME InboxAssumption ==
  /\ Updates \subseteq Nat \ {0}
  /\ MaxAttempts \in Nat \ {0}
  /\ MaxFaults \in Nat /\ MaxRetries \in Nat
  /\ Polling \in BOOLEAN /\ Stalls \in BOOLEAN

VARIABLES
  row,        \* row[u]: the update_inbox row of u
  worker,     \* worker[w]: what worker w is doing, and with which claim
  poll,       \* the poller: its phase, its offset, the batch it still holds
  saved,      \* bot_state.poll_offset
  arrived,    \* updates Telegram has numbered
  confirmed,  \* updates Telegram will not send again
  handled,    \* history: updates some handler run succeeded for
  claims,     \* history: claims[u], how many claims of u ever committed
  faults, retries

dbVars == <<row, saved>>
telegramVars == <<arrived, confirmed>>
vars == <<row, worker, poll, saved, arrived, confirmed, handled, claims,
          faults, retries>>

Statuses == {"absent", "pending", "processing", "done", "dead"}
NoUpdate == 0

Row == [status : Statuses, attempts : Nat, ready : BOOLEAN, leased : BOOLEAN]
Job == [phase : {"idle", "handling", "finishing"}, job : Updates \cup {NoUpdate},
        attempts : Nat, claim : Nat, failed : BOOLEAN]
Poller == [phase : {"ask", "store", "save"}, offset : Nat, batch : SUBSET Updates]

TypeOK ==
  /\ row \in [Updates -> Row]
  /\ worker \in [Workers -> Job]
  /\ \A w \in Workers : worker[w].phase # "idle" => worker[w].job \in Updates
  /\ poll \in Poller
  /\ saved \in Nat
  /\ arrived \subseteq Updates /\ confirmed \subseteq Updates
  /\ handled \subseteq Updates
  /\ claims \in [Updates -> Nat]
  /\ faults \in 0..MaxFaults /\ retries \in 0..MaxRetries

Absent  == [status |-> "absent", attempts |-> 0, ready |-> FALSE, leased |-> FALSE]
Pending == [status |-> "pending", attempts |-> 0, ready |-> TRUE, leased |-> FALSE]
Idle    == [phase |-> "idle", job |-> NoUpdate, attempts |-> 0, claim |-> 0,
            failed |-> FALSE]

Stored(u)  == row[u].status # "absent"
Waiting(u) == row[u].status \in {"pending", "processing"}
Busy(w)    == worker[w].phase # "idle"

Init ==
  /\ row = [u \in Updates |-> Absent]
  /\ worker = [w \in Workers |-> Idle]
  /\ poll = [phase |-> "ask", offset |-> 0, batch |-> {}]
  /\ saved = 0
  /\ arrived = {} /\ confirmed = {}
  /\ handled = {}
  /\ claims = [u \in Updates |-> 0]
  /\ faults = 0 /\ retries = 0

Fault == faults < MaxFaults /\ faults' = faults + 1

-----------------------------------------------------------------------------
(* Telegram and the two ways in.                                           *)

(* Telegram numbers a new update; identifiers only grow.                   *)
Arrive(u) ==
  /\ u \notin arrived
  /\ \A v \in Updates : v < u => v \in arrived
  /\ arrived' = arrived \cup {u}
  /\ UNCHANGED <<dbVars, worker, poll, confirmed, handled, claims, faults, retries>>


(* INSERT IGNORE: a second copy of an update changes nothing.              *)
EnqueueRow(u) == IF Stored(u) THEN row ELSE [row EXCEPT ![u] = Pending]

Enqueue(u) == row' = EnqueueRow(u)

(* getUpdates(offset): Telegram forgets what is below the offset and       *)
(* returns the rest.  The reply may be lost; Poll then asks again.         *)
GetUpdates ==
  /\ Polling /\ poll.phase = "ask"
  /\ confirmed' = confirmed \cup {u \in arrived : u < poll.offset}
  /\ LET batch == {u \in arrived : u >= poll.offset} IN
       \/ /\ poll' = [poll EXCEPT !.phase = IF batch = {} THEN "ask" ELSE "store",
                                  !.batch = batch]
          /\ UNCHANGED faults
       \/ Fault /\ UNCHANGED poll
  /\ UNCHANGED <<dbVars, worker, arrived, handled, claims, retries>>

\* Mutant: the offset is moved past the whole batch before it is stored.
StoreNextEager(u) ==
  /\ poll.phase = "store" /\ u \in poll.batch
  /\ \E v \in poll.batch :
       /\ \A x \in poll.batch : x <= v
       /\ Enqueue(u)
       /\ poll' = [phase |-> "save", offset |-> v + 1, batch |-> {}]
  /\ UNCHANGED <<worker, saved, telegramVars, handled, claims, faults, retries>>

(* The loop of Poll over one batch: store an update, then step past it.    *)
StoreNext(u) ==
  /\ poll.phase = "store" /\ u \in poll.batch
  /\ \A v \in poll.batch : u <= v
  /\ Enqueue(u)
  /\ poll' = [phase |-> IF poll.batch = {u} THEN "save" ELSE "store",
              offset |-> u + 1, batch |-> poll.batch \ {u}]
  /\ UNCHANGED <<worker, saved, telegramVars, handled, claims, faults, retries>>

SaveOffset ==
  /\ poll.phase = "save"
  /\ saved' = poll.offset
  /\ poll' = [poll EXCEPT !.phase = "ask"]
  /\ UNCHANGED <<row, worker, telegramVars, handled, claims, faults, retries>>

(* The webhook handler stores the update and answers 200.  If the answer   *)
(* is lost Telegram posts it again; posts are taken in any order.          *)
WebhookPost(u) ==
  /\ ~Polling /\ u \in arrived \ confirmed
  /\ Enqueue(u)
  /\ \/ confirmed' = confirmed \cup {u} /\ UNCHANGED faults
     \/ Fault /\ UNCHANGED confirmed
  /\ UNCHANGED <<worker, poll, saved, arrived, handled, claims, retries>>

-----------------------------------------------------------------------------
(* Workers.                                                                *)

\* Mutant: the NOT EXISTS clause looks at pending rows only.
HeldBackByPending(u) ==
  \E v \in Updates : Chat[v] = Chat[u] /\ v < u /\ row[v].status = "pending"

\* An older update of the same chat that is still waiting holds u back.
HeldBack(u) == \E v \in Updates : Chat[v] = Chat[u] /\ v < u /\ Waiting(v)

\* Mutant: the lease is not consulted.
ClaimableIgnoringLease(u) == Waiting(u) /\ ~HeldBack(u)
\* Mutant: only pending rows are claimed, so an orphaned one never is again.
ClaimablePendingOnly(u) == row[u].status = "pending" /\ row[u].ready /\ ~HeldBack(u)

\* The WHERE clause of Claim.  SKIP LOCKED lets a claim pass over rows that
\* other transactions hold, so any claimable row may be the one it returns.
Claimable(u) ==
  /\ \/ row[u].status = "pending" /\ row[u].ready
     \/ row[u].status = "processing" /\ ~row[u].leased
  /\ ~HeldBack(u)

ClaimedRow(u) == [status |-> "processing", attempts |-> row[u].attempts + 1,
                  ready |-> row[u].ready, leased |-> TRUE]

(* Claim commits; the worker goes on with the update and the attempt       *)
(* number, or never learns of the commit and the lease is left to run out. *)
Claim(w, u) ==
  /\ ~Busy(w) /\ Claimable(u)
  /\ row' = [row EXCEPT ![u] = ClaimedRow(u)]
  /\ claims' = [claims EXCEPT ![u] = @ + 1]
  /\ \/ /\ worker' = [worker EXCEPT ![w] =
               [phase |-> "handling", job |-> u, attempts |-> row[u].attempts + 1,
                claim |-> claims[u] + 1, failed |-> FALSE]]
        /\ UNCHANGED faults
     \/ Fault /\ UNCHANGED worker
  /\ UNCHANGED <<poll, saved, telegramVars, handled, retries>>

Returned(j, failed) == [phase |-> "finishing", job |-> j.job, attempts |-> j.attempts,
                        claim |-> j.claim, failed |-> failed]

(* safeHandle returns: success, an error, a panic or the 45 s timeout.     *)
HandlerReturns(w) ==
  /\ worker[w].phase = "handling"
  /\ \E failed \in BOOLEAN :
       /\ worker' = [worker EXCEPT ![w] = Returned(worker[w], failed)]
       /\ handled' = IF failed THEN handled ELSE handled \cup {worker[w].job}
  /\ UNCHANGED <<dbVars, poll, telegramVars, claims, faults, retries>>

\* Mutant: the attempt number is not compared.
FenceStatusOnly(w) == row[worker[w].job].status = "processing"

\* The WHERE clause of Finish: only the attempt that was claimed may settle it.
FenceHolds(w) ==
  LET u == worker[w].job IN
  row[u].status = "processing" /\ row[u].attempts = worker[w].attempts

\* Mutant: a failed update gets a status no query of the inbox looks for.
VerdictUnknown(failed, attempts) ==
  IF ~failed THEN "done" ELSE IF attempts >= MaxAttempts THEN "dead" ELSE "failed"
\* Mutant: the last attempt counts as success.
VerdictLastIsDone(failed, attempts) ==
  IF ~failed \/ attempts >= MaxAttempts THEN "done" ELSE "pending"

\* The status Finish writes, from the handler's result and the attempt number.
Verdict(failed, attempts) ==
  IF ~failed THEN "done" ELSE IF attempts >= MaxAttempts THEN "dead" ELSE "pending"

\* available_at is now for a settled row and in the future for a failed one.
SettledRow(w) ==
  LET j == worker[w] IN
  [status |-> Verdict(j.failed, j.attempts), attempts |-> j.attempts,
   ready |-> ~j.failed, leased |-> FALSE]

(* Finish runs, or its statement is lost and the row keeps its lease.      *)
Finish(w) ==
  /\ worker[w].phase = "finishing"
  /\ \/ /\ row' = IF FenceHolds(w)
                    THEN [row EXCEPT ![worker[w].job] = SettledRow(w)] ELSE row
        /\ UNCHANGED faults
     \/ Fault /\ UNCHANGED row
  /\ worker' = [worker EXCEPT ![w] = Idle]
  /\ UNCHANGED <<poll, saved, telegramVars, handled, claims, retries>>

-----------------------------------------------------------------------------
(* Time, crashes and the operator.                                         *)

BackoffElapses(u) ==
  /\ row[u].status = "pending" /\ ~row[u].ready
  /\ row' = [row EXCEPT ![u].ready = TRUE]
  /\ UNCHANGED <<worker, poll, saved, telegramVars, handled, claims, faults, retries>>

HoldsLease(w, u) ==
  Busy(w) /\ worker[w].job = u /\ worker[w].attempts = row[u].attempts

(* Ninety seconds pass since the claim; under a live worker that is a stall. *)
LeaseExpires(u) ==
  /\ row[u].status = "processing" /\ row[u].leased
  /\ \/ (\A w \in Workers : ~HoldsLease(w, u)) /\ UNCHANGED faults
     \/ Stalls /\ Fault
  /\ row' = [row EXCEPT ![u].leased = FALSE]
  /\ UNCHANGED <<worker, poll, saved, telegramVars, handled, claims, retries>>

(* The process dies and is started again: workers and the poller lose      *)
(* their state, Poll reads the saved offset.  A failing Enqueue or         *)
(* SaveOffset ends Poll, which ends the process the same way.              *)
Crash ==
  /\ Fault
  /\ worker' = [w \in Workers |-> Idle]
  /\ poll' = [phase |-> "ask", offset |-> saved, batch |-> {}]
  /\ UNCHANGED <<dbVars, telegramVars, handled, claims, retries>>

RetryDead(u) ==
  /\ retries < MaxRetries /\ retries' = retries + 1
  /\ row[u].status = "dead"
  /\ row' = [row EXCEPT ![u] = Pending]
  /\ UNCHANGED <<worker, poll, saved, telegramVars, handled, claims, faults>>

Next ==
  \/ \E u \in Updates :
       \/ Arrive(u) \/ StoreNext(u) \/ WebhookPost(u)
       \/ BackoffElapses(u) \/ LeaseExpires(u) \/ RetryDead(u)
       \/ \E w \in Workers : Claim(w, u)
  \/ GetUpdates \/ SaveOffset \/ Crash
  \/ \E w \in Workers : HandlerReturns(w) \/ Finish(w)

Spec == Init /\ [][Next]_vars

(***************************************************************************)
(* Fairness: Poll and every worker loop until the context is cancelled,    *)
(* Telegram delivers what it holds, clocks advance.  Crashes, lost         *)
(* statements and the operator are never required to happen, and nothing   *)
(* is assumed about what a handler returns.                                *)
(***************************************************************************)
Fairness ==
  /\ WF_vars(GetUpdates) /\ WF_vars(SaveOffset)
  /\ \A u \in Updates :
       /\ WF_vars(StoreNext(u)) /\ WF_vars(WebhookPost(u))
       /\ WF_vars(BackoffElapses(u)) /\ WF_vars(LeaseExpires(u))
  /\ \A w \in Workers :
       /\ WF_vars(HandlerReturns(w)) /\ WF_vars(Finish(w))
       /\ WF_vars(\E u \in Updates : Claim(w, u))

FairSpec == Spec /\ Fairness

-----------------------------------------------------------------------------
(* Properties.                                                             *)

\* Nothing Telegram has been told to forget is missing from MySQL: a crash
\* anywhere in Poll, between two Enqueues or before SaveOffset, loses nothing.
NothingLost == \A u \in confirmed : Stored(u)

\* While leases outlive workers, an update is in the hands of at most one
\* worker, whatever crashes, lost claims and operator retries came before.
OneRunner ==
  ~Stalls => \A v, w \in Workers :
               (v # w /\ Busy(v) /\ Busy(w)) => worker[v].job # worker[w].job

\* Only the newest claim of an update settles its row: a worker that outlived
\* its lease cannot finish the update another worker is running.
OnlyNewestClaimSettles ==
  [][\A u \in Updates :
       (row[u].status = "processing" /\ row'[u].status # "processing") =>
         \E w \in Workers : /\ worker[w].phase = "finishing"
                            /\ worker[w].job = u
                            /\ worker[w].claim = claims[u]]_vars

\* The comment on Claim: events of one chat are kept in order, only different
\* chats run concurrently.  No two workers run updates of one chat.
ChatSerial ==
  \A v, w \in Workers :
    (v # w /\ Busy(v) /\ Busy(w)) => Chat[worker[v].job] # Chat[worker[w].job]

\* Crashes, lost statements and backoff do not break that order: two updates of one
\* chat run at once only after an operator put a dead one back.
ChatSerialUntilRetried == retries = 0 => ChatSerial

\* Every update that Telegram numbers ends as done or dead, although workers
\* crash, claims and Finish statements are lost and handlers fail.
EveryUpdateSettles ==
  \A u \in Updates : (u \in arrived) ~> (row[u].status \in {"done", "dead"})

\* The inbox implements the delivery promise: same-chat order of starts, done
\* only after a successful run, a done update never re-opened by a duplicate.
DeliveryState(u) ==
  CASE row[u].status = "pending" -> "queued"
    [] row[u].status = "processing" -> "started"
    [] OTHER -> row[u].status

Promise == INSTANCE Delivery WITH state <- [u \in Updates |-> DeliveryState(u)]

KeepsPromise == Promise!Spec

=============================================================================
