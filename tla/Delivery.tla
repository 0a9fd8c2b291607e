-------------------------------- MODULE Delivery --------------------------------
(***************************************************************************)
(* What the durable inbox promises the bot, without rows, leases, attempt  *)
(* counters, workers or crashes: an accepted update waits in its chat's     *)
(* line, is started only when every older accepted update of the same chat *)
(* has been settled, and is settled as done only after some handler run    *)
(* for it succeeded.  A done update is never looked at again; a dead one   *)
(* only when an operator asks for it.  Inbox.tla implements this module.   *)
(***************************************************************************)
EXTENDS Naturals

CONSTANTS
  Updates,   \* Telegram update identifiers
  Chat       \* Chat[u]: the partition of update u

VARIABLES
  state,     \* state[u]: where update u is in its life
  handled    \* the updates some handler run succeeded for

vars == <<state, handled>>

States == {"absent", "queued", "started", "done", "dead"}

Older(u) == {v \in Updates : Chat[v] = Chat[u] /\ v < u}

Init ==
  /\ state = [u \in Updates |-> "absent"]
  /\ handled = {}

Move(u, from, to) ==
  /\ state[u] = from
  /\ state' = [state EXCEPT ![u] = to]
  /\ UNCHANGED handled

Accept(u) == Move(u, "absent", "queued")

Start(u) ==
  /\ \A v \in Older(u) : state[v] \notin {"queued", "started"}
  /\ Move(u, "queued", "started")

Handle(u) ==
  /\ state[u] # "absent"
  /\ handled' = handled \cup {u}
  /\ UNCHANGED state

Postpone(u) == Move(u, "started", "queued")

Complete(u) ==
  /\ u \in handled
  /\ Move(u, "started", "done")

Abandon(u) == Move(u, "started", "dead")

Reopen(u) == Move(u, "dead", "queued")

Next == \E u \in Updates :
  \/ Accept(u) \/ Start(u) \/ Handle(u) \/ Postpone(u)
  \/ Complete(u) \/ Abandon(u) \/ Reopen(u)

Spec == Init /\ [][Next]_vars

=============================================================================
