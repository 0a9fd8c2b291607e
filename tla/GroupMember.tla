------------------------------- MODULE GroupMember -------------------------------
(***************************************************************************)
(* One member of one group, as every workflow that touches the member's    *)
(* permissions sees it: the group's authorization, the member's rights at  *)
(* Telegram, the MySQL rows about the member, and the lock the workflows   *)
(* share.  The verification and punishment workflows (Verification.tla,    *)
(* Punishment.tla) are written over this state.                            *)
(*                                                                         *)
(* A workflow that owns the lock carries "todo", the steps it still has to *)
(* take; each is one Telegram call or one MySQL transaction, so that       *)
(* anything that does not need the lock (a revocation, a change of         *)
(* settings, the clock, a crash) can fall between two of them.             *)
(***************************************************************************)
EXTENDS Naturals, Sequences

CONSTANTS
  Sessions,      \* verification sessions, in the order they are created
  Requests,      \* requested permission actions (rows of punishments)
  Action,        \* Action[r]: what request r asks for
  Source,        \* Source[r]: who asks, a rule, an administrator, the blacklist
  Deletes,       \* Deletes[r]: r also deletes a message
  FailAction,    \* FailAction[s]: fail_action of session s, set when it is created
  MaxTries,      \* wrong answers a session forgives (3 in the code)
  MaxAttempts,   \* recoveries of a punishment before a human must look (20)
  Protections,   \* answers Protected may give: a subset of BOOLEAN
  Listings,      \* answers ListStatus = "black" may give: a subset of BOOLEAN
  Moves,         \* bound: of "leave" and "switch" (verification off), those allowed
  MaxFaults,     \* bound: refused or lost Telegram calls, crashes
  MaxRevokes     \* bound: revocations and rejections of the group

Restricting == {"mute", "hold", "ban", "kick"}   \* "hold": mute, local_ad_review
Actions == Restricting \cup {"unmute", "unban"}
Sources == {"automatic", "manual", "blacklist"}

ASSUME MemberAssumption ==
  /\ Sessions \subseteq Nat \ {0} /\ Requests \subseteq Nat \ {0}
  /\ Action \in [Requests -> Actions]
  /\ Source \in [Requests -> Sources]
  /\ Deletes \in [Requests -> BOOLEAN]
  /\ FailAction \in [Sessions -> {"mute", "ban", "kick"}]
  /\ MaxTries \in Nat /\ MaxAttempts \in Nat
  /\ Protections \subseteq BOOLEAN /\ Listings \subseteq BOOLEAN
  /\ MaxFaults \in Nat /\ MaxRevokes \in Nat

VARIABLES
  group,    \* bot_groups, authorization_epochs and group_settings of the group
  tg,       \* the member's rights and presence, as Telegram has them
  cause,    \* history: the workflow whose call set the rights last
  joined,   \* the group_members row, and the updates about it still to be handled
  ses,      \* ses[s]: a verification_sessions row
  pun,      \* pun[r]: a punishments row with its punishment_workflows row
  holder,   \* the workflow that owns verify:lock:<chat>:<user>
  calls,    \* workflows past their first checks that have not asked for the lock
  clock,    \* stamps created_at of sessions and punishments
  faults, revokes

vars == <<group, tg, cause, joined, ses, pun, holder, calls, clock, faults, revokes>>

-----------------------------------------------------------------------------
(* The values of the variables.                                            *)

Live     == {"pending", "completing", "expiring"}
Active   == Live \cup {"releasing"}
Terminal == {"verified", "expired", "cancelled", "blocked", "left"}

SessionRow == [status : {"none"} \cup Active \cup Terminal, kickStarted : BOOLEAN,
               tries : Nat, lapsed : BOOLEAN, created : Nat]

\* "row" is FALSE until the workflow row of the punishment is inserted.
\* "release" is release_needed with release_at: not needed, at the end of a
\* timed mute, or at once.
PunishmentRow ==
  [status : {"none", "pending", "done", "skipped", "failed"},
   acted : BOOLEAN, deleted : BOOLEAN, row : BOOLEAN, started : BOOLEAN,
   kickBanned : BOOLEAN, release : {"no", "timed", "now"}, elapsed : BOOLEAN,
   version : Nat, attempts : Nat, created : Nat]

Steps == {"read", "restrict", "restore", "begin", "ban", "unban", "settle",
          "prepare", "delete", "start", "kickban", "markban", "complete", "done",
          "drop"}

Nobody == [kind |-> "none", id |-> 0]
Owners == [kind : {"none", "session", "request"}, id : Nat]

\* "status" and "kick" are the copy of the session that finishVerification was
\* given, "outcome" what it will write, "acted" is mayHaveActed of punishLocked,
\* "released" is the argument FinishPermissionRelease will get.
Holder ==
  [op : {"none", "join", "finish", "punish", "release"}, id : Nat,
   todo : Seq(Steps), status : {"none"} \cup Active, kick : BOOLEAN,
   outcome : {"none"} \cup Terminal, acted : BOOLEAN, released : BOOLEAN]

Free == [op |-> "none", id |-> 0, todo |-> <<>>, status |-> "none", kick |-> FALSE,
         outcome |-> "none", acted |-> FALSE, released |-> FALSE]

Calls == [op : {"join", "punish", "release"}, id : Nat]

MemberTypeOK ==
  /\ group \in [approved : BOOLEAN, epoch : Nat, verifying : BOOLEAN]
  /\ tg \in [rights : {"free", "muted", "banned"}, present : BOOLEAN]
  /\ cause \in Owners
  /\ joined \in [verified : BOOLEAN, left : BOOLEAN, events : Seq({"join", "leave"})]

RowsTypeOK ==
  /\ ses \in [Sessions -> SessionRow]
  /\ pun \in [Requests -> PunishmentRow]
  /\ clock \in Nat

LockTypeOK ==
  /\ holder \in Holder
  /\ holder.op # "none" => holder.todo # <<>>
  /\ holder.op \in {"join", "finish"} => holder.id \in Sessions
  /\ holder.op \in {"punish", "release"} => holder.id \in Requests
  /\ calls \subseteq Calls
  /\ \A c \in calls : c.op \in {"punish", "release"} => c.id \in Requests

BoundsOK == faults \in 0..MaxFaults /\ revokes \in 0..MaxRevokes

TypeOK == MemberTypeOK /\ RowsTypeOK /\ LockTypeOK /\ BoundsOK

NoSession == [status |-> "none", kickStarted |-> FALSE, tries |-> 0,
              lapsed |-> FALSE, created |-> 0]
NoPunishment ==
  [status |-> "none", acted |-> FALSE, deleted |-> FALSE, row |-> FALSE,
   started |-> FALSE, kickBanned |-> FALSE, release |-> "no", elapsed |-> FALSE,
   version |-> 0, attempts |-> 0, created |-> 0]

Init ==
  /\ group = [approved |-> TRUE, epoch |-> 0, verifying |-> TRUE]
  /\ tg = [rights |-> "free", present |-> FALSE]
  /\ cause = Nobody
  /\ joined = [verified |-> FALSE, left |-> TRUE, events |-> <<>>]
  /\ ses = [s \in Sessions |-> NoSession]
  /\ pun = [r \in Requests |-> NoPunishment]
  /\ holder = Free
  /\ calls = {}
  /\ clock = 1
  /\ faults = 0 /\ revokes = 0

-----------------------------------------------------------------------------
(* What the rows say.                                                      *)

\* VerificationTakenOver: a punishment that is still to be carried out.
TakenOver == \E r \in Requests : pun[r].status = "pending" /\ Action[r] # "unban"

Timed(r) == Action[r] = "mute"

\* Mutant: a status that no query of the program looks for.
SessionsToRevoked(status, from, s) == [s EXCEPT !.status = IF @ \in from THEN "revoked" ELSE @]
\* UPDATE verification_sessions SET status=... WHERE status IN (...), for one row.
SessionsTo(status, from, s) == [s EXCEPT !.status = IF @ \in from THEN status ELSE @]

Fault == faults < MaxFaults /\ faults' = faults + 1

-----------------------------------------------------------------------------
(* The lock and the steps of its holder.                                   *)

LockFree == holder.op = "none"

Doing(op, step) == holder.op = op /\ Head(holder.todo) = step

\* The holder goes on to its next step, or returns and unlocks.
Advanced(h) == IF Len(h.todo) = 1 THEN Free ELSE [h EXCEPT !.todo = Tail(@)]

-----------------------------------------------------------------------------
(* Telegram.  restrictChatMember overwrites a ban; unbanChatMember is      *)
(* called with only_if_banned.                                             *)

Owner == [kind |-> IF holder.op \in {"join", "finish"} THEN "session" ELSE "request",
          id |-> holder.id]

Restricted == tg' = [tg EXCEPT !.rights = "muted"] /\ cause' = Owner
Restored   == tg' = [tg EXCEPT !.rights = "free"] /\ cause' = Nobody
Unbanned   == IF tg.rights = "banned" THEN Restored ELSE UNCHANGED <<tg, cause>>

Expect(event) == joined' = [joined EXCEPT !.events = Append(@, event)]

\* Telegram reports the removal of a member, which the bot handles as a leave.
Banned ==
  /\ tg' = [rights |-> "banned", present |-> FALSE]
  /\ cause' = Owner
  /\ IF tg.present THEN Expect("leave") ELSE UNCHANGED joined

\* MemberExecutor: the call that a step makes.
Effect(step) ==
  CASE step = "restrict" -> Restricted /\ UNCHANGED joined
    [] step = "restore"  -> Restored /\ UNCHANGED joined
    [] step = "unban"    -> Unbanned /\ UNCHANGED joined
    [] step \in {"ban", "kickban"} -> Banned

NoEffect == UNCHANGED <<tg, cause, joined>>

EffectSteps == {"restrict", "restore", "unban", "ban", "kickban"}

\* The outcomes of a call that fails: Telegram refuses it (400 or 403), or the
\* answer is lost (a timeout, a 5xx) with or without the call having been applied.
Refused(step) == Fault /\ NoEffect
Lost(step) == Fault /\ (Effect(step) \/ NoEffect)

=============================================================================
