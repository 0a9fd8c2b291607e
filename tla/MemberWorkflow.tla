------------------------------ MODULE MemberWorkflow ------------------------------
(***************************************************************************)
(* Verification and punishment of one member, together with everything     *)
(* that may fall between their steps: the deployer revoking and approving  *)
(* the group (store/authorization.go), administrators switching            *)
(* verification off and on (store/menu.go ChangeSettings), the member      *)
(* coming and going, mutes running out, calls and statements failing, the  *)
(* process dying and being started again.                                  *)
(***************************************************************************)
EXTENDS Verification, Punishment

-----------------------------------------------------------------------------
(* The group.                                                              *)

\* Mutant: a revocation leaves begun punishments to themselves.
RevokedRowNoRelease(p, restricting) ==
  IF p.status = "pending" THEN [p EXCEPT !.status = "skipped"] ELSE p
\* Mutant: what was begun is left to be carried on.
RevokedRowKept(p, restricting) ==
  IF p.status = "pending" /\ ~p.started THEN [p EXCEPT !.status = "skipped"] ELSE p
\* A pending request is retired; what it may have done is to be lifted.
RevokedRow(p, restricting) ==
  IF p.status # "pending" THEN p
  ELSE [p EXCEPT !.status = "skipped",
                 !.release = IF p.started /\ restricting THEN "now" ELSE @]

\* changeAuthorization to rejected or revoked, also when the bot left the group.
Revoked ==
  /\ revokes < MaxRevokes /\ revokes' = revokes + 1
  /\ group' = [group EXCEPT !.approved = FALSE, !.epoch = @ + 1]
  /\ pun' = [r \in Requests |-> RevokedRow(pun[r], Action[r] \in Restricting)]
  /\ ses' = [s \in Sessions |-> SessionsTo("releasing", Live, ses[s])]
  /\ UNCHANGED <<tg, cause, joined, holder, calls, clock, faults>>

Approved ==
  /\ ~group.approved
  /\ group' = [group EXCEPT !.approved = TRUE]
  /\ UNCHANGED <<tg, cause, joined, ses, pun, holder, calls, clock, faults, revokes>>

\* ChangeSettings asks for an approved group.
VerificationOff ==
  /\ "switch" \in Moves
  /\ group.approved /\ group.verifying
  /\ group' = [group EXCEPT !.verifying = FALSE]
  /\ ses' = [s \in Sessions |-> SessionsTo("releasing", Live, ses[s])]
  /\ UNCHANGED <<tg, cause, joined, pun, holder, calls, clock, faults, revokes>>

VerificationOn ==
  /\ group.approved /\ ~group.verifying
  /\ group' = [group EXCEPT !.verifying = TRUE]
  /\ UNCHANGED <<tg, cause, joined, ses, pun, holder, calls, clock, faults, revokes>>

-----------------------------------------------------------------------------
(* The member, the clock, failures.                                        *)

\* The member comes and goes; at most two updates wait to be handled (a bound).
Joins ==
  /\ ~tg.present /\ tg.rights # "banned" /\ Len(joined.events) < 2
  /\ tg' = [tg EXCEPT !.present = TRUE]
  /\ Expect("join")
  /\ UNCHANGED <<group, cause, ses, pun, holder, calls, clock, faults, revokes>>

Leaves ==
  /\ "leave" \in Moves
  /\ tg.present /\ Len(joined.events) < 2
  /\ tg' = [tg EXCEPT !.present = FALSE]
  /\ Expect("leave")
  /\ UNCHANGED <<group, cause, ses, pun, holder, calls, clock, faults, revokes>>

\* The term of a mute is over.
MuteRunsOut(r) ==
  /\ Timed(r) /\ pun[r].status # "none" /\ ~pun[r].elapsed
  /\ pun' = [pun EXCEPT ![r].elapsed = TRUE]
  /\ UNCHANGED <<group, tg, cause, joined, ses, holder, calls, clock, faults, revokes>>

\* Telegram lifts a mute at its until_date, up to two minutes after the term.
TelegramLifts(r) ==
  /\ Timed(r) /\ pun[r].elapsed
  /\ tg.rights = "muted" /\ cause = [kind |-> "request", id |-> r]
  /\ Restored
  /\ UNCHANGED <<group, joined, ses, pun, holder, calls, clock, faults, revokes>>

\* A call that found the lock taken returns an error.
Busy(c) ==
  /\ c \in calls /\ ~LockFree
  /\ calls' = calls \ {c}
  /\ UNCHANGED <<group, tg, cause, joined, ses, pun, holder, clock, faults, revokes>>

\* A statement, or a call that changes no rights, fails the holder of the lock.
GivesUp ==
  /\ holder.op # "none" /\ Fault
  /\ IF holder.op = "punish" /\ ~Doing("punish", "prepare")
       THEN PunishFails ELSE holder' = Free /\ UNCHANGED pun
  /\ UNCHANGED <<group, tg, cause, joined, ses, calls, clock, revokes>>

\* The process dies; the lock it held runs out before anyone asks for it again.
Crash ==
  /\ Fault
  /\ holder' = Free /\ calls' = {}
  /\ UNCHANGED <<group, tg, cause, joined, ses, pun, clock, revokes>>

-----------------------------------------------------------------------------
JoinNext == JoinChecked \/ JoinLocked \/ JoinMutes \/ Left

SessionNext(s) == AnsweredRight(s) \/ AnsweredWrong(s) \/ Lapses(s) \/ FinishStarts(s)

FinishNext ==
  \/ FinishReads \/ BeginKick \/ Settle
  \/ \E step \in EffectSteps : FinishCalls(step)

RequestNext(r) == Requested(r) \/ PunishStarts(r) \/ MuteRunsOut(r) \/ TelegramLifts(r)

PunishNext ==
  \/ Prepares \/ DeletesMessage \/ StartsPermission \/ MarksKickBanned
  \/ CompletesTakeover \/ PunishDone
  \/ \E step \in EffectSteps : PunishCalls(step)

ReleaseNext ==
  \/ \E r \in Requests : ReleaseListed(r) \/ ReleaseStarts(r)
  \/ Drops
  \/ \E step \in EffectSteps : ReleaseCalls(step)

GroupNext == Revoked \/ Approved \/ VerificationOff \/ VerificationOn

OtherNext == Joins \/ Leaves \/ GivesUp \/ Crash \/ (\E c \in calls : Busy(c))

Next ==
  \/ JoinNext \/ Expires \/ FinishNext \/ PunishNext \/ ReleaseNext
  \/ GroupNext \/ OtherNext
  \/ \E s \in Sessions : SessionNext(s)
  \/ \E r \in Requests : RequestNext(r)

Spec == Init /\ [][Next]_vars

HolderNext ==
  \/ JoinMutes \/ FinishNext \/ PunishNext \/ Drops
  \/ \E step \in EffectSteps : ReleaseCalls(step)

(***************************************************************************)
(* Fairness: whoever has the lock goes on; the recovery loop of            *)
(* bot/runner.go comes round to every row that is due; the inbox           *)
(* redelivers an update whose handler failed before the workflow row was   *)
(* inserted; clocks advance; and the lock of this one member is not found  *)
(* taken for ever (the recovery loop is one goroutine, updates about one   *)
(* chat are handled one at a time).  Nobody has to revoke, approve, join,  *)
(* answer or fail.                                                         *)
(***************************************************************************)
Fairness ==
  /\ WF_vars(HolderNext) /\ WF_vars(Expires)
  /\ WF_vars(JoinChecked) /\ WF_vars(Left) /\ SF_vars(JoinLocked)
  /\ \A s \in Sessions : WF_vars(Lapses(s)) /\ SF_vars(FinishStarts(s))
  /\ \A r \in Requests :
       /\ WF_vars(ToBeRetried(r) /\ Requested(r)) /\ SF_vars(PunishStarts(r))
       /\ WF_vars(ReleaseListed(r)) /\ SF_vars(ReleaseStarts(r))
       /\ WF_vars(MuteRunsOut(r))
  /\ <>[][\A c \in calls : ~Busy(c)]_vars

FairSpec == Spec /\ Fairness

-----------------------------------------------------------------------------
(* Properties.                                                             *)

BySession(s) == cause = [kind |-> "session", id |-> s]
ByRequest(r) == cause = [kind |-> "request", id |-> r]

\* The authorization fence.  A request that was begun and is still pending belongs
\* to the group's present approval: a revocation retires every begun request, and
\* nothing begun under an earlier approval is carried on under a later one.
BegunUnderAuthority ==
  \A r \in Requests :
    pun[r].status = "pending" =>
      /\ pun[r].row => pun[r].version = group.epoch
      /\ pun[r].started => group.approved

\* Verification waits for punishments: no call is made for a session while a
\* punishment of the member is on record and not carried out.
VerificationWaits ==
  (holder.op \in {"join", "finish"} /\ Head(holder.todo) # "read") => ~TakenOver

\* A session that is over without failing leaves no mute of its own behind:
\* verified, cancelled and blocked members are not silenced by it.
NoOrphanMute ==
  \A s \in Sessions :
    (tg.rights = "muted" /\ BySession(s)) =>
      ses[s].status \notin {"verified", "cancelled", "blocked"}

\* A session that is over keeps the member banned only if it decided on a ban: the
\* ban half of a kick never outlives its session.
NoOrphanBan ==
  \A s \in Sessions :
    (tg.rights = "banned" /\ BySession(s) /\ ses[s].status \in Terminal) =>
      ses[s].status = "blocked" \/ (ses[s].status = "expired" /\ FailAction[s] = "ban")

\* A session that ran out with "kick" has lifted its ban, although calls fail, the
\* process dies between the two halves and the member's presence changes.
KickIsLifted ==
  \A s \in Sessions :
    (tg.rights = "banned" /\ BySession(s) /\ FailAction[s] = "kick") =>
      ses[s].status # "expired"

\* Only what did nothing fails for good: a failed request has nothing in force,
\* or a release is due for it, or Telegram ends its timed mute on its own.
FailedLeavesNothing ==
  \A r \in Requests :
    (pun[r].status = "failed" /\ tg.rights # "free" /\ ByRequest(r)) =>
      pun[r].release # "no" \/ pun[r].elapsed

\* Rights a retired or revoked request set are lifted, or will be: unless the
\* request was completed, or newer work on the member is under way.
RevokedIsLifted ==
  \A r \in Requests :
    (/\ pun[r].status = "skipped" /\ ~pun[r].acted
     /\ tg.rights # "free" /\ ByRequest(r) /\ Action[r] \in Restricting)
      => \/ pun[r].release # "no"
         \/ \E q \in Requests : Earlier(r, q) /\ pun[q].status = "pending"
         \/ \E s \in Sessions : ses[s].status \in Active

\* An old request never undoes a newer decision of an administrator: no call is
\* made for it once a newer manual request is done.  (Blacklist bans are exempt.)
OldRequestYields ==
  (/\ holder.op = "punish" /\ Head(holder.todo) \in EffectSteps
   /\ Source[holder.id] # "blacklist") =>
    \A q \in Requests : ~(/\ Source[q] = "manual" /\ pun[q].status = "done"
                         /\ pun[holder.id].created < pun[q].created)

\* Sessions only move forward, and what is over stays over.
SessionsMoveOn ==
  [][\A s \in Sessions :
       /\ ses[s].status \in Terminal => ses'[s].status = ses[s].status
       /\ ses'[s].status \in {"verified", "blocked", "left"} =>
            ses[s].status = ses'[s].status \/ ses[s].status = "completing"
       /\ ses[s].status = "releasing" => ses'[s].status \in {"releasing", "cancelled"}]_vars

\* Every session is over at last, whatever fails on the way.
SessionsSettle ==
  \A s \in Sessions : (ses[s].status \in Active) ~> (ses[s].status \in Terminal)

\* Whatever is due to be lifted is, at last.
ReleasesSettle == \A r \in Requests : DueRelease(r) ~> (pun[r].release = "no")

=============================================================================
