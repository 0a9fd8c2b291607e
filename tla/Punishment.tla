-------------------------------- MODULE Punishment --------------------------------
(***************************************************************************)
(* Permission actions on one member: mutes, bans, kicks and their undoing, *)
(* asked for by rules, administrators or the blacklist                     *)
(* (service/moderation.go punishLocked, service/recovery.go,               *)
(* store/action_workflow.go, store/takeover.go).  A row records the        *)
(* intent, a second row the progress; the recovery sweep carries pending   *)
(* rows on, and lifts what a timed mute or a revocation left to lift.      *)
(* Warnings, plain deletions and senders that are channels are left out.   *)
(***************************************************************************)
EXTENDS GroupMember

PunishCall(r) == [op |-> "punish", id |-> r]
ReleaseCall(r) == [op |-> "release", id |-> r]

\* Mutant: the comparison of the two rows is the wrong way round.
EarlierSwapped(r, q) == pun[q].created < pun[r].created
\* By the order of the inserts: created_at in NewerManualResolution and
\* NewerPermissionAction, id in CompleteTakeover.
Earlier(r, q) == pun[r].created < pun[q].created

-----------------------------------------------------------------------------
(* Punish, from the update handler or from SweepTakeovers.                 *)

\* SweepTakeovers runs one Punish of a row at a time; an update handler may run
\* another.  Past its authorization check the call goes for the lock.
Requested(r) ==
  /\ pun[r].status \in {"none", "pending"} /\ group.approved
  /\ calls' = calls \cup {PunishCall(r)}
  /\ UNCHANGED <<group, tg, cause, joined, ses, pun, holder, clock, faults, revokes>>

\* The rows PendingTakeovers selects; a row without its workflow is invisible to it
\* and waits for its update to be delivered again.
ToBeRetried(r) == pun[r].status = "pending" /\ (pun[r].row => pun[r].attempts < MaxAttempts)

\* PreparePunishment, first statement: the intent is on record.
PunishStarts(r) ==
  /\ PunishCall(r) \in calls /\ LockFree
  /\ calls' = calls \ {PunishCall(r)}
  /\ IF pun[r].status = "none"
       THEN /\ pun' = [pun EXCEPT ![r].status = "pending", ![r].created = clock]
            /\ clock' = clock + 1
       ELSE UNCHANGED <<pun, clock>>
  /\ holder' = [Free EXCEPT !.op = "punish", !.id = r, !.todo = <<"prepare">>]
  /\ UNCHANGED <<group, tg, cause, joined, ses, faults, revokes>>

\* NewerManualResolution.
NewerManual(r) ==
  \E q \in Requests : Source[q] = "manual" /\ pun[q].status = "done" /\ Earlier(r, q)

\* Blacklist bans are exempt.
Superseded(r) == Source[r] # "blacklist" /\ NewerManual(r)

Step(condition, step) == IF condition THEN <<step>> ELSE <<>>

CallsOf(r, kickBanned) ==
  CASE Action[r] \in {"mute", "hold"} -> <<"restrict">>
    [] Action[r] = "ban"    -> <<"ban">>
    [] Action[r] = "kick"   -> IF kickBanned THEN <<"unban">>
                               ELSE <<"kickban", "markban", "unban">>
    [] Action[r] = "unmute" -> <<"restore">>
    [] Action[r] = "unban"  -> <<"unban">>

\* The steps of punishLocked after its preflight, for the row it read.  A ban
\* deletes its message afterwards, everything else before.
PunishPlan(r, p) ==
  Step(Deletes[r] /\ Action[r] # "ban" /\ ~p.deleted, "delete")
  \o (IF p.acted THEN <<>> ELSE <<"start">> \o CallsOf(r, p.kickBanned) \o <<"complete">>)
  \o Step(Deletes[r] /\ Action[r] = "ban" /\ ~p.deleted, "delete")
  \o <<"done">>

\* PreparePunishment, second statement and read, then the preflight: Telegram
\* is asked for the member, a protected one is spared, an old request yields to
\* a newer decision of an administrator.
Prepares ==
  /\ Doing("punish", "prepare")
  /\ LET r == holder.id
         p == IF pun[r].row THEN pun[r]
              ELSE [pun[r] EXCEPT !.row = TRUE, !.version = group.epoch] IN
     IF p.status # "pending"
       THEN holder' = Free /\ pun' = [pun EXCEPT ![r] = p]
       ELSE \/ /\ Superseded(r) \/ (TRUE \in Protections /\ Action[r] \in Restricting)
               /\ pun' = [pun EXCEPT ![r] = [p EXCEPT !.status = "skipped"]]
               /\ holder' = Free
            \/ /\ ~Superseded(r)
               /\ FALSE \in Protections \/ Action[r] \notin Restricting
               /\ pun' = [pun EXCEPT ![r] = p]
               /\ holder' = [holder EXCEPT !.todo = PunishPlan(r, p),
                                           !.acted = p.acted \/ p.deleted \/ p.started]
  /\ UNCHANGED <<group, tg, cause, joined, ses, calls, clock, faults, revokes>>

-----------------------------------------------------------------------------
(* Carrying a punishment out.                                              *)

\* Mutant: an uncertain earlier effect does not keep the row.
RejectedAlways(p) ==
  IF p.status = "pending"
    THEN [p EXCEPT !.status = "failed", !.release = "no", !.started = FALSE] ELSE p

\* RejectPunishment: nothing was done and Telegram will not have it.
Rejected(p) ==
  IF p.status = "pending" /\ ~holder.acted
    THEN [p EXCEPT !.status = "failed", !.release = "no", !.started = FALSE] ELSE p

\* RetryPunishment; attempts are counted no further than they are compared.
Retried(p) == [p EXCEPT !.attempts = IF @ < MaxAttempts THEN @ + 1 ELSE @]

\* The deferred handler of punishLocked, when it returns an error.
PunishFails == pun' = [pun EXCEPT ![holder.id] = Retried(@)] /\ holder' = Free
PunishRefused == pun' = [pun EXCEPT ![holder.id] = Retried(Rejected(@))] /\ holder' = Free

\* The plan of the mute ran out: FailPunishment, then an error.
PlanOver(r) == Timed(r) /\ pun[r].elapsed
Overdue(p) == IF p.status = "pending" THEN [p EXCEPT !.status = "failed"] ELSE p
\* Mutant: the row of a mute that came too late is left as it is.
PunishTooLateKept == PunishFails
PunishTooLate == pun' = [pun EXCEPT ![holder.id] = Retried(Overdue(@))] /\ holder' = Free

DeletesMessage ==
  /\ Doing("punish", "delete")
  /\ LET r == holder.id IN
     \/ /\ pun' = [pun EXCEPT ![r].deleted = @ \/ pun[r].status = "pending"]
        /\ holder' = [Advanced(holder) EXCEPT !.acted = TRUE]
        /\ UNCHANGED faults
     \/ Fault /\ (PunishRefused \/ PunishFails)
  /\ UNCHANGED <<group, tg, cause, joined, ses, calls, clock, revokes>>

\* The rows StartPermission and CompleteTakeover lock and compare.
MayStart(r) ==
  group.approved /\ pun[r].status = "pending" /\ pun[r].version = group.epoch

\* StartPermission: the intent to act, and for a timed mute the duty to lift it,
\* are committed before Telegram is called.
StartsPermission ==
  /\ Doing("punish", "start")
  /\ LET r == holder.id IN
     IF PlanOver(r) /\ ~pun[r].started THEN PunishTooLate
     ELSE IF ~MayStart(r) THEN PunishFails
     ELSE /\ pun' = [pun EXCEPT ![r].started = TRUE,
                                ![r].release = IF Timed(r) THEN "timed" ELSE @]
          /\ holder' = Advanced(holder)
  /\ UNCHANGED <<group, tg, cause, joined, ses, calls, clock, faults, revokes>>

\* The Telegram calls of the action; releaseKick reads the member back.
PunishCalls(step) ==
  /\ step \in EffectSteps /\ Doing("punish", step)
  /\ IF step = "restrict" /\ PlanOver(holder.id)
       THEN PunishTooLate /\ NoEffect /\ UNCHANGED faults
       ELSE \/ /\ Effect(step)
               /\ holder' = [Advanced(holder) EXCEPT !.acted = TRUE]
               /\ UNCHANGED <<pun, faults>>
            \/ Refused(step) /\ PunishRefused
            \/ Lost(step) /\ PunishFails
  /\ UNCHANGED <<group, ses, calls, clock, revokes>>

MarksKickBanned ==
  /\ Doing("punish", "markban")
  /\ pun' = [pun EXCEPT ![holder.id].kickBanned = TRUE]
  /\ holder' = Advanced(holder)
  /\ UNCHANGED <<group, tg, cause, joined, ses, calls, clock, faults, revokes>>

\* CompleteTakeover: authority is checked again, the sessions of the member are
\* over (not for an unban), an administrator's action retires older requests.
CompletesTakeover ==
  /\ Doing("punish", "complete")
  /\ LET r == holder.id IN
     IF ~MayStart(r) THEN PunishFails /\ UNCHANGED ses
     ELSE /\ ses' = IF Action[r] = "unban" THEN ses
                    ELSE [s \in Sessions |-> SessionsTo("cancelled", Active, ses[s])]
          /\ pun' = [q \in Requests |->
               CASE q = r -> [pun[q] EXCEPT !.acted = TRUE]
                 [] /\ q # r /\ Source[r] = "manual"
                    /\ Earlier(q, r) /\ pun[q].status = "pending"
                    -> [pun[q] EXCEPT !.status = "skipped"]
                 [] OTHER -> pun[q]]
          /\ holder' = Advanced(holder)
  /\ UNCHANGED <<group, tg, cause, joined, calls, clock, faults, revokes>>

\* The notice is sent, then PunishmentStep(done).
PunishDone ==
  /\ Doing("punish", "done")
  /\ \/ /\ pun' = [pun EXCEPT ![holder.id].status = IF @ = "pending" THEN "done" ELSE @]
        /\ holder' = Free
        /\ UNCHANGED faults
     \/ Fault /\ PunishFails
  /\ UNCHANGED <<group, tg, cause, joined, ses, calls, clock, revokes>>

-----------------------------------------------------------------------------
(* Lifting: sweepPermissionReleases.                                       *)

DueRelease(r) == pun[r].release = "now" \/ (pun[r].release = "timed" /\ pun[r].elapsed)

\* The list is read before the lock is asked for, and not read again.
ReleaseListed(r) ==
  /\ DueRelease(r)
  /\ calls' = calls \cup {ReleaseCall(r)}
  /\ UNCHANGED <<group, tg, cause, joined, ses, pun, holder, clock, faults, revokes>>

\* NewerPermissionAction: a newer request that was begun, or a newer session.
NewerWork(r) ==
  \/ \E q \in Requests : Earlier(r, q) /\ pun[q].started /\ pun[q].status # "failed"
  \/ \E s \in Sessions : ses[s].created > pun[r].created /\ ses[s].status \in Active

Lift(r) == IF Action[r] \in {"mute", "hold"} THEN "restore" ELSE "unban"

ReleaseStarts(r) ==
  /\ ReleaseCall(r) \in calls /\ LockFree
  /\ calls' = calls \ {ReleaseCall(r)}
  /\ holder' = [Free EXCEPT !.op = "release", !.id = r,
                            !.todo = Step(~NewerWork(r), Lift(r)) \o <<"drop">>,
                            !.released = ~NewerWork(r)]
  /\ UNCHANGED <<group, tg, cause, joined, ses, pun, clock, faults, revokes>>

ReleaseCalls(step) ==
  /\ step \in {"restore", "unban"} /\ Doing("release", step)
  /\ \/ Effect(step) /\ holder' = Advanced(holder) /\ UNCHANGED faults
     \/ (Refused(step) \/ Lost(step)) /\ holder' = Free
  /\ UNCHANGED <<group, ses, pun, calls, clock, revokes>>

\* Mutant: release_needed is not cleared.
DropsNothing ==
  /\ Doing("release", "drop")
  /\ holder' = Free
  /\ UNCHANGED <<group, tg, cause, joined, ses, pun, calls, clock, faults, revokes>>

\* FinishPermissionRelease: sessions no newer than the request are over with it.
Drops ==
  /\ Doing("release", "drop")
  /\ LET r == holder.id IN
     /\ pun' = [pun EXCEPT ![r].release = "no"]
     /\ ses' = [s \in Sessions |->
                  IF holder.released /\ ses[s].created <= pun[r].created
                    THEN SessionsTo("cancelled", Active, ses[s]) ELSE ses[s]]
  /\ holder' = Free
  /\ UNCHANGED <<group, tg, cause, joined, calls, clock, faults, revokes>>

=============================================================================
