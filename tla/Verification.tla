------------------------------- MODULE Verification -------------------------------
(***************************************************************************)
(* Join verification of one member (service/verification.go,               *)
(* store/verification.go, service/kick.go): the join handler creates a     *)
(* session and mutes the member, the answer or the clock moves it on, and  *)
(* finishVerification, run by the answer or by the recovery sweep under    *)
(* the member lock, brings Telegram and the row to the end it decided on.  *)
(* Prompts, private messages, the welcome and notice_done are left out;    *)
(* so is self-verification.                                                *)
(***************************************************************************)
EXTENDS GroupMember

-----------------------------------------------------------------------------
(* Joining.                                                                *)

JoinCall == [op |-> "join", id |-> 0]
JoinUnderWay == JoinCall \in calls \/ holder.op = "join"

Handling(event) == joined.events # <<>> /\ Head(joined.events) = event

\* Join as far as its lock: authorization, Store.Join, Protected, the settings.
\* There is nothing more to do in a group without authorization or without
\* verification, nor for a protected member; the blacklisted member is a request
\* with Source "blacklist".
JoinChecked ==
  /\ Handling("join") /\ ~JoinUnderWay
  /\ LET kept == [joined EXCEPT !.verified = @ /\ ~joined.left, !.left = FALSE] IN
     IF ~group.approved
       THEN joined' = [joined EXCEPT !.events = Tail(@)] /\ UNCHANGED calls
       ELSE \E protected \in Protections :
         IF protected \/ ~group.verifying
           THEN joined' = [kept EXCEPT !.events = Tail(@)] /\ UNCHANGED calls
           ELSE joined' = kept /\ calls' = calls \cup {JoinCall}
  /\ UNCHANGED <<group, tg, cause, ses, pun, holder, clock, faults, revokes>>

JoinProceeds == ~TakenOver /\ ~joined.verified

ActiveSessions == {s \in Sessions : ses[s].status \in Active}

\* ActiveVerification: the newest one.
Newest(s) == s \in ActiveSessions /\ \A t \in ActiveSessions : ses[t].created <= ses[s].created

Fresh(s) == ses[s].status = "none" /\ \A t \in Sessions : t < s => ses[t].status # "none"

JoinMuting(s) == [Free EXCEPT !.op = "join", !.id = s, !.todo = <<"restrict">>]

JoinReturns == joined' = [joined EXCEPT !.events = Tail(@)]

\* Join under the lock, as far as Restrict: the member already verified, the
\* pending punishment (an error, the update is retried), the session reused or
\* created.  The row is written before Telegram is called.
JoinLocked ==
  /\ JoinCall \in calls /\ LockFree
  /\ calls' = calls \ {JoinCall}
  /\ \/ /\ ~JoinProceeds
        /\ IF TakenOver THEN UNCHANGED joined ELSE JoinReturns
        /\ UNCHANGED <<ses, holder, clock>>
     \/ /\ JoinProceeds /\ ActiveSessions = {}
        /\ \E s \in Sessions :
             /\ Fresh(s)
             /\ ses' = [ses EXCEPT ![s] =
                          [NoSession EXCEPT !.status = "pending", !.created = clock]]
             /\ holder' = JoinMuting(s)
        /\ clock' = clock + 1
        /\ UNCHANGED joined
     \/ /\ JoinProceeds
        /\ \E s \in Sessions :
             /\ Newest(s)
             /\ IF ses[s].status = "pending"
                  THEN holder' = JoinMuting(s) /\ UNCHANGED joined
                  ELSE JoinReturns /\ UNCHANGED holder
        /\ UNCHANGED <<ses, clock>>
  /\ UNCHANGED <<group, tg, cause, pun, faults, revokes>>

\* The rest of Join, the prompt and the cache, may fail after Restrict did not;
\* the update is then retried.
JoinMutes ==
  /\ Doing("join", "restrict")
  /\ holder' = Free
  /\ \/ /\ Restricted /\ JoinReturns /\ UNCHANGED faults
     \/ Refused("restrict") \/ Lost("restrict")
  /\ UNCHANGED <<group, ses, pun, calls, clock, revokes>>

\* Store.Leave.
Left ==
  /\ Handling("leave")
  /\ joined' = [joined EXCEPT !.left = TRUE, !.events = Tail(@)]
  /\ UNCHANGED <<group, tg, cause, ses, pun, holder, calls, clock, faults, revokes>>

-----------------------------------------------------------------------------
(* Answers and time limits.                                                *)

Finishing(s, status) ==
  [Free EXCEPT !.op = "finish", !.id = s, !.todo = <<"read">>,
               !.status = status, !.kick = ses[s].kickStarted]

\* Answer with the right answer, in the hands of AnswerVerification, which goes
\* on to finishVerification under the same lock.
AnsweredRight(s) ==
  /\ LockFree /\ ~TakenOver
  /\ ses[s].status = "pending" /\ ~ses[s].lapsed /\ ses[s].tries < MaxTries
  /\ ses' = [ses EXCEPT ![s].status = "completing"]
  /\ holder' = Finishing(s, "completing")
  /\ UNCHANGED <<group, tg, cause, joined, pun, calls, clock, faults, revokes>>

\* The last wrong answer ends the session's time at once.
AnsweredWrong(s) ==
  /\ LockFree /\ ~TakenOver
  /\ ses[s].status = "pending" /\ ~ses[s].lapsed /\ ses[s].tries < MaxTries
  /\ ses' = [ses EXCEPT ![s].tries = @ + 1, ![s].lapsed = ses[s].tries + 1 >= MaxTries]
  /\ UNCHANGED <<group, tg, cause, joined, pun, holder, calls, clock, faults, revokes>>

Lapses(s) ==
  /\ ses[s].status = "pending" /\ ~ses[s].lapsed
  /\ ses' = [ses EXCEPT ![s].lapsed = TRUE]
  /\ UNCHANGED <<group, tg, cause, joined, pun, holder, calls, clock, faults, revokes>>

\* The first statement of DueVerifications takes no lock of a member.
Expires ==
  /\ \E s \in Sessions : ses[s].status = "pending" /\ ses[s].lapsed
  /\ ses' = [s \in Sessions |->
               IF ses[s].lapsed THEN SessionsTo("expiring", {"pending"}, ses[s]) ELSE ses[s]]
  /\ UNCHANGED <<group, tg, cause, joined, pun, holder, calls, clock, faults, revokes>>

-----------------------------------------------------------------------------
(* finishVerification.                                                     *)

\* Mutant: the sweep does not select released sessions.
FinishStartsNotReleased(s) ==
  /\ LockFree
  /\ ses[s].status \in {"completing", "expiring"}
  /\ holder' = Finishing(s, ses[s].status)
  /\ UNCHANGED <<group, tg, cause, joined, ses, pun, calls, clock, faults, revokes>>

\* SweepVerification, and an answer that comes to a completing session: take the
\* lock, read the row again.
FinishStarts(s) ==
  /\ LockFree
  /\ ses[s].status \in Active \ {"pending"}
  /\ holder' = Finishing(s, ses[s].status)
  /\ UNCHANGED <<group, tg, cause, joined, ses, pun, calls, clock, faults, revokes>>

FailsBy(action) == FailAction[holder.id] = action

KickDue == holder.kick /\ FailsBy("kick")

When(condition, step) == IF condition THEN <<step>> ELSE <<>>

\* Mutant: only an expired session gives the member back the right to speak.
CancelledPlanNoRestore == When(KickDue, "unban")
\* The group lost its authorization or its verification.
CancelledPlan == When(tg.rights = "muted", "restore") \o When(KickDue, "unban")

\* Mutant: the member is banned, and nothing remembers to lift it.
ExpiredPlanForgets ==
  CASE FailsBy("kick") /\ tg.present -> <<"ban", "unban">>
    [] ~tg.present /\ KickDue -> <<"unban">>
    [] FailsBy("ban") /\ tg.present -> <<"ban">>
    [] OTHER -> <<>>

\* The session ran out of time, for a member who is not protected.
ExpiredPlan ==
  CASE FailsBy("kick") /\ tg.present -> <<"begin", "ban", "unban">>
    [] ~tg.present /\ KickDue -> <<"unban">>
    [] FailsBy("ban") /\ tg.present -> <<"ban">>
    [] OTHER -> <<>>

\* An administrator, blacklisted or not, is verified without a call.  Telegram
\* keeps no administrator restricted, and Protected says yes of each.
AdminPlan ==
  IF TRUE \in Protections /\ tg.rights = "free"
    THEN {[steps |-> <<>>, outcome |-> "verified"]} ELSE {}

\* The steps finishVerification decides on, and the status they will end in.
\* A protected member is one Protected says so of, administrators included.
Plans ==
  IF ~group.approved \/ ~group.verifying \/ holder.status = "releasing"
    THEN {[steps |-> CancelledPlan, outcome |-> "cancelled"]}
  ELSE IF holder.status = "completing"
    THEN IF ~tg.present THEN {[steps |-> <<>>, outcome |-> "left"]}
         ELSE {IF black THEN [steps |-> <<"ban">>, outcome |-> "blocked"]
                        ELSE [steps |-> <<"restore">>, outcome |-> "verified"]
               : black \in Listings} \cup AdminPlan
  ELSE {IF ~protected THEN [steps |-> ExpiredPlan, outcome |-> "expired"]
        ELSE IF tg.rights = "muted" THEN [steps |-> <<"restore">>, outcome |-> "cancelled"]
        ELSE [steps |-> <<>>, outcome |-> "expired"]
        : protected \in Protections}

\* Mutant: finishVerification does not look for a punishment under way.
FinishReadsBlindly ==
  /\ Doing("finish", "read")
  /\ \E plan \in Plans :
       holder' = [holder EXCEPT !.todo = plan.steps \o <<"settle">>,
                                !.outcome = plan.outcome]
  /\ UNCHANGED <<group, tg, cause, joined, ses, pun, calls, clock, faults, revokes>>

\* The reads of finishVerification.  A punishment under way makes it give up,
\* to be tried again by the sweep.
FinishReads ==
  /\ Doing("finish", "read")
  /\ \/ TakenOver /\ holder' = Free
     \/ /\ ~TakenOver
        /\ \E plan \in Plans :
             holder' = [holder EXCEPT !.todo = plan.steps \o <<"settle">>,
                                      !.outcome = plan.outcome]
  /\ UNCHANGED <<group, tg, cause, joined, ses, pun, calls, clock, faults, revokes>>

\* BeginVerificationKick: writes nothing when the session has been released
\* since it was read, and does not say so.
BeginKick ==
  /\ Doing("finish", "begin")
  /\ ses' = [ses EXCEPT ![holder.id].kickStarted = @ \/ ses[holder.id].status = "expiring"]
  /\ holder' = [Advanced(holder) EXCEPT !.kick = TRUE]
  /\ UNCHANGED <<group, tg, cause, joined, pun, calls, clock, faults, revokes>>

\* Restore, Ban and releaseKick of a session.  releaseKick reads the member
\* back, so that a lost or still invisible unban is a failure too.
FinishCalls(step) ==
  /\ step \in {"restore", "ban", "unban"} /\ Doing("finish", step)
  /\ \/ Effect(step) /\ holder' = Advanced(holder) /\ UNCHANGED faults
     \/ (Refused(step) \/ Lost(step)) /\ holder' = Free
  /\ UNCHANGED <<group, ses, pun, calls, clock, revokes>>

\* Mutant: the status is written whatever the row says.
SettlesAlways(s) == TRUE
\* FinishVerification writes only over the status its caller read.
Settles(s) == ses[s].status = holder.status

Settle ==
  /\ Doing("finish", "settle")
  /\ LET s == holder.id IN
     IF Settles(s)
       THEN /\ ses' = [ses EXCEPT ![s].status = holder.outcome]
            /\ joined' = [joined EXCEPT !.verified = @ \/ holder.outcome = "verified"]
       ELSE UNCHANGED <<ses, joined>>
  /\ holder' = Free
  /\ UNCHANGED <<group, tg, cause, pun, calls, clock, faults, revokes>>

=============================================================================
