------------------------------- MODULE MemberProofs -------------------------------
(***************************************************************************)
(* Theorems about MemberWorkflow for every set of sessions and requests,   *)
(* every setting and every bound.                                          *)
(***************************************************************************)
EXTENDS MemberWorkflow, SequenceTheorems, TLAPS

-----------------------------------------------------------------------------
(* The operators the actions are built from.                               *)

(* The holder's next state is a holder, which has something left to do.    *)
LEMMA AdvancedType ==
  ASSUME NEW h \in Holder, h.todo # <<>>
  PROVE  /\ Advanced(h) \in Holder
         /\ Advanced(h).op # "none" =>
              /\ Advanced(h).todo # <<>>
              /\ Advanced(h) = [h EXCEPT !.todo = Tail(h.todo)]
<1>1. CASE Len(h.todo) = 1
  BY <1>1 DEF Advanced, Free, Holder
<1>2. CASE Len(h.todo) # 1
  <2>1. h.todo \in Seq(Steps)
    BY DEF Holder
  <2>2. Tail(h.todo) \in Seq(Steps) /\ Tail(h.todo) # <<>>
    <3>1. /\ Tail(h.todo) \in Seq(Steps)
          /\ Len(h.todo) \in Nat \ {0} /\ Len(Tail(h.todo)) = Len(h.todo) - 1
      BY <2>1, HeadTailProperties, EmptySeq
    <3>2. Len(Tail(h.todo)) # 0 /\ Len(<<>>) = 0
      BY <1>2, <3>1, EmptySeq
    <3>. QED BY <3>1, <3>2
  <2>3. Advanced(h) = [h EXCEPT !.todo = Tail(h.todo)]
    BY <1>2 DEF Advanced
  <2>. QED BY <2>2, <2>3 DEF Holder
<1>. QED BY <1>1, <1>2

(* A Telegram call leaves rights, cause and the waiting updates typed.     *)
LEMMA EffectType ==
  ASSUME TypeOK, NEW step \in EffectSteps, Effect(step) \/ NoEffect
  PROVE  /\ tg' \in [rights : {"free", "muted", "banned"}, present : BOOLEAN]
         /\ cause' \in Owners
         /\ joined' \in [verified : BOOLEAN, left : BOOLEAN,
                         events : Seq({"join", "leave"})]
<1> USE DEF TypeOK, MemberTypeOK, LockTypeOK
<1>1. Owner \in Owners /\ Nobody \in Owners
  BY DEF Owner, Owners, Nobody, Holder
<1>2. CASE NoEffect
  BY <1>2 DEF NoEffect
<1>3. CASE Restricted /\ UNCHANGED joined
  BY <1>1, <1>3 DEF Restricted
<1>4. CASE Restored /\ UNCHANGED joined
  BY <1>1, <1>4 DEF Restored
<1>5. CASE Unbanned /\ UNCHANGED joined
  BY <1>1, <1>5 DEF Unbanned, Restored
<1>6. CASE Banned
  <2>1. Append(joined.events, "leave") \in Seq({"join", "leave"})
    OBVIOUS
  <2>2. joined' \in [verified : BOOLEAN, left : BOOLEAN, events : Seq({"join", "leave"})]
    BY <1>6, <2>1 DEF Banned, Expect
  <2>. QED BY <1>1, <1>6, <2>2 DEF Banned
<1>. QED BY <1>2, <1>3, <1>4, <1>5, <1>6 DEF Effect, EffectSteps

(* The bounds on failures and revocations hold by their guards.            *)
LEMMA FaultBudget ==
  ASSUME BoundsOK, Fault \/ UNCHANGED faults, UNCHANGED revokes
  PROVE  BoundsOK'
BY MemberAssumption DEF Fault, BoundsOK

(* What the handlers of a punishment write over its row is a row.          *)
LEMMA RowUpdateType ==
  ASSUME NEW p \in PunishmentRow
  PROVE  /\ \A status \in {"pending", "done", "skipped", "failed"} :
              [p EXCEPT !.status = status] \in PunishmentRow
         /\ \A b \in BOOLEAN : [p EXCEPT !.deleted = b] \in PunishmentRow
         /\ [p EXCEPT !.acted = TRUE] \in PunishmentRow
         /\ [p EXCEPT !.kickBanned = TRUE] \in PunishmentRow
         /\ [p EXCEPT !.elapsed = TRUE] \in PunishmentRow
         /\ [p EXCEPT !.release = "no"] \in PunishmentRow
         /\ \A release \in {"no", "timed", "now"} :
              [p EXCEPT !.started = TRUE, !.release = release] \in PunishmentRow
         /\ \A n \in Nat :
              /\ [p EXCEPT !.row = TRUE, !.version = n] \in PunishmentRow
              /\ [p EXCEPT !.status = "pending", !.created = n] \in PunishmentRow
         /\ Retried(p) \in PunishmentRow
         /\ Rejected(p) \in PunishmentRow
         /\ Overdue(p) \in PunishmentRow
         /\ \A restricting : RevokedRow(p, restricting) \in PunishmentRow
<1>1. \A status \in {"pending", "done", "skipped", "failed"} :
        [p EXCEPT !.status = status] \in PunishmentRow
  BY DEF PunishmentRow
<1>2. \A b \in BOOLEAN : [p EXCEPT !.deleted = b] \in PunishmentRow
  BY DEF PunishmentRow
<1>3. /\ [p EXCEPT !.acted = TRUE] \in PunishmentRow
      /\ [p EXCEPT !.kickBanned = TRUE] \in PunishmentRow
      /\ [p EXCEPT !.elapsed = TRUE] \in PunishmentRow
      /\ [p EXCEPT !.release = "no"] \in PunishmentRow
  BY DEF PunishmentRow
<1>4. \A release \in {"no", "timed", "now"} :
        [p EXCEPT !.started = TRUE, !.release = release] \in PunishmentRow
  BY DEF PunishmentRow
<1>5. \A n \in Nat :
        /\ [p EXCEPT !.row = TRUE, !.version = n] \in PunishmentRow
        /\ [p EXCEPT !.status = "pending", !.created = n] \in PunishmentRow
  BY DEF PunishmentRow
<1>6. Retried(p) \in PunishmentRow
  BY MemberAssumption DEF Retried, PunishmentRow
<1>7. Rejected(p) \in PunishmentRow
  BY DEF Rejected, PunishmentRow
<1>9. Overdue(p) \in PunishmentRow
  BY DEF Overdue, PunishmentRow
<1>8. ASSUME NEW restricting PROVE RevokedRow(p, restricting) \in PunishmentRow
  BY DEF RevokedRow, PunishmentRow
<1>. QED BY <1>1, <1>2, <1>3, <1>4, <1>5, <1>6, <1>7, <1>8, <1>9

(* What verification writes over a session's row is a row.                 *)
LEMMA SessionUpdateType ==
  ASSUME NEW s \in SessionRow
  PROVE  /\ \A status \in {"none"} \cup Active \cup Terminal :
              [s EXCEPT !.status = status] \in SessionRow
         /\ \A b \in BOOLEAN : [s EXCEPT !.kickStarted = b] \in SessionRow
         /\ [s EXCEPT !.lapsed = TRUE] \in SessionRow
         /\ s.tries + 1 \in Nat
         /\ \A n \in Nat :
              [s EXCEPT !.tries = n, !.lapsed = n >= MaxTries] \in SessionRow
<1>1. \A status \in {"none"} \cup Active \cup Terminal :
        [s EXCEPT !.status = status] \in SessionRow
  BY DEF SessionRow
<1>2. \A b \in BOOLEAN : [s EXCEPT !.kickStarted = b] \in SessionRow
  BY DEF SessionRow
<1>3. [s EXCEPT !.lapsed = TRUE] \in SessionRow
  BY DEF SessionRow
<1>4. s.tries + 1 \in Nat
  BY DEF SessionRow
<1>5. \A n \in Nat :
              [s EXCEPT !.tries = n, !.lapsed = n >= MaxTries] \in SessionRow
  <2>1. \A n \in Nat, b \in BOOLEAN : [s EXCEPT !.tries = n, !.lapsed = b] \in SessionRow
    BY DEF SessionRow
  <2>2. \A n \in Nat : (n >= MaxTries) \in BOOLEAN
    BY MemberAssumption
  <2>. QED BY <2>1, <2>2, Zenon
<1>. QED BY <1>1, <1>2, <1>3, <1>4, <1>5

LEMMA SessionsToType ==
  ASSUME NEW s \in SessionRow, NEW from,
         NEW status \in {"none"} \cup Active \cup Terminal
  PROVE  SessionsTo(status, from, s) \in SessionRow
BY DEF SessionsTo, SessionRow

(* finishVerification plans steps that exist and ends with one.            *)
LEMMA PlansType ==
  ASSUME NEW plan \in Plans
  PROVE  /\ plan.steps \o <<"settle">> \in Seq(Steps)
         /\ plan.steps \o <<"settle">> # <<>>
         /\ plan.outcome \in Terminal
<1>1. \A c, s : s \in Steps => When(c, s) \in Seq(Steps)
  BY DEF When
<1>2. CancelledPlan \in Seq(Steps)
  <2>1. /\ When(tg.rights = "muted", "restore") \in Seq(Steps)
        /\ When(KickDue, "unban") \in Seq(Steps)
    BY <1>1 DEF Steps
  <2>. QED BY <2>1 DEF CancelledPlan
<1>3. ExpiredPlan \in Seq(Steps)
  <2>1. /\ <<"begin", "ban", "unban">> \in Seq(Steps) /\ <<"unban">> \in Seq(Steps)
        /\ <<"ban">> \in Seq(Steps) /\ <<>> \in Seq(Steps)
    BY DEF Steps
  <2>. QED BY <2>1 DEF ExpiredPlan
<1>4. plan.steps \in Seq(Steps) /\ plan.outcome \in Terminal
  <2>1. /\ <<"ban">> \in Seq(Steps) /\ <<"restore">> \in Seq(Steps)
        /\ <<>> \in Seq(Steps)
    BY DEF Steps
  <2>2. CASE ~group.approved \/ ~group.verifying \/ holder.status = "releasing"
    <3>1. plan = [steps |-> CancelledPlan, outcome |-> "cancelled"]
      BY <2>2 DEF Plans
    <3>. QED BY <1>2, <3>1 DEF Terminal
  <2>3. CASE /\ ~(~group.approved \/ ~group.verifying \/ holder.status = "releasing")
             /\ holder.status = "completing"
    <3>1. \/ plan = [steps |-> <<>>, outcome |-> "left"]
          \/ plan = [steps |-> <<"ban">>, outcome |-> "blocked"]
          \/ plan = [steps |-> <<"restore">>, outcome |-> "verified"]
          \/ plan = [steps |-> <<>>, outcome |-> "verified"]
      BY <2>3 DEF Plans, AdminPlan
    <3>2. CASE plan = [steps |-> <<>>, outcome |-> "left"]
      BY <2>1, <3>2 DEF Terminal
    <3>3. CASE plan = [steps |-> <<"ban">>, outcome |-> "blocked"]
      BY <2>1, <3>3 DEF Terminal
    <3>4. CASE plan = [steps |-> <<"restore">>, outcome |-> "verified"]
      BY <2>1, <3>4 DEF Terminal
    <3>5. CASE plan = [steps |-> <<>>, outcome |-> "verified"]
      BY <2>1, <3>5 DEF Terminal
    <3>. QED BY <3>1, <3>2, <3>3, <3>4, <3>5
  <2>4. CASE /\ ~(~group.approved \/ ~group.verifying \/ holder.status = "releasing")
             /\ holder.status # "completing"
    <3>1. \/ plan = [steps |-> ExpiredPlan, outcome |-> "expired"]
          \/ plan = [steps |-> <<"restore">>, outcome |-> "cancelled"]
          \/ plan = [steps |-> <<>>, outcome |-> "expired"]
      BY <2>4 DEF Plans
    <3>2. CASE plan = [steps |-> ExpiredPlan, outcome |-> "expired"]
      BY <1>3, <3>2 DEF Terminal
    <3>3. CASE plan = [steps |-> <<"restore">>, outcome |-> "cancelled"]
      BY <2>1, <3>3 DEF Terminal
    <3>4. CASE plan = [steps |-> <<>>, outcome |-> "expired"]
      BY <2>1, <3>4 DEF Terminal
    <3>. QED BY <3>1, <3>2, <3>3, <3>4
  <2>. QED BY <2>2, <2>3, <2>4
<1>5. <<"settle">> \in Seq(Steps)
  BY DEF Steps
<1>6. \A t \in Seq(Steps) : t \o <<"settle">> \in Seq(Steps) /\ t \o <<"settle">> # <<>>
  BY <1>5
<1>. QED BY <1>4, <1>6

(* punishLocked plans steps that exist and ends with one.                  *)
LEMMA PunishPlanType ==
  ASSUME NEW r \in Requests, NEW p
  PROVE  PunishPlan(r, p) \in Seq(Steps) /\ PunishPlan(r, p) # <<>>
<1>1. \A c, s : s \in Steps => Step(c, s) \in Seq(Steps)
  BY DEF Step
<1>2. CallsOf(r, p.kickBanned) \in Seq(Steps)
  <2>1. /\ <<"restrict">> \in Seq(Steps) /\ <<"ban">> \in Seq(Steps)
        /\ <<"unban">> \in Seq(Steps) /\ <<"restore">> \in Seq(Steps)
        /\ <<"kickban", "markban", "unban">> \in Seq(Steps)
    BY DEF Steps
  <2>2. Action[r] \in {"mute", "hold", "ban", "kick", "unmute", "unban"}
    BY MemberAssumption DEF Actions, Restricting
  <2>. QED BY <2>1, <2>2 DEF CallsOf
<1>3. /\ <<"start">> \in Seq(Steps) /\ <<"complete">> \in Seq(Steps)
      /\ <<"done">> \in Seq(Steps) /\ <<>> \in Seq(Steps)
  BY DEF Steps
<1> DEFINE before == Step(Deletes[r] /\ Action[r] # "ban" /\ ~p.deleted, "delete")
           act == IF p.acted THEN <<>>
                  ELSE <<"start">> \o CallsOf(r, p.kickBanned) \o <<"complete">>
           after == Step(Deletes[r] /\ Action[r] = "ban" /\ ~p.deleted, "delete")
<1>4. before \in Seq(Steps) /\ after \in Seq(Steps)
  BY <1>1 DEF Steps
<1>5. act \in Seq(Steps)
  BY <1>2, <1>3
<1>6. PunishPlan(r, p) = before \o act \o after \o <<"done">>
  BY DEF PunishPlan
<1> HIDE DEF before, act, after
<1>. QED BY <1>3, <1>4, <1>5, <1>6

-----------------------------------------------------------------------------
(* Type correctness, one group of variables at a time.                     *)

(* A join that is under way is the oldest update about the member, and is  *)
(* under way once: it has an update to acknowledge when it returns.        *)
JoinInv ==
  /\ JoinUnderWay => Handling("join")
  /\ ~(JoinCall \in calls /\ holder.op = "join")

LEMMA ReturnType ==
  ASSUME MemberTypeOK, joined.events # <<>>
  PROVE  /\ Tail(joined.events) \in Seq({"join", "leave"})
         /\ [joined EXCEPT !.events = Tail(@)]
              \in [verified : BOOLEAN, left : BOOLEAN, events : Seq({"join", "leave"})]
<1>1. Tail(joined.events) \in Seq({"join", "leave"})
  BY HeadTailProperties DEF MemberTypeOK
<1>. QED BY <1>1 DEF MemberTypeOK

LEMMA ExpectType ==
  ASSUME MemberTypeOK, NEW event \in {"join", "leave"}, Expect(event)
  PROVE  joined' \in [verified : BOOLEAN, left : BOOLEAN, events : Seq({"join", "leave"})]
<1>1. Append(joined.events, event) \in Seq({"join", "leave"})
  BY DEF MemberTypeOK
<1>. QED BY <1>1 DEF MemberTypeOK, Expect

(* The group, Telegram and the member's updates.                           *)
LEMMA MemberStep ==
  ASSUME TypeOK, JoinInv, [Next]_vars
  PROVE  MemberTypeOK'
<1>0. MemberTypeOK
  BY DEF TypeOK
<1>1. ASSUME UNCHANGED <<group, tg, cause, joined>> PROVE MemberTypeOK'
  BY <1>0, <1>1 DEF MemberTypeOK
<1>2. ASSUME UNCHANGED group, NEW step \in EffectSteps, Effect(step) \/ NoEffect
      PROVE  MemberTypeOK'
  BY <1>0, <1>2, EffectType DEF MemberTypeOK
<1>3. CASE JoinChecked
  BY <1>0, <1>3, ReturnType DEF JoinChecked, Handling, MemberTypeOK
<1>4. CASE JoinLocked
  <2>1. joined' = joined \/ JoinReturns
    BY <1>4 DEF JoinLocked
  <2>2. joined.events # <<>>
    BY <1>4 DEF JoinLocked, JoinInv, JoinUnderWay, Handling
  <2>. QED BY <1>0, <1>4, <2>1, <2>2, ReturnType DEF JoinLocked, JoinReturns, MemberTypeOK
<1>5. CASE JoinMutes
  <2>1. CASE Refused("restrict") \/ Lost("restrict")
    BY <1>2, <1>5, <2>1 DEF JoinMutes, Refused, Lost, EffectSteps
  <2>2. CASE Restricted /\ JoinReturns
    <3>1. joined.events # <<>>
      BY <1>5 DEF JoinMutes, Doing, JoinInv, JoinUnderWay, Handling
    <3>2. Owner \in Owners
      BY DEF TypeOK, LockTypeOK, Holder, Owner, Owners
    <3>. QED BY <1>0, <1>5, <2>2, <3>1, <3>2, ReturnType
             DEF JoinMutes, Restricted, JoinReturns, MemberTypeOK
  <2>. QED BY <1>5, <2>1, <2>2 DEF JoinMutes
<1>6. CASE Left
  BY <1>0, <1>6, ReturnType DEF Left, Handling, MemberTypeOK
<1>7. CASE Settle
  BY <1>0, <1>7 DEF Settle, MemberTypeOK
<1>8. ASSUME NEW step \in EffectSteps,
             FinishCalls(step) \/ PunishCalls(step) \/ ReleaseCalls(step)
      PROVE  MemberTypeOK'
  BY <1>2, <1>8 DEF FinishCalls, PunishCalls, ReleaseCalls, Refused, Lost
<1>9. CASE Joins
  BY <1>0, <1>9, ExpectType DEF Joins, MemberTypeOK
<1>10. CASE Leaves
  BY <1>0, <1>10, ExpectType DEF Leaves, MemberTypeOK
<1>11. ASSUME NEW r \in Requests, TelegramLifts(r) PROVE MemberTypeOK'
  BY <1>0, <1>11 DEF TelegramLifts, Restored, Nobody, Owners, MemberTypeOK
<1>12. CASE GroupNext
  <2>1. CASE Revoked
    <3>1. PICK n \in Nat : n = group.epoch + 1
      BY <1>0 DEF MemberTypeOK
    <3>2. group' = [group EXCEPT !.approved = FALSE, !.epoch = n]
      BY <2>1, <3>1 DEF Revoked
    <3>. QED BY <1>0, <2>1, <3>2 DEF Revoked, MemberTypeOK
  <2>2. CASE Approved
    BY <1>0, <2>2 DEF Approved, MemberTypeOK
  <2>3. CASE VerificationOff
    BY <1>0, <2>3 DEF VerificationOff, MemberTypeOK
  <2>4. CASE VerificationOn
    BY <1>0, <2>4 DEF VerificationOn, MemberTypeOK
  <2>. QED BY <1>12, <2>1, <2>2, <2>3, <2>4 DEF GroupNext
<1>13. CASE Expires \/ FinishReads \/ BeginKick
  BY <1>1, <1>13 DEF Expires, FinishReads, BeginKick
<1>14. CASE \/ Prepares \/ DeletesMessage \/ StartsPermission \/ MarksKickBanned
            \/ CompletesTakeover \/ PunishDone
  BY <1>1, <1>14
     DEF Prepares, DeletesMessage, StartsPermission, MarksKickBanned, CompletesTakeover,
         PunishDone
<1>15. ASSUME NEW r \in Requests, ReleaseListed(r) \/ ReleaseStarts(r)
       PROVE  MemberTypeOK'
  BY <1>1, <1>15 DEF ReleaseListed, ReleaseStarts
<1>16. CASE Drops \/ GivesUp \/ Crash
  BY <1>1, <1>16 DEF Drops, GivesUp, Crash
<1>17. ASSUME NEW c \in calls, Busy(c) PROVE MemberTypeOK'
  BY <1>1, <1>17 DEF Busy
<1>18. ASSUME NEW s \in Sessions, SessionNext(s) PROVE MemberTypeOK'
  BY <1>1, <1>18 DEF SessionNext, AnsweredRight, AnsweredWrong, Lapses, FinishStarts
<1>19. ASSUME NEW r \in Requests, Requested(r) \/ PunishStarts(r) \/ MuteRunsOut(r)
       PROVE  MemberTypeOK'
  BY <1>1, <1>19 DEF Requested, PunishStarts, MuteRunsOut
<1>20. CASE UNCHANGED vars
  BY <1>1, <1>20 DEF vars
<1>. QED
  BY <1>3, <1>4, <1>5, <1>6, <1>7, <1>8, <1>9, <1>10, <1>11, <1>12, <1>13, <1>14,
     <1>15, <1>16, <1>17, <1>18, <1>19, <1>20
     DEF Next, JoinNext, FinishNext, PunishNext, ReleaseNext, OtherNext, RequestNext

(* The rows: sessions, punishments and the stamps they are created with.   *)
LEMMA RowsStep ==
  ASSUME TypeOK, [Next]_vars
  PROVE  RowsTypeOK'
<1>0. /\ ses \in [Sessions -> SessionRow]
      /\ pun \in [Requests -> PunishmentRow]
      /\ clock \in Nat /\ group.epoch \in Nat
      /\ holder \in Holder
  BY DEF TypeOK, MemberTypeOK, RowsTypeOK, LockTypeOK
<1>1. ASSUME UNCHANGED <<ses, pun, clock>> PROVE RowsTypeOK'
  BY <1>0, <1>1 DEF RowsTypeOK
<1>2. ASSUME UNCHANGED <<ses, clock>>, NEW r, NEW p,
             r \in Requests => p \in PunishmentRow,
             pun' = [pun EXCEPT ![r] = p]
      PROVE  RowsTypeOK'
  BY <1>0, <1>2 DEF RowsTypeOK
<1>3. ASSUME UNCHANGED <<pun, clock>>, NEW s, NEW row,
             s \in Sessions => row \in SessionRow,
             ses' = [ses EXCEPT ![s] = row]
      PROVE  RowsTypeOK'
  BY <1>0, <1>3 DEF RowsTypeOK
<1>4. ASSUME UNCHANGED <<ses, clock>>, PunishFails \/ PunishRefused \/ PunishTooLate
      PROVE  RowsTypeOK'
  <2>1. PICK r : r = holder.id
    OBVIOUS
  <2>2. r \in Requests =>
          /\ Retried(pun[r]) \in PunishmentRow
          /\ Retried(Rejected(pun[r])) \in PunishmentRow
          /\ Retried(Overdue(pun[r])) \in PunishmentRow
    BY <1>0, RowUpdateType
  <2>3. \/ pun' = [pun EXCEPT ![r] = Retried(pun[r])]
        \/ pun' = [pun EXCEPT ![r] = Retried(Rejected(pun[r]))]
        \/ pun' = [pun EXCEPT ![r] = Retried(Overdue(pun[r]))]
    BY <1>4, <2>1 DEF PunishFails, PunishRefused, PunishTooLate
  <2>. QED BY <1>2, <1>4, <2>2, <2>3
<1>5. CASE JoinLocked
  <2>1. CASE UNCHANGED <<ses, clock>>
    BY <1>1, <1>5, <2>1 DEF JoinLocked
  <2>2. CASE /\ \E s \in Sessions :
                  ses' = [ses EXCEPT ![s] =
                            [NoSession EXCEPT !.status = "pending", !.created = clock]]
             /\ clock' = clock + 1
    <3>1. [NoSession EXCEPT !.status = "pending", !.created = clock] \in SessionRow
      BY <1>0 DEF NoSession, SessionRow, Active, Live, Terminal
    <3>. QED BY <1>0, <1>5, <2>2, <3>1 DEF JoinLocked, RowsTypeOK
  <2>. QED BY <1>5, <2>1, <2>2 DEF JoinLocked
<1>6. ASSUME NEW s \in Sessions, SessionNext(s) PROVE RowsTypeOK'
  <2>1. ses[s] \in SessionRow
    BY <1>0
  <2>2. CASE AnsweredRight(s)
    <3>1. [ses[s] EXCEPT !.status = "completing"] \in SessionRow
      BY <2>1, SessionUpdateType DEF Active, Live
    <3>. QED BY <1>3, <2>2, <3>1 DEF AnsweredRight
  <2>3. CASE AnsweredWrong(s)
    <3>1. PICK n \in Nat : n = ses[s].tries + 1
      BY <2>1, SessionUpdateType
    <3>2. [ses[s] EXCEPT !.tries = n, !.lapsed = n >= MaxTries] \in SessionRow
      BY <2>1, SessionUpdateType
    <3>3. ses' = [ses EXCEPT ![s] = [ses[s] EXCEPT !.tries = n, !.lapsed = n >= MaxTries]]
      BY <1>0, <2>3, <3>1 DEF AnsweredWrong
    <3>. QED BY <1>3, <2>3, <3>2, <3>3 DEF AnsweredWrong
  <2>4. CASE Lapses(s)
    <3>1. [ses[s] EXCEPT !.lapsed = TRUE] \in SessionRow
      BY <2>1, SessionUpdateType
    <3>. QED BY <1>3, <2>4, <3>1 DEF Lapses
  <2>5. CASE FinishStarts(s)
    BY <1>1, <2>5 DEF FinishStarts
  <2>. QED BY <1>6, <2>2, <2>3, <2>4, <2>5 DEF SessionNext
<1>7. CASE Expires
  <2>1. \A s \in Sessions : SessionsTo("expiring", {"pending"}, ses[s]) \in SessionRow
    BY <1>0, SessionsToType DEF Active, Live
  <2>. QED BY <1>0, <1>7, <2>1 DEF Expires, RowsTypeOK
<1>8. CASE BeginKick
  <2>1. PICK s, b : s = holder.id /\ b = (ses[s].kickStarted \/ ses[s].status = "expiring")
    OBVIOUS
  <2>2. s \in Sessions => ses[s] \in SessionRow /\ b \in BOOLEAN
    BY <1>0, <2>1 DEF SessionRow
  <2>3. s \in Sessions => [ses[s] EXCEPT !.kickStarted = b] \in SessionRow
    BY <2>2, SessionUpdateType
  <2>4. ses' = [ses EXCEPT ![s] = [ses[s] EXCEPT !.kickStarted = b]]
    BY <1>8, <2>1 DEF BeginKick
  <2>. QED BY <1>3, <1>8, <2>3, <2>4 DEF BeginKick
<1>9. CASE Settle
  <2>1. PICK s : s = holder.id
    OBVIOUS
  <2>2. s \in Sessions => [ses[s] EXCEPT !.status = holder.outcome] \in SessionRow
    BY <1>0, SessionUpdateType DEF Holder
  <2>3. UNCHANGED ses \/ ses' = [ses EXCEPT ![s] = [ses[s] EXCEPT !.status = holder.outcome]]
    BY <1>9, <2>1 DEF Settle
  <2>. QED BY <1>1, <1>3, <1>9, <2>2, <2>3 DEF Settle
<1>10. ASSUME NEW step \in EffectSteps, PunishCalls(step) PROVE RowsTypeOK'
  BY <1>1, <1>4, <1>10 DEF PunishCalls
<1>11. ASSUME NEW step \in EffectSteps, FinishCalls(step) \/ ReleaseCalls(step)
       PROVE  RowsTypeOK'
  BY <1>1, <1>11 DEF FinishCalls, ReleaseCalls
<1>12. CASE Prepares
  <2>1. PICK r \in Requests : r = holder.id
    BY <1>12 DEF Prepares, Doing, TypeOK, LockTypeOK
  <2>2. PICK p : p = IF pun[r].row THEN pun[r]
                     ELSE [pun[r] EXCEPT !.row = TRUE, !.version = group.epoch]
    OBVIOUS
  <2>3. pun[r] \in PunishmentRow
    BY <1>0
  <2>4. p \in PunishmentRow
    BY <1>0, <2>2, <2>3, RowUpdateType
  <2>5. [p EXCEPT !.status = "skipped"] \in PunishmentRow
    BY <2>4, RowUpdateType
  <2>6. \/ pun' = [pun EXCEPT ![r] = p]
        \/ pun' = [pun EXCEPT ![r] = [p EXCEPT !.status = "skipped"]]
    BY <1>12, <2>1, <2>2 DEF Prepares
  <2>. QED BY <1>2, <1>12, <2>4, <2>5, <2>6 DEF Prepares
<1>13. CASE DeletesMessage
  <2>1. PICK r, b : r = holder.id /\ b = (pun[r].deleted \/ pun[r].status = "pending")
    OBVIOUS
  <2>2. r \in Requests => pun[r] \in PunishmentRow /\ b \in BOOLEAN
    BY <1>0, <2>1 DEF PunishmentRow
  <2>3. r \in Requests => [pun[r] EXCEPT !.deleted = b] \in PunishmentRow
    BY <2>2, RowUpdateType
  <2>4. \/ pun' = [pun EXCEPT ![r] = [pun[r] EXCEPT !.deleted = b]]
        \/ PunishRefused \/ PunishFails
    BY <1>13, <2>1 DEF DeletesMessage
  <2>. QED BY <1>2, <1>4, <1>13, <2>3, <2>4 DEF DeletesMessage
<1>14. CASE StartsPermission
  <2>1. PICK r \in Requests : r = holder.id
    BY <1>14 DEF StartsPermission, Doing, TypeOK, LockTypeOK
  <2>2. PICK release : release = IF Timed(r) THEN "timed" ELSE pun[r].release
    OBVIOUS
  <2>3. release \in {"no", "timed", "now"} /\ pun[r] \in PunishmentRow
    BY <1>0, <2>2 DEF PunishmentRow
  <2>4. [pun[r] EXCEPT !.started = TRUE, !.release = release] \in PunishmentRow
    BY <2>3, RowUpdateType
  <2>5. \/ pun' = [pun EXCEPT ![r] = [pun[r] EXCEPT !.started = TRUE, !.release = release]]
        \/ PunishTooLate \/ PunishFails
    BY <1>0, <1>14, <2>1, <2>2, <2>3 DEF StartsPermission
  <2>. QED BY <1>2, <1>4, <1>14, <2>4, <2>5 DEF StartsPermission
<1>15. CASE MarksKickBanned
  <2>1. PICK r : r = holder.id
    OBVIOUS
  <2>2. r \in Requests => [pun[r] EXCEPT !.kickBanned = TRUE] \in PunishmentRow
    BY <1>0, RowUpdateType
  <2>3. pun' = [pun EXCEPT ![r] = [pun[r] EXCEPT !.kickBanned = TRUE]]
    BY <1>15, <2>1 DEF MarksKickBanned
  <2>. QED BY <1>2, <1>15, <2>2, <2>3 DEF MarksKickBanned
<1>16. CASE CompletesTakeover
  <2>1. CASE PunishFails /\ UNCHANGED ses
    BY <1>4, <1>16, <2>1 DEF CompletesTakeover
  <2>2. CASE ~(PunishFails /\ UNCHANGED ses)
    <3>1. \A q \in Requests :
            /\ [pun[q] EXCEPT !.acted = TRUE] \in PunishmentRow
            /\ [pun[q] EXCEPT !.status = "skipped"] \in PunishmentRow
            /\ pun[q] \in PunishmentRow
      BY <1>0, RowUpdateType
    <3>2. pun' \in [Requests -> PunishmentRow]
      BY <1>16, <2>2, <3>1 DEF CompletesTakeover
    <3>3. \A s \in Sessions : SessionsTo("cancelled", Active, ses[s]) \in SessionRow
      BY <1>0, SessionsToType DEF Terminal
    <3>4. ses' \in [Sessions -> SessionRow]
      BY <1>0, <1>16, <2>2, <3>3 DEF CompletesTakeover
    <3>. QED BY <1>0, <1>16, <3>2, <3>4 DEF CompletesTakeover, RowsTypeOK
  <2>. QED BY <2>1, <2>2
<1>17. CASE PunishDone
  <2>1. PICK r, status : /\ r = holder.id
                         /\ status = IF pun[r].status = "pending" THEN "done"
                                     ELSE pun[r].status
    OBVIOUS
  <2>2. r \in Requests => [pun[r] EXCEPT !.status = status] \in PunishmentRow
    <3>1. CASE pun[r].status = "pending"
      BY <1>0, <2>1, <3>1, RowUpdateType
    <3>2. CASE pun[r].status # "pending" /\ r \in Requests
      <4>1. [pun[r] EXCEPT !.status = status] = pun[r]
        BY <1>0, <2>1, <3>2 DEF PunishmentRow
      <4>. QED BY <1>0, <3>2, <4>1
    <3>. QED BY <3>1, <3>2
  <2>3. pun' = [pun EXCEPT ![r] = [pun[r] EXCEPT !.status = status]] \/ PunishFails
    BY <1>17, <2>1 DEF PunishDone
  <2>. QED BY <1>2, <1>4, <1>17, <2>2, <2>3 DEF PunishDone
<1>18. CASE Drops
  <2>1. PICK r : r = holder.id
    OBVIOUS
  <2>2. r \in Requests => [pun[r] EXCEPT !.release = "no"] \in PunishmentRow
    BY <1>0, RowUpdateType
  <2>3. pun' = [pun EXCEPT ![r] = [pun[r] EXCEPT !.release = "no"]]
    BY <1>18, <2>1 DEF Drops
  <2>4. \A s \in Sessions : SessionsTo("cancelled", Active, ses[s]) \in SessionRow
    BY <1>0, SessionsToType DEF Terminal
  <2>5. ses' \in [Sessions -> SessionRow]
    BY <1>0, <1>18, <2>4 DEF Drops
  <2>. QED BY <1>0, <1>18, <2>2, <2>3, <2>5 DEF Drops, RowsTypeOK
<1>19. CASE Revoked
  <2>1. \A r \in Requests : RevokedRow(pun[r], Action[r] \in Restricting) \in PunishmentRow
    BY <1>0, RowUpdateType
  <2>2. \A s \in Sessions : SessionsTo("releasing", Live, ses[s]) \in SessionRow
    BY <1>0, SessionsToType DEF Active
  <2>. QED BY <1>0, <1>19, <2>1, <2>2 DEF Revoked, RowsTypeOK
<1>20. CASE VerificationOff
  <2>1. \A s \in Sessions : SessionsTo("releasing", Live, ses[s]) \in SessionRow
    BY <1>0, SessionsToType DEF Active
  <2>. QED BY <1>0, <1>20, <2>1 DEF VerificationOff, RowsTypeOK
<1>21. ASSUME NEW r \in Requests, PunishStarts(r) PROVE RowsTypeOK'
  <2>1. CASE UNCHANGED <<pun, clock>>
    BY <1>1, <1>21, <2>1 DEF PunishStarts
  <2>2. CASE ~UNCHANGED <<pun, clock>>
    <3>1. [pun[r] EXCEPT !.status = "pending", !.created = clock] \in PunishmentRow
      BY <1>0, RowUpdateType
    <3>2. /\ pun' = [pun EXCEPT ![r] =
                       [pun[r] EXCEPT !.status = "pending", !.created = clock]]
          /\ clock' = clock + 1
      BY <1>0, <1>21, <2>2 DEF PunishStarts
    <3>. QED BY <1>0, <1>21, <3>1, <3>2 DEF PunishStarts, RowsTypeOK
  <2>. QED BY <2>1, <2>2
<1>22. ASSUME NEW r \in Requests, MuteRunsOut(r) PROVE RowsTypeOK'
  <2>1. [pun[r] EXCEPT !.elapsed = TRUE] \in PunishmentRow
    BY <1>0, RowUpdateType
  <2>. QED BY <1>2, <1>22, <2>1 DEF MuteRunsOut
<1>23. CASE GivesUp
  BY <1>1, <1>4, <1>23 DEF GivesUp
<1>24. CASE JoinChecked \/ JoinMutes \/ Left \/ FinishReads
  BY <1>1, <1>24 DEF JoinChecked, JoinMutes, Left, FinishReads
<1>25. ASSUME NEW r \in Requests,
              Requested(r) \/ TelegramLifts(r) \/ ReleaseListed(r) \/ ReleaseStarts(r)
       PROVE  RowsTypeOK'
  BY <1>1, <1>25 DEF Requested, TelegramLifts, ReleaseListed, ReleaseStarts
<1>26. CASE Approved \/ VerificationOn \/ Joins \/ Leaves \/ Crash \/ UNCHANGED vars
  BY <1>1, <1>26 DEF Approved, VerificationOn, Joins, Leaves, Crash, vars
<1>27. ASSUME NEW c \in calls, Busy(c) PROVE RowsTypeOK'
  BY <1>1, <1>27 DEF Busy
<1>. QED
  BY <1>5, <1>6, <1>7, <1>8, <1>9, <1>10, <1>11, <1>12, <1>13, <1>14, <1>15, <1>16,
     <1>17, <1>18, <1>19, <1>20, <1>21, <1>22, <1>23, <1>24, <1>25, <1>26, <1>27
     DEF Next, JoinNext, FinishNext, PunishNext, ReleaseNext, GroupNext, OtherNext,
         RequestNext

(* The lock and the calls that ask for it.                                 *)
LEMMA LockStep ==
  ASSUME TypeOK, [Next]_vars
  PROVE  LockTypeOK'
<1>0. /\ holder \in Holder /\ calls \subseteq Calls
      /\ holder.op # "none" => holder.todo # <<>>
      /\ holder.op \in {"join", "finish"} => holder.id \in Sessions
      /\ holder.op \in {"punish", "release"} => holder.id \in Requests
      /\ \A c \in calls : c.op \in {"punish", "release"} => c.id \in Requests
  BY DEF TypeOK, LockTypeOK
<1>1. ASSUME UNCHANGED <<holder, calls>> PROVE LockTypeOK'
  BY <1>0, <1>1 DEF LockTypeOK
<1>2. ASSUME UNCHANGED calls, holder' = Free PROVE LockTypeOK'
  <2>1. Free \in Holder /\ Free.op = "none"
    BY EmptySeq DEF Free, Holder
  <2>. QED BY <1>0, <1>2, <2>1 DEF LockTypeOK
(* A holder that takes its next step.                                      *)
<1>3. ASSUME UNCHANGED calls, holder.op # "none",
             \/ holder' = Advanced(holder)
             \/ holder' = [Advanced(holder) EXCEPT !.acted = TRUE]
             \/ holder' = [Advanced(holder) EXCEPT !.kick = TRUE]
      PROVE  LockTypeOK'
  <2>1. PICK h : h = Advanced(holder)
    OBVIOUS
  <2>2. h \in Holder /\ (h.op # "none" => h.todo # <<>>)
    BY <1>0, <1>3, <2>1, AdvancedType
  <2>3. h.op # "none" => h.op = holder.op /\ h.id = holder.id
    <3>1. h.op # "none" => h = [holder EXCEPT !.todo = Tail(holder.todo)]
      BY <1>0, <1>3, <2>1, AdvancedType
    <3>. QED BY <1>0, <3>1 DEF Holder
  <2>4. /\ holder' \in Holder /\ holder'.op = h.op
        /\ holder'.id = h.id /\ holder'.todo = h.todo
    <3>1. CASE holder' = h
      BY <2>2, <3>1
    <3>2. CASE holder' = [h EXCEPT !.acted = TRUE]
      BY <2>2, <3>2 DEF Holder
    <3>3. CASE holder' = [h EXCEPT !.kick = TRUE]
      BY <2>2, <3>3 DEF Holder
    <3>. QED BY <1>3, <2>1, <3>1, <3>2, <3>3
  <2>. QED BY <1>0, <1>3, <2>2, <2>3, <2>4 DEF LockTypeOK
(* A workflow that gets the lock.                                          *)
<1>4. ASSUME calls' \subseteq calls, NEW h \in Holder, holder' = h, h.todo # <<>>,
             h.op \in {"join", "finish"} => h.id \in Sessions,
             h.op \in {"punish", "release"} => h.id \in Requests
      PROVE  LockTypeOK'
  BY <1>0, <1>4 DEF LockTypeOK
<1>5. ASSUME calls' \subseteq calls, UNCHANGED holder PROVE LockTypeOK'
  BY <1>0, <1>5 DEF LockTypeOK
<1>6. ASSUME UNCHANGED holder, NEW c \in Calls, calls' = calls \cup {c},
             c.op \in {"punish", "release"} => c.id \in Requests
      PROVE  LockTypeOK'
  BY <1>0, <1>6 DEF LockTypeOK
<1>7. CASE JoinChecked
  <2>1. JoinCall \in Calls /\ JoinCall.op = "join"
    BY DEF JoinCall, Calls
  <2>. QED BY <1>5, <1>6, <1>7, <2>1 DEF JoinChecked
<1>8. CASE JoinLocked
  <2>1. ASSUME NEW s \in Sessions
        PROVE  /\ JoinMuting(s) \in Holder /\ JoinMuting(s).todo # <<>>
               /\ JoinMuting(s).op = "join" /\ JoinMuting(s).id = s
    <3>1. <<"restrict">> \in Seq(Steps) /\ <<"restrict">> # <<>> /\ s \in Nat
      BY MemberAssumption DEF Steps
    <3>. QED BY <3>1 DEF JoinMuting, Free, Holder
  <2>2. \/ UNCHANGED holder
        \/ \E s \in Sessions : holder' = JoinMuting(s)
    BY <1>8 DEF JoinLocked
  <2>. QED BY <1>4, <1>5, <1>8, <2>1, <2>2 DEF JoinLocked
<1>9. ASSUME NEW s \in Sessions, NEW status \in Active, ses[s] \in SessionRow,
             UNCHANGED calls, holder' = Finishing(s, status)
      PROVE  LockTypeOK'
  <2>1. <<"read">> \in Seq(Steps) /\ <<"read">> # <<>> /\ s \in Nat
    BY MemberAssumption DEF Steps
  <2>2. ses[s].kickStarted \in BOOLEAN
    BY <1>9 DEF SessionRow
  <2>3. Finishing(s, status) \in Holder
    BY <2>1, <2>2 DEF Finishing, Free, Holder
  <2>. QED BY <1>4, <1>9, <2>1, <2>3 DEF Finishing, Free
<1>10. ASSUME NEW s \in Sessions, SessionNext(s) PROVE LockTypeOK'
  <2>1. ses[s] \in SessionRow
    BY DEF TypeOK, RowsTypeOK
  <2>2. "completing" \in Active
    BY DEF Active, Live
  <2>. QED BY <1>1, <1>9, <1>10, <2>1, <2>2
           DEF SessionNext, AnsweredRight, AnsweredWrong, Lapses, FinishStarts
<1>11. CASE FinishReads
  <2>1. ASSUME NEW plan \in Plans,
               holder' = [holder EXCEPT !.todo = plan.steps \o <<"settle">>,
                                        !.outcome = plan.outcome]
        PROVE  LockTypeOK'
    <3>1. PICK todo \in Seq(Steps), outcome \in Terminal :
            todo # <<>> /\ holder' = [holder EXCEPT !.todo = todo, !.outcome = outcome]
      BY <2>1, PlansType
    <3>2. [holder EXCEPT !.todo = todo, !.outcome = outcome] \in Holder
      BY <1>0 DEF Holder
    <3>3. holder'.op = holder.op /\ holder'.id = holder.id /\ holder'.todo = todo
      BY <1>0, <3>1 DEF Holder
    <3>. QED BY <1>0, <1>4, <1>11, <3>1, <3>2, <3>3 DEF FinishReads
  <2>. QED BY <1>2, <1>11, <2>1 DEF FinishReads
<1>12. CASE BeginKick
  BY <1>3, <1>12 DEF BeginKick, Doing
<1>13. ASSUME NEW step \in EffectSteps,
              FinishCalls(step) \/ PunishCalls(step) \/ ReleaseCalls(step)
       PROVE  LockTypeOK'
  BY <1>2, <1>3, <1>13
     DEF FinishCalls, PunishCalls, ReleaseCalls, Doing, PunishFails, PunishRefused,
         PunishTooLate
<1>14. CASE Prepares
  <2>1. CASE holder' = Free
    BY <1>2, <1>14, <2>1 DEF Prepares
  <2>2. CASE holder' # Free
    <3>0. PICK r \in Requests : r = holder.id
      BY <1>0, <1>14 DEF Prepares, Doing
    <3>1. PICK p :
            p = IF pun[r].row THEN pun[r]
                ELSE [pun[r] EXCEPT !.row = TRUE, !.version = group.epoch]
      OBVIOUS
    <3>2. p \in PunishmentRow
      <4>1. pun[r] \in PunishmentRow /\ group.epoch \in Nat
        BY DEF TypeOK, MemberTypeOK, RowsTypeOK
      <4>. QED BY <3>1, <4>1, RowUpdateType
    <3>3. PICK acted \in BOOLEAN : acted = (p.acted \/ p.deleted \/ p.started)
      BY <3>2 DEF PunishmentRow
    <3>4. PICK todo \in Seq(Steps) : todo # <<>> /\ todo = PunishPlan(r, p)
      BY PunishPlanType
    <3>5. holder' = [holder EXCEPT !.todo = todo, !.acted = acted]
      BY <1>14, <2>2, <3>0, <3>1, <3>3, <3>4 DEF Prepares
    <3>6. [holder EXCEPT !.todo = todo, !.acted = acted] \in Holder
      BY <1>0 DEF Holder
    <3>7. holder'.op = holder.op /\ holder'.id = holder.id /\ holder'.todo = todo
      BY <1>0, <3>5 DEF Holder
    <3>. QED BY <1>0, <1>4, <1>14, <3>0, <3>4, <3>5, <3>6, <3>7 DEF Prepares
  <2>. QED BY <2>1, <2>2
<1>15. CASE \/ DeletesMessage \/ StartsPermission \/ MarksKickBanned
            \/ CompletesTakeover \/ PunishDone
  BY <1>2, <1>3, <1>15
     DEF DeletesMessage, StartsPermission, MarksKickBanned, CompletesTakeover, PunishDone,
         PunishFails, PunishRefused, PunishTooLate, Doing
<1>16. CASE JoinMutes \/ Settle \/ Drops \/ GivesUp
  BY <1>2, <1>16 DEF JoinMutes, Settle, Drops, GivesUp, PunishFails
<1>17. ASSUME NEW r \in Requests, PunishStarts(r) PROVE LockTypeOK'
  <2>1. PICK h : h = [Free EXCEPT !.op = "punish", !.id = r, !.todo = <<"prepare">>]
    OBVIOUS
  <2>2. <<"prepare">> \in Seq(Steps) /\ <<"prepare">> # <<>> /\ r \in Nat
    BY MemberAssumption DEF Steps
  <2>3. h \in Holder /\ h.todo # <<>> /\ h.op = "punish" /\ h.id = r
    BY <2>1, <2>2 DEF Free, Holder
  <2>. QED BY <1>4, <1>17, <2>1, <2>3 DEF PunishStarts
<1>18. ASSUME NEW r \in Requests, ReleaseStarts(r) PROVE LockTypeOK'
  <2>1. PICK todo : todo = Step(~NewerWork(r), Lift(r)) \o <<"drop">>
    OBVIOUS
  <2>2. todo \in Seq(Steps) /\ todo # <<>>
    <3>1. /\ <<"restore">> \in Seq(Steps) /\ <<"unban">> \in Seq(Steps)
          /\ <<>> \in Seq(Steps) /\ <<"drop">> \in Seq(Steps)
      BY DEF Steps
    <3>2. Step(~NewerWork(r), Lift(r)) \in Seq(Steps)
      BY <3>1 DEF Step, Lift
    <3>. QED BY <2>1, <3>1, <3>2
  <2>3. PICK released \in BOOLEAN : released = ~NewerWork(r)
    <3>1. CASE NewerWork(r)
      BY <3>1
    <3>2. CASE ~NewerWork(r)
      BY <3>2
    <3>. QED BY <3>1, <3>2
  <2>4. PICK h : h = [Free EXCEPT !.op = "release", !.id = r, !.todo = todo,
                                  !.released = released]
    OBVIOUS
  <2>5. r \in Nat
    BY MemberAssumption
  <2>6. h \in Holder /\ h.todo # <<>> /\ h.op = "release" /\ h.id = r
    BY <2>2, <2>4, <2>5 DEF Free, Holder
  <2>7. calls' \subseteq calls /\ holder' = h
    BY <1>18, <2>1, <2>3, <2>4 DEF ReleaseStarts
  <2>. QED BY <1>4, <2>6, <2>7
<1>19. ASSUME NEW r \in Requests, Requested(r) \/ ReleaseListed(r) PROVE LockTypeOK'
  <2>1. /\ PunishCall(r) \in Calls /\ ReleaseCall(r) \in Calls
        /\ PunishCall(r).id = r /\ ReleaseCall(r).id = r
    BY MemberAssumption DEF PunishCall, ReleaseCall, Calls
  <2>. QED BY <1>6, <1>19, <2>1 DEF Requested, ReleaseListed
<1>20. ASSUME NEW r \in Requests, MuteRunsOut(r) \/ TelegramLifts(r) PROVE LockTypeOK'
  BY <1>1, <1>20 DEF MuteRunsOut, TelegramLifts
<1>21. CASE Crash
  <2>1. Free \in Holder /\ Free.op = "none"
    BY EmptySeq DEF Free, Holder
  <2>. QED BY <1>21, <2>1 DEF Crash, LockTypeOK
<1>22. ASSUME NEW c \in calls, Busy(c) PROVE LockTypeOK'
  BY <1>5, <1>22 DEF Busy
<1>23. CASE Left \/ Expires \/ GroupNext \/ Joins \/ Leaves \/ UNCHANGED vars
  BY <1>1, <1>23
     DEF Left, Expires, GroupNext, Revoked, Approved, VerificationOff, VerificationOn,
         Joins, Leaves, vars
<1>. QED
  BY <1>7, <1>8, <1>10, <1>11, <1>12, <1>13, <1>14, <1>15, <1>16, <1>17, <1>18, <1>19,
     <1>20, <1>21, <1>22, <1>23
     DEF Next, JoinNext, FinishNext, PunishNext, ReleaseNext, OtherNext, RequestNext

(* The bounds on failures and revocations.                                 *)
LEMMA BoundsStep ==
  ASSUME TypeOK, [Next]_vars
  PROVE  BoundsOK'
<1>0. BoundsOK
  BY DEF TypeOK
<1>1. ASSUME UNCHANGED revokes, Fault \/ UNCHANGED faults PROVE BoundsOK'
  BY <1>0, <1>1, FaultBudget
<1>2. CASE Revoked
  BY <1>0, <1>2, MemberAssumption DEF Revoked, BoundsOK
<1>3. CASE JoinNext \/ Expires
  BY <1>1, <1>3
     DEF JoinNext, JoinChecked, JoinLocked, JoinMutes, Left, Expires, Refused, Lost
<1>4. CASE FinishReads \/ BeginKick \/ Settle \/ Drops
  BY <1>1, <1>4 DEF FinishReads, BeginKick, Settle, Drops
<1>5. ASSUME NEW step \in EffectSteps,
             FinishCalls(step) \/ PunishCalls(step) \/ ReleaseCalls(step)
      PROVE  BoundsOK'
  BY <1>1, <1>5 DEF FinishCalls, PunishCalls, ReleaseCalls, Refused, Lost
<1>6. CASE \/ Prepares \/ DeletesMessage \/ StartsPermission \/ MarksKickBanned
           \/ CompletesTakeover \/ PunishDone
  BY <1>1, <1>6
     DEF Prepares, DeletesMessage, StartsPermission, MarksKickBanned, CompletesTakeover,
         PunishDone
<1>7. ASSUME NEW s \in Sessions, SessionNext(s) PROVE BoundsOK'
  BY <1>1, <1>7 DEF SessionNext, AnsweredRight, AnsweredWrong, Lapses, FinishStarts
<1>8. ASSUME NEW r \in Requests,
             RequestNext(r) \/ ReleaseListed(r) \/ ReleaseStarts(r)
      PROVE  BoundsOK'
  BY <1>1, <1>8
     DEF RequestNext, Requested, PunishStarts, MuteRunsOut, TelegramLifts, ReleaseListed,
         ReleaseStarts
<1>9. CASE Approved \/ VerificationOff \/ VerificationOn
  BY <1>1, <1>9 DEF Approved, VerificationOff, VerificationOn
<1>10. CASE OtherNext \/ UNCHANGED vars
  BY <1>1, <1>10 DEF OtherNext, Joins, Leaves, GivesUp, Crash, Busy, vars
<1>. QED
  BY <1>2, <1>3, <1>4, <1>5, <1>6, <1>7, <1>8, <1>9, <1>10
     DEF Next, FinishNext, PunishNext, ReleaseNext, GroupNext

(* A join keeps the update it answers until it returns.                    *)
LEMMA JoinStep ==
  ASSUME TypeOK, JoinInv, [Next]_vars
  PROVE  JoinInv'
<1>0. /\ joined.events \in Seq({"join", "leave"})
      /\ joined \in [verified : BOOLEAN, left : BOOLEAN, events : Seq({"join", "leave"})]
      /\ holder \in Holder /\ (holder.op # "none" => holder.todo # <<>>)
  BY DEF TypeOK, MemberTypeOK, LockTypeOK
<1> USE DEF JoinInv, JoinUnderWay, Handling
(* Nobody but the join handler acknowledges a join that is under way.      *)
<1>1. ASSUME \/ UNCHANGED joined \/ joined'.events = joined.events
             \/ \E event \in {"join", "leave"} : Expect(event),
             JoinCall \in calls' => JoinCall \in calls,
             holder'.op = "join" => holder.op = "join"
      PROVE  JoinInv'
  <2>1. CASE joined'.events = joined.events
    BY <1>1, <2>1
  <2>2. CASE \E event \in {"join", "leave"} : Expect(event)
    <3>1. PICK event \in {"join", "leave"} : Expect(event)
      BY <2>2
    <3>2. joined'.events = Append(joined.events, event)
      BY <1>0, <3>1 DEF Expect
    <3>3. joined.events # <<>> =>
            /\ Append(joined.events, event) # <<>>
            /\ Head(Append(joined.events, event)) = Head(joined.events)
      BY <1>0
    <3>. QED BY <1>1, <3>2, <3>3
  <2>. QED BY <1>1, <2>1, <2>2
<1>2. ASSUME holder'.op # "join", JoinCall \notin calls' PROVE JoinInv'
  BY <1>2
<1>3. Free.op = "none"
  BY DEF Free
<1>4. ASSUME holder.op # "none", holder.op # "join",
             \/ holder' = Free \/ holder' = Advanced(holder)
             \/ holder' = [Advanced(holder) EXCEPT !.acted = TRUE]
             \/ holder' = [Advanced(holder) EXCEPT !.kick = TRUE]
      PROVE  holder'.op # "join"
  <2>1. PICK h : h = Advanced(holder)
    OBVIOUS
  <2>2. h \in Holder /\ h.op # "join"
    BY <1>0, <1>4, <2>1, AdvancedType DEF Holder
  <2>. QED BY <1>3, <1>4, <2>1, <2>2 DEF Holder
<1>5. ASSUME NEW step \in EffectSteps, Effect(step) \/ NoEffect
      PROVE  \/ UNCHANGED joined
             \/ \E event \in {"join", "leave"} : Expect(event)
  BY <1>5 DEF Effect, NoEffect, EffectSteps, Banned
<1>6. CASE JoinChecked
  <2>1. CASE UNCHANGED calls
    BY <1>6, <2>1 DEF JoinChecked
  <2>2. CASE ~UNCHANGED calls
    <3>1. joined'.events = joined.events
      BY <1>0, <1>6, <2>2 DEF JoinChecked
    <3>. QED BY <1>6, <3>1 DEF JoinChecked
  <2>. QED BY <2>1, <2>2
<1>7. CASE JoinLocked
  <2>1. JoinCall \notin calls' /\ holder.op # "join"
    BY <1>7 DEF JoinLocked
  <2>2. \A s \in Sessions : JoinMuting(s).op = "join"
    BY DEF JoinMuting, Free
  <2>3. UNCHANGED holder \/ UNCHANGED joined
    BY <1>7 DEF JoinLocked
  <2>4. CASE UNCHANGED holder
    BY <1>2, <2>1, <2>4
  <2>5. CASE UNCHANGED joined
    BY <1>7, <2>1, <2>5 DEF JoinLocked
  <2>. QED BY <2>3, <2>4, <2>5
<1>8. CASE JoinMutes
  BY <1>2, <1>3, <1>8 DEF JoinMutes, Doing
<1>9. CASE Left
  <2>1. ~JoinUnderWay
    BY <1>9 DEF Left
  <2>. QED BY <1>9, <2>1 DEF Left
<1>10. CASE Settle
  <2>1. joined'.events = joined.events
    BY <1>0, <1>10 DEF Settle
  <2>. QED BY <1>1, <1>3, <1>10, <2>1 DEF Settle
<1>11. ASSUME NEW step \in EffectSteps,
              FinishCalls(step) \/ PunishCalls(step) \/ ReleaseCalls(step)
       PROVE  JoinInv'
  <2>1. holder'.op # "join" /\ UNCHANGED calls
    BY <1>4, <1>11
       DEF FinishCalls, PunishCalls, ReleaseCalls, Doing, PunishFails, PunishRefused,
           PunishTooLate
  <2>2. Effect(step) \/ NoEffect
    BY <1>11 DEF FinishCalls, PunishCalls, ReleaseCalls, Refused, Lost
  <2>. QED BY <1>1, <1>5, <2>1, <2>2
<1>12. CASE BeginKick \/ DeletesMessage \/ StartsPermission \/ MarksKickBanned
            \/ CompletesTakeover \/ PunishDone
  <2>1. holder'.op # "join" /\ UNCHANGED <<calls, joined>>
    BY <1>4, <1>12
       DEF BeginKick, DeletesMessage, StartsPermission, MarksKickBanned, CompletesTakeover,
           PunishDone, Doing, PunishFails, PunishRefused, PunishTooLate
  <2>. QED BY <1>1, <2>1
<1>13. CASE FinishReads \/ Prepares
  <2>1. holder'.op # "join" /\ UNCHANGED <<calls, joined>>
    BY <1>0, <1>3, <1>13 DEF FinishReads, Prepares, Doing, Holder
  <2>. QED BY <1>1, <2>1
<1>14. CASE Drops \/ GivesUp
  BY <1>1, <1>3, <1>14 DEF Drops, GivesUp, PunishFails
<1>15. ASSUME NEW s \in Sessions, SessionNext(s) PROVE JoinInv'
  <2>1. UNCHANGED holder \/ \E status : holder' = Finishing(s, status)
    BY <1>15 DEF SessionNext, AnsweredRight, AnsweredWrong, Lapses, FinishStarts
  <2>2. \A status : Finishing(s, status).op = "finish"
    BY DEF Finishing, Free
  <2>3. UNCHANGED <<calls, joined>>
    BY <1>15 DEF SessionNext, AnsweredRight, AnsweredWrong, Lapses, FinishStarts
  <2>. QED BY <1>1, <2>1, <2>2, <2>3
<1>16. ASSUME NEW r \in Requests, PunishStarts(r) \/ ReleaseStarts(r) PROVE JoinInv'
  <2>1. holder'.op # "join"
    BY <1>16 DEF PunishStarts, ReleaseStarts, Free
  <2>. QED BY <1>1, <1>16, <2>1 DEF PunishStarts, ReleaseStarts
<1>17. ASSUME NEW r \in Requests, Requested(r) \/ ReleaseListed(r) PROVE JoinInv'
  <2>1. JoinCall # PunishCall(r) /\ JoinCall # ReleaseCall(r)
    BY DEF JoinCall, PunishCall, ReleaseCall
  <2>. QED BY <1>1, <1>17, <2>1 DEF Requested, ReleaseListed
<1>18. ASSUME NEW r \in Requests, MuteRunsOut(r) \/ TelegramLifts(r) PROVE JoinInv'
  BY <1>1, <1>18 DEF MuteRunsOut, TelegramLifts
<1>19. CASE Crash
  BY <1>2, <1>3, <1>19 DEF Crash
<1>20. ASSUME NEW c \in calls, Busy(c) PROVE JoinInv'
  BY <1>1, <1>20 DEF Busy
<1>21. CASE Joins \/ Leaves
  BY <1>1, <1>21 DEF Joins, Leaves
<1>22. CASE Expires \/ GroupNext \/ UNCHANGED vars
  BY <1>1, <1>22
     DEF Expires, GroupNext, Revoked, Approved, VerificationOff, VerificationOn, vars
<1>. QED
  BY <1>6, <1>7, <1>8, <1>9, <1>10, <1>11, <1>12, <1>13, <1>14, <1>15, <1>16, <1>17,
     <1>18, <1>19, <1>20, <1>21, <1>22
     DEF Next, JoinNext, FinishNext, PunishNext, ReleaseNext, OtherNext, RequestNext

(* Every variable of the workflow stays in its set, for every interleaving *)
(* of handlers, sweeps, revocations, failures and crashes; the lock is     *)
(* held only by a workflow that has something left to do.                  *)
THEOREM MemberTypeCorrect == Spec => [](TypeOK /\ JoinInv)
<1>1. Init => TypeOK /\ JoinInv
  <2> SUFFICES ASSUME Init PROVE TypeOK /\ JoinInv
    OBVIOUS
  <2>1. MemberTypeOK
    BY EmptySeq DEF Init, MemberTypeOK, Nobody, Owners
  <2>2. RowsTypeOK
    BY DEF Init, RowsTypeOK, NoSession, SessionRow, NoPunishment, PunishmentRow
  <2>3. LockTypeOK
    BY EmptySeq DEF Init, LockTypeOK, Free, Holder
  <2>4. BoundsOK
    BY MemberAssumption DEF Init, BoundsOK
  <2>5. JoinInv
    BY DEF Init, JoinInv, JoinUnderWay, Free
  <2>. QED BY <2>1, <2>2, <2>3, <2>4, <2>5 DEF TypeOK
<1>2. TypeOK /\ JoinInv /\ [Next]_vars => (TypeOK /\ JoinInv)'
  BY MemberStep, RowsStep, LockStep, BoundsStep, JoinStep DEF TypeOK
<1>. QED BY <1>1, <1>2, PTL DEF Spec

-----------------------------------------------------------------------------
(* What a step does to the holder and to the requests.                     *)

(* The same workflow goes on with the lock, past its first reads.          *)
GoesOn ==
  /\ holder.op # "none" /\ Head(holder.todo) \notin {"read", "prepare"}
  /\ holder'.op = holder.op /\ holder'.id = holder.id
  /\ holder'.status = holder.status /\ holder'.outcome = holder.outcome

LEMMA HolderMoves ==
  ASSUME TypeOK, [Next]_vars
  PROVE  \/ UNCHANGED holder \/ holder'.op = "none" \/ GoesOn
         \/ FinishReads \/ Prepares \/ JoinLocked
         \/ \E s \in Sessions, status \in Active :
              holder' = Finishing(s, status) /\ UNCHANGED pun
         \/ \E r \in Requests : PunishStarts(r) \/ ReleaseStarts(r)
<1>0. holder \in Holder /\ (holder.op # "none" => holder.todo # <<>>)
  BY DEF TypeOK, LockTypeOK
<1>1. ASSUME holder.op # "none", Head(holder.todo) \notin {"read", "prepare"},
             \/ holder' = Advanced(holder)
             \/ holder' = [Advanced(holder) EXCEPT !.acted = TRUE]
             \/ holder' = [Advanced(holder) EXCEPT !.kick = TRUE]
      PROVE  holder'.op = "none" \/ GoesOn
  <2>1. PICK h : h = Advanced(holder)
    OBVIOUS
  <2>2. h \in Holder /\ (h.op # "none" => h = [holder EXCEPT !.todo = Tail(holder.todo)])
    BY <1>0, <1>1, <2>1, AdvancedType
  <2>3. /\ holder'.op = h.op /\ holder'.id = h.id
        /\ holder'.status = h.status /\ holder'.outcome = h.outcome
    <3>1. CASE holder' = h
      BY <3>1
    <3>2. CASE holder' = [h EXCEPT !.acted = TRUE]
      BY <2>2, <3>2 DEF Holder
    <3>3. CASE holder' = [h EXCEPT !.kick = TRUE]
      BY <2>2, <3>3 DEF Holder
    <3>. QED BY <1>1, <2>1, <3>1, <3>2, <3>3
  <2>4. h.op # "none" => /\ h.op = holder.op /\ h.id = holder.id
                         /\ h.status = holder.status /\ h.outcome = holder.outcome
    BY <1>0, <2>2 DEF Holder
  <2>. QED BY <1>1, <2>3, <2>4 DEF GoesOn
<1>2. Free.op = "none"
  BY DEF Free
<1>3. CASE BeginKick \/ StartsPermission \/ MarksKickBanned \/ CompletesTakeover
  BY <1>1, <1>2, <1>3
     DEF BeginKick, StartsPermission, MarksKickBanned, CompletesTakeover, Doing,
         PunishFails, PunishTooLate
<1>4. CASE DeletesMessage \/ PunishDone \/ Settle \/ Drops \/ JoinMutes \/ GivesUp \/ Crash
  BY <1>1, <1>2, <1>4
     DEF DeletesMessage, PunishDone, Settle, Drops, JoinMutes, GivesUp, Crash, Doing,
         PunishFails, PunishRefused
<1>5. ASSUME NEW step \in EffectSteps,
             FinishCalls(step) \/ PunishCalls(step) \/ ReleaseCalls(step)
      PROVE  holder'.op = "none" \/ GoesOn
  BY <1>1, <1>2, <1>5
     DEF FinishCalls, PunishCalls, ReleaseCalls, Doing, EffectSteps,
         PunishFails, PunishRefused, PunishTooLate
<1>6. ASSUME NEW s \in Sessions, SessionNext(s)
      PROVE  \/ UNCHANGED holder
             \/ \E status \in Active : holder' = Finishing(s, status) /\ UNCHANGED pun
  BY <1>6 DEF SessionNext, AnsweredRight, AnsweredWrong, Lapses, FinishStarts, Active, Live
<1>7. ASSUME NEW r \in Requests,
             Requested(r) \/ MuteRunsOut(r) \/ TelegramLifts(r) \/ ReleaseListed(r)
      PROVE  UNCHANGED holder
  BY <1>7 DEF Requested, MuteRunsOut, TelegramLifts, ReleaseListed
<1>8. ASSUME NEW c \in calls, Busy(c) PROVE UNCHANGED holder
  BY <1>8 DEF Busy
<1>9. CASE JoinChecked \/ Left \/ Expires \/ GroupNext \/ Joins \/ Leaves \/ UNCHANGED vars
  BY <1>9
     DEF JoinChecked, Left, Expires, GroupNext, Revoked, Approved, VerificationOff,
         VerificationOn, Joins, Leaves, vars
<1>. QED
  BY <1>3, <1>4, <1>5, <1>6, <1>7, <1>8, <1>9
     DEF Next, JoinNext, FinishNext, PunishNext, ReleaseNext, OtherNext, RequestNext

(* What most steps do to a request: nothing the fences look at, or they    *)
(* retire it.                                                              *)
Kept(p, q) ==
  /\ q.created = p.created /\ q.row = p.row /\ q.version = p.version
  /\ q.started => p.started
  /\ q.status = p.status \/ (p.status = "pending" /\ q.status \in {"skipped", "failed"})

LEMMA UpdateKept ==
  ASSUME NEW p \in PunishmentRow
  PROVE  /\ Kept(p, p)
         /\ Kept(p, Retried(p))
         /\ Kept(p, Retried(Rejected(p)))
         /\ Kept(p, Retried(Overdue(p)))
         /\ p.status = "pending" => Kept(p, [p EXCEPT !.status = "skipped"])
         /\ Kept(p, [p EXCEPT !.acted = TRUE])
         /\ Kept(p, [p EXCEPT !.kickBanned = TRUE])
         /\ Kept(p, [p EXCEPT !.elapsed = TRUE])
         /\ Kept(p, [p EXCEPT !.release = "no"])
         /\ \A b : Kept(p, [p EXCEPT !.deleted = b])
         /\ \A restricting : /\ Kept(p, RevokedRow(p, restricting))
                             /\ RevokedRow(p, restricting).status # "pending"
<1>0. Rejected(p) \in PunishmentRow /\ Overdue(p) \in PunishmentRow
  BY RowUpdateType
<1> USE DEF Kept, PunishmentRow
<1>1. Kept(p, p)
  OBVIOUS
<1>2. \A q \in PunishmentRow : Kept(p, q) => Kept(p, Retried(q))
  BY DEF Retried
<1>3. Kept(p, Rejected(p))
  BY DEF Rejected
<1>4. Kept(p, Overdue(p))
  BY DEF Overdue
<1>5. p.status = "pending" => Kept(p, [p EXCEPT !.status = "skipped"])
  OBVIOUS
<1>6. /\ Kept(p, [p EXCEPT !.acted = TRUE])
      /\ Kept(p, [p EXCEPT !.kickBanned = TRUE])
      /\ Kept(p, [p EXCEPT !.elapsed = TRUE])
      /\ Kept(p, [p EXCEPT !.release = "no"])
  OBVIOUS
<1>7. \A b : Kept(p, [p EXCEPT !.deleted = b])
  OBVIOUS
<1>8. ASSUME NEW restricting
      PROVE  /\ Kept(p, RevokedRow(p, restricting))
             /\ RevokedRow(p, restricting).status # "pending"
  BY DEF RevokedRow
<1> HIDE DEF Kept, PunishmentRow
<1>. QED BY <1>0, <1>1, <1>2, <1>3, <1>4, <1>5, <1>6, <1>7, <1>8

(* Four steps do more: they open a request, bind it to the group's epoch,  *)
(* begin it and complete it.                                               *)
LEMMA RequestsKept ==
  ASSUME TypeOK, [Next]_vars
  PROVE  \/ \A r \in Requests : Kept(pun[r], pun'[r])
         \/ Prepares \/ StartsPermission \/ PunishDone
         \/ \E r \in Requests : PunishStarts(r)
<1> DEFINE AllKept == \A r \in Requests : Kept(pun[r], pun'[r])
<1>0. pun \in [Requests -> PunishmentRow]
  BY DEF TypeOK, RowsTypeOK
<1>1. \A r \in Requests : Kept(pun[r], pun[r])
  BY <1>0, UpdateKept
<1>2. ASSUME NEW r, NEW p, r \in Requests => Kept(pun[r], p),
             pun' = [pun EXCEPT ![r] = p]
      PROVE  AllKept
  BY <1>0, <1>1, <1>2
<1>3. ASSUME PunishFails \/ PunishRefused \/ PunishTooLate PROVE AllKept
  <2>1. PICK r : r = holder.id
    OBVIOUS
  <2>2. \/ pun' = [pun EXCEPT ![r] = Retried(pun[r])]
        \/ pun' = [pun EXCEPT ![r] = Retried(Rejected(pun[r]))]
        \/ pun' = [pun EXCEPT ![r] = Retried(Overdue(pun[r]))]
    BY <1>3, <2>1 DEF PunishFails, PunishRefused, PunishTooLate
  <2>3. r \in Requests =>
          /\ Kept(pun[r], Retried(pun[r]))
          /\ Kept(pun[r], Retried(Rejected(pun[r])))
          /\ Kept(pun[r], Retried(Overdue(pun[r])))
    BY <1>0, UpdateKept
  <2>4. AllKept
    <3> HIDE DEF AllKept
    <3>. QED BY <1>2, <2>2, <2>3
  <2>. QED BY <2>4
<1>4. CASE DeletesMessage
  <2>1. PICK r, b : r = holder.id /\ b = (pun[r].deleted \/ pun[r].status = "pending")
    OBVIOUS
  <2>2. \/ pun' = [pun EXCEPT ![r] = [pun[r] EXCEPT !.deleted = b]]
        \/ PunishRefused \/ PunishFails
    BY <1>4, <2>1 DEF DeletesMessage
  <2>3. r \in Requests => Kept(pun[r], [pun[r] EXCEPT !.deleted = b])
    BY <1>0, UpdateKept
  <2>4. AllKept
    <3> HIDE DEF AllKept
    <3>. QED BY <1>2, <1>3, <2>2, <2>3
  <2>. QED BY <2>4
<1>5. CASE MarksKickBanned
  <2>1. PICK r : r = holder.id
    OBVIOUS
  <2>2. pun' = [pun EXCEPT ![r] = [pun[r] EXCEPT !.kickBanned = TRUE]]
    BY <1>5, <2>1 DEF MarksKickBanned
  <2>3. r \in Requests => Kept(pun[r], [pun[r] EXCEPT !.kickBanned = TRUE])
    BY <1>0, UpdateKept
  <2>4. AllKept
    <3> HIDE DEF AllKept
    <3>. QED BY <1>2, <2>2, <2>3
  <2>. QED BY <2>4
<1>6. CASE CompletesTakeover
  <2>1. CASE PunishFails
    BY <1>3, <2>1
  <2>2. CASE ~PunishFails
    <3>1. \A q \in Requests :
            \/ pun'[q] = pun[q]
            \/ pun'[q] = [pun[q] EXCEPT !.acted = TRUE]
            \/ pun[q].status = "pending" /\ pun'[q] = [pun[q] EXCEPT !.status = "skipped"]
      BY <1>6, <2>2 DEF CompletesTakeover
    <3>2. \A q \in Requests :
            /\ Kept(pun[q], [pun[q] EXCEPT !.acted = TRUE])
            /\ pun[q].status = "pending" =>
                 Kept(pun[q], [pun[q] EXCEPT !.status = "skipped"])
      BY <1>0, UpdateKept
    <3>. QED BY <1>1, <3>1, <3>2
  <2>. QED BY <2>1, <2>2
<1>7. CASE Drops
  <2>1. PICK r : r = holder.id
    OBVIOUS
  <2>2. pun' = [pun EXCEPT ![r] = [pun[r] EXCEPT !.release = "no"]]
    BY <1>7, <2>1 DEF Drops
  <2>3. r \in Requests => Kept(pun[r], [pun[r] EXCEPT !.release = "no"])
    BY <1>0, UpdateKept
  <2>4. AllKept
    <3> HIDE DEF AllKept
    <3>. QED BY <1>2, <2>2, <2>3
  <2>. QED BY <2>4
<1>8. CASE Revoked
  <2>1. \A r \in Requests : pun'[r] = RevokedRow(pun[r], Action[r] \in Restricting)
    BY <1>8 DEF Revoked
  <2>2. \A r \in Requests : Kept(pun[r], RevokedRow(pun[r], Action[r] \in Restricting))
    BY <1>0, UpdateKept
  <2>. QED BY <2>1, <2>2
<1>9. ASSUME NEW r \in Requests, MuteRunsOut(r) PROVE AllKept
  <2>1. pun' = [pun EXCEPT ![r] = [pun[r] EXCEPT !.elapsed = TRUE]]
    BY <1>9 DEF MuteRunsOut
  <2>2. Kept(pun[r], [pun[r] EXCEPT !.elapsed = TRUE])
    BY <1>0, UpdateKept
  <2>4. AllKept
    <3> HIDE DEF AllKept
    <3>. QED BY <1>2, <2>1, <2>2
  <2>. QED BY <2>4
<1>10. ASSUME NEW step \in EffectSteps, PunishCalls(step) PROVE AllKept
  BY <1>1, <1>3, <1>10 DEF PunishCalls
<1>11. ASSUME NEW step \in EffectSteps, FinishCalls(step) \/ ReleaseCalls(step)
       PROVE  AllKept
  BY <1>1, <1>11 DEF FinishCalls, ReleaseCalls
<1>12. CASE GivesUp
  BY <1>1, <1>3, <1>12 DEF GivesUp
<1>13. CASE JoinNext \/ Expires \/ FinishReads \/ BeginKick \/ Settle
  BY <1>1, <1>13
     DEF JoinNext, JoinChecked, JoinLocked, JoinMutes, Left, Expires, FinishReads,
         BeginKick, Settle
<1>14. CASE \/ Approved \/ VerificationOff \/ VerificationOn \/ Joins \/ Leaves \/ Crash
            \/ UNCHANGED vars
  BY <1>1, <1>14
     DEF Approved, VerificationOff, VerificationOn, Joins, Leaves, Crash, vars
<1>15. ASSUME NEW s \in Sessions, SessionNext(s) PROVE AllKept
  BY <1>1, <1>15 DEF SessionNext, AnsweredRight, AnsweredWrong, Lapses, FinishStarts
<1>16. ASSUME NEW r \in Requests,
              Requested(r) \/ TelegramLifts(r) \/ ReleaseListed(r) \/ ReleaseStarts(r)
       PROVE  AllKept
  BY <1>1, <1>16 DEF Requested, TelegramLifts, ReleaseListed, ReleaseStarts
<1>17. ASSUME NEW c \in calls, Busy(c) PROVE AllKept
  BY <1>1, <1>17 DEF Busy
<1>. QED
  BY <1>4, <1>5, <1>6, <1>7, <1>8, <1>9, <1>10, <1>11, <1>12, <1>13, <1>14, <1>15,
     <1>16, <1>17
     DEF Next, FinishNext, PunishNext, ReleaseNext, GroupNext, OtherNext, RequestNext

(* Nothing but a revocation moves the epoch or ends the approval, and only *)
(* an administrator switches verification off.                             *)
LEMMA GroupKept ==
  ASSUME TypeOK, [Next]_vars, ~Revoked
  PROVE  /\ group'.epoch = group.epoch /\ (group.approved => group'.approved)
         /\ (group.verifying /\ ~VerificationOff) => group'.verifying
<1>0. group \in [approved : BOOLEAN, epoch : Nat, verifying : BOOLEAN]
  BY DEF TypeOK, MemberTypeOK
<1>1. CASE Approved
  BY <1>0, <1>1 DEF Approved
<1>2. CASE VerificationOff
  BY <1>0, <1>2 DEF VerificationOff
<1>3. CASE VerificationOn
  BY <1>0, <1>3 DEF VerificationOn
<1>4. CASE JoinNext \/ Expires \/ FinishReads \/ BeginKick \/ Settle \/ Drops
  BY <1>4
     DEF JoinNext, JoinChecked, JoinLocked, JoinMutes, Left, Expires, FinishReads,
         BeginKick, Settle, Drops
<1>5. ASSUME NEW step \in EffectSteps,
             FinishCalls(step) \/ PunishCalls(step) \/ ReleaseCalls(step)
      PROVE  UNCHANGED group
  BY <1>5 DEF FinishCalls, PunishCalls, ReleaseCalls
<1>6. CASE \/ Prepares \/ DeletesMessage \/ StartsPermission \/ MarksKickBanned
           \/ CompletesTakeover \/ PunishDone
  BY <1>6
     DEF Prepares, DeletesMessage, StartsPermission, MarksKickBanned, CompletesTakeover,
         PunishDone
<1>7. ASSUME NEW s \in Sessions, SessionNext(s) PROVE UNCHANGED group
  BY <1>7 DEF SessionNext, AnsweredRight, AnsweredWrong, Lapses, FinishStarts
<1>8. ASSUME NEW r \in Requests,
             RequestNext(r) \/ ReleaseListed(r) \/ ReleaseStarts(r)
      PROVE  UNCHANGED group
  BY <1>8
     DEF RequestNext, Requested, PunishStarts, MuteRunsOut, TelegramLifts, ReleaseListed,
         ReleaseStarts
<1>9. CASE OtherNext \/ UNCHANGED vars
  BY <1>9 DEF OtherNext, Joins, Leaves, GivesUp, Crash, Busy, vars
<1>. QED
  BY <1>1, <1>2, <1>3, <1>4, <1>5, <1>6, <1>7, <1>8, <1>9
     DEF Next, FinishNext, PunishNext, ReleaseNext, GroupNext

-----------------------------------------------------------------------------
(* The authorization fence.                                                *)

(* The fence, with what keeps it: a request that was never opened has no   *)
(* progress, and whoever carries a request out has opened it.              *)
FenceInv ==
  /\ BegunUnderAuthority
  /\ \A r \in Requests : pun[r].status = "none" => ~pun[r].row /\ ~pun[r].started
  /\ holder.op = "punish" => pun[holder.id].status # "none"

(* A begun request that is still pending belongs to the present approval.  *)
THEOREM FenceHoldsAlways == Spec => []BegunUnderAuthority
<1>1. Init => FenceInv
  BY DEF Init, FenceInv, BegunUnderAuthority, NoPunishment, Free
<1>2. TypeOK /\ FenceInv /\ [Next]_vars => FenceInv'
  <2> SUFFICES ASSUME TypeOK, FenceInv, [Next]_vars PROVE FenceInv'
    OBVIOUS
  <2>0. /\ pun \in [Requests -> PunishmentRow] /\ pun' \in [Requests -> PunishmentRow]
        /\ holder \in Holder /\ group.epoch \in Nat
        /\ holder.op \in {"punish", "release"} => holder.id \in Requests
    BY RowsStep DEF TypeOK, MemberTypeOK, RowsTypeOK, LockTypeOK
  <2>1. /\ \A r \in Requests : pun[r].status = "pending" =>
             /\ pun[r].row => pun[r].version = group.epoch
             /\ pun[r].started => group.approved
        /\ \A r \in Requests : pun[r].status = "none" => ~pun[r].row /\ ~pun[r].started
        /\ holder.op = "punish" => pun[holder.id].status # "none"
    BY DEF FenceInv, BegunUnderAuthority
  (* Opening a request.                                                    *)
  <2>2. ASSUME NEW r \in Requests, PunishStarts(r) PROVE FenceInv'
    <3>1. /\ UNCHANGED group /\ holder'.op = "punish" /\ holder'.id = r
          /\ \A q \in Requests \ {r} : pun'[q] = pun[q]
      BY <2>0, <2>2 DEF PunishStarts, Free
    <3>2. \/ pun'[r] = pun[r] /\ pun[r].status # "none"
          \/ pun[r].status = "none" /\ pun'[r].status = "pending"
             /\ pun'[r].row = pun[r].row /\ pun'[r].started = pun[r].started
      BY <2>0, <2>2 DEF PunishStarts, PunishmentRow
    <3>. QED BY <2>1, <3>1, <3>2 DEF FenceInv, BegunUnderAuthority
  (* Binding it to the present epoch.                                      *)
  <2>3. CASE Prepares
    <3>1. PICK r \in Requests : r = holder.id /\ holder.op = "punish"
      BY <2>0, <2>3 DEF Prepares, Doing
    <3>2. /\ UNCHANGED group /\ (holder'.op = "punish" => holder'.id = r)
          /\ \A q \in Requests \ {r} : pun'[q] = pun[q]
      <4>1. UNCHANGED group /\ \A q \in Requests \ {r} : pun'[q] = pun[q]
        BY <2>0, <2>3, <3>1 DEF Prepares
      <4>2. \/ holder' = Free
            \/ \E todo, acted : holder' = [holder EXCEPT !.todo = todo, !.acted = acted]
        BY <2>3 DEF Prepares
      <4>3. CASE holder' = Free
        BY <4>1, <4>3 DEF Free
      <4>4. CASE holder' # Free
        <5>1. PICK todo, acted : holder' = [holder EXCEPT !.todo = todo, !.acted = acted]
          BY <4>2, <4>4
        <5>2. holder'.id = holder.id
          BY <2>0, <5>1 DEF Holder
        <5>. QED BY <3>1, <4>1, <5>2
      <4>. QED BY <4>3, <4>4
    <3>3. PICK p : p = IF pun[r].row THEN pun[r]
                       ELSE [pun[r] EXCEPT !.row = TRUE, !.version = group.epoch]
      OBVIOUS
    <3>4. /\ p.status = pun[r].status /\ p.started = pun[r].started /\ p.row
          /\ p.version = IF pun[r].row THEN pun[r].version ELSE group.epoch
          /\ p \in PunishmentRow
      <4>1. pun[r] \in PunishmentRow
        BY <2>0
      <4>2. p \in PunishmentRow
        BY <2>0, <3>3, <4>1, RowUpdateType
      <4>3. CASE pun[r].row
        BY <3>3, <4>2, <4>3
      <4>4. CASE ~pun[r].row
        BY <2>0, <3>3, <4>1, <4>2, <4>4 DEF PunishmentRow
      <4>. QED BY <4>3, <4>4
    <3>5. pun'[r] = p \/ pun'[r] = [p EXCEPT !.status = "skipped"]
      BY <2>0, <2>3, <3>1, <3>3 DEF Prepares
    <3>6. pun'[r].status # "none" /\ (pun'[r].status = "pending" => pun'[r] = p)
      BY <2>1, <3>1, <3>4, <3>5 DEF PunishmentRow
    <3>7. pun[r].status = "pending" =>
            /\ p.version = group.epoch
            /\ p.started => group.approved
      BY <2>1, <3>4
    <3>8. pun'[r].status = "pending" => pun[r].status = "pending"
      BY <3>4, <3>6
    <3>. QED BY <2>1, <3>2, <3>6, <3>7, <3>8 DEF FenceInv, BegunUnderAuthority
  (* Beginning it: StartPermission looks at the group again.               *)
  <2>4. CASE StartsPermission /\ ~(\A r \in Requests : Kept(pun[r], pun'[r]))
    <3>1. PICK r \in Requests : r = holder.id /\ holder.op = "punish"
      BY <2>0, <2>4 DEF StartsPermission, Doing
    <3>2. ~PunishFails /\ ~PunishTooLate
      <4>1. \A q \in Requests : /\ Kept(pun[q], pun[q])
                                /\ Kept(pun[q], Retried(pun[q]))
                                /\ Kept(pun[q], Retried(Overdue(pun[q])))
        BY <2>0, UpdateKept
      <4>. QED BY <2>0, <2>4, <4>1 DEF PunishFails, PunishTooLate
    <3>3. /\ group.approved /\ pun[r].status = "pending"
          /\ \A q \in Requests \ {r} : pun'[q] = pun[q]
          /\ pun'[r].status = pun[r].status
          /\ pun'[r].row = pun[r].row /\ pun'[r].version = pun[r].version
          /\ UNCHANGED group /\ holder' = Advanced(holder)
      BY <2>0, <2>4, <3>1, <3>2 DEF StartsPermission, MayStart, PunishmentRow
    <3>4. holder'.op = "punish" => holder'.id = r
      <4>1. holder.todo # <<>>
        BY <3>1 DEF TypeOK, LockTypeOK
      <4>. QED BY <2>0, <3>1, <3>3, <4>1, AdvancedType DEF Holder
    <3>. QED BY <2>1, <3>3, <3>4 DEF FenceInv, BegunUnderAuthority
  (* Completing it.                                                        *)
  <2>5. CASE PunishDone /\ ~(\A r \in Requests : Kept(pun[r], pun'[r]))
    <3>1. ~PunishFails
      <4>1. \A q \in Requests : Kept(pun[q], pun[q]) /\ Kept(pun[q], Retried(pun[q]))
        BY <2>0, UpdateKept
      <4>. QED BY <2>0, <2>5, <4>1 DEF PunishFails
    <3>2. /\ UNCHANGED group /\ holder'.op = "none"
          /\ \A q \in Requests :
               \/ pun'[q] = pun[q]
               \/ pun'[q].status = "done"
      <4>1. PICK r : r = holder.id
        OBVIOUS
      <4>2. pun' = [pun EXCEPT ![r] = [pun[r] EXCEPT !.status =
                      IF pun[r].status = "pending" THEN "done" ELSE pun[r].status]]
        BY <2>5, <3>1, <4>1 DEF PunishDone
      <4>3. \A q \in Requests \ {r} : pun'[q] = pun[q]
        BY <2>0, <4>2
      <4>4. r \in Requests => pun'[r] = pun[r] \/ pun'[r].status = "done"
        <5>1. CASE pun[r].status = "pending" /\ r \in Requests
          BY <2>0, <4>2, <5>1 DEF PunishmentRow
        <5>2. CASE pun[r].status # "pending" /\ r \in Requests
          <6>1. [pun[r] EXCEPT !.status = pun[r].status] = pun[r]
            BY <2>0, <5>2 DEF PunishmentRow
          <6>. QED BY <2>0, <4>2, <5>2, <6>1
        <5>. QED BY <5>1, <5>2
      <4>. QED BY <2>5, <3>1, <4>3, <4>4 DEF PunishDone, Free
    <3>. QED BY <2>1, <3>2 DEF FenceInv, BegunUnderAuthority
  (* Everything else leaves requests alone or retires them; the epoch only *)
  (* moves with a revocation, which leaves no request pending.             *)
  <2>6. CASE /\ \A r \in Requests : Kept(pun[r], pun'[r])
             /\ ~Prepares /\ ~(\E r \in Requests : PunishStarts(r))
    <3>1. \A r \in Requests :
            /\ pun'[r].status = "pending" => pun[r].status = "pending"
            /\ pun'[r].status = "none" => pun[r].status = "none"
            /\ pun[r].status # "none" => pun'[r].status # "none"
            /\ pun'[r].started => pun[r].started
            /\ pun'[r].row = pun[r].row /\ pun'[r].version = pun[r].version
      BY <2>6 DEF Kept
    <3>2. \/ \A r \in Requests : pun'[r].status # "pending"
          \/ group'.epoch = group.epoch /\ (group.approved => group'.approved)
      <4>1. CASE Revoked
        <5>1. \A r \in Requests : pun'[r] = RevokedRow(pun[r], Action[r] \in Restricting)
          BY <4>1 DEF Revoked
        <5>2. \A r \in Requests :
                RevokedRow(pun[r], Action[r] \in Restricting).status # "pending"
          BY <2>0, UpdateKept
        <5>. QED BY <5>1, <5>2
      <4>2. CASE ~Revoked
        BY <4>2, GroupKept
      <4>. QED BY <4>1, <4>2
    <3>3. holder'.op = "punish" => holder.op = "punish" /\ holder'.id = holder.id
      <4>1. ~FinishReads \/ holder'.op # "punish"
        <5>1. ASSUME FinishReads
              PROVE  \/ holder' = Free
                     \/ /\ holder.op = "finish"
                        /\ \E todo, outcome :
                             holder' = [holder EXCEPT !.todo = todo, !.outcome = outcome]
          BY <5>1 DEF FinishReads, Doing
        <5>2. CASE holder' = Free
          BY <5>2 DEF Free
        <5>3. CASE FinishReads /\ holder' # Free
          <6>1. PICK todo, outcome :
                  holder' = [holder EXCEPT !.todo = todo, !.outcome = outcome]
            BY <5>1, <5>3
          <6>2. holder'.op = holder.op
            BY <2>0, <6>1 DEF Holder
          <6>. QED BY <5>1, <5>3, <6>2
        <5>. QED BY <5>2, <5>3
      <4>2. ASSUME JoinLocked PROVE UNCHANGED holder \/ holder'.op = "join"
        BY <4>2 DEF JoinLocked, JoinMuting, Free
      <4>3. \A s, status : Finishing(s, status).op = "finish"
        BY DEF Finishing, Free
      <4>4. ASSUME NEW r \in Requests, ReleaseStarts(r) PROVE holder'.op = "release"
        BY <4>4 DEF ReleaseStarts, Free
      <4>. QED BY <2>6, <4>1, <4>2, <4>3, <4>4, HolderMoves DEF GoesOn
    <3>. QED BY <2>0, <2>1, <3>1, <3>2, <3>3 DEF FenceInv, BegunUnderAuthority
  <2>. QED BY <2>2, <2>3, <2>4, <2>5, <2>6, RequestsKept
<1>3. FenceInv => BegunUnderAuthority
  BY DEF FenceInv
<1>. QED BY <1>1, <1>2, <1>3, MemberTypeCorrect, PTL DEF Spec

-----------------------------------------------------------------------------
(* Verification waits for punishments.                                     *)

(* Outside the four steps that open, bind, begin and complete a request,   *)
(* nothing puts a request on record; these belong to a punishment, which   *)
(* has the lock.                                                           *)
LEMMA TakeoverNeedsLock ==
  ASSUME TypeOK, [Next]_vars
  PROVE  (TakenOver' => TakenOver) \/ holder'.op \in {"none", "punish"}
<1>0. pun \in [Requests -> PunishmentRow] /\ holder \in Holder
  BY DEF TypeOK, RowsTypeOK, LockTypeOK
<1>1. CASE \A r \in Requests : Kept(pun[r], pun'[r])
  BY <1>1 DEF Kept, TakenOver
<1>2. CASE Prepares
  <2>1. CASE holder' = Free
    BY <2>1 DEF Free
  <2>2. CASE holder' # Free
    <3>1. PICK todo, acted : holder' = [holder EXCEPT !.todo = todo, !.acted = acted]
      BY <1>2, <2>2 DEF Prepares
    <3>. QED BY <1>0, <1>2, <3>1 DEF Prepares, Doing, Holder
  <2>. QED BY <2>1, <2>2
<1>3. CASE StartsPermission
  <2>1. holder' = Free \/ holder' = Advanced(holder)
    BY <1>3 DEF StartsPermission, PunishFails, PunishTooLate
  <2>2. Advanced(holder).op \in {"none", "punish"}
    BY <1>0, <1>3 DEF StartsPermission, Doing, Advanced, Free, Holder
  <2>. QED BY <2>1, <2>2 DEF Free
<1>4. CASE PunishDone
  BY <1>4 DEF PunishDone, PunishFails, Free
<1>5. ASSUME NEW r \in Requests, PunishStarts(r) PROVE holder'.op = "punish"
  BY <1>5 DEF PunishStarts, Free
<1>. QED BY <1>1, <1>2, <1>3, <1>4, <1>5, RequestsKept

(* No call is made for a session, and none of its outcomes written, while  *)
(* a punishment of the member is pending.                                  *)
THEOREM VerificationGivesWay == Spec => []VerificationWaits
<1>1. Init => VerificationWaits
  BY DEF Init, VerificationWaits, Free
<1>2. TypeOK /\ VerificationWaits /\ [Next]_vars => VerificationWaits'
  <2> SUFFICES ASSUME TypeOK, VerificationWaits, [Next]_vars,
                      holder'.op \in {"join", "finish"}, Head(holder'.todo) # "read"
               PROVE  ~TakenOver'
    BY DEF VerificationWaits
  <2>0. TakenOver' => TakenOver
    BY TakeoverNeedsLock
  <2>1. CASE UNCHANGED holder \/ GoesOn
    BY <2>0, <2>1 DEF VerificationWaits, GoesOn
  <2>2. CASE FinishReads
    <3>1. CASE TakenOver
      <4>1. holder' = Free
        BY <2>2, <3>1 DEF FinishReads
      <4>. QED BY <4>1 DEF Free
    <3>2. CASE ~TakenOver
      BY <2>0, <3>2
    <3>. QED BY <3>1, <3>2
  <2>3. CASE Prepares
    <3>1. CASE holder' = Free
      BY <3>1 DEF Free
    <3>2. CASE holder' # Free
      <4>1. PICK todo, acted : holder' = [holder EXCEPT !.todo = todo, !.acted = acted]
        BY <2>3, <3>2 DEF Prepares
      <4>2. holder'.op = holder.op
        BY <4>1 DEF TypeOK, LockTypeOK, Holder
      <4>. QED BY <2>3, <4>2 DEF Prepares, Doing
    <3>. QED BY <3>1, <3>2
  <2>4. CASE JoinLocked
    <3>1. CASE JoinProceeds
      BY <2>0, <3>1 DEF JoinProceeds
    <3>2. CASE ~JoinProceeds
      BY <2>4, <3>2 DEF JoinLocked, LockFree
    <3>. QED BY <3>1, <3>2
  <2>5. ~(\E s \in Sessions, status \in Active : holder' = Finishing(s, status))
    <3>1. \A s, status : Finishing(s, status).todo = <<"read">>
      BY DEF Finishing, Free
    <3>2. Head(<<"read">>) = "read"
      OBVIOUS
    <3>. QED BY <3>1, <3>2
  <2>6. ~(\E r \in Requests : PunishStarts(r) \/ ReleaseStarts(r))
    BY DEF PunishStarts, ReleaseStarts, Free
  <2>. QED BY <2>1, <2>2, <2>3, <2>4, <2>5, <2>6, HolderMoves
<1>. QED BY <1>1, <1>2, MemberTypeCorrect, PTL DEF Spec

-----------------------------------------------------------------------------
(* An old request yields to a newer decision of an administrator.          *)

(* Only its first step stamps a request, and only its last makes it done.  *)
LEMMA DecisionsKept ==
  ASSUME TypeOK, [Next]_vars, ~PunishDone, ~(\E r \in Requests : PunishStarts(r))
  PROVE  \A r \in Requests : /\ pun'[r].created = pun[r].created
                             /\ pun'[r].status = "done" => pun[r].status = "done"
<1>0. /\ pun \in [Requests -> PunishmentRow] /\ holder \in Holder
      /\ group.epoch \in Nat
  BY DEF TypeOK, MemberTypeOK, RowsTypeOK, LockTypeOK
<1>1. CASE \A r \in Requests : Kept(pun[r], pun'[r])
  BY <1>1 DEF Kept
<1>2. CASE Prepares
  <2>1. PICK r : r = holder.id
    OBVIOUS
  <2>2. PICK p : p = IF pun[r].row THEN pun[r]
                     ELSE [pun[r] EXCEPT !.row = TRUE, !.version = group.epoch]
    OBVIOUS
  <2>3. \/ pun' = [pun EXCEPT ![r] = p]
        \/ pun' = [pun EXCEPT ![r] = [p EXCEPT !.status = "skipped"]]
    BY <1>2, <2>1, <2>2 DEF Prepares
  <2>4. r \in Requests => /\ p \in PunishmentRow
                          /\ p.created = pun[r].created /\ p.status = pun[r].status
    <3>1. ASSUME r \in Requests
          PROVE  p \in PunishmentRow
      BY <1>0, <2>2, <3>1, RowUpdateType
    <3>2. CASE r \in Requests /\ pun[r].row
      BY <2>2, <3>1, <3>2
    <3>3. CASE r \in Requests /\ ~pun[r].row
      BY <1>0, <2>2, <3>1, <3>3 DEF PunishmentRow
    <3>. QED BY <3>2, <3>3
  <2>5. ASSUME NEW q \in Requests \ {r} PROVE pun'[q] = pun[q]
    BY <1>0, <2>3
  <2>6. ASSUME r \in Requests
        PROVE  /\ pun'[r].created = pun[r].created
               /\ pun'[r].status = "done" => pun[r].status = "done"
    <3>1. CASE pun' = [pun EXCEPT ![r] = p]
      BY <1>0, <2>4, <2>6, <3>1
    <3>2. CASE pun' = [pun EXCEPT ![r] = [p EXCEPT !.status = "skipped"]]
      <4>1. pun'[r] = [p EXCEPT !.status = "skipped"]
        BY <1>0, <2>6, <3>2
      <4>. QED BY <2>4, <2>6, <4>1 DEF PunishmentRow
    <3>. QED BY <2>3, <3>1, <3>2
  <2>. QED BY <2>5, <2>6
<1>3. CASE StartsPermission /\ ~(\A r \in Requests : Kept(pun[r], pun'[r]))
  <2>1. ~PunishFails /\ ~PunishTooLate
    <3>1. \A q \in Requests : /\ Kept(pun[q], pun[q])
                              /\ Kept(pun[q], Retried(pun[q]))
                              /\ Kept(pun[q], Retried(Overdue(pun[q])))
      BY <1>0, UpdateKept
    <3>. QED BY <1>0, <1>3, <3>1 DEF PunishFails, PunishTooLate
  <2>. QED BY <1>0, <1>3, <2>1 DEF StartsPermission, PunishmentRow
<1>. QED BY <1>1, <1>2, <1>3, RequestsKept

(* The preflight found no newer decision, and none is made until the       *)
(* request is carried out.                                                 *)
YieldInv ==
  (/\ holder.op = "punish" /\ Head(holder.todo) # "prepare"
   /\ Source[holder.id] # "blacklist") => ~NewerManual(holder.id)

(* No call is made for a request once an administrator's newer one is      *)
(* done.                                                                   *)
THEOREM OldRequestsYield == Spec => []OldRequestYields
<1>1. Init => YieldInv
  BY DEF Init, YieldInv, Free
<1>2. TypeOK /\ YieldInv /\ [Next]_vars => YieldInv'
  <2> SUFFICES ASSUME TypeOK, YieldInv, [Next]_vars,
                      holder'.op = "punish", Head(holder'.todo) # "prepare",
                      Source[holder'.id] # "blacklist"
               PROVE  ~NewerManual(holder.id)'
    BY DEF YieldInv, NewerManual, Earlier
  <2>1. ~PunishDone
    BY DEF PunishDone, PunishFails, Free
  <2>2. ~(\E r \in Requests : PunishStarts(r) \/ ReleaseStarts(r))
    <3>1. ASSUME NEW r \in Requests, PunishStarts(r) PROVE FALSE
      <4>1. holder'.todo = <<"prepare">>
        BY <3>1 DEF PunishStarts, Free
      <4>2. Head(<<"prepare">>) = "prepare"
        OBVIOUS
      <4>. QED BY <4>1, <4>2
    <3>2. ASSUME NEW r \in Requests, ReleaseStarts(r) PROVE FALSE
      BY <3>2 DEF ReleaseStarts, Free
    <3>. QED BY <3>1, <3>2
  <2>3. \A r \in Requests : /\ pun'[r].created = pun[r].created
                            /\ pun'[r].status = "done" => pun[r].status = "done"
    BY <2>1, <2>2, DecisionsKept
  <2>4. holder'.id = holder.id /\ holder.op = "punish" /\ ~NewerManual(holder.id)
    <3>0. holder \in Holder
      BY DEF TypeOK, LockTypeOK
    <3>1. CASE UNCHANGED holder \/ GoesOn
      BY <3>1 DEF YieldInv, GoesOn
    <3>2. CASE Prepares
      <4>1. holder' # Free
        BY DEF Free
      <4>2. PICK todo, acted : holder' = [holder EXCEPT !.todo = todo, !.acted = acted]
        BY <3>2, <4>1 DEF Prepares
      <4>3. holder'.id = holder.id
        BY <3>0, <4>2 DEF Holder
      <4>4. ~Superseded(holder.id)
        BY <3>2, <4>1 DEF Prepares
      <4>. QED BY <3>2, <4>3, <4>4 DEF Prepares, Doing, Superseded
    <3>3. ~FinishReads
      <4> SUFFICES ASSUME FinishReads PROVE FALSE
        OBVIOUS
      <4>1. holder' # Free
        BY DEF Free
      <4>2. PICK todo, outcome : holder' = [holder EXCEPT !.todo = todo, !.outcome = outcome]
        BY <4>1 DEF FinishReads
      <4>3. holder'.op = holder.op
        BY <3>0, <4>2 DEF Holder
      <4>. QED BY <4>3 DEF FinishReads, Doing
    <3>4. JoinLocked => UNCHANGED holder
      BY DEF JoinLocked, JoinMuting, Free
    <3>5. ~(\E s \in Sessions, status \in Active : holder' = Finishing(s, status))
      BY DEF Finishing, Free
    <3>. QED BY <2>2, <3>1, <3>2, <3>3, <3>4, <3>5, HolderMoves
  <2>5. holder.id \in Requests
    BY <2>4 DEF TypeOK, LockTypeOK
  <2>. QED BY <2>3, <2>4, <2>5 DEF NewerManual, Earlier
<1>3. TypeOK /\ YieldInv => OldRequestYields
  BY DEF YieldInv, OldRequestYields, NewerManual, Earlier, EffectSteps
<1>. QED BY <1>1, <1>2, <1>3, MemberTypeCorrect, PTL DEF Spec

=============================================================================
