------------------------------ MODULE ModerationProofs ------------------------------
(***************************************************************************)
(* Theorems about Moderation, for any number of updates and messages, any   *)
(* settings, and any number of failures and changes: its types, one verdict *)
(* for an update, one penalty for a message, and a cause for every          *)
(* repeated-advert mute, escalation and spam penalty.                       *)
(***************************************************************************)
EXTENDS Moderation, FiniteSetTheorems, TLAPS

-----------------------------------------------------------------------------
(* The inductive invariant.                                                *)

Mild == {"allow", "shadow_log"}
AutoKey(u) == <<"auto", u>>
Active(k) == row[k].status \in {"pending", "done"}

\* Where a handler is tells what it handles and what was saved about it.
JobInv ==
  \A u \in Updates :
    /\ input[u] # NoInput =>
         /\ input[u].kind \in {"say", "check"} /\ input[u].message \in Messages
         /\ input[u].content \in Contents
    /\ job[u].at # "idle" => input[u] # NoInput
    /\ job[u].at \in {"decided", "judged", "replying"} => input[u].kind = "say"
    /\ job[u].at \in {"judged", "replying", "punishing"} => Logged(Key(u))
    /\ job[u].at = "replying" => log[Key(u)].decision.action = "allow"
    /\ job[u].at = "punishing" => log[Key(u)].decision.action \notin Mild

\* What was saved is about a message; a checked message is not allowed by the check.
LogInv ==
  \A k \in Keys : Logged(k) =>
    /\ log[k].message \in Messages /\ log[k].content \in Contents
    /\ k[1] = "check" => log[k].decision.action # "allow"

\* A row carries out the saved decision, and what it says was done was done.
RowInv ==
  \A k \in Keys :
    /\ row[k].status = "none" => row[k] = NoRow
    /\ row[k].status # "none" =>
         /\ Logged(k) /\ log[k].decision = row[k].decision
         /\ row[k].decision.action \notin Mild
    /\ row[k].deleted => <<k, "delete">> \in effects
    /\ row[k].acted => IF row[k].decision.action = "delete" THEN row[k].deleted
                       ELSE <<k, row[k].decision.action>> \in effects
    /\ row[k].status = "done" => row[k].acted
    /\ row[k].deleted => row[k].status # "failed"

\* Nothing is done without a row, and members are punished after the message is deleted.
EffectInv ==
  \A k \in Keys :
    /\ Did(k, Calls) => row[k].status # "none"
    /\ Did(k, {"warn", "mute"}) =>
         /\ row[k].decision.action \in {"warn", "mute"}
         /\ row[k].decision.delete => row[k].deleted

\* The holder of the lock works on a pending row, in the order of Turn.
HolderInv ==
  holder # Free =>
    /\ holder.key \in Keys /\ Mine.status = "pending"
    /\ holder.by # 0 => job[holder.by].at = "punishing"
    /\ holder.todo = {"preflight"} \/ "preflight" \notin holder.todo
    /\ "remember" \in holder.todo => Mine.decision.action = "warn"
    /\ Mine.deleted => holder.acted
    /\ "preflight" \notin holder.todo =>
         /\ "done" \in holder.todo
         /\ "act" \notin holder.todo => Mine.acted
         /\ Mine.decision.delete /\ Mine.decision.action # "ban" /\ "delete" \notin holder.todo
              => Mine.deleted

\* At most one row of a message deletes it and warns or mutes.
OneActive ==
  \A k, q \in Keys :
    k # q /\ log[k].message = log[q].message /\ Active(k) /\ Active(q)
    /\ row[k].decision.delete /\ row[q].decision.delete
    => row[k].decision.action \notin {"warn", "mute"} \/ row[q].decision.action \notin {"warn", "mute"}

\* Another message with this content was deleted and warned about.
Proven(m, c) ==
  \E q \in Keys : /\ log[q].message # m /\ log[q].content = c
                  /\ <<q, "delete">> \in effects /\ <<q, "warn">> \in effects

\* A decided message repeats an advert only if that is proven, and so does a saved one.
MemoryInv ==
  \A w \in memory :
    /\ w[1] \notin wrong
    /\ \E q \in Keys : /\ log[q].message = w[1] /\ log[q].content = w[2]
                       /\ <<q, "delete">> \in effects /\ <<q, "warn">> \in effects

DecidedProven ==
  \A u \in Updates : job[u].at = "decided" /\ job[u].decision.reason = "repeated_ad" =>
    Proven(input[u].message, input[u].content)

SavedProven ==
  \A k \in Keys : log[k].decision.reason = "repeated_ad" => Proven(log[k].message, log[k].content)

SendInv ==
  \A u \in Updates :
    /\ sends[u] > 0 => /\ Logged(AutoKey(u)) /\ log[AutoKey(u)].decision.action = "allow"
                       /\ u \in answered \cup unmarked
    /\ sends[u] > 1 => u \in unmarked

\* What d says of the past is true of update u.
CountedSoFar == Cardinality({v \in Updates : rate[v] > 0})
Earned(u, d) ==
  \E n \in DOMAIN Policies : LET s == Policies[n] IN
    /\ d.reason = "local_ad_review" => Felt(u) >= s.HoldAfter
    /\ d.reason \in {"advertising", "spam"} /\ d.action = "ban" => Felt(u) + 1 >= s.BanAfter
    /\ d.reason = "spam" /\ d.action = "mute" => Felt(u) + 1 >= s.MuteAfter
    /\ d.reason = "spam" => s.SpamEnabled /\ CountedSoFar > s.RateLimit

RateInv == \A u \in Updates : rate[u] <= CountedSoFar

DecidedEarned ==
  \A u \in Updates : job[u].at = "decided" =>
    Earned(u, job[u].decision) /\ (job[u].decision.action = "delete" => job[u].decision.delete)

SavedEarned ==
  /\ \A u \in Updates : Earned(u, log[AutoKey(u)].decision)
  /\ \A k \in Keys : log[k].decision.action = "delete" => log[k].decision.delete

ModInv ==
  /\ TypeOK /\ JobInv /\ LogInv /\ RowInv /\ EffectInv /\ HolderInv /\ OneActive
  /\ MemoryInv /\ DecidedProven /\ SavedProven /\ SendInv
  /\ RateInv /\ DecidedEarned /\ SavedEarned

-----------------------------------------------------------------------------
(* Decisions.                                                              *)

LocalActions == {"none", "delete", "mute", "ban"}

LEMMA StrongestOfLocal ==
  ASSUME NEW A, A \subseteq LocalActions
  PROVE  Strongest(A) \in LocalActions
<1>1. PICK f : f = [b \in LocalActions |-> Rank(b)]
  OBVIOUS
<1>2. f["none"] = 0 /\ f["delete"] = 1 /\ f["mute"] = 2 /\ f["ban"] = 3
  BY <1>1 DEF Rank, LocalActions
<1>3. \E a \in A \cup {"none"} : \A b \in A : Rank(b) <= Rank(a)
  <2>1. \A b \in A : b = "none" \/ b = "delete" \/ b = "mute" \/ b = "ban"
    BY DEF LocalActions
  <2>2. PICK a \in A \cup {"none"} : \A b \in A : f[b] <= f[a]
    <3>1. CASE "ban" \in A
      <4>1. \A b \in A : f[b] <= f["ban"]
        BY <1>2, <2>1, <3>1
      <4>. QED BY <3>1, <4>1, Zenon
    <3>2. CASE "ban" \notin A /\ "mute" \in A
      <4>1. \A b \in A : f[b] <= f["mute"]
        BY <1>2, <2>1, <3>2
      <4>. QED BY <3>2, <4>1, Zenon
    <3>3. CASE "ban" \notin A /\ "mute" \notin A /\ "delete" \in A
      <4>1. \A b \in A : f[b] <= f["delete"]
        BY <1>2, <2>1, <3>3
      <4>. QED BY <3>3, <4>1, Zenon
    <3>4. CASE "ban" \notin A /\ "mute" \notin A /\ "delete" \notin A
      <4>1. \A b \in A : f[b] <= f["none"]
        BY <1>2, <2>1, <3>4
      <4>. QED BY <3>4, <4>1, Zenon
    <3>. QED BY <3>1, <3>2, <3>3, <3>4
  <2>3. f[a] = Rank(a) /\ \A b \in A : f[b] = Rank(b)
    BY <1>1 DEF LocalActions
  <2>4. \A b \in A : Rank(b) <= Rank(a)
    BY <2>2, <2>3, Zenon
  <2>. QED BY <2>4, Zenon
<1>4. Strongest(A) \in A \cup {"none"}
  BY <1>3 DEF Strongest
<1>. QED BY <1>4 DEF LocalActions

LEMMA MatchesHaveLocalActions ==
  ASSUME NEW n \in DOMAIN Policies, NEW part, NEW isNew, NEW first,
         NEW m \in Matches(Policies[n], part, isNew, first)
  PROVE  ActionOf(Policies[n], m) \in LocalActions
<1>. DEFINE s == Policies[n]
<1>1. \A rules \in {s.Builtin, s.Rules, s.AdRules} : \A r \in DOMAIN rules :
        rules[r].action \in LocalActions
  BY ModerationAssumption DEF LocalActions
<1>2. m \in DOMAIN s.Builtin \/ m \in DOMAIN s.AdRules \/ m \in DOMAIN Newcomer
  BY DEF Matches
<1>3. CASE m \in DOMAIN Newcomer
  BY <1>3 DEF ActionOf, LocalActions
<1>4. CASE m \notin DOMAIN Newcomer /\ m \in DOMAIN s.AdRules
  BY <1>1, <1>4 DEF ActionOf
<1>5. CASE m \notin DOMAIN Newcomer /\ m \notin DOMAIN s.AdRules /\ m \in DOMAIN s.Builtin
  BY <1>1, <1>5 DEF ActionOf, Effective
<1>. QED BY <1>2, <1>3, <1>4, <1>5

LEMMA RiskLocal ==
  ASSUME NEW n \in DOMAIN Policies, NEW c, NEW isNew, NEW first
  PROVE  Evaluate(Policies[n], c, isNew, first).local \in LocalActions
<1>. DEFINE s == Policies[n]
            found == UNION {Matches(s, p, isNew, first) : p \in c}
<1>1. {ActionOf(s, m) : m \in found} \subseteq LocalActions
  BY MatchesHaveLocalActions
<1>2. PICK strongest : strongest = Strongest({ActionOf(s, m) : m \in found})
  OBVIOUS
<1>3. strongest \in LocalActions
  BY <1>1, <1>2, StrongestOfLocal
<1>4. Evaluate(s, c, isNew, first).local = strongest
  BY <1>2 DEF Evaluate
<1>. QED BY <1>3, <1>4

\* What a decision of the engine says of the violations and the spam counter.
Sound(n, spam, violations, d) ==
  /\ d \in Decisions /\ d.reason # "repeated_ad"
  /\ d.action = "delete" => d.delete
  /\ d.reason = "local_ad_review" => violations >= Policies[n].HoldAfter
  /\ d.reason \in {"advertising", "spam"} /\ d.action = "ban"
       => violations + 1 >= Policies[n].BanAfter
  /\ d.reason = "spam" /\ d.action = "mute" => violations + 1 >= Policies[n].MuteAfter
  /\ d.reason = "spam" => spam

LEMMA ByRuleSound ==
  ASSUME NEW n \in DOMAIN Policies, NEW risk, risk.local \in LocalActions \ {"none"},
         NEW violations \in Nat
  PROVE  Sound(n, risk.spam, violations, ByRule(Policies[n], risk, violations))
<1>1. CASE risk.local # "delete"
  <2>1. ByRule(Policies[n], risk, violations)
          = [action |-> risk.local, delete |-> TRUE, reason |-> "local_ad_rule"]
    BY <1>1 DEF ByRule, Decision
  <2>2. risk.local \in {"mute", "ban"}
    BY <1>1 DEF LocalActions
  <2>. QED BY <2>1, <2>2 DEF Sound, Decisions, Actions
<1>2. CASE risk.local = "delete" /\ violations >= Policies[n].HoldAfter
  <2>1. ByRule(Policies[n], risk, violations)
          = [action |-> "mute", delete |-> TRUE, reason |-> "local_ad_review"]
    BY <1>2 DEF ByRule, Decision
  <2>. QED BY <1>2, <2>1 DEF Sound, Decisions, Actions
<1>3. CASE risk.local = "delete" /\ ~(violations >= Policies[n].HoldAfter)
  <2>1. ByRule(Policies[n], risk, violations)
          = [action |-> "warn", delete |-> TRUE, reason |-> "local_ad_rule"]
    BY <1>3, Zenon DEF ByRule, Decision
  <2>. QED BY <2>1 DEF Sound, Decisions, Actions
<1>. QED BY <1>1, <1>2, <1>3

LEMMA PenaltySound ==
  ASSUME NEW n \in DOMAIN Policies, NEW severe, NEW violations \in Nat,
         NEW p, p = Penalty(Policies[n], severe, violations)
  PROVE  /\ p \in {"ban", "mute", "warn", "delete", "shadow_log"}
         /\ p = "delete" => Policies[n].AutoDelete
         /\ p = "ban" => violations + 1 >= Policies[n].BanAfter
         /\ p = "mute" => severe \/ violations + 1 >= Policies[n].MuteAfter
BY DEF Penalty

LEMMA ByScoreSound ==
  ASSUME NEW n \in DOMAIN Policies, NEW risk, NEW ai, NEW violations \in Nat
  PROVE  Sound(n, risk.spam, violations, ByScore(Policies[n], risk, ai, violations))
<1>. DEFINE s == Policies[n]
<1>1. CASE ~Open(s, risk) \/ Advert(s, risk, ai)
  <2>1. PICK p : p = Penalty(s, Grave(s, risk, ai), violations)
    OBVIOUS
  <2>2. PICK r : r = IF risk.spam THEN "spam" ELSE "advertising"
    OBVIOUS
  <2>3. ByScore(s, risk, ai, violations) = [action |-> p, delete |-> s.AutoDelete, reason |-> r]
    BY <1>1, <2>1, <2>2, Zenon DEF ByScore, Decision
  <2>4. /\ p \in {"ban", "mute", "warn", "delete", "shadow_log"}
        /\ p = "delete" => s.AutoDelete
        /\ p = "ban" => violations + 1 >= s.BanAfter
        /\ p = "mute" => Grave(s, risk, ai) \/ violations + 1 >= s.MuteAfter
    BY <2>1, PenaltySound
  <2>5. s.AutoDelete \in BOOLEAN
    BY ModerationAssumption
  <2>6. r \in {"spam", "advertising"} /\ (r = "spam" => risk.spam /\ ~Grave(s, risk, ai))
    BY <2>2 DEF Grave, Advert, Open
  <2>. QED BY <2>3, <2>4, <2>5, <2>6 DEF Sound, Decisions, Actions
<1>2. CASE ~(~Open(s, risk) \/ Advert(s, risk, ai))
  <2>1. \/ ByScore(s, risk, ai, violations) = Decision("warn", FALSE, "ai")
        \/ ByScore(s, risk, ai, violations) = Allowed
    BY <1>2, Zenon DEF ByScore
  <2>2. CASE ByScore(s, risk, ai, violations) = Decision("warn", FALSE, "ai")
    BY <2>2 DEF Sound, Decision, Decisions, Actions
  <2>3. CASE ByScore(s, risk, ai, violations) = Allowed
    BY <2>3 DEF Sound, Allowed, Decision, Decisions, Actions
  <2>. QED BY <2>1, <2>2, <2>3
<1>. QED BY <1>1, <1>2

LEMMA DecideSound ==
  ASSUME NEW n \in DOMAIN Policies, NEW risk, risk.local \in LocalActions, NEW ai,
         NEW violations \in Nat, NEW protected
  PROVE  Sound(n, risk.spam, violations, Decide(Policies[n], risk, ai, violations, protected))
<1>1. PICK d : d = IF risk.local # "none" THEN ByRule(Policies[n], risk, violations)
                   ELSE ByScore(Policies[n], risk, ai, violations)
  OBVIOUS
<1>2. Sound(n, risk.spam, violations, d)
  <2>1. CASE risk.local # "none"
    BY <1>1, <2>1, ByRuleSound, Zenon
  <2>2. CASE risk.local = "none"
    BY <1>1, <2>2, ByScoreSound, Zenon
  <2>. QED BY <2>1, <2>2
<1>3. Sound(n, risk.spam, violations, Spared)
  BY DEF Sound, Spared, Decision, Decisions, Actions
<1>4. Decide(Policies[n], risk, ai, violations, protected) \in {d, Spared}
  BY <1>1, Zenon DEF Decide
<1>. QED BY <1>2, <1>3, <1>4, Zenon

LEMMA DecisionTypes ==
  /\ \A d \in {Allowed, ManualAd, ManualReview, RepeatedAd, Disabled} : d \in Decisions
  /\ TypeOK => Blacklisted \in Decisions
  /\ NoLog.decision = Allowed /\ NoRow.decision = Allowed /\ NoJob.decision = Allowed
<1>1. /\ Allowed \in Decisions /\ ManualAd \in Decisions /\ ManualReview \in Decisions
      /\ RepeatedAd \in Decisions /\ Disabled \in Decisions
  BY DEF Allowed, ManualAd, ManualReview, RepeatedAd, Disabled, Decision, Decisions, Actions
<1>2. ASSUME TypeOK PROVE Blacklisted \in Decisions
  <2>1. settings \in DOMAIN Policies
    BY <1>2 DEF TypeOK
  <2>2. Policies[settings].AutoDelete \in BOOLEAN
    BY <2>1, ModerationAssumption
  <2>3. PICK b \in BOOLEAN : b = Policies[settings].AutoDelete
    BY <2>2
  <2>. QED BY <2>3 DEF Blacklisted, Settings, Decision, Decisions, Actions
<1>3. NoLog.decision = Allowed /\ NoRow.decision = Allowed /\ NoJob.decision = Allowed
  BY DEF NoLog, NoRow, NoJob
<1>. QED BY <1>1, <1>2, <1>3

LEMMA UpdatesFinite ==
  /\ \A P : P \subseteq Updates => IsFiniteSet(P) /\ Cardinality(P) \in Nat
BY ModerationAssumption, FS_Subset, FS_CardinalityType

LEMMA CountTypes ==
  /\ ViolationCount \in Nat /\ CountedSoFar \in Nat
  /\ \A u \in Updates : Felt(u) \in Nat
  /\ TypeOK => \A u \in Updates : Counted(u) \in Nat
<1>1. ViolationCount \in Nat /\ CountedSoFar \in Nat
  BY UpdatesFinite DEF ViolationCount, CountedSoFar
<1>2. \A u \in Updates : Felt(u) \in Nat
  <2>1. TAKE u \in Updates
  <2>2. {v \in Updates \ {u} : Did(AutoKey(v), Calls)} \subseteq Updates
    OBVIOUS
  <2>. QED BY <2>2, UpdatesFinite DEF Felt, AutoKey
<1>3. ASSUME TypeOK, NEW u \in Updates PROVE Counted(u) \in Nat
  <2>1. rate[u] \in Nat
    BY <1>3 DEF TypeOK
  <2>. QED BY <1>1, <2>1 DEF Counted, CountedSoFar
<1>. QED BY <1>1, <1>2, <1>3

\* What the engine makes of a message, whatever the model answers.
LEMMA JudgedSound ==
  ASSUME TypeOK, NEW c \in Contents, NEW n \in Nat, NEW ai, NEW isNew \in BOOLEAN,
         NEW first \in BOOLEAN
  PROVE  /\ Sound(settings, TRUE, ViolationCount, Judged(c, n, ai, isNew, first))
         /\ Judged(c, n, ai, isNew, first).reason = "spam" =>
              Settings.SpamEnabled /\ n > Settings.RateLimit
<1>1. PICK s \in DOMAIN Policies : s = settings
  BY DEF TypeOK
<1>2. PICK e : e = Evaluate(Policies[s], c, isNew, first)
  OBVIOUS
<1>3. e.local \in LocalActions /\ e = [local |-> e.local, spam |-> FALSE, score |-> e.score]
  <2>1. e.local \in LocalActions
    BY <1>2, RiskLocal
  <2>2. e = [local |-> e.local, spam |-> FALSE, score |-> e.score]
    BY <1>2 DEF Evaluate
  <2>. QED BY <2>1, <2>2
<1>4. Risks[settings][c][isNew][first] = e
  BY <1>1, <1>2, Zenon DEF Risks
<1>5. PICK risk : risk = Spamming(e, n)
  OBVIOUS
<1>6. risk.local \in LocalActions /\ (risk.spam => Settings.SpamEnabled /\ n > Settings.RateLimit)
  <2>1. CASE Settings.SpamEnabled /\ n > Settings.RateLimit
    <3>1. risk = [e EXCEPT !.spam = TRUE, !.score = 100]
      BY <1>5, <2>1 DEF Spamming
    <3>2. risk.local = e.local
      BY <1>3, <3>1
    <3>. QED BY <1>3, <2>1, <3>2
  <2>2. CASE ~(Settings.SpamEnabled /\ n > Settings.RateLimit)
    <3>1. risk = e
      BY <1>5, <2>2, Zenon DEF Spamming
    <3>2. risk.spam = FALSE
      BY <1>3, <3>1
    <3>. QED BY <1>3, <3>1, <3>2, Zenon
  <2>. QED BY <2>1, <2>2
<1>7. PICK answer : answer = IF risk.score >= Settings.AIThreshold THEN ai ELSE NoAI
  OBVIOUS
<1>8. Judged(c, n, ai, isNew, first) = Decide(Policies[s], risk, answer, ViolationCount, Protected)
  BY <1>1, <1>4, <1>5, <1>7, Zenon DEF Judged, Settings
<1>9. Sound(s, risk.spam, ViolationCount, Judged(c, n, ai, isNew, first))
  BY <1>6, <1>8, CountTypes, DecideSound
<1>. QED BY <1>1, <1>6, <1>9, Zenon DEF Sound

-----------------------------------------------------------------------------
(* Types.                                                                  *)

LEMMA KeyTypes ==
  /\ \A u \in Updates : AutoKey(u) \in Keys
  /\ TypeOK /\ JobInv => \A u \in Updates : job[u].at # "idle" =>
       /\ input[u].kind \in {"say", "check"} /\ input[u].message \in Messages
       /\ input[u].content \in Contents /\ Key(u) \in Keys
       /\ input[u].kind = "say" => Key(u) = AutoKey(u)
       /\ input[u].kind = "check" => Key(u) = <<"check", input[u].message>>
<1>1. \A u \in Updates : AutoKey(u) \in Keys
  BY DEF AutoKey, Keys
<1>2. ASSUME TypeOK, JobInv, NEW u \in Updates, job[u].at # "idle"
      PROVE  /\ input[u].kind \in {"say", "check"} /\ input[u].message \in Messages
             /\ input[u].content \in Contents /\ Key(u) \in Keys
             /\ input[u].kind = "say" => Key(u) = AutoKey(u)
             /\ input[u].kind = "check" => Key(u) = <<"check", input[u].message>>
  <2>1. /\ input[u].kind \in {"say", "check"} /\ input[u].message \in Messages
        /\ input[u].content \in Contents
    BY <1>2 DEF JobInv
  <2>2. CASE input[u].kind = "say"
    BY <2>1, <2>2 DEF Key, AutoKey, Keys
  <2>3. CASE input[u].kind = "check"
    BY <2>1, <2>3 DEF Key, Keys
  <2>. QED BY <2>1, <2>2, <2>3
<1>. QED BY <1>1, <1>2, Zenon

LEMMA DeliveryTypes ==
  ASSUME line \in [Updates -> D!States], handled \subseteq Updates, NEW u \in Updates,
         D!Start(u) \/ D!Handle(u) \/ D!Complete(u) \/ D!Postpone(u) \/ D!Abandon(u)
  PROVE  line' \in [Updates -> D!States] /\ handled' \subseteq Updates
BY DEF D!Start, D!Handle, D!Complete, D!Postpone, D!Abandon, D!Move, D!States

LEMMA GoesTypes ==
  ASSUME TypeOK, NEW u \in Updates, NEW at \in Stages, Goes(u, at)
  PROVE  /\ job' \in [Updates -> [at : Stages, decision : Decisions]]
         /\ job'[u].at = at /\ \A v \in Updates \ {u} : job'[v] = job[v]
<1>1. Allowed \in Decisions
  BY DecisionTypes
<1>2. job \in [Updates -> [at : Stages, decision : Decisions]]
  BY DEF TypeOK
<1>. QED BY <1>1, <1>2 DEF Goes

LEMMA SpendsTypes ==
  ASSUME TypeOK, NEW what \in {"faults", "moves"}, NEW max, max = IF what = "faults" THEN MaxFaults ELSE MaxMoves,
         Spends(what, max)
  PROVE  budget' \in [faults : 0..MaxFaults, moves : 0..MaxMoves]
<1>1. MaxFaults \in Nat /\ MaxMoves \in Nat
  BY ModerationAssumption
<1>2. budget \in [faults : 0..MaxFaults, moves : 0..MaxMoves]
  BY DEF TypeOK
<1>3. CASE what = "faults"
  BY <1>1, <1>2, <1>3 DEF Spends
<1>4. CASE what = "moves"
  BY <1>1, <1>2, <1>4 DEF Spends
<1>. QED BY <1>3, <1>4

LEMMA HandlerTypes ==
  ASSUME ModInv, NEW u \in Updates, Begins(u) \/ Settles(u) \/ Fails(u) \/ Applies(u) \/ Announces(u)
  PROVE  TypeOK'
<1>1. TypeOK
  BY DEF ModInv
<1>2. {"begun", "over", "failed", "replying", "punishing"} \subseteq Stages
  BY DEF Stages
<1>3. NoJob \in [at : Stages, decision : Decisions]
  <2>1. Allowed \in Decisions
    BY DecisionTypes
  <2>. QED BY <2>1 DEF NoJob, Stages
<1>4. CASE Begins(u)
  <2>1. job' \in [Updates -> [at : Stages, decision : Decisions]]
    BY <1>1, <1>2, <1>4, GoesTypes DEF Begins
  <2>2. line' \in [Updates -> D!States] /\ handled' \subseteq Updates
    BY <1>1, <1>4, DeliveryTypes DEF Begins, TypeOK
  <2>3. PICK i \in Inputs : /\ Chosen(u, i) /\ input' = [input EXCEPT ![u] = i]
                            /\ said' = said \cup {<<i.message, i.content>>}
    BY <1>4 DEF Begins
  <2>4. i.message \in Messages /\ i.content \in Contents
    <3>1. CASE input[u] # NoInput
      BY <1>1, <2>3, <3>1 DEF Chosen, ModInv, JobInv
    <3>2. CASE input[u] = NoInput
      BY <2>3, <3>2 DEF Chosen, Inputs
    <3>. QED BY <3>1, <3>2
  <2>5. input' \in [Updates -> Inputs] /\ said' \subseteq Messages \X Contents
    BY <1>1, <2>3, <2>4 DEF TypeOK
  <2>. QED BY <1>1, <1>4, <2>1, <2>2, <2>5 DEF TypeOK, Begins, world, history
<1>5. CASE Settles(u)
  <2>1. line' \in [Updates -> D!States] /\ handled' \subseteq Updates
    BY <1>1, <1>5, DeliveryTypes DEF Settles, TypeOK
  <2>2. job' \in [Updates -> [at : Stages, decision : Decisions]]
    BY <1>1, <1>3, <1>5 DEF Settles, TypeOK
  <2>3. input' \in [Updates -> Inputs]
    <3>1. NoInput \in Inputs
      BY DEF NoInput, Inputs
    <3>. QED BY <1>1, <1>5, <3>1 DEF Settles, TypeOK
  <2>4. budget' \in [faults : 0..MaxFaults, moves : 0..MaxMoves]
    <3>1. UNCHANGED budget \/ Spends("faults", MaxFaults)
      BY <1>5 DEF Settles
    <3>. QED BY <1>1, <3>1, SpendsTypes DEF TypeOK
  <2>. QED BY <1>1, <1>5, <2>1, <2>2, <2>3, <2>4 DEF TypeOK, Settles, world, history
<1>6. CASE Fails(u)
  <2>1. job' \in [Updates -> [at : Stages, decision : Decisions]]
    BY <1>1, <1>2, <1>6, GoesTypes DEF Fails
  <2>2. budget' \in [faults : 0..MaxFaults, moves : 0..MaxMoves]
    <3>1. UNCHANGED budget \/ Spends("faults", MaxFaults)
      BY <1>6 DEF Fails
    <3>. QED BY <1>1, <3>1, SpendsTypes DEF TypeOK
  <2>. QED BY <1>1, <1>6, <2>1, <2>2 DEF TypeOK, Fails, world, history, deliveryVars
<1>7. CASE Applies(u) \/ Announces(u)
  <2>1. \/ Goes(u, "replying") /\ UNCHANGED deliveryVars
        \/ Goes(u, "punishing") /\ UNCHANGED deliveryVars
        \/ D!Handle(u) /\ Goes(u, "over")
    BY <1>7 DEF Applies, Announces, Over
  <2>2. job' \in [Updates -> [at : Stages, decision : Decisions]]
    BY <1>1, <1>2, <2>1, GoesTypes
  <2>3. line' \in [Updates -> D!States] /\ handled' \subseteq Updates
    BY <1>1, <2>1, DeliveryTypes DEF TypeOK, deliveryVars
  <2>. QED BY <1>1, <1>7, <2>2, <2>3 DEF TypeOK, Applies, Announces, world, history
<1>. QED BY <1>4, <1>5, <1>6, <1>7

\* What a decision about content c of message m, the n-th message, is founded on.
Founded(d, n, m, c) ==
  /\ d \in Decisions
  /\ d.action = "delete" => d.delete
  /\ d.reason = "repeated_ad" => Repeated(m, c)
  /\ d.reason = "local_ad_review" => ViolationCount >= Settings.HoldAfter
  /\ d.reason \in {"advertising", "spam"} /\ d.action = "ban"
       => ViolationCount + 1 >= Settings.BanAfter
  /\ d.reason = "spam" /\ d.action = "mute" => ViolationCount + 1 >= Settings.MuteAfter
  /\ d.reason = "spam" => Settings.SpamEnabled /\ n > Settings.RateLimit

LEMMA FixedFounded ==
  ASSUME TypeOK, NEW n, NEW m, NEW c
  PROVE  /\ \A d \in {Disabled, Blacklisted} : Founded(d, n, m, c)
         /\ Repeated(m, c) => Founded(RepeatedAd, n, m, c)
<1>1. Disabled \in Decisions /\ Blacklisted \in Decisions /\ RepeatedAd \in Decisions
  BY DecisionTypes
<1>2. Founded(Disabled, n, m, c)
  BY <1>1 DEF Disabled, Decision, Founded
<1>3. Founded(Blacklisted, n, m, c)
  BY <1>1 DEF Blacklisted, Decision, Founded
<1>4. ASSUME Repeated(m, c) PROVE Founded(RepeatedAd, n, m, c)
  BY <1>1, <1>4 DEF RepeatedAd, Decision, Founded
<1>. QED BY <1>2, <1>3, <1>4

LEMMA DecidesFounded ==
  ASSUME ModInv, NEW u \in Updates, Decides(u)
  PROVE  /\ rate' \in [Updates -> Nat] /\ rate' = [rate EXCEPT ![u] = rate'[u]]
         /\ rate'[u] \in {rate[u], Counted(u)}
         /\ \E d : /\ job' = [job EXCEPT ![u] = [at |-> "decided", decision |-> d]]
                   /\ Founded(d, rate'[u], input[u].message, input[u].content)
<1>. DEFINE m == input[u].message
            c == input[u].content
            takes(d) == job' = [job EXCEPT ![u] = [at |-> "decided", decision |->
                          LET e == IF standing = "black" THEN Blacklisted ELSE d
                          IN IF Settings.ModerationEnabled /\ ~Protected
                             THEN AdDecision(e, m, c) ELSE e]]
<1>1. TypeOK /\ rate \in [Updates -> Nat] /\ c \in Contents
  <2>1. TypeOK /\ JobInv /\ job[u].at = "begun"
    BY DEF ModInv, Decides
  <2>. QED BY <2>1, KeyTypes DEF TypeOK
<1>2. \/ takes(Disabled) /\ rate' = rate
      \/ /\ rate' = IF Settings.SpamEnabled THEN [rate EXCEPT ![u] = Counted(u)] ELSE rate
         /\ \E ai \in AIs, isNew, first \in BOOLEAN : takes(Judged(c, rate'[u], ai, isNew, first))
  BY DEF Decides
<1>3. /\ rate' \in [Updates -> Nat] /\ rate' = [rate EXCEPT ![u] = rate'[u]]
      /\ rate'[u] \in {rate[u], Counted(u)}
  <2>1. Counted(u) \in Nat
    BY <1>1, CountTypes
  <2>2. rate' = rate \/ rate' = [rate EXCEPT ![u] = Counted(u)]
    BY <1>2, Zenon
  <2>. QED BY <1>1, <2>1, <2>2
<1>4. \E d : takes(d) /\ Founded(d, rate'[u], m, c)
  <2>1. CASE takes(Disabled)
    BY <1>1, <2>1, FixedFounded, Zenon
  <2>2. CASE \E ai \in AIs, isNew, first \in BOOLEAN : takes(Judged(c, rate'[u], ai, isNew, first))
    <3>1. PICK ai \in AIs, isNew \in BOOLEAN, first \in BOOLEAN :
            takes(Judged(c, rate'[u], ai, isNew, first))
      BY <2>2
    <3>2. PICK n \in Nat : n = rate'[u]
      BY <1>3
    <3>3. PICK d : d = Judged(c, n, ai, isNew, first)
      OBVIOUS
    <3>4. Sound(settings, TRUE, ViolationCount, d) 
          /\ (d.reason = "spam" => Settings.SpamEnabled /\ n > Settings.RateLimit)
      BY <1>1, <3>3, JudgedSound, Zenon
    <3>5. Founded(d, n, m, c)
      BY <3>4 DEF Sound, Founded, Settings
    <3>. QED BY <3>1, <3>2, <3>3, <3>5, Zenon
  <2>. QED BY <1>2, <2>1, <2>2, Zenon
<1>5. PICK d : takes(d) /\ Founded(d, rate'[u], m, c)
  BY <1>4, Zenon
<1>6. PICK e : e = IF standing = "black" THEN Blacklisted ELSE d
  OBVIOUS
<1>7. Founded(e, rate'[u], m, c)
  <2>1. CASE standing = "black"
    BY <1>1, <1>6, <2>1, FixedFounded, Zenon
  <2>2. CASE standing # "black"
    BY <1>5, <1>6, <2>2, Zenon
  <2>. QED BY <2>1, <2>2
<1>8. PICK f : f = IF Settings.ModerationEnabled /\ ~Protected THEN AdDecision(e, m, c) ELSE e
  OBVIOUS
<1>9. Founded(f, rate'[u], m, c)
  <2>1. f = e \/ (f = RepeatedAd /\ Repeated(m, c))
    BY <1>8, Zenon DEF AdDecision
  <2>. QED BY <1>1, <1>7, <2>1, FixedFounded, Zenon
<1>10. job' = [job EXCEPT ![u] = [at |-> "decided", decision |-> f]]
  BY <1>5, <1>6, <1>8, Zenon
<1>. QED BY <1>3, <1>9, <1>10, Zenon

-----------------------------------------------------------------------------
(* Taking a punishment up.                                                 *)

\* The decision of a new row is the saved one, or a repeated advert's.
LEMMA RevisedIs ==
  ASSUME TypeOK, NEW k \in Keys
  PROVE  /\ Revised(k) \in Decisions
         /\ \/ /\ Revised(k).action = log[k].decision.action
               /\ Revised(k).reason = log[k].decision.reason
               /\ Revised(k).delete = Removes(log[k].decision)
            \/ Revised(k) = RepeatedAd /\ Once(k) /\ Repeated(log[k].message, log[k].content)
<1>1. PICK d \in Decisions : d = log[k].decision
  BY DEF TypeOK
<1>2. PICK b \in BOOLEAN : b = Removes(d)
  <2>1. Removes(d) \in BOOLEAN
    BY <1>1 DEF Removes, Decisions
  <2>. QED BY <2>1
<1>3. PICK e : e = [d EXCEPT !.delete = b]
  OBVIOUS
<1>4. e \in Decisions /\ e.action = d.action /\ e.reason = d.reason /\ e.delete = b
  BY <1>1, <1>3 DEF Decisions
<1>5. Revised(k) = IF Once(k) THEN AdDecision(e, log[k].message, log[k].content) ELSE e
  BY <1>1, <1>2, <1>3, Zenon DEF Revised
<1>6. Revised(k) = e \/ (Revised(k) = RepeatedAd /\ Once(k) /\ Repeated(log[k].message, log[k].content))
  BY <1>5, Zenon DEF AdDecision
<1>7. RepeatedAd \in Decisions
  BY DecisionTypes
<1>. QED BY <1>1, <1>2, <1>4, <1>6, <1>7, Zenon

LEMMA RowTypes ==
  ASSUME TypeOK, NEW d \in Decisions
  PROVE  LET new == [NoRow EXCEPT !.status = "pending", !.decision = d] IN
         /\ new \in [status : Statuses, decision : Decisions, deleted : BOOLEAN,
                     acted : BOOLEAN, started : BOOLEAN, attempts : 0..MaxAttempts]
         /\ new.status = "pending" /\ new.decision = d
         /\ ~new.deleted /\ ~new.acted /\ ~new.started /\ new # NoRow
<1>1. 0 \in 0..MaxAttempts
  BY ModerationAssumption
<1>. QED BY <1>1 DEF NoRow, Statuses

\* Nothing comes of it; or a pending row is taken up; or a new row is made and taken up.
LEMMA TakesIs ==
  ASSUME ModInv, NEW k \in Keys, NEW by \in Updates \cup {0}, Takes(k, by)
  PROVE  /\ holder = Free
         /\ \/ /\ UNCHANGED <<log, row, holder>>
               /\ UNCHANGED job \/ (by \in Updates /\ (Goes(by, "answering") \/ Goes(by, "failed")))
            \/ /\ row[k].status = "pending" /\ UNCHANGED <<log, row, job>>
               /\ by # 0 => job[by].at = "punishing"
               /\ \E b \in BOOLEAN :
                    /\ row[k].deleted => b
                    /\ holder' = [key |-> k, by |-> by, todo |-> {"preflight"}, acted |-> b]
            \/ /\ row[k] = NoRow /\ by \in Updates /\ job[by].at = "punishing" /\ Key(by) = k
               /\ ~(Once(k) /\ Already(k)) /\ UNCHANGED job
               /\ row' = [row EXCEPT ![k] = [NoRow EXCEPT !.status = "pending", !.decision = Revised(k)]]
               /\ log' = [log EXCEPT ![k].decision = Revised(k)]
               /\ holder' = [key |-> k, by |-> by, todo |-> {"preflight"}, acted |-> FALSE]
<1>1. TypeOK /\ RowInv
  BY DEF ModInv
<1>2. PICK new : new = [NoRow EXCEPT !.status = "pending", !.decision = Revised(k)]
  OBVIOUS
<1>3. new.status = "pending" /\ new.decision = Revised(k) /\ ~new.acted /\ ~new.deleted /\ ~new.started
  BY <1>1, <1>2, RevisedIs, RowTypes, Zenon
<1>4. PICK r : r = IF row[k] = NoRow THEN new ELSE row[k]
  OBVIOUS
<1>5. holder = Free /\ Caller(k, by)
  BY DEF Takes, LockFree
<1>6. \/ Returns(by, "answering") /\ UNCHANGED <<log, row, holder>>
      \/ /\ ~(Once(k) /\ Already(k)) /\ row' = [row EXCEPT ![k] = r]
         /\ \/ r.status \in {"done", "skipped"} /\ Returns(by, "answering")
               /\ UNCHANGED <<log, holder>>
            \/ r.status = "failed" /\ Returns(by, "failed") /\ UNCHANGED <<log, holder>>
            \/ /\ r.status = "pending"
               /\ log' = [log EXCEPT ![k].decision = r.decision]
               /\ holder' = [key |-> k, by |-> by, todo |-> {"preflight"},
                             acted |-> r.acted \/ r.deleted \/ r.started]
               /\ UNCHANGED job
  BY <1>2, <1>4, Zenon DEF Takes
<1>7. \A at \in {"answering", "failed"} : Returns(by, at) =>
        UNCHANGED job \/ (by \in Updates /\ Goes(by, at))
  BY DEF Returns
<1>8. ASSUME r = row[k] PROVE [row EXCEPT ![k] = r] = row
  BY <1>1, <1>8 DEF TypeOK
<1>9. CASE Returns(by, "answering") /\ UNCHANGED <<log, row, holder>>
  BY <1>5, <1>7, <1>9, Zenon
<1>10. CASE /\ row' = [row EXCEPT ![k] = r] /\ r.status \in {"done", "skipped", "failed"}
            /\ Returns(by, "answering") \/ Returns(by, "failed")
            /\ UNCHANGED <<log, holder>>
  <2>1. r = row[k]
    BY <1>3, <1>4, <1>10
  <2>2. UNCHANGED row
    BY <1>8, <1>10, <2>1, Zenon
  <2>3. UNCHANGED job \/ (by \in Updates /\ (Goes(by, "answering") \/ Goes(by, "failed")))
    BY <1>7, <1>10, Zenon
  <2>. QED BY <1>5, <1>10, <2>2, <2>3, Zenon
<1>11. CASE /\ ~(Once(k) /\ Already(k)) /\ row' = [row EXCEPT ![k] = r]
            /\ r.status = "pending"
            /\ log' = [log EXCEPT ![k].decision = r.decision]
            /\ holder' = [key |-> k, by |-> by, todo |-> {"preflight"},
                          acted |-> r.acted \/ r.deleted \/ r.started]
            /\ UNCHANGED job
  <2>1. CASE row[k] = NoRow
    <3>1. row[k].status # "pending"
      BY <2>1 DEF NoRow
    <3>2. by \in Updates /\ job[by].at = "punishing" /\ Key(by) = k
      BY <1>5, <3>1 DEF Caller
    <3>3. r = new
      BY <1>4, <2>1
    <3>4. (r.acted \/ r.deleted \/ r.started) = FALSE
      BY <1>3, <3>3, Zenon
    <3>. QED BY <1>2, <1>3, <1>5, <1>11, <2>1, <3>2, <3>3, <3>4, Zenon
  <2>2. CASE row[k] # NoRow
    <3>1. r = row[k] /\ row' = row
      BY <1>4, <1>8, <1>11, <2>2, Zenon
    <3>2. log' = log
      <4>1. log[k].decision = r.decision
        BY <1>1, <1>11, <3>1 DEF RowInv
      <4>. QED BY <1>1, <1>11, <4>1 DEF TypeOK
    <3>3. by # 0 => job[by].at = "punishing"
      BY <1>5 DEF Caller
    <3>4. PICK b \in BOOLEAN : b = (r.acted \/ r.deleted \/ r.started)
      <4>1. (r.acted \/ r.deleted \/ r.started) \in BOOLEAN
        BY Zenon
      <4>. QED BY <4>1, Zenon
    <3>5. row[k].deleted => b
      BY <3>1, <3>4, Zenon
    <3>. QED BY <1>5, <1>11, <3>1, <3>2, <3>3, <3>4, <3>5, Zenon
  <2>. QED BY <2>1, <2>2
<1>. QED BY <1>6, <1>9, <1>10, <1>11, Zenon

-----------------------------------------------------------------------------
(* Types, continued.                                                       *)

Rows == [status : Statuses, decision : Decisions, deleted : BOOLEAN, acted : BOOLEAN,
         started : BOOLEAN, attempts : 0..MaxAttempts]
Jobs == [at : Stages, decision : Decisions]

LEMMA LogTypes ==
  ASSUME ModInv, NEW u \in Updates, job[u].at # "idle", NEW d \in Decisions
  PROVE  LET after == [log EXCEPT ![Key(u)] = LogOf(u, d)] IN
         /\ after \in [Keys -> [message : Messages \cup {0}, content : Contents \cup {{}},
                                decision : Decisions]]
         /\ after[Key(u)].message = input[u].message
         /\ after[Key(u)].content = input[u].content /\ after[Key(u)].decision = d
         /\ \A k \in Keys \ {Key(u)} : after[k] = log[k]
<1>1. Key(u) \in Keys /\ input[u].message \in Messages /\ input[u].content \in Contents
  BY KeyTypes DEF ModInv
<1>. QED BY <1>1 DEF ModInv, TypeOK, LogOf

LEMMA RevisedLog ==
  ASSUME TypeOK, NEW k \in Keys, NEW d \in Decisions,
         NEW after, after = [log EXCEPT ![k].decision = d]
  PROVE  /\ after \in [Keys -> [message : Messages \cup {0}, content : Contents \cup {{}},
                                decision : Decisions]]
         /\ after[k].message = log[k].message /\ after[k].content = log[k].content
         /\ after[k].decision = d /\ \A q \in Keys \ {k} : after[q] = log[q]
<1>. DEFINE Logs == [message : Messages \cup {0}, content : Contents \cup {{}}, decision : Decisions]
            entry == [log[k] EXCEPT !.decision = d]
<1>1. log \in [Keys -> Logs]
  BY DEF TypeOK
<1>2. /\ entry \in Logs /\ entry.message = log[k].message /\ entry.content = log[k].content
      /\ entry.decision = d
  BY <1>1
<1>3. after = [log EXCEPT ![k] = entry]
  OBVIOUS
<1>. HIDE DEF Logs, entry
<1>. QED BY <1>1, <1>2, <1>3 DEF Logs

LEMMA VerdictTypes ==
  ASSUME ModInv, NEW u \in Updates, Decides(u) \/ Saves(u) \/ Checks(u) \/ Replies(u)
  PROVE  TypeOK'
<1>1. TypeOK
  BY DEF ModInv
<1>2. {"judged", "answering", "punishing", "over", "failed"} \subseteq Stages
  BY DEF Stages
<1>3. CASE Decides(u)
  <2>1. rate' \in [Updates -> Nat]
    BY <1>3, DecidesFounded
  <2>2. PICK d \in Decisions : job' = [job EXCEPT ![u] = [at |-> "decided", decision |-> d]]
    BY <1>3, DecidesFounded DEF Founded
  <2>3. job' \in [Updates -> [at : Stages, decision : Decisions]]
    BY <1>1, <2>2 DEF TypeOK, Stages
  <2>. QED BY <1>1, <1>3, <2>1, <2>3 DEF TypeOK, Decides, world, history, deliveryVars
<1>4. CASE Saves(u)
  <2>1. job' \in [Updates -> [at : Stages, decision : Decisions]]
    BY <1>1, <1>2, <1>4, GoesTypes DEF Saves
  <2>2. job[u].decision \in Decisions
    BY <1>1 DEF TypeOK
  <2>3. log' \in [Keys -> [message : Messages \cup {0}, content : Contents \cup {{}},
                           decision : Decisions]]
    BY <1>1, <1>4, <2>2, LogTypes DEF Saves, TypeOK
  <2>. QED BY <1>1, <1>4, <2>1, <2>3 DEF TypeOK, Saves, world, history, deliveryVars
<1>5. CASE Checks(u)
  <2>1. Goes(u, "answering") \/ Goes(u, "punishing")
    BY <1>5 DEF Checks
  <2>2. job' \in [Updates -> [at : Stages, decision : Decisions]]
    BY <1>1, <1>2, <2>1, GoesTypes
  <2>3. ManualAd \in Decisions /\ ManualReview \in Decisions
    BY DecisionTypes
  <2>4. log' = log \/ \E d \in Decisions : log' = [log EXCEPT ![Key(u)] = LogOf(u, d)]
    BY <1>5, <2>3 DEF Checks
  <2>5. log' \in [Keys -> [message : Messages \cup {0}, content : Contents \cup {{}},
                           decision : Decisions]]
    BY <1>1, <1>5, <2>4, LogTypes DEF Checks, TypeOK
  <2>. QED BY <1>1, <1>5, <2>2, <2>5 DEF TypeOK, Checks, world, history, deliveryVars
<1>6. CASE Replies(u)
  <2>1. Goes(u, "over") \/ Goes(u, "failed")
    BY <1>6 DEF Replies, Over
  <2>2. job' \in [Updates -> [at : Stages, decision : Decisions]]
    BY <1>1, <1>2, <2>1, GoesTypes
  <2>3. D!Handle(u) \/ UNCHANGED <<line, handled>>
    BY <1>6 DEF Replies, Over, deliveryVars
  <2>4. line' \in [Updates -> D!States] /\ handled' \subseteq Updates
    BY <1>1, <2>3, DeliveryTypes DEF TypeOK
  <2>5. UNCHANGED budget \/ Spends("faults", MaxFaults)
    BY <1>6 DEF Replies
  <2>6. budget' \in [faults : 0..MaxFaults, moves : 0..MaxMoves]
    BY <1>1, <2>5, SpendsTypes DEF TypeOK
  <2>7. sends' = sends \/ sends' = [sends EXCEPT ![u] = @ + 1]
    BY <1>6 DEF Replies
  <2>8. sends' \in [Updates -> Nat]
    BY <1>1, <2>7 DEF TypeOK
  <2>9. answered' \subseteq Updates /\ unmarked' \subseteq Updates
    BY <1>1, <1>6 DEF TypeOK, Replies
  <2>. QED BY <1>1, <1>6, <2>2, <2>4, <2>6, <2>8, <2>9 DEF TypeOK, Replies, world
<1>. QED BY <1>3, <1>4, <1>5, <1>6

LEMMA TakesTypes ==
  ASSUME ModInv, NEW k \in Keys, NEW by \in Updates \cup {0}, Takes(k, by)
  PROVE  TypeOK'
<1>1. TypeOK /\ Revised(k) \in Decisions
  BY RevisedIs DEF ModInv
<1>2. job' \in [Updates -> Jobs]
  <2>1. UNCHANGED job \/ (by \in Updates /\ (Goes(by, "answering") \/ Goes(by, "failed")))
    BY TakesIs, Zenon
  <2>2. {"answering", "failed"} \subseteq Stages
    BY DEF Stages
  <2>. QED BY <1>1, <2>1, <2>2, GoesTypes DEF TypeOK, Jobs
<1>3. row' \in [Keys -> Rows]
  <2>1. \/ UNCHANGED row
        \/ row' = [row EXCEPT ![k] = [NoRow EXCEPT !.status = "pending", !.decision = Revised(k)]]
    BY TakesIs, Zenon
  <2>2. [NoRow EXCEPT !.status = "pending", !.decision = Revised(k)] \in Rows
    BY <1>1, RowTypes, Zenon DEF Rows
  <2>. QED BY <1>1, <2>1, <2>2 DEF TypeOK, Rows
<1>4. log' \in [Keys -> [message : Messages \cup {0}, content : Contents \cup {{}},
                         decision : Decisions]]
  <2>1. UNCHANGED log \/ log' = [log EXCEPT ![k].decision = Revised(k)]
    BY TakesIs, Zenon
  <2>2. [log EXCEPT ![k].decision = Revised(k)]
          \in [Keys -> [message : Messages \cup {0}, content : Contents \cup {{}},
                        decision : Decisions]]
    BY <1>1, RevisedLog, Zenon
  <2>3. CASE UNCHANGED log
    BY <1>1, <2>3 DEF TypeOK
  <2>. QED BY <2>1, <2>2, <2>3, Zenon
<1>5. holder' \in [key : Keys \cup {NoKey}, by : Updates \cup {0},
                   todo : SUBSET DOMAIN Turn, acted : BOOLEAN]
  <2>1. \/ UNCHANGED holder
        \/ \E b \in BOOLEAN :
             holder' = [key |-> k, by |-> by, todo |-> {"preflight"}, acted |-> b]
    BY TakesIs, Zenon
  <2>. QED BY <1>1, <2>1 DEF TypeOK, Turn
<1>. QED BY <1>1, <1>2, <1>3, <1>4, <1>5
         DEF TypeOK, Takes, world, history, deliveryVars, Rows, Jobs

-----------------------------------------------------------------------------
(* What the holder of the lock does to its row.                            *)

Same(p, q) == p.decision = q.decision /\ p.deleted = q.deleted /\ p.acted = q.acted

LEMMA RowOps ==
  ASSUME NEW p \in Rows
  PROVE  /\ Begun(p) \in Rows /\ Same(Begun(p), p) /\ Begun(p).status = p.status
         /\ Retried(p) \in Rows /\ Same(Retried(p), p) /\ Retried(p).status = p.status
         /\ Rejected(p) \in Rows /\ Same(Rejected(p), p) /\ Rejected(p).status = "failed"
<1>1. MaxAttempts \in Nat
  BY ModerationAssumption
<1>2. Begun(p) \in Rows /\ Same(Begun(p), p) /\ Begun(p).status = p.status
  BY DEF Begun, Same, Rows
<1>3. Retried(p) \in Rows /\ Same(Retried(p), p) /\ Retried(p).status = p.status
  BY <1>1 DEF Retried, Same, Rows
<1>4. Rejected(p) \in Rows /\ Same(Rejected(p), p) /\ Rejected(p).status = "failed"
  BY DEF Rejected, Same, Rows, Statuses
<1>. QED BY <1>2, <1>3, <1>4

LEMMA HolderTypes ==
  ASSUME ModInv, ~LockFree
  PROVE  /\ holder.key \in Keys /\ Mine \in Rows /\ Mine.status = "pending" /\ holder.by \in Updates \cup {0}
         /\ Reached \in Rows /\ Same(Reached, Mine) /\ Reached.status = "pending"
         /\ holder \in [key : Keys \cup {NoKey}, by : Updates \cup {0},
                        todo : SUBSET DOMAIN Turn, acted : BOOLEAN]
<1>1. holder.key \in Keys /\ Mine.status = "pending"
  BY DEF ModInv, HolderInv, LockFree
<1>2. Mine \in Rows
  BY <1>1 DEF ModInv, TypeOK, Mine, Rows
<1>3. Reached \in {Mine, Begun(Mine)}
  BY Zenon DEF Reached
<1>4. Same(Mine, Mine)
  BY DEF Same
<1>5. Reached \in Rows /\ Same(Reached, Mine) /\ Reached.status = "pending"
  BY <1>1, <1>2, <1>3, <1>4, RowOps, Zenon
<1>. QED BY <1>1, <1>2, <1>5 DEF ModInv, TypeOK

\* The lock is held at every step of a punishment.
LEMMA AtHeld ==
  ASSUME NEW step, At(step)
  PROVE  ~LockFree /\ step \in holder.todo
BY DEF At, LockFree, Free

\* A failed step keeps what was done, or gives up a row nothing was done for.
LEMMA BreaksIs ==
  ASSUME ModInv, Breaks
  PROVE  /\ ~LockFree
         /\ \E p \in Rows :
              /\ Recorded(p) /\ Same(p, Mine)
              /\ p.status = "pending" \/ (p.status = "failed" /\ ~holder.acted)
         /\ effects' \in {effects, effects \cup ({holder.key} \X Call)}
         /\ holder' = Free /\ (UNCHANGED job \/ (holder.by \in Updates /\ Goes(holder.by, "failed")))
<1>1. ~LockFree
  BY DEF Breaks
<1>2. Mine \in Rows /\ Reached \in Rows /\ Same(Reached, Mine) /\ Reached.status = "pending"
  BY <1>1, HolderTypes
<1>3. /\ Retried(Reached) \in Rows /\ Same(Retried(Reached), Mine)
      /\ Retried(Reached).status = "pending"
  BY <1>2, RowOps DEF Same
<1>4. /\ Retried(Rejected(Reached)) \in Rows /\ Same(Retried(Rejected(Reached)), Mine)
      /\ Retried(Rejected(Reached)).status = "failed"
  <2>1. PICK q : q = Rejected(Reached)
    OBVIOUS
  <2>2. q \in Rows /\ Same(q, Mine) /\ q.status = "failed"
    BY <1>2, <2>1, RowOps DEF Same
  <2>3. Retried(q) \in Rows /\ Same(Retried(q), Mine) /\ Retried(q).status = "failed"
    BY <2>2, RowOps DEF Same
  <2>. QED BY <2>1, <2>3, Zenon
<1>5. \/ Recorded(Retried(Reached)) /\ effects' \in {effects, effects \cup ({holder.key} \X Call)}
      \/ Recorded(Retried(Rejected(Reached))) /\ ~holder.acted /\ effects' = effects
  BY Zenon DEF Breaks
<1>6. \E p \in Rows : /\ Recorded(p) /\ Same(p, Mine)
                      /\ p.status = "pending" \/ (p.status = "failed" /\ ~holder.acted)
  BY <1>3, <1>4, <1>5, Zenon
<1>7. effects' \in {effects, effects \cup ({holder.key} \X Call)}
  BY <1>5, Zenon
<1>8. holder.by \in Updates \cup {0}
  BY <1>1, HolderTypes
<1>9. UNCHANGED job \/ (holder.by \in Updates /\ Goes(holder.by, "failed"))
  BY <1>8 DEF Breaks, Returns
<1>. QED BY <1>1, <1>6, <1>7, <1>9 DEF Breaks

\* A step that is done and recorded.
LEMMA ActsIs ==
  ASSUME ModInv, Acts
  PROVE  /\ ~LockFree
         /\ \E step \in {"delete", "clean", "act"}, p \in Rows :
              /\ At(step) /\ Recorded(p) /\ p.decision = Mine.decision /\ p.status = "pending"
              /\ holder' = [holder EXCEPT !.todo = @ \ {step}, !.acted = TRUE]
              /\ p.deleted = (Mine.deleted \/ step # "act")
              /\ p.acted = (Mine.acted \/ step = "act")
         /\ effects' = effects \cup ({holder.key} \X Call) /\ UNCHANGED job
<1>1. PICK step \in {"delete", "clean", "act"} : At(step) /\ Onwards(step)
        /\ IF step = "act" THEN Recorded([Reached EXCEPT !.acted = TRUE])
           ELSE Recorded([Mine EXCEPT !.deleted = TRUE])
  BY DEF Acts
<1>2. ~LockFree
  BY <1>1, AtHeld
<1>3. PICK m \in Rows : m = Mine
  BY <1>2, HolderTypes
<1>4. PICK r \in Rows : r = Reached
  BY <1>2, HolderTypes
<1>5. Same(r, m) /\ r.status = "pending" /\ m.status = "pending"
  BY <1>2, <1>3, <1>4, HolderTypes
<1>6. CASE step = "act"
  <2>1. PICK p : p = [r EXCEPT !.acted = TRUE]
    OBVIOUS
  <2>2. /\ p \in Rows /\ p.decision = m.decision /\ p.status = "pending" /\ p.deleted = m.deleted
        /\ p.acted = TRUE
    BY <1>5, <2>1 DEF Rows, Same
  <2>3. p.deleted = (Mine.deleted \/ step # "act") /\ p.acted = (Mine.acted \/ step = "act")
    <3>1. m.deleted \in BOOLEAN
      BY DEF Rows
    <3>. QED BY <1>3, <1>6, <2>2, <3>1, Zenon
  <2>4. Recorded(p)
    BY <1>1, <1>4, <1>6, <2>1, Zenon
  <2>. QED BY <1>1, <1>2, <1>3, <2>2, <2>3, <2>4 DEF Acts, Onwards
<1>7. CASE step # "act"
  <2>1. PICK p : p = [m EXCEPT !.deleted = TRUE]
    OBVIOUS
  <2>2. /\ p \in Rows /\ p.decision = m.decision /\ p.status = "pending" /\ p.deleted = TRUE
        /\ p.acted = m.acted
    BY <1>5, <2>1 DEF Rows
  <2>3. p.deleted = (Mine.deleted \/ step # "act") /\ p.acted = (Mine.acted \/ step = "act")
    <3>1. m.acted \in BOOLEAN
      BY DEF Rows
    <3>. QED BY <1>3, <1>7, <2>2, <3>1, Zenon
  <2>4. Recorded(p)
    BY <1>1, <1>3, <1>7, <2>1, Zenon
  <2>. QED BY <1>1, <1>2, <1>3, <2>2, <2>3, <2>4 DEF Acts, Onwards
<1>. QED BY <1>6, <1>7

LEMMA FinalRow ==
  ASSUME ModInv, ~LockFree, NEW status \in {"skipped", "done"}, Recorded([Mine EXCEPT !.status = status])
  PROVE  \E p \in Rows : Recorded(p) /\ Same(p, Mine) /\ p.status = status
<1>1. PICK m \in Rows : m = Mine
  BY HolderTypes
<1>2. PICK p : p = [m EXCEPT !.status = status]
  OBVIOUS
<1>3. p \in Rows /\ Same(p, m) /\ p.status = status
  BY <1>2 DEF Rows, Statuses, Same
<1>4. Recorded(p)
  BY <1>1, <1>2, Zenon
<1>. QED BY <1>1, <1>3, <1>4, Zenon

LEMMA RowsTyped ==
  ASSUME TypeOK, holder.key \in Keys, NEW p \in Rows, Recorded(p)
  PROVE  /\ row' \in [Keys -> Rows]
         /\ row'[holder.key] = p /\ \A k \in Keys \ {holder.key} : row'[k] = row[k]
BY DEF TypeOK, Recorded, Rows

LEMMA EffectTypes ==
  ASSUME ModInv, ~LockFree
  PROVE  Call \subseteq Calls
<1>1. PICK m \in Rows : m = Mine
  BY HolderTypes
<1>2. m.decision.action \in Calls
  <2>1. m.decision.action \notin Mild
    BY <1>1, HolderTypes DEF ModInv, RowInv, Mine
  <2>. QED BY <2>1 DEF Rows, Decisions, Actions, Calls, Mild
<1>3. Call \in {{"delete"}, {m.decision.action} \ {"delete"}, {}}
  BY <1>1, Zenon DEF Call
<1>. QED BY <1>2, <1>3 DEF Calls

LEMMA CarryingTypes ==
  ASSUME ModInv, Carrying \/ Breaks
  PROVE  TypeOK'
<1>1. TypeOK
  BY DEF ModInv
<1>2. ~LockFree
  BY AtHeld DEF Carrying, Preflights, Acts, Remembers, Notifies, Finishes, Breaks
<1>3. /\ holder.key \in Keys /\ holder.by \in Updates \cup {0}
      /\ holder \in [key : Keys \cup {NoKey}, by : Updates \cup {0},
                     todo : SUBSET DOMAIN Turn, acted : BOOLEAN]
  BY <1>2, HolderTypes
<1>4. Free \in [key : Keys \cup {NoKey}, by : Updates \cup {0},
                todo : SUBSET DOMAIN Turn, acted : BOOLEAN]
  BY DEF Free
<1>5. \A at \in {"answering", "failed"} : Returns(holder.by, at) =>
        job' \in [Updates -> Jobs]
  <2>1. {"answering", "failed"} \subseteq Stages
    BY DEF Stages
  <2>. QED BY <1>1, <1>3, <2>1, GoesTypes DEF Returns, TypeOK, Jobs
<1>6. effects \cup ({holder.key} \X Call) \subseteq Keys \X Calls
  BY <1>1, <1>2, <1>3, EffectTypes DEF TypeOK, Calls
<1>7. ASSUME NEW p \in Rows, Recorded(p) PROVE row' \in [Keys -> Rows]
  BY <1>1, <1>3, <1>7, RowsTyped
<1>8. \A step : Onwards(step) =>
        holder' \in [key : Keys \cup {NoKey}, by : Updates \cup {0},
                     todo : SUBSET DOMAIN Turn, acted : BOOLEAN]
  BY <1>3 DEF Onwards
<1>9. CASE Preflights
  <2>1. CASE Protected
    <3>1. \E p \in Rows : Recorded(p)
      BY <1>2, <1>9, <2>1, FinalRow DEF Preflights
    <3>2. row' \in [Keys -> Rows]
      BY <1>7, <3>1
    <3>3. job' \in [Updates -> Jobs]
      BY <1>5, <1>9, <2>1 DEF Preflights
    <3>. QED BY <1>1, <1>4, <1>9, <2>1, <3>2, <3>3
             DEF TypeOK, Preflights, world, history, deliveryVars, Rows, Jobs
  <2>2. CASE ~Protected
    <3>1. holder' = [holder EXCEPT !.todo = Plan(Mine)] /\ UNCHANGED <<row, job>>
      BY <1>9, <2>2, Zenon DEF Preflights
    <3>2. PICK plan : plan = Plan(Mine)
      OBVIOUS
    <3>3. plan \subseteq DOMAIN Turn
      <4>1. \A c, s : Step(c, s) \subseteq {s}
        BY DEF Step
      <4>2. plan \subseteq {"clean", "delete", "act", "remember", "notice", "done"}
        BY <3>2, <4>1 DEF Plan
      <4>. QED BY <4>2 DEF Turn
    <3>4. holder' \in [key : Keys \cup {NoKey}, by : Updates \cup {0},
                       todo : SUBSET DOMAIN Turn, acted : BOOLEAN]
      BY <1>3, <3>1, <3>2, <3>3
    <3>. QED BY <1>1, <1>9, <3>1, <3>4 DEF TypeOK, Preflights, world, history, deliveryVars
  <2>. QED BY <2>1, <2>2
<1>10. CASE Acts
  <2>1. \E p \in Rows : Recorded(p)
    BY <1>10, ActsIs
  <2>2. row' \in [Keys -> Rows]
    BY <1>7, <2>1
  <2>3. \E step : Onwards(step)
    BY <1>10 DEF Acts
  <2>4. effects' \subseteq Keys \X Calls
    BY <1>6, <1>10 DEF Acts
  <2>. QED BY <1>1, <1>8, <1>10, <2>2, <2>3, <2>4
           DEF TypeOK, Acts, world, deliveryVars, Rows, Calls
<1>11. CASE Remembers
  <2>1. memory' \subseteq memory \cup {<<log[holder.key].message, log[holder.key].content>>}
    BY <1>11 DEF Remembers
  <2>2. log[holder.key].message \in Messages /\ log[holder.key].content \in Contents
    BY <1>2, HolderTypes DEF ModInv, RowInv, LogInv, Mine
  <2>. QED BY <1>1, <1>8, <1>11, <2>1, <2>2 DEF TypeOK, Remembers, history, deliveryVars
<1>12. CASE Notifies
  BY <1>1, <1>8, <1>12 DEF TypeOK, Notifies, world, history, deliveryVars
<1>13. CASE Finishes
  <2>1. \E p \in Rows : Recorded(p)
    BY <1>2, <1>13, FinalRow DEF Finishes
  <2>2. row' \in [Keys -> Rows]
    BY <1>7, <2>1
  <2>3. job' \in [Updates -> Jobs]
    BY <1>5, <1>13 DEF Finishes
  <2>. QED BY <1>1, <1>4, <1>13, <2>2, <2>3
           DEF TypeOK, Finishes, world, history, deliveryVars, Rows, Jobs
<1>14. CASE Breaks
  <2>1. \E p \in Rows : Recorded(p)
    BY <1>14, BreaksIs, Zenon
  <2>2. row' \in [Keys -> Rows]
    BY <1>7, <2>1
  <2>3. job' \in [Updates -> Jobs]
    BY <1>5, <1>14 DEF Breaks
  <2>4. effects' \subseteq Keys \X Calls
    BY <1>1, <1>6, <1>14, BreaksIs DEF TypeOK, Calls
  <2>5. budget' \in [faults : 0..MaxFaults, moves : 0..MaxMoves]
    <3>1. Spends("faults", MaxFaults)
      BY <1>14 DEF Breaks
    <3>. QED BY <1>1, <3>1, SpendsTypes
  <2>. QED BY <1>1, <1>4, <1>14, <2>2, <2>3, <2>4, <2>5
           DEF TypeOK, Breaks, world, deliveryVars, Rows, Jobs, Calls
<1>. QED BY <1>9, <1>10, <1>11, <1>12, <1>13, <1>14 DEF Carrying

LEMMA OtherTypes ==
  ASSUME ModInv, Dies \/ Changes \/ \E m \in Messages : Marks(m)
  PROVE  TypeOK'
<1>1. TypeOK
  BY DEF ModInv
<1>2. CASE Dies
  <2>1. Free \in [key : Keys \cup {NoKey}, by : Updates \cup {0},
                  todo : SUBSET DOMAIN Turn, acted : BOOLEAN]
    BY DEF Free
  <2>2. NoJob \in [at : Stages, decision : Decisions]
    <3>1. Allowed \in Decisions
      BY DecisionTypes
    <3>. QED BY <3>1 DEF NoJob, Stages
  <2>3. job' \in [Updates -> [at : Stages, decision : Decisions]]
    BY <1>2, <2>2 DEF Dies
  <2>4. line' \in [Updates -> D!States]
    BY <1>1, <1>2 DEF Dies, TypeOK, D!States
  <2>5. budget' \in [faults : 0..MaxFaults, moves : 0..MaxMoves]
    <3>1. Spends("faults", MaxFaults)
      BY <1>2 DEF Dies
    <3>. QED BY <1>1, <3>1, SpendsTypes
  <2>. QED BY <1>1, <1>2, <2>1, <2>3, <2>4, <2>5 DEF TypeOK, Dies, world, history
<1>3. CASE Changes
  <2>1. Spends("moves", MaxMoves)
    BY <1>3 DEF Changes
  <2>2. budget' \in [faults : 0..MaxFaults, moves : 0..MaxMoves]
    BY <1>1, <2>1, SpendsTypes
  <2>. QED BY <1>1, <1>3, <2>2 DEF TypeOK, Changes, history, deliveryVars
<1>4. CASE \E m \in Messages : Marks(m)
  <2>1. PICK m \in Messages : Marks(m)
    BY <1>4
  <2>2. Spends("moves", MaxMoves)
    BY <2>1 DEF Marks
  <2>3. budget' \in [faults : 0..MaxFaults, moves : 0..MaxMoves]
    BY <1>1, <2>2, SpendsTypes
  <2>. QED BY <1>1, <2>1, <2>3 DEF TypeOK, Marks, history, deliveryVars
<1>. QED BY <1>2, <1>3, <1>4

-----------------------------------------------------------------------------
(* What a handler does that saves nothing and does nothing.                *)

\* Whether a decision is earned shows in what was done and counted alone.
LEMMA EarnedFrame ==
  ASSUME UNCHANGED <<effects, rate>>
  PROVE  \A v, d : Earned(v, d)' <=> Earned(v, d)
<1>1. TAKE v, d
<1>2. Felt(v)' = Felt(v) /\ CountedSoFar' = CountedSoFar
  BY DEF Felt, Did, CountedSoFar
<1>. QED BY <1>2, Zenon DEF Earned

LEMMA Frames ==
  /\ RowInv /\ UNCHANGED <<row, log, effects>> => RowInv'
  /\ EffectInv /\ UNCHANGED <<row, effects>> => EffectInv'
  /\ LogInv /\ UNCHANGED log => LogInv'
  /\ OneActive /\ UNCHANGED <<row, log>> => OneActive'
  /\ MemoryInv /\ UNCHANGED <<memory, wrong, log, effects>> => MemoryInv'
  /\ SavedProven /\ UNCHANGED <<log, effects>> => SavedProven'
  /\ SavedEarned /\ UNCHANGED <<log, effects, rate>> => SavedEarned'
  /\ RateInv /\ UNCHANGED rate => RateInv'
  /\ SendInv /\ UNCHANGED <<sends, log, answered, unmarked>> => SendInv'
<1>1. RowInv /\ UNCHANGED <<row, log, effects>> => RowInv'
  BY DEF RowInv, Logged
<1>2. EffectInv /\ UNCHANGED <<row, effects>> => EffectInv'
  BY DEF EffectInv, Did
<1>3. LogInv /\ UNCHANGED log => LogInv'
  BY DEF LogInv, Logged
<1>4. OneActive /\ UNCHANGED <<row, log>> => OneActive'
  BY DEF OneActive, Active
<1>5. MemoryInv /\ UNCHANGED <<memory, wrong, log, effects>> => MemoryInv'
  BY DEF MemoryInv
<1>6. SavedProven /\ UNCHANGED <<log, effects>> => SavedProven'
  BY DEF SavedProven, Proven
<1>7. SavedEarned /\ UNCHANGED <<log, effects, rate>> => SavedEarned'
  <2>1. ASSUME SavedEarned, UNCHANGED <<log, effects, rate>> PROVE SavedEarned'
    <3>1. \A v, d : Earned(v, d)' <=> Earned(v, d)
      BY <2>1, EarnedFrame
    <3>. QED BY <2>1, <3>1 DEF SavedEarned, AutoKey
  <2>. QED BY <2>1
<1>8. RateInv /\ UNCHANGED rate => RateInv'
  BY DEF RateInv, CountedSoFar
<1>9. SendInv /\ UNCHANGED <<sends, log, answered, unmarked>> => SendInv'
  BY DEF SendInv, Logged
<1>. QED BY <1>1, <1>2, <1>3, <1>4, <1>5, <1>6, <1>7, <1>8, <1>9

\* The decision a handler has not saved yet is its own.
LEMMA DecidedFrame ==
  ASSUME DecidedProven, DecidedEarned, UNCHANGED <<log, effects, rate>>, NEW u \in Updates,
         job'[u].at # "decided",
         \A v \in Updates \ {u} : job'[v] = job[v] /\ input'[v] = input[v]
  PROVE  DecidedProven' /\ DecidedEarned'
<1>1. \A v, d : Earned(v, d)' <=> Earned(v, d)
  BY EarnedFrame
<1>2. \A m, c : Proven(m, c)' <=> Proven(m, c)
  BY DEF Proven
<1>3. DecidedProven'
  BY <1>2 DEF DecidedProven
<1>4. DecidedEarned'
  BY <1>1 DEF DecidedEarned
<1>. QED BY <1>3, <1>4

\* The handler of the holder of the lock does nothing else.
LEMMA HolderFrame ==
  ASSUME HolderInv, UNCHANGED <<holder, row>>, NEW u \in Updates, job[u].at # "punishing" \/ holder.by # u,
         \A v \in Updates \ {u} : job'[v] = job[v], TypeOK
  PROVE  HolderInv'
<1>1. holder.by \in Updates \cup {0}
  BY DEF TypeOK
<1>2. holder # Free /\ holder.by # 0 => job'[holder.by].at = "punishing"
  BY <1>1 DEF HolderInv
<1>. QED BY <1>2 DEF HolderInv, Mine

LEMMA HandlerJob ==
  ASSUME ModInv, NEW u \in Updates,
         \/ Begins(u) \/ Settles(u) \/ Fails(u) \/ Applies(u) \/ Announces(u) \/ Replies(u)
  PROVE  /\ job'[u].at \in {"idle", "begun", "failed", "replying", "punishing", "over"}
         /\ \A v \in Updates \ {u} : job'[v] = job[v] /\ input'[v] = input[v]
         /\ job[u].at # "punishing" \/ holder.by # u
         /\ UNCHANGED <<row, log, effects, holder, memory, wrong, rate>>
         /\ Replies(u) \/ UNCHANGED <<sends, answered, unmarked>>
<1>1. TypeOK
  BY DEF ModInv
<1>2. job \in [Updates -> [at : Stages, decision : Decisions]] /\ input \in [Updates -> Inputs]
  BY <1>1 DEF TypeOK
<1>3. {"begun", "failed", "replying", "punishing", "over"} \subseteq Stages
  BY DEF Stages
<1>4. CASE Begins(u)
  <2>1. job'[u].at = "begun" /\ \A v \in Updates \ {u} : job'[v] = job[v]
    BY <1>1, <1>3, <1>4, GoesTypes DEF Begins
  <2>2. \A v \in Updates \ {u} : input'[v] = input[v]
    BY <1>2, <1>4 DEF Begins
  <2>. QED BY <1>4, <2>1, <2>2 DEF Begins, world, history
<1>5. CASE Settles(u)
  <2>1. job'[u].at = "idle" /\ \A v \in Updates \ {u} : job'[v] = job[v]
    BY <1>2, <1>5 DEF Settles, NoJob
  <2>2. \A v \in Updates \ {u} : input'[v] = input[v]
    BY <1>2, <1>5 DEF Settles
  <2>. QED BY <1>5, <2>1, <2>2 DEF Settles, world, history
<1>6. CASE Fails(u)
  <2>1. job'[u].at = "failed" /\ \A v \in Updates \ {u} : job'[v] = job[v]
    BY <1>1, <1>3, <1>6, GoesTypes DEF Fails
  <2>. QED BY <1>6, <2>1 DEF Fails, world, history
<1>7. CASE Applies(u) \/ Announces(u)
  <2>1. Goes(u, "replying") \/ Goes(u, "punishing") \/ Goes(u, "over")
    BY <1>7 DEF Applies, Announces, Over
  <2>2. /\ job'[u].at \in {"replying", "punishing", "over"}
        /\ \A v \in Updates \ {u} : job'[v] = job[v]
    BY <1>1, <1>3, <2>1, GoesTypes
  <2>. QED BY <1>7, <2>2 DEF Applies, Announces, world, history
<1>8. CASE Replies(u)
  <2>1. Goes(u, "over") \/ Goes(u, "failed")
    BY <1>8 DEF Replies, Over
  <2>2. job'[u].at \in {"over", "failed"} /\ \A v \in Updates \ {u} : job'[v] = job[v]
    BY <1>1, <1>3, <2>1, GoesTypes
  <2>. QED BY <1>8, <2>2 DEF Replies, world
<1>. QED BY <1>4, <1>5, <1>6, <1>7, <1>8

LEMMA HandlerStep ==
  ASSUME ModInv, NEW u \in Updates,
         \/ Begins(u) \/ Settles(u) \/ Fails(u) \/ Applies(u) \/ Announces(u) \/ Replies(u)
  PROVE  ModInv'
<1>1. TypeOK'
  BY HandlerTypes, VerdictTypes
<1>2. /\ job'[u].at \in {"idle", "begun", "failed", "replying", "punishing", "over"}
      /\ \A v \in Updates \ {u} : job'[v] = job[v] /\ input'[v] = input[v]
      /\ job[u].at # "punishing" \/ holder.by # u
      /\ UNCHANGED <<row, log, effects, holder, memory, wrong, rate>>
      /\ Replies(u) \/ UNCHANGED <<sends, answered, unmarked>>
  BY HandlerJob
<1>3. LogInv' /\ RowInv' /\ EffectInv' /\ OneActive' /\ MemoryInv' /\ SavedProven' /\ SavedEarned' /\ RateInv'
  BY <1>2, Frames DEF ModInv
<1>4. HolderInv'
  BY <1>2, HolderFrame DEF ModInv
<1>5. DecidedProven' /\ DecidedEarned'
  BY <1>2, DecidedFrame DEF ModInv
<1>6. JobInv'
  <2>0. \A v \in Updates \ {u} :
          Key(v)' = Key(v) /\ (Logged(Key(v))' <=> Logged(Key(v))) /\ log' = log
    BY <1>2 DEF Key, Logged
  <2>1. SUFFICES
          /\ input'[u] # NoInput =>
               /\ input'[u].kind \in {"say", "check"} /\ input'[u].message \in Messages
               /\ input'[u].content \in Contents
          /\ job'[u].at # "idle" => input'[u] # NoInput
          /\ job'[u].at \in {"judged", "replying", "punishing"} => Logged(Key(u))'
          /\ job'[u].at = "replying" => input'[u].kind = "say" /\ log'[Key(u)'].decision.action = "allow"
          /\ job'[u].at = "punishing" => log'[Key(u)'].decision.action \notin Mild
    <3>1. JobInv
      BY DEF ModInv
    <3>2. \A v \in Updates \ {u} :
            /\ input'[v] # NoInput =>
                 /\ input'[v].kind \in {"say", "check"} /\ input'[v].message \in Messages
                 /\ input'[v].content \in Contents
            /\ job'[v].at # "idle" => input'[v] # NoInput
            /\ job'[v].at \in {"decided", "judged", "replying"} => input'[v].kind = "say"
            /\ job'[v].at \in {"judged", "replying", "punishing"} => Logged(Key(v))'
            /\ job'[v].at = "replying" => log'[Key(v)'].decision.action = "allow"
            /\ job'[v].at = "punishing" => log'[Key(v)'].decision.action \notin Mild
      BY <1>2, <2>0, <3>1 DEF JobInv
    <3>3. job'[u].at # "decided"
      BY <1>2
    <3>. QED BY <1>2, <3>2, <3>3 DEF JobInv
  <2>2. JobInv
    BY DEF ModInv
  <2>3. CASE Begins(u)
    <3>1. job'[u].at = "begun"
      <4>1. "begun" \in Stages /\ TypeOK
        BY DEF Stages, ModInv
      <4>. QED BY <2>3, <4>1, GoesTypes DEF Begins
    <3>2. PICK i \in Inputs : Chosen(u, i) /\ input' = [input EXCEPT ![u] = i]
      BY <2>3 DEF Begins
    <3>3. input'[u] = i
      BY <3>2 DEF ModInv, TypeOK
    <3>4. /\ i # NoInput /\ i.kind \in {"say", "check"} /\ i.message \in Messages
          /\ i.content \in Contents
      <4>1. CASE input[u] # NoInput
        BY <2>2, <3>2, <4>1 DEF Chosen, JobInv
      <4>2. CASE input[u] = NoInput
        BY <3>2, <4>2 DEF Chosen, Inputs, NoInput
      <4>. QED BY <4>1, <4>2
    <3>. QED BY <3>1, <3>3, <3>4
  <2>4. CASE Settles(u)
    <3>1. job'[u].at = "idle"
      BY <2>4 DEF Settles, NoJob, ModInv, TypeOK
    <3>2. input'[u] = input[u] \/ input'[u] = NoInput
      BY <2>4 DEF Settles, ModInv, TypeOK
    <3>. QED BY <2>2, <3>1, <3>2 DEF JobInv
  <2>5. CASE Fails(u) \/ Announces(u) \/ Replies(u)
    <3>1. job'[u].at \in {"failed", "over"} /\ job[u].at # "idle"
      <4>1. "failed" \in Stages /\ "over" \in Stages /\ TypeOK
        BY DEF Stages, ModInv
      <4>2. Goes(u, "failed") \/ Goes(u, "over")
        BY <2>5 DEF Fails, Announces, Replies, Over
      <4>3. job'[u].at \in {"failed", "over"}
        BY <4>1, <4>2, GoesTypes
      <4>. QED BY <2>5, <4>3 DEF Fails, Announces, Replies
    <3>2. input' = input
      BY <2>5 DEF Fails, Announces, Replies
    <3>. QED BY <2>2, <3>1, <3>2 DEF JobInv
  <2>6. CASE Applies(u)
    <3>1. /\ input' = input /\ log' = log /\ input[u].kind = "say" /\ Logged(Key(u))
          /\ job[u].at # "idle"
      BY <2>2, <2>6 DEF Applies, JobInv, Known
    <3>2. \/ Goes(u, "replying") /\ log[Key(u)].decision.action = "allow"
          \/ Goes(u, "over")
          \/ Goes(u, "punishing") /\ log[Key(u)].decision.action \notin Mild
      BY <2>6 DEF Applies, Over, Mild
    <3>3. \/ job'[u].at = "replying" /\ log[Key(u)].decision.action = "allow"
          \/ job'[u].at = "over"
          \/ job'[u].at = "punishing" /\ log[Key(u)].decision.action \notin Mild
      <4>1. "replying" \in Stages /\ "over" \in Stages /\ "punishing" \in Stages /\ TypeOK
        BY DEF Stages, ModInv
      <4>. QED BY <3>2, <4>1, GoesTypes
    <3>4. Key(u)' = Key(u) /\ (Logged(Key(u))' <=> Logged(Key(u)))
      BY <3>1 DEF Key, Logged
    <3>. QED BY <2>2, <3>1, <3>3, <3>4 DEF JobInv
  <2>. QED BY <2>3, <2>4, <2>5, <2>6
<1>7. SendInv'
  <2>1. CASE UNCHANGED <<sends, answered, unmarked>>
    BY <1>2, <2>1, Frames DEF ModInv
  <2>2. CASE Replies(u)
    <3>1. CASE UNCHANGED sends /\ UNCHANGED unmarked /\ UNCHANGED answered
      BY <2>1, <3>1
    <3>2. CASE /\ u \notin answered /\ sends' = [sends EXCEPT ![u] = @ + 1]
               /\ \/ answered' = answered \cup {u} /\ unmarked' = unmarked
                  \/ answered' = answered /\ unmarked' = unmarked \cup {u}
      <4>1. job[u].at = "replying"
        BY <2>2 DEF Replies
      <4>2. Logged(AutoKey(u)) /\ log[AutoKey(u)].decision.action = "allow"
        BY <4>1, KeyTypes DEF ModInv, JobInv
      <4>3. SendInv /\ sends \in [Updates -> Nat]
        BY DEF ModInv, TypeOK
      <4>4. \A v \in Updates : sends'[v] = IF v = u THEN sends[v] + 1 ELSE sends[v]
        BY <3>2, <4>3
      <4>5. \A v \in Updates : (Logged(AutoKey(v))' <=> Logged(AutoKey(v)))
        BY <1>2 DEF Logged, AutoKey
      <4>6. sends[u] > 0 => u \in unmarked
        BY <3>2, <4>3 DEF SendInv
      <4>7. SUFFICES ASSUME NEW v \in Updates
            PROVE  /\ sends'[v] > 0 => /\ Logged(AutoKey(v))'
                                        /\ log'[AutoKey(v)].decision.action = "allow"
                                        /\ v \in answered' \cup unmarked'
                   /\ sends'[v] > 1 => v \in unmarked'
        BY DEF SendInv, AutoKey
      <4>8. CASE v = u
        BY <1>2, <3>2, <4>2, <4>3, <4>4, <4>5, <4>6, <4>8 DEF AutoKey
      <4>9. CASE v # u
        BY <1>2, <3>2, <4>3, <4>4, <4>5, <4>9 DEF SendInv, AutoKey
      <4>. QED BY <4>8, <4>9
    <3>. QED BY <2>2, <3>1, <3>2 DEF Replies, Answered
  <2>. QED BY <1>2, <2>1, <2>2
<1>. QED BY <1>1, <1>3, <1>4, <1>5, <1>6, <1>7 DEF ModInv

-----------------------------------------------------------------------------
(* Deciding.                                                               *)

\* A row that counts was carried out.
LEMMA CountedIsDone ==
  ASSUME ModInv, NEW k \in Keys, CountsRow(k)
  PROVE  Did(k, Calls) /\ Logged(k)
<1>1. row[k] \in Rows /\ RowInv
  BY DEF ModInv, TypeOK, Rows
<1>2. row[k].status # "none"
  <2>1. ~CountsRow(k) \/ row[k] # NoRow
    BY DEF CountsRow, NoRow
  <2>. QED BY <1>1, <2>1 DEF RowInv
<1>3. row[k].acted \/ row[k].deleted
  BY <1>1 DEF CountsRow, RowInv
<1>4. row[k].decision.action \in Calls
  BY <1>1, <1>2 DEF RowInv, Rows, Decisions, Actions, Calls, Mild
<1>5. ASSUME row[k].deleted PROVE Did(k, Calls)
  BY <1>1, <1>5 DEF RowInv, Did, Calls
<1>6. ASSUME row[k].acted, ~row[k].deleted PROVE Did(k, Calls)
  BY <1>1, <1>4, <1>6 DEF RowInv, Did
<1>7. Did(k, Calls)
  BY <1>3, <1>5, <1>6
<1>. QED BY <1>1, <1>2, <1>7 DEF RowInv

\* An update that has no row of its own counts others' only.
LEMMA FeltSoFar ==
  ASSUME ModInv, NEW u \in Updates, ~Logged(AutoKey(u))
  PROVE  ViolationCount <= Felt(u)
<1>. DEFINE counted == {v \in Updates : CountsRow(<<"auto", v>>)}
            felt == {v \in Updates \ {u} : Did(<<"auto", v>>, Calls)}
<1>1. counted \subseteq felt
  <2>1. \A v \in counted : Did(AutoKey(v), Calls) /\ Logged(AutoKey(v))
    BY KeyTypes, CountedIsDone DEF AutoKey
  <2>. QED BY <2>1 DEF AutoKey
<1>2. IsFiniteSet(felt)
  <2>1. felt \subseteq Updates
    OBVIOUS
  <2>. QED BY <2>1, UpdatesFinite
<1>3. Cardinality(counted) <= Cardinality(felt)
  BY <1>1, <1>2, FS_Subset
<1>. QED BY <1>3 DEF ViolationCount, Felt

LEMMA CountGrows ==
  ASSUME ModInv, NEW u \in Updates, rate' \in [Updates -> Nat],
         rate' = [rate EXCEPT ![u] = rate'[u]], rate'[u] \in {rate[u], Counted(u)}
  PROVE  CountedSoFar <= CountedSoFar' /\ RateInv'
<1>. DEFINE before == {v \in Updates : rate[v] > 0}
            after == {v \in Updates : rate'[v] > 0}
<1>1. RateInv /\ rate \in [Updates -> Nat]
  BY DEF ModInv, TypeOK
<1>2. \A v \in Updates \ {u} : rate'[v] = rate[v]
  BY <1>1
<1>3. CASE rate'[u] = rate[u]
  <2>1. rate' = rate
    BY <1>1, <1>3
  <2>2. CountedSoFar' = CountedSoFar /\ RateInv'
    BY <1>1, <2>1 DEF CountedSoFar, RateInv
  <2>. QED BY <2>2, CountTypes
<1>4. CASE rate'[u] # rate[u]
  <2>1. rate[u] = 0 /\ rate'[u] = CountedSoFar + 1
    BY <1>1, <1>4 DEF Counted, CountedSoFar
  <2>2. after = before \cup {u} /\ u \notin before
    BY <1>1, <1>2, <2>1, CountTypes
  <2>3. IsFiniteSet(before)
    <3>1. before \subseteq Updates
      OBVIOUS
    <3>. QED BY <3>1, UpdatesFinite
  <2>4. Cardinality(after) = Cardinality(before) + 1
    BY <2>2, <2>3, FS_AddElement
  <2>5. CountedSoFar' = CountedSoFar + 1
    BY <2>4 DEF CountedSoFar
  <2>6. RateInv'
    <3>1. \A v \in Updates : rate'[v] <= CountedSoFar'
      BY <1>1, <1>2, <2>1, <2>5, CountTypes DEF RateInv
    <3>. QED BY <3>1 DEF RateInv
  <2>. QED BY <2>5, <2>6, CountTypes
<1>. QED BY <1>3, <1>4

\* What was earned stays earned.
LEMMA StaysEarned ==
  ASSUME TypeOK, effects \subseteq effects', CountedSoFar <= CountedSoFar', CountedSoFar' \in Nat,
         NEW u \in Updates, NEW d, Earned(u, d)
  PROVE  Earned(u, d)'
<1>1. PICK n \in DOMAIN Policies :
        /\ d.reason = "local_ad_review" => Felt(u) >= Policies[n].HoldAfter
        /\ d.reason \in {"advertising", "spam"} /\ d.action = "ban"
             => Felt(u) + 1 >= Policies[n].BanAfter
        /\ d.reason = "spam" /\ d.action = "mute" => Felt(u) + 1 >= Policies[n].MuteAfter
        /\ d.reason = "spam" => Policies[n].SpamEnabled /\ CountedSoFar > Policies[n].RateLimit
  BY DEF Earned
<1>2. Felt(u) <= Felt(u)' /\ Felt(u) \in Nat /\ Felt(u)' \in Nat
  <2>. DEFINE before == {v \in Updates \ {u} : Did(<<"auto", v>>, Calls)}
              after == {v \in Updates \ {u} : Did(<<"auto", v>>, Calls)'}
  <2>1. before \subseteq after /\ after \subseteq Updates /\ before \subseteq Updates
    BY DEF Did
  <2>2. IsFiniteSet(after) /\ Cardinality(after) \in Nat /\ Cardinality(before) \in Nat
    BY <2>1, UpdatesFinite
  <2>3. Cardinality(before) <= Cardinality(after)
    BY <2>1, <2>2, FS_Subset
  <2>. QED BY <2>2, <2>3 DEF Felt
<1>3. /\ Policies[n].HoldAfter \in Nat /\ Policies[n].BanAfter \in Nat
      /\ Policies[n].RateLimit \in Nat /\ Policies[n].MuteAfter \in Nat
  BY ModerationAssumption
<1>4. CountedSoFar \in Nat
  BY CountTypes
<1>5. /\ d.reason = "local_ad_review" => Felt(u)' >= Policies[n].HoldAfter
      /\ d.reason \in {"advertising", "spam"} /\ d.action = "ban"
           => Felt(u)' + 1 >= Policies[n].BanAfter
      /\ d.reason = "spam" /\ d.action = "mute" => Felt(u)' + 1 >= Policies[n].MuteAfter
      /\ d.reason = "spam" => Policies[n].SpamEnabled /\ CountedSoFar' > Policies[n].RateLimit
  BY <1>1, <1>2, <1>3, <1>4
<1>. QED BY <1>5 DEF Earned

\* A repeated advert is proven.
LEMMA RepeatedProven ==
  ASSUME ModInv, NEW m, NEW c, Repeated(m, c)
  PROVE  Proven(m, c)
<1>1. PICK w \in memory : w[1] # m /\ w[2] = c
  BY DEF Repeated
<1>2. PICK q \in Keys : /\ log[q].message = w[1] /\ log[q].content = w[2]
                        /\ <<q, "delete">> \in effects /\ <<q, "warn">> \in effects
  BY DEF ModInv, MemoryInv
<1>. QED BY <1>1, <1>2 DEF Proven

LEMMA DecideStep ==
  ASSUME ModInv, NEW u \in Updates, Decides(u)
  PROVE  ModInv'
<1>. DEFINE m == input[u].message
            c == input[u].content
<1>1. TypeOK' /\ TypeOK /\ JobInv /\ RateInv /\ DecidedProven /\ DecidedEarned
  BY VerdictTypes DEF ModInv
<1>2. UNCHANGED <<row, log, effects, holder, memory, wrong, sends, answered, unmarked, input,
                  settings, standing>>
  BY DEF Decides, world, history
<1>3. /\ job[u].at = "begun" /\ input[u].kind = "say" /\ ~Logged(AutoKey(u)) /\ input[u] # NoInput
  <2>1. job[u].at = "begun" /\ input[u].kind = "say" /\ ~Logged(Key(u))
    BY DEF Decides, Known
  <2>. QED BY <1>1, <2>1, KeyTypes DEF JobInv
<1>4. PICK d : /\ job' = [job EXCEPT ![u] = [at |-> "decided", decision |-> d]]
               /\ Founded(d, rate'[u], m, c)
  BY DecidesFounded
<1>5. /\ rate' \in [Updates -> Nat] /\ rate' = [rate EXCEPT ![u] = rate'[u]]
      /\ rate'[u] \in {rate[u], Counted(u)}
  BY DecidesFounded
<1>6. CountedSoFar <= CountedSoFar' /\ RateInv' /\ CountedSoFar' \in Nat
  <2>1. CountedSoFar' \in Nat
    <3>1. {v \in Updates : rate'[v] > 0} \subseteq Updates
      OBVIOUS
    <3>. QED BY <3>1, UpdatesFinite DEF CountedSoFar
  <2>. QED BY <1>5, <2>1, CountGrows
<1>7. /\ job'[u].at = "decided" /\ job'[u].decision = d
      /\ \A v \in Updates \ {u} : job'[v] = job[v]
  BY <1>1, <1>4 DEF TypeOK
<1>8. LogInv' /\ RowInv' /\ EffectInv' /\ OneActive' /\ MemoryInv' /\ SavedProven' /\ SendInv'
  BY <1>2, Frames DEF ModInv
<1>9. HolderInv'
  BY <1>1, <1>2, <1>3, <1>7, HolderFrame DEF ModInv
<1>10. JobInv'
  BY <1>1, <1>2, <1>3, <1>7 DEF JobInv, Key, Logged
<1>11. DecidedProven'
  <2>1. d.reason = "repeated_ad" => Proven(m, c)
    BY <1>4, RepeatedProven DEF Founded
  <2>2. \A x, y : Proven(x, y)' <=> Proven(x, y)
    BY <1>2 DEF Proven
  <2>. QED BY <1>1, <1>2, <1>7, <2>1, <2>2 DEF DecidedProven
<1>12. \A v \in Updates : \A e : Earned(v, e) => Earned(v, e)'
  BY <1>1, <1>2, <1>6, StaysEarned
<1>13. DecidedEarned'
  <2>1. PICK n \in DOMAIN Policies : n = settings
    BY <1>1 DEF TypeOK
  <2>2. /\ d.reason = "local_ad_review" => ViolationCount >= Policies[n].HoldAfter
        /\ d.reason \in {"advertising", "spam"} /\ d.action = "ban"
             => ViolationCount + 1 >= Policies[n].BanAfter
        /\ d.reason = "spam" /\ d.action = "mute" => ViolationCount + 1 >= Policies[n].MuteAfter
        /\ d.reason = "spam" => Policies[n].SpamEnabled /\ rate'[u] > Policies[n].RateLimit
        /\ d.action = "delete" => d.delete
    BY <1>4, <2>1 DEF Founded, Settings
  <2>3. ViolationCount <= Felt(u) /\ ViolationCount \in Nat /\ Felt(u) \in Nat
    BY <1>3, FeltSoFar, CountTypes
  <2>4. rate'[u] <= CountedSoFar' /\ rate'[u] \in Nat
    BY <1>5, <1>6 DEF RateInv
  <2>5. /\ Policies[n].HoldAfter \in Nat /\ Policies[n].BanAfter \in Nat
        /\ Policies[n].RateLimit \in Nat /\ Policies[n].MuteAfter \in Nat
    BY ModerationAssumption
  <2>6. Felt(u)' = Felt(u)
    BY <1>2 DEF Felt, Did
  <2>7. /\ d.reason = "local_ad_review" => Felt(u)' >= Policies[n].HoldAfter
        /\ d.reason \in {"advertising", "spam"} /\ d.action = "ban"
             => Felt(u)' + 1 >= Policies[n].BanAfter
        /\ d.reason = "spam" /\ d.action = "mute" => Felt(u)' + 1 >= Policies[n].MuteAfter
        /\ d.reason = "spam" => Policies[n].SpamEnabled /\ CountedSoFar' > Policies[n].RateLimit
    BY <1>6, <2>2, <2>3, <2>4, <2>5, <2>6
  <2>8. Earned(u, d)'
    BY <2>7 DEF Earned
  <2>. QED BY <1>1, <1>7, <1>12, <2>2, <2>8 DEF DecidedEarned
<1>14. SavedEarned'
  BY <1>2, <1>12 DEF ModInv, SavedEarned, AutoKey
<1>. QED BY <1>1, <1>6, <1>8, <1>9, <1>10, <1>11, <1>13, <1>14 DEF ModInv

-----------------------------------------------------------------------------
(* Saving a verdict.                                                       *)

\* Whatever has a row, or was done, was saved before.
LEMMA DoneIsLogged ==
  ASSUME ModInv, NEW k \in Keys, NEW x \in Calls, <<k, x>> \in effects
  PROVE  Logged(k) /\ row[k].status # "none"
BY DEF ModInv, EffectInv, RowInv, Did

\* Evidence stays while what was saved about the messages punished so far stays.
LEMMA ProvenStays ==
  ASSUME ModInv, effects \subseteq effects',
         \A k \in Keys : Logged(k) => log'[k].message = log[k].message /\ log'[k].content = log[k].content
  PROVE  /\ \A m, c : Proven(m, c) => Proven(m, c)'
         /\ \A q \in Keys : \A m, c :
              /\ log[q].message = m /\ log[q].content = c
              /\ <<q, "delete">> \in effects /\ <<q, "warn">> \in effects
              => /\ log'[q].message = m /\ log'[q].content = c
                 /\ <<q, "delete">> \in effects' /\ <<q, "warn">> \in effects'
<1>1. \A q \in Keys : <<q, "delete">> \in effects =>
        log'[q].message = log[q].message /\ log'[q].content = log[q].content
  BY DoneIsLogged DEF Calls
<1>. QED BY <1>1 DEF Proven

LEMMA MemoryStays ==
  ASSUME ModInv, effects \subseteq effects',
         \A k \in Keys : Logged(k) => log'[k].message = log[k].message /\ log'[k].content = log[k].content,
         memory' \subseteq memory, \A w \in memory' : w[1] \notin wrong'
  PROVE  MemoryInv'
<1>1. SUFFICES ASSUME NEW w \in memory'
               PROVE  \E q \in Keys : /\ log'[q].message = w[1] /\ log'[q].content = w[2]
                                      /\ <<q, "delete">> \in effects' /\ <<q, "warn">> \in effects'
  BY DEF MemoryInv
<1>2. PICK q \in Keys : /\ log[q].message = w[1] /\ log[q].content = w[2]
                        /\ <<q, "delete">> \in effects /\ <<q, "warn">> \in effects
  BY DEF ModInv, MemoryInv
<1>3. /\ log'[q].message = w[1] /\ log'[q].content = w[2]
      /\ <<q, "delete">> \in effects' /\ <<q, "warn">> \in effects'
  BY <1>2, ProvenStays
<1>. QED BY <1>3

LEMMA LoggedStep ==
  ASSUME ModInv, NEW u \in Updates, job[u].at # "idle", ~Known(u), NEW d \in Decisions,
         log' = [log EXCEPT ![Key(u)] = LogOf(u, d)],
         UNCHANGED <<row, effects, rate, memory, wrong, sends, answered, unmarked, input>>,
         d.action = "delete" => d.delete,
         d.reason = "repeated_ad" => Proven(input[u].message, input[u].content),
         input[u].kind = "say" => Earned(u, d),
         input[u].kind = "check" => d.action # "allow"
  PROVE  /\ Logged(Key(u))' /\ log'[Key(u)].decision = d
         /\ \A k \in Keys : Logged(k) => Logged(k)' /\ log'[k] = log[k]
         /\ LogInv' /\ RowInv' /\ EffectInv' /\ OneActive' /\ MemoryInv' /\ SavedProven'
         /\ SavedEarned' /\ SendInv'
<1>1. /\ Key(u) \in Keys /\ input[u].message \in Messages /\ input[u].content \in Contents
      /\ input[u].kind \in {"say", "check"}
      /\ input[u].kind = "say" => Key(u) = AutoKey(u)
      /\ input[u].kind = "check" => Key(u) = <<"check", input[u].message>>
  BY KeyTypes DEF ModInv
<1>2. /\ log'[Key(u)].message = input[u].message /\ log'[Key(u)].content = input[u].content
      /\ log'[Key(u)].decision = d /\ \A k \in Keys \ {Key(u)} : log'[k] = log[k]
  BY LogTypes
<1>3. ~Logged(Key(u))
  BY DEF Known
<1>4. Logged(Key(u))'
  <2>1. input[u].message # 0
    BY <1>1, ModerationAssumption
  <2>2. log'[Key(u)] # NoLog
    BY <1>2, <2>1 DEF NoLog
  <2>. QED BY <2>2 DEF Logged, Key
<1>5. \A k \in Keys : Logged(k) => Logged(k)' /\ log'[k] = log[k]
  BY <1>2, <1>3 DEF Logged
<1>6. \A k \in Keys : ~Logged(k) /\ k # Key(u) => ~Logged(k)'
  BY <1>2 DEF Logged
<1>7. LogInv'
  <2>1. LogInv
    BY DEF ModInv
  <2>2. Key(u)[1] = "check" => input[u].kind = "check"
    BY <1>1 DEF AutoKey
  <2>3. \A k \in Keys : Logged(k)' =>
          /\ log'[k].message \in Messages /\ log'[k].content \in Contents
          /\ k[1] = "check" => log'[k].decision.action # "allow"
    BY <1>1, <1>2, <1>5, <1>6, <2>1, <2>2 DEF LogInv
  <2>. QED BY <2>3 DEF LogInv
<1>8. RowInv /\ row[Key(u)].status = "none"
  BY <1>1, <1>3 DEF ModInv, RowInv
<1>9. RowInv'
  <2>1. \A k \in Keys : row[k].status # "none" => Logged(k)' /\ log'[k].decision = row[k].decision
    BY <1>5, <1>8 DEF RowInv
  <2>. QED BY <1>8, <2>1 DEF RowInv
<1>10. EffectInv'
  BY Frames DEF ModInv
<1>11. OneActive'
  <2>1. \A k \in Keys : Active(k) => log'[k] = log[k]
    BY <1>2, <1>8 DEF Active
  <2>. QED BY <2>1 DEF ModInv, OneActive, Active
<1>12. /\ \A m, c : Proven(m, c) => Proven(m, c)'
       /\ \A q \in Keys : \A m, c :
            /\ log[q].message = m /\ log[q].content = c
            /\ <<q, "delete">> \in effects /\ <<q, "warn">> \in effects
            => /\ log'[q].message = m /\ log'[q].content = c
               /\ <<q, "delete">> \in effects' /\ <<q, "warn">> \in effects'
  BY <1>5, ProvenStays
<1>13. MemoryInv'
  BY <1>5, MemoryStays DEF ModInv, MemoryInv
<1>14. SavedProven'
  <2>1. SUFFICES ASSUME NEW k \in Keys, log'[k].decision.reason = "repeated_ad"
                 PROVE  Proven(log[k].message, log[k].content)'
    BY DEF SavedProven
  <2>2. PICK m, c : m = log'[k].message /\ c = log'[k].content
    OBVIOUS
  <2>3. Proven(m, c)
    BY <1>2, <2>1, <2>2 DEF ModInv, SavedProven
  <2>4. Proven(m, c)'
    BY <1>12, <2>3
  <2>. QED BY <2>2, <2>4 DEF Proven
<1>15. SavedEarned'
  <2>1. \A v \in Updates : \A e : Earned(v, e) => Earned(v, e)'
    BY EarnedFrame
  <2>2. \A v \in Updates : AutoKey(v) = Key(u) => v = u /\ input[u].kind = "say"
    BY <1>1 DEF AutoKey
  <2>3. \A v \in Updates : Earned(v, log'[AutoKey(v)].decision)
    BY <1>2, <2>2, KeyTypes DEF ModInv, SavedEarned
  <2>4. \A v \in Updates : Earned(v, log[AutoKey(v)].decision)'
    BY <2>1, <2>3 DEF AutoKey
  <2>5. \A k \in Keys : log'[k].decision.action = "delete" => log'[k].decision.delete
    BY <1>2 DEF ModInv, SavedEarned
  <2>. QED BY <2>4, <2>5 DEF SavedEarned
<1>16. SendInv'
  <2>1. \A v \in Updates : Logged(AutoKey(v)) => Logged(AutoKey(v))' /\ log'[AutoKey(v)] = log[AutoKey(v)]
    BY <1>5, KeyTypes DEF AutoKey
  <2>. QED BY <2>1 DEF ModInv, SendInv, AutoKey
<1>. QED BY <1>2, <1>4, <1>5, <1>7, <1>9, <1>10, <1>11, <1>13, <1>14, <1>15, <1>16

\* Handlers of other updates keep what they know while saved verdicts stay.
LEMMA JobFrame ==
  ASSUME TypeOK, JobInv, UNCHANGED input, NEW u \in Updates,
         \A k \in Keys : Logged(k) => Logged(k)' /\ log'[k] = log[k],
         \A v \in Updates \ {u} : job'[v] = job[v],
         job'[u].at # "idle" => job[u].at # "idle",
         job'[u].at \in {"decided", "judged", "replying"} => input[u].kind = "say",
         job'[u].at \in {"judged", "replying", "punishing"} => Logged(Key(u))',
         job'[u].at = "replying" => log'[Key(u)].decision.action = "allow",
         job'[u].at = "punishing" => log'[Key(u)].decision.action \notin Mild
  PROVE  JobInv'
<1>1. SUFFICES ASSUME NEW v \in Updates
               PROVE  /\ job'[v].at \in {"judged", "replying", "punishing"} => Logged(Key(v))'
                      /\ job'[v].at = "replying" => log'[Key(v)].decision.action = "allow"
                      /\ job'[v].at = "punishing" => log'[Key(v)].decision.action \notin Mild
  BY DEF JobInv, Key, Logged
<1>2. CASE v = u
  BY <1>2
<1>3. CASE v # u
  <2>1. job'[v] = job[v]
    BY <1>3
  <2>2. job[v].at # "idle" => Key(v) \in Keys
    BY KeyTypes
  <2>3. \A k : k = Key(v) /\ Logged(k)' => Logged(Key(v))'
    BY DEF Logged, Key
  <2>. QED BY <2>1, <2>2, <2>3 DEF JobInv
<1>. QED BY <1>2, <1>3

LEMMA SaveStep ==
  ASSUME ModInv, NEW u \in Updates, Saves(u)
  PROVE  ModInv'
<1>1. TypeOK' /\ TypeOK /\ JobInv /\ job[u].at = "decided" /\ input[u].kind = "say"
  BY VerdictTypes DEF ModInv, Saves, JobInv
<1>2. UNCHANGED <<row, effects, holder, memory, wrong, rate, sends, answered, unmarked, input>>
  BY DEF Saves, world, history
<1>3. job'[u].at = "judged" /\ \A v \in Updates \ {u} : job'[v] = job[v]
  <2>1. "judged" \in Stages
    BY DEF Stages
  <2>. QED BY <1>1, <2>1, GoesTypes DEF Saves
<1>4. /\ Logged(Key(u))' /\ \A k \in Keys : Logged(k) => Logged(k)' /\ log'[k] = log[k]
      /\ LogInv' /\ RowInv' /\ EffectInv' /\ OneActive' /\ MemoryInv' /\ SavedProven'
      /\ SavedEarned' /\ SendInv'
  <2>1. CASE Known(u)
    <3>1. UNCHANGED log
      BY <2>1 DEF Saves
    <3>. QED BY <1>2, <2>1, <3>1, Frames DEF ModInv, Known, Logged, Key
  <2>2. CASE ~Known(u)
    <3>1. PICK d \in Decisions : d = job[u].decision
      BY <1>1 DEF TypeOK
    <3>2. log' = [log EXCEPT ![Key(u)] = LogOf(u, d)]
      BY <2>2, <3>1 DEF Saves
    <3>3. /\ d.action = "delete" => d.delete
          /\ d.reason = "repeated_ad" => Proven(input[u].message, input[u].content)
          /\ Earned(u, d)
      BY <1>1, <3>1 DEF ModInv, DecidedEarned, DecidedProven
    <3>. QED BY <1>1, <1>2, <2>2, <3>2, <3>3, LoggedStep
  <2>. QED BY <2>1, <2>2
<1>5. HolderInv'
  BY <1>1, <1>2, <1>3, HolderFrame DEF ModInv
<1>6. JobInv'
  BY <1>1, <1>2, <1>3, <1>4, JobFrame
<1>7. DecidedProven' /\ DecidedEarned'
  <2>1. \A m, c : Proven(m, c) => Proven(m, c)'
    BY <1>2, <1>4, ProvenStays
  <2>2. \A v \in Updates : \A e : Earned(v, e) => Earned(v, e)'
    BY <1>2, EarnedFrame
  <2>3. DecidedProven'
    BY <1>2, <1>3, <2>1 DEF ModInv, DecidedProven
  <2>4. DecidedEarned'
    BY <1>3, <2>2 DEF ModInv, DecidedEarned
  <2>. QED BY <2>3, <2>4
<1>8. RateInv'
  BY <1>2, Frames DEF ModInv
<1>. QED BY <1>1, <1>4, <1>5, <1>6, <1>7, <1>8 DEF ModInv

LEMMA CheckStep ==
  ASSUME ModInv, NEW u \in Updates, Checks(u)
  PROVE  ModInv'
<1>1. TypeOK' /\ TypeOK /\ JobInv /\ job[u].at = "begun" /\ input[u].kind = "check"
  BY VerdictTypes DEF ModInv, Checks
<1>2. UNCHANGED <<row, effects, holder, memory, wrong, rate, sends, answered, unmarked, input>>
  BY DEF Checks, world, history
<1>3. /\ \/ Goes(u, "answering")
         \/ /\ Goes(u, "punishing") /\ Logged(Key(u))'
            /\ log'[Key(u)].decision.action # "shadow_log"
      /\ \A k \in Keys : Logged(k) => Logged(k)' /\ log'[k] = log[k]
      /\ LogInv' /\ RowInv' /\ EffectInv' /\ OneActive' /\ MemoryInv' /\ SavedProven'
      /\ SavedEarned' /\ SendInv'
  <2>1. CASE Goes(u, "answering") /\ UNCHANGED log
    BY <1>2, <2>1, Frames DEF ModInv, Logged
  <2>2. CASE \E d \in {ManualAd, ManualReview} :
               /\ log' = IF Known(u) THEN log ELSE [log EXCEPT ![Key(u)] = LogOf(u, d)]
               /\ Goes(u, IF log'[Key(u)].decision.action = "shadow_log" THEN "answering"
                          ELSE "punishing")
    <3>1. PICK d \in {ManualAd, ManualReview} :
            /\ log' = IF Known(u) THEN log ELSE [log EXCEPT ![Key(u)] = LogOf(u, d)]
            /\ Goes(u, IF log'[Key(u)].decision.action = "shadow_log" THEN "answering"
                       ELSE "punishing")
      BY <2>2
    <3>2. \/ Goes(u, "answering")
          \/ Goes(u, "punishing") /\ log'[Key(u)].decision.action # "shadow_log"
      <4>1. CASE log'[Key(u)].decision.action = "shadow_log"
        BY <3>1, <4>1
      <4>2. CASE log'[Key(u)].decision.action # "shadow_log"
        BY <3>1, <4>2
      <4>. QED BY <4>1, <4>2
    <3>3. CASE Known(u)
      <4>1. UNCHANGED log
        BY <3>1, <3>3
      <4>. QED BY <1>2, <3>2, <3>3, <4>1, Frames DEF ModInv, Known, Logged, Key
    <3>4. CASE ~Known(u)
      <4>1. /\ d \in Decisions /\ d.action \notin {"delete", "allow"} /\ d.reason # "repeated_ad"
        <5>1. d \in Decisions
          BY DecisionTypes
        <5>2. CASE d = ManualAd
          BY <5>1, <5>2 DEF ManualAd, Decision
        <5>3. CASE d = ManualReview
          BY <5>1, <5>3 DEF ManualReview, Decision
        <5>. QED BY <5>2, <5>3
      <4>2. log' = [log EXCEPT ![Key(u)] = LogOf(u, d)]
        BY <3>1, <3>4
      <4>. QED BY <1>1, <1>2, <3>2, <3>4, <4>1, <4>2, LoggedStep
    <3>. QED BY <3>3, <3>4
  <2>. QED BY <2>1, <2>2 DEF Checks
<1>4. \A v \in Updates \ {u} : job'[v] = job[v]
  <2>1. {"answering", "punishing"} \subseteq Stages
    BY DEF Stages
  <2>. QED BY <1>1, <1>3, <2>1, GoesTypes
<1>5. \/ job'[u].at = "answering"
      \/ /\ job'[u].at = "punishing" /\ Logged(Key(u))'
         /\ log'[Key(u)].decision.action \notin Mild
  <2>1. "answering" \in Stages /\ "punishing" \in Stages
    BY DEF Stages
  <2>2. Key(u) = <<"check", input[u].message>> /\ Key(u) \in Keys
    BY <1>1, KeyTypes
  <2>3. Logged(Key(u))' => log'[Key(u)].decision.action # "allow"
    <3>1. \A k \in Keys : k[1] = "check" /\ log'[k] # NoLog => log'[k].decision.action # "allow"
      BY <1>3 DEF LogInv, Logged
    <3>2. Logged(Key(u))' => log'[Key(u)] # NoLog
      BY <1>2 DEF Logged, Key
    <3>3. Key(u)[1] = "check"
      BY <2>2
    <3>. QED BY <2>2, <3>1, <3>2, <3>3
  <2>. QED BY <1>1, <1>3, <2>1, <2>3, GoesTypes DEF Mild
<1>6. HolderInv'
  BY <1>1, <1>2, <1>4, HolderFrame DEF ModInv
<1>7. JobInv'
  BY <1>1, <1>2, <1>3, <1>4, <1>5, JobFrame
<1>8. DecidedProven' /\ DecidedEarned'
  <2>1. \A m, c : Proven(m, c) => Proven(m, c)'
    BY <1>2, <1>3, ProvenStays
  <2>2. \A v \in Updates : \A e : Earned(v, e) => Earned(v, e)'
    BY <1>2, EarnedFrame
  <2>3. DecidedProven'
    BY <1>2, <1>4, <1>5, <2>1 DEF ModInv, DecidedProven
  <2>4. DecidedEarned'
    BY <1>4, <1>5, <2>2 DEF ModInv, DecidedEarned
  <2>. QED BY <2>3, <2>4
<1>9. RateInv'
  BY <1>2, Frames DEF ModInv
<1>. QED BY <1>1, <1>3, <1>6, <1>7, <1>8, <1>9 DEF ModInv

-----------------------------------------------------------------------------
(* Taking a punishment up, continued.                                      *)

NewRow(k) == [NoRow EXCEPT !.status = "pending", !.decision = Revised(k)]

\* A new row: of a saved verdict nothing was done about.
LEMMA NewRowStep ==
  ASSUME ModInv, TypeOK', NEW k \in Keys, NEW by \in Updates, holder = Free, row[k] = NoRow,
         job[by].at = "punishing", Key(by) = k, ~(Once(k) /\ Already(k)),
         row' = [row EXCEPT ![k] = NewRow(k)],
         log' = [log EXCEPT ![k].decision = Revised(k)],
         holder' = [key |-> k, by |-> by, todo |-> {"preflight"}, acted |-> FALSE],
         UNCHANGED <<job, input, effects, memory, wrong, rate, sends, answered, unmarked>>
  PROVE  ModInv'
<1>1. TypeOK /\ Logged(k) /\ log[k].decision.action \notin Mild
  BY DEF ModInv, JobInv
<1>2. PICK d \in Decisions : d = Revised(k)
  BY <1>1, RevisedIs
<1>3. /\ \/ /\ d.action = log[k].decision.action /\ d.reason = log[k].decision.reason
            /\ d.delete = Removes(log[k].decision)
         \/ d = RepeatedAd /\ Once(k) /\ Repeated(log[k].message, log[k].content)
  BY <1>1, <1>2, RevisedIs
<1>4. /\ log'[k].message = log[k].message /\ log'[k].content = log[k].content
      /\ log'[k].decision = d /\ \A q \in Keys \ {k} : log'[q] = log[q]
  <2>1. PICK after : after = [log EXCEPT ![k].decision = d]
    OBVIOUS
  <2>2. /\ after[k].message = log[k].message /\ after[k].content = log[k].content
        /\ after[k].decision = d /\ \A q \in Keys \ {k} : after[q] = log[q]
    BY <1>1, <2>1, RevisedLog
  <2>3. log' = after
    BY <1>2, <2>1
  <2>. QED BY <2>2, <2>3
<1>5. /\ row'[k].status = "pending" /\ row'[k].decision = d /\ ~row'[k].deleted /\ ~row'[k].acted
      /\ \A q \in Keys \ {k} : row'[q] = row[q]
  <2>1. PICK new : new = NewRow(k)
    OBVIOUS
  <2>2. new.status = "pending" /\ new.decision = d /\ ~new.deleted /\ ~new.acted
    BY <1>1, <1>2, <2>1, RowTypes, Zenon DEF NewRow
  <2>3. row' = [row EXCEPT ![k] = new]
    BY <2>1
  <2>. QED BY <1>1, <2>2, <2>3 DEF TypeOK
<1>6. d.action \notin Mild /\ (d.reason = "repeated_ad" => Proven(log[k].message, log[k].content))
  <2>1. CASE d = RepeatedAd /\ Repeated(log[k].message, log[k].content)
    <3>1. Proven(log[k].message, log[k].content)
      BY <2>1, RepeatedProven
    <3>. QED BY <2>1, <3>1 DEF RepeatedAd, Decision, Mild
  <2>2. CASE d.action = log[k].decision.action /\ d.reason = log[k].decision.reason
    BY <1>1, <2>2 DEF ModInv, SavedProven
  <2>. QED BY <1>3, <2>1, <2>2
<1>7. Logged(k)' /\ \A q \in Keys : Logged(q) => Logged(q)'
  <2>1. log[k].message # 0
    BY <1>1, ModerationAssumption DEF ModInv, LogInv
  <2>2. log'[k] # NoLog
    BY <1>4, <2>1 DEF NoLog
  <2>. QED BY <1>4, <2>2 DEF Logged
<1>8. \A q \in Keys \ {k} : Logged(q)' <=> Logged(q)
  BY <1>4 DEF Logged
<1>9. LogInv'
  <2>1. \A q \in Keys : Logged(q)' =>
          /\ log'[q].message \in Messages /\ log'[q].content \in Contents
          /\ q[1] = "check" => log'[q].decision.action # "allow"
    BY <1>1, <1>4, <1>6, <1>8 DEF ModInv, LogInv, Mild
  <2>. QED BY <2>1 DEF LogInv
<1>10. RowInv'
  <2>1. \A q \in Keys \ {k} : row[q].status # "none" => Logged(q)' /\ log'[q].decision = row[q].decision
    BY <1>4, <1>8 DEF ModInv, RowInv
  <2>2. RowInv
    BY DEF ModInv
  <2>3. SUFFICES ASSUME NEW q \in Keys
                 PROVE  /\ row'[q].status = "none" => row'[q] = NoRow
                        /\ row'[q].status # "none" =>
                             /\ Logged(q)' /\ log'[q].decision = row'[q].decision
                             /\ row'[q].decision.action \notin Mild
                        /\ row'[q].deleted => <<q, "delete">> \in effects'
                        /\ row'[q].acted =>
                             IF row'[q].decision.action = "delete" THEN row'[q].deleted
                             ELSE <<q, row'[q].decision.action>> \in effects'
                        /\ row'[q].status = "done" => row'[q].acted
                        /\ row'[q].deleted => row'[q].status # "failed"
    BY DEF RowInv
  <2>4. CASE q = k
    BY <1>4, <1>5, <1>6, <1>7, <2>4
  <2>5. CASE q # k
    BY <1>5, <2>1, <2>2, <2>5 DEF RowInv
  <2>. QED BY <2>4, <2>5
<1>11. EffectInv'
  <2>1. ~Did(k, Calls) /\ EffectInv
    BY DEF ModInv, EffectInv, NoRow
  <2>2. ~Did(k, {"warn", "mute"})
    BY <2>1 DEF Did, Calls
  <2>3. \A q \in Keys : \A calls : Did(q, calls)' <=> Did(q, calls)
    BY DEF Did
  <2>. QED BY <1>5, <2>1, <2>2, <2>3 DEF EffectInv
<1>12. HolderInv'
  BY <1>5 DEF HolderInv, Mine
<1>13. OneActive'
  <2>1. d.delete /\ d.action \in {"warn", "mute"} => Once(k)
    <3>1. CASE d = RepeatedAd /\ Once(k)
      BY <3>1
    <3>2. CASE d.action = log[k].decision.action /\ d.delete = Removes(log[k].decision)
      BY <3>2 DEF Once
    <3>. QED BY <1>3, <3>1, <3>2
  <2>2. ASSUME d.delete, d.action \in {"warn", "mute"}, NEW q \in Keys \ {k},
               log[q].message = log[k].message, Active(q), row[q].decision.delete
        PROVE  FALSE
    BY <2>1, <2>2 DEF Already, Active
  <2>3. \A q \in Keys \ {k} : Active(q)' <=> Active(q)
    BY <1>5 DEF Active
  <2>. QED BY <1>4, <1>5, <2>2, <2>3 DEF ModInv, OneActive
<1>14. /\ \A m, c : Proven(m, c) => Proven(m, c)'
       /\ \A q \in Keys : \A m, c :
            /\ log[q].message = m /\ log[q].content = c
            /\ <<q, "delete">> \in effects /\ <<q, "warn">> \in effects
            => /\ log'[q].message = m /\ log'[q].content = c
               /\ <<q, "delete">> \in effects' /\ <<q, "warn">> \in effects'
  BY <1>4, ProvenStays
<1>15. MemoryInv'
  BY <1>4, MemoryStays DEF ModInv, MemoryInv
<1>16. SavedProven'
  <2>1. SUFFICES ASSUME NEW q \in Keys, log'[q].decision.reason = "repeated_ad"
                 PROVE  Proven(log[q].message, log[q].content)'
    BY DEF SavedProven
  <2>2. PICK m, c : m = log'[q].message /\ c = log'[q].content
    OBVIOUS
  <2>3. Proven(m, c)
    <3>1. CASE q = k
      BY <1>4, <1>6, <2>1, <2>2, <3>1
    <3>2. CASE q # k
      BY <1>4, <2>1, <2>2, <3>2 DEF ModInv, SavedProven
    <3>. QED BY <3>1, <3>2
  <2>4. Proven(m, c)'
    BY <1>14, <2>3
  <2>. QED BY <2>2, <2>4 DEF Proven
<1>17. SavedEarned'
  <2>1. \A v \in Updates : \A e : Earned(v, e) => Earned(v, e)'
    BY EarnedFrame
  <2>2. \A v \in Updates : Earned(v, log'[AutoKey(v)].decision)
    <3>1. TAKE v \in Updates
    <3>2. CASE AutoKey(v) # k
      BY <1>4, <3>2, KeyTypes DEF ModInv, SavedEarned
    <3>3. CASE AutoKey(v) = k
      <4>1. Earned(v, log[k].decision)
        BY <3>3 DEF ModInv, SavedEarned
      <4>2. Earned(v, d)
        <5>1. CASE d = RepeatedAd
          BY <5>1, ModerationAssumption DEF Earned, RepeatedAd, Decision
        <5>2. CASE d.action = log[k].decision.action /\ d.reason = log[k].decision.reason
          BY <4>1, <5>2 DEF Earned
        <5>. QED BY <1>3, <5>1, <5>2
      <4>. QED BY <1>4, <3>3, <4>2
    <3>. QED BY <3>2, <3>3
  <2>3. \A v \in Updates : Earned(v, log[AutoKey(v)].decision)'
    BY <2>1, <2>2 DEF AutoKey
  <2>4. d.action = "delete" => d.delete
    <3>1. log[k].decision \in Decisions /\ (log[k].decision.action = "delete" => log[k].decision.delete)
      BY <1>1 DEF ModInv, SavedEarned, TypeOK
    <3>2. CASE d = RepeatedAd
      BY <3>2 DEF RepeatedAd, Decision
    <3>3. CASE d.action = log[k].decision.action /\ d.delete = Removes(log[k].decision)
      BY <3>1, <3>3 DEF Removes
    <3>. QED BY <1>3, <3>2, <3>3
  <2>5. \A q \in Keys : log'[q].decision.action = "delete" => log'[q].decision.delete
    BY <1>4, <2>4 DEF ModInv, SavedEarned
  <2>. QED BY <2>3, <2>5 DEF SavedEarned
<1>18. SendInv'
  <2>1. \A v \in Updates : sends[v] > 0 =>
          Logged(AutoKey(v))' /\ log'[AutoKey(v)] = log[AutoKey(v)]
    BY <1>1, <1>4, <1>7, KeyTypes DEF ModInv, SendInv, Mild
  <2>. QED BY <2>1 DEF ModInv, SendInv, AutoKey
<1>19. JobInv'
  <2>1. SUFFICES ASSUME NEW v \in Updates
                 PROVE  /\ job[v].at \in {"judged", "replying", "punishing"} => Logged(Key(v))'
                        /\ job[v].at = "replying" => log'[Key(v)].decision.action = "allow"
                        /\ job[v].at = "punishing" => log'[Key(v)].decision.action \notin Mild
    BY DEF ModInv, JobInv, Key, Logged
  <2>2. job[v].at # "idle" => Key(v) \in Keys
    BY KeyTypes DEF ModInv
  <2>3. Key(v)' = Key(v)
    BY DEF Key
  <2>4. \A q : Key(v)' = q /\ log'[q] # NoLog => Logged(Key(v))'
    BY DEF Logged
  <2>5. \A q \in Keys : Logged(q) => log'[q] # NoLog
    BY <1>7 DEF Logged
  <2>6. JobInv
    BY DEF ModInv
  <2>7. CASE Key(v) = k
    BY <1>1, <1>4, <1>6, <2>2, <2>3, <2>4, <2>5, <2>6, <2>7 DEF JobInv, Mild
  <2>8. CASE Key(v) # k
    BY <1>4, <2>2, <2>3, <2>4, <2>5, <2>6, <2>8 DEF JobInv
  <2>. QED BY <2>7, <2>8
<1>20. DecidedProven' /\ DecidedEarned' /\ RateInv'
  <2>1. \A v \in Updates : \A e : Earned(v, e) => Earned(v, e)'
    BY EarnedFrame
  <2>2. DecidedProven'
    BY <1>14 DEF ModInv, DecidedProven
  <2>3. DecidedEarned'
    BY <2>1 DEF ModInv, DecidedEarned
  <2>. QED BY <2>2, <2>3, Frames DEF ModInv
<1>. QED BY <1>9, <1>10, <1>11, <1>12, <1>13, <1>15, <1>16, <1>17, <1>18, <1>19, <1>20 DEF ModInv

\* Steps of a punishment leave handlers of other updates alone.
LEMMA ReturnFrame ==
  ASSUME ModInv, UNCHANGED <<input, log, rate>>, effects \subseteq effects',
         NEW by \in Updates \cup {0}, by # 0 => job[by].at = "punishing",
         UNCHANGED job \/ (by \in Updates /\ (Goes(by, "answering") \/ Goes(by, "failed")))
  PROVE  JobInv' /\ DecidedProven' /\ DecidedEarned' /\ SavedProven' /\ SavedEarned'
<1>1. TypeOK /\ JobInv
  BY DEF ModInv
<1>2. \A v \in Updates :
        job'[v] = job[v] \/ (job'[v].at \in {"answering", "failed"} /\ job[v].at = "punishing")
  <2>1. CASE UNCHANGED job
    BY <2>1
  <2>2. CASE by \in Updates /\ (Goes(by, "answering") \/ Goes(by, "failed"))
    <3>1. "answering" \in Stages /\ "failed" \in Stages /\ by # 0
      BY <2>2, ModerationAssumption DEF Stages
    <3>. QED BY <1>1, <2>2, <3>1, GoesTypes
  <2>. QED BY <2>1, <2>2
<1>3. JobInv'
  <2>1. \A v \in Updates : job'[v].at \in {"judged", "replying", "punishing", "decided"} => job'[v] = job[v]
    BY <1>2
  <2>. QED BY <1>1, <1>2, <2>1 DEF JobInv, Key, Logged
<1>4. \A m, c : Proven(m, c) => Proven(m, c)'
  BY ProvenStays
<1>5. \A v \in Updates : \A e : Earned(v, e) => Earned(v, e)'
  <2>1. CountedSoFar' = CountedSoFar /\ CountedSoFar \in Nat
    BY CountTypes DEF CountedSoFar
  <2>. QED BY <1>1, <2>1, StaysEarned
<1>6. DecidedProven'
  BY <1>2, <1>4 DEF ModInv, DecidedProven
<1>7. DecidedEarned'
  BY <1>2, <1>5 DEF ModInv, DecidedEarned
<1>8. SavedProven'
  BY <1>4 DEF ModInv, SavedProven
<1>9. SavedEarned'
  BY <1>5 DEF ModInv, SavedEarned, AutoKey
<1>. QED BY <1>3, <1>6, <1>7, <1>8, <1>9

LEMMA TakeStep ==
  ASSUME ModInv, NEW k \in Keys, NEW by \in Updates \cup {0}, Takes(k, by)
  PROVE  ModInv'
<1>1. TypeOK'
  BY TakesTypes
<1>2. UNCHANGED <<input, effects, memory, wrong, rate, sends, answered, unmarked>>
  BY DEF Takes, world, history
<1>3. by # 0 => job[by].at = "punishing"
  BY DEF Takes, Caller
<1>4. holder = Free
  BY TakesIs
<1>5. CASE /\ UNCHANGED <<log, row, holder>>
           /\ UNCHANGED job \/ (by \in Updates /\ (Goes(by, "answering") \/ Goes(by, "failed")))
  <2>1. JobInv' /\ DecidedProven' /\ DecidedEarned' /\ SavedProven' /\ SavedEarned'
    BY <1>2, <1>3, <1>5, ReturnFrame
  <2>2. /\ LogInv' /\ RowInv' /\ EffectInv' /\ OneActive' /\ MemoryInv'
        /\ RateInv' /\ SendInv'
    BY <1>2, <1>5, Frames DEF ModInv
  <2>3. HolderInv'
    BY <1>4, <1>5 DEF HolderInv, Free
  <2>. QED BY <1>1, <2>1, <2>2, <2>3 DEF ModInv
<1>6. CASE /\ row[k].status = "pending" /\ UNCHANGED <<log, row, job>>
           /\ \E b \in BOOLEAN :
                /\ row[k].deleted => b
                /\ holder' = [key |-> k, by |-> by, todo |-> {"preflight"}, acted |-> b]
  <2>1. JobInv' /\ DecidedProven' /\ DecidedEarned' /\ SavedProven' /\ SavedEarned'
    BY <1>2, <1>3, <1>6, ReturnFrame
  <2>2. /\ LogInv' /\ RowInv' /\ EffectInv' /\ OneActive' /\ MemoryInv'
        /\ RateInv' /\ SendInv'
    BY <1>2, <1>6, Frames DEF ModInv
  <2>3. HolderInv'
    <3>1. PICK b \in BOOLEAN :
                /\ row[k].deleted => b
                /\ holder' = [key |-> k, by |-> by, todo |-> {"preflight"}, acted |-> b]
      BY <1>6
    <3>. QED BY <1>3, <1>6, <3>1 DEF HolderInv, Mine
  <2>. QED BY <1>1, <2>1, <2>2, <2>3 DEF ModInv
<1>7. CASE /\ row[k] = NoRow /\ by \in Updates /\ job[by].at = "punishing" /\ Key(by) = k
           /\ ~(Once(k) /\ Already(k)) /\ UNCHANGED job
           /\ row' = [row EXCEPT ![k] = NewRow(k)]
           /\ log' = [log EXCEPT ![k].decision = Revised(k)]
           /\ holder' = [key |-> k, by |-> by, todo |-> {"preflight"}, acted |-> FALSE]
  BY <1>1, <1>2, <1>4, <1>7, NewRowStep, Zenon
<1>. QED BY <1>5, <1>6, <1>7, TakesIs, Zenon DEF NewRow

-----------------------------------------------------------------------------
(* Carrying a punishment out.                                              *)

LEMMA InTurn ==
  ASSUME NEW step \in {"preflight", "delete", "act", "clean", "remember", "notice", "done"},
         At(step)
  PROVE  /\ step # "preflight" => "preflight" \notin holder.todo
         /\ step \notin {"preflight", "delete"} => "delete" \notin holder.todo
         /\ step \notin {"preflight", "delete", "act"} => "act" \notin holder.todo
         /\ step = "delete" => ~At("act") /\ ~At("clean")
         /\ step = "act" => ~At("delete") /\ ~At("clean")
         /\ step = "clean" => ~At("delete") /\ ~At("act")
<1>1. /\ Turn["preflight"] = 0 /\ Turn["delete"] = 1 /\ Turn["act"] = 2 /\ Turn["clean"] = 3
      /\ Turn["remember"] = 4 /\ Turn["notice"] = 5 /\ Turn["done"] = 6
  BY DEF Turn
<1>. QED BY <1>1 DEF At

\* What a step records, and what it did before that.
LEMMA RecordStep ==
  ASSUME ModInv, ~LockFree, NEW p \in Rows, Recorded(p), p.decision = Mine.decision,
         p.status # "none", UNCHANGED log,
         effects' \in {effects, effects \cup ({holder.key} \X Call)},
         Mine.deleted => p.deleted,
         p.deleted => <<holder.key, "delete">> \in effects',
         p.acted => IF p.decision.action = "delete" THEN p.deleted
                    ELSE <<holder.key, p.decision.action>> \in effects',
         p.status = "done" => p.acted,
         p.deleted => p.status # "failed"
  PROVE  RowInv' /\ EffectInv' /\ OneActive' /\ effects \subseteq effects'
<1>1. TypeOK /\ RowInv /\ EffectInv /\ HolderInv /\ OneActive
  BY DEF ModInv
<1>2. PICK k \in Keys : k = holder.key
  BY HolderTypes
<1>3. row[k].status = "pending" /\ row[k] = Mine /\ row[k] \in Rows
  BY <1>2, HolderTypes DEF Mine
<1>4. row'[k] = p /\ \A q \in Keys \ {k} : row'[q] = row[q]
  BY <1>1, <1>2, RowsTyped
<1>5. effects \subseteq effects' /\ \A q \in Keys : \A x : <<q, x>> \in effects' => <<q, x>> \in effects \/ (q = k /\ x \in Call)
  BY <1>2
<1>6. RowInv'
  <2>1. Logged(k) /\ log[k].decision = p.decision /\ p.decision.action \notin Mild
    BY <1>1, <1>3 DEF RowInv
  <2>2. SUFFICES ASSUME NEW q \in Keys
                 PROVE  /\ row'[q].status = "none" => row'[q] = NoRow
                        /\ row'[q].status # "none" =>
                             /\ Logged(q) /\ log[q].decision = row'[q].decision
                             /\ row'[q].decision.action \notin Mild
                        /\ row'[q].deleted => <<q, "delete">> \in effects'
                        /\ row'[q].acted =>
                             IF row'[q].decision.action = "delete" THEN row'[q].deleted
                             ELSE <<q, row'[q].decision.action>> \in effects'
                        /\ row'[q].status = "done" => row'[q].acted
                        /\ row'[q].deleted => row'[q].status # "failed"
    BY DEF RowInv, Logged
  <2>3. CASE q = k
    BY <1>2, <1>4, <2>1, <2>3
  <2>4. CASE q # k
    BY <1>1, <1>4, <1>5, <2>4 DEF RowInv
  <2>. QED BY <2>3, <2>4
<1>7. EffectInv'
  <2>1. (Call \cap {"warn", "mute"} # {}) =>
          p.decision.action \in {"warn", "mute"} /\ (p.decision.delete => p.deleted)
    <3>1. SUFFICES ASSUME NEW x \in Call, x \in {"warn", "mute"}
                   PROVE  p.decision.action \in {"warn", "mute"} /\ (p.decision.delete => p.deleted)
      OBVIOUS
    <3>2. At("act") /\ Mine.decision.action = x
      BY <3>1 DEF Call
    <3>3. "preflight" \notin holder.todo /\ "delete" \notin holder.todo
      BY <3>2, InTurn
    <3>4. Mine.decision.delete => Mine.deleted
      BY <1>1, <3>1, <3>2, <3>3 DEF HolderInv, LockFree
    <3>. QED BY <3>1, <3>2, <3>4
  <2>2. SUFFICES ASSUME NEW q \in Keys
                 PROVE  /\ Did(q, Calls)' => row'[q].status # "none"
                        /\ Did(q, {"warn", "mute"})' =>
                             /\ row'[q].decision.action \in {"warn", "mute"}
                             /\ row'[q].decision.delete => row'[q].deleted
    BY DEF EffectInv
  <2>3. CASE q = k
    <3>1. Did(k, {"warn", "mute"})' => Did(k, {"warn", "mute"}) \/ (Call \cap {"warn", "mute"} # {})
      BY <1>5 DEF Did
    <3>2. Did(k, {"warn", "mute"}) =>
            p.decision.action \in {"warn", "mute"} /\ (p.decision.delete => p.deleted)
      BY <1>1, <1>3 DEF EffectInv
    <3>. QED BY <1>4, <2>1, <2>3, <3>1, <3>2
  <2>4. CASE q # k
    <3>1. \A calls : Did(q, calls)' => Did(q, calls)
      BY <1>5, <2>4 DEF Did
    <3>. QED BY <1>1, <1>4, <2>4, <3>1 DEF EffectInv
  <2>. QED BY <2>3, <2>4
<1>8. OneActive'
  <2>1. \A q \in Keys : Active(q)' => Active(q)
    BY <1>3, <1>4 DEF Active
  <2>2. \A q \in Keys : row'[q].decision = row[q].decision
    BY <1>3, <1>4
  <2>. QED BY <1>1, <2>1, <2>2 DEF OneActive
<1>. QED BY <1>5, <1>6, <1>7, <1>8

\* What a row says was done stays true when nothing more is claimed.
LEMMA SameRowStep ==
  ASSUME ModInv, ~LockFree, NEW p \in Rows, Recorded(p), Same(p, Mine), UNCHANGED log,
         p.status \in {"pending", "failed", "skipped", "done"},
         effects' \in {effects, effects \cup ({holder.key} \X Call)},
         p.status = "done" => Mine.acted, p.status = "failed" => ~Mine.deleted
  PROVE  RowInv' /\ EffectInv' /\ OneActive' /\ effects \subseteq effects'
<1>1. PICK k \in Keys : k = holder.key
  BY HolderTypes
<1>2. PICK m : m = Mine
  OBVIOUS
<1>3. /\ m.deleted => <<k, "delete">> \in effects
      /\ m.acted => IF m.decision.action = "delete" THEN m.deleted
                    ELSE <<k, m.decision.action>> \in effects
  BY <1>1, <1>2 DEF ModInv, RowInv, Mine
<1>4. p.decision = m.decision /\ p.deleted = m.deleted /\ p.acted = m.acted
  BY <1>2 DEF Same
<1>5. effects \subseteq effects'
  OBVIOUS
<1>6. /\ p.deleted => <<holder.key, "delete">> \in effects'
      /\ p.acted => IF p.decision.action = "delete" THEN p.deleted
                    ELSE <<holder.key, p.decision.action>> \in effects'
      /\ p.status = "done" => p.acted
      /\ p.deleted => p.status # "failed"
      /\ Mine.deleted => p.deleted
  <2>1. p.deleted => <<holder.key, "delete">> \in effects'
    BY <1>1, <1>3, <1>4, <1>5
  <2>2. p.acted => IF p.decision.action = "delete" THEN p.deleted
                   ELSE <<holder.key, p.decision.action>> \in effects'
    BY <1>1, <1>3, <1>4, <1>5
  <2>3. p.status = "done" => p.acted
    BY <1>2, <1>4
  <2>4. p.deleted => p.status # "failed"
    BY <1>2, <1>4
  <2>5. Mine.deleted => p.deleted
    BY <1>2, <1>4
  <2>. QED BY <2>1, <2>2, <2>3, <2>4, <2>5
<1>. QED BY <1>2, <1>4, <1>6, RecordStep

LEMMA ReleaseStep ==
  ASSUME ModInv, TypeOK', ~LockFree, holder' = Free, NEW p \in Rows, Recorded(p), Same(p, Mine),
         p.status \in {"pending", "failed", "skipped", "done"},
         effects' \in {effects, effects \cup ({holder.key} \X Call)},
         p.status = "done" => Mine.acted, p.status = "failed" => ~Mine.deleted,
         UNCHANGED <<log, input, memory, wrong, rate, sends, answered, unmarked>>,
         UNCHANGED job \/ (holder.by \in Updates /\ (Goes(holder.by, "answering") \/ Goes(holder.by, "failed")))
  PROVE  ModInv'
<1>1. RowInv' /\ EffectInv' /\ OneActive' /\ effects \subseteq effects'
  BY SameRowStep
<1>2. holder.by \in Updates \cup {0} /\ (holder.by # 0 => job[holder.by].at = "punishing")
  BY HolderTypes DEF ModInv, HolderInv, LockFree
<1>3. JobInv' /\ DecidedProven' /\ DecidedEarned' /\ SavedProven' /\ SavedEarned'
  BY <1>1, <1>2, ReturnFrame
<1>4. MemoryInv'
  BY <1>1, MemoryStays DEF ModInv, MemoryInv
<1>5. LogInv' /\ RateInv' /\ SendInv'
  BY Frames DEF ModInv
<1>6. HolderInv'
  BY DEF HolderInv
<1>. QED BY <1>1, <1>3, <1>4, <1>5, <1>6 DEF ModInv

LEMMA ReleasesStep ==
  ASSUME ModInv, (Preflights /\ Protected) \/ Finishes \/ Breaks
  PROVE  ModInv'
<1>1. TypeOK'
  BY CarryingTypes DEF Carrying
<1>2. ~LockFree
  BY AtHeld DEF Preflights, Finishes, Breaks
<1>3. /\ holder' = Free
      /\ UNCHANGED <<log, input, memory, wrong, rate, sends, answered, unmarked>>
  BY DEF Preflights, Finishes, Breaks, world, history
<1>4. holder.by \in Updates \cup {0}
  BY <1>2, HolderTypes
<1>5. CASE Preflights /\ Protected
  <2>1. UNCHANGED effects /\ Returns(holder.by, "answering")
    BY <1>5 DEF Preflights, history
  <2>2. PICK p \in Rows : Recorded(p) /\ Same(p, Mine) /\ p.status = "skipped"
    BY <1>2, <1>5, FinalRow DEF Preflights
  <2>3. UNCHANGED job \/ (holder.by \in Updates /\ (Goes(holder.by, "answering") \/ Goes(holder.by, "failed")))
    BY <1>4, <2>1 DEF Returns
  <2>. QED BY <1>1, <1>2, <1>3, <2>1, <2>2, <2>3, ReleaseStep
<1>6. CASE Finishes
  <2>1. UNCHANGED effects /\ Returns(holder.by, "answering") /\ At("done")
    BY <1>6 DEF Finishes, history
  <2>2. PICK p \in Rows : Recorded(p) /\ Same(p, Mine) /\ p.status = "done"
    BY <1>2, <1>6, FinalRow DEF Finishes
  <2>3. Mine.acted
    <3>1. "preflight" \notin holder.todo /\ "act" \notin holder.todo
      BY <2>1, InTurn
    <3>. QED BY <1>2, <3>1 DEF ModInv, HolderInv, LockFree
  <2>4. UNCHANGED job \/ (holder.by \in Updates /\ (Goes(holder.by, "answering") \/ Goes(holder.by, "failed")))
    BY <1>4, <2>1 DEF Returns
  <2>. QED BY <1>1, <1>2, <1>3, <2>1, <2>2, <2>3, <2>4, ReleaseStep
<1>7. CASE Breaks
  <2>1. PICK p \in Rows :
              /\ Recorded(p) /\ Same(p, Mine)
              /\ p.status = "pending" \/ (p.status = "failed" /\ ~holder.acted)
    BY <1>7, BreaksIs, Zenon
  <2>2. Mine.deleted => holder.acted
    BY <1>2 DEF ModInv, HolderInv, LockFree
  <2>3. /\ effects' \in {effects, effects \cup ({holder.key} \X Call)}
        /\ UNCHANGED job \/ (holder.by \in Updates /\ (Goes(holder.by, "answering") \/ Goes(holder.by, "failed")))
    BY <1>7, BreaksIs, Zenon
  <2>4. p.status \in {"pending", "failed"} /\ (p.status = "failed" => ~Mine.deleted)
    BY <2>1, <2>2
  <2>. QED BY <1>1, <1>2, <1>3, <2>1, <2>3, <2>4, ReleaseStep
<1>. QED BY <1>5, <1>6, <1>7

\* What a plan holds.
LEMMA PlanIs ==
  ASSUME NEW p \in Rows
  PROVE  /\ "preflight" \notin Plan(p) /\ "done" \in Plan(p)
         /\ "remember" \in Plan(p) => p.decision.action = "warn"
         /\ "act" \notin Plan(p) => p.acted
         /\ p.decision.delete /\ p.decision.action # "ban" /\ "delete" \notin Plan(p) => p.deleted
<1>. DEFINE d == p.decision
            removal == d.delete /\ ~p.deleted
            stage == IF d.action = "ban" THEN "clean" ELSE "delete"
<1>1. \A x : x \in Plan(p) <=>
        \/ removal /\ x = stage
        \/ ~p.acted /\ x = "act"
        \/ d.action = "warn" /\ d.delete /\ x = "remember"
        \/ d.reason \in {"repeated_ad", "local_ad_review"} /\ x = "notice"
        \/ x = "done"
  BY Zenon DEF Plan, Step
<1>2. removal => stage \in Plan(p)
  BY <1>1, Zenon
<1>. QED BY <1>1, <1>2

LEMMA PlanStep ==
  ASSUME ModInv, Preflights, ~Protected
  PROVE  ModInv'
<1>1. TypeOK' /\ ~LockFree
  BY CarryingTypes, AtHeld DEF Carrying, Preflights
<1>2. /\ holder' = [holder EXCEPT !.todo = Plan(Mine)]
      /\ UNCHANGED <<log, row, job, input, effects, memory, wrong, rate, sends, answered, unmarked>>
  <2>1. holder' = [holder EXCEPT !.todo = Plan(Mine)] /\ UNCHANGED <<row, job>>
    BY Zenon DEF Preflights
  <2>. QED BY <2>1 DEF Preflights, world, history
<1>3. PICK m \in Rows : m = Mine
  BY <1>1, HolderTypes
<1>4. PICK plan : plan = Plan(m)
  OBVIOUS
<1>5. /\ "preflight" \notin plan /\ "done" \in plan
      /\ "remember" \in plan => m.decision.action = "warn"
      /\ "act" \notin plan => m.acted
      /\ m.decision.delete /\ m.decision.action # "ban" /\ "delete" \notin plan => m.deleted
  BY <1>4, PlanIs
<1>6. /\ holder'.key = holder.key /\ holder'.by = holder.by /\ holder'.acted = holder.acted
      /\ holder'.todo = plan
  BY <1>1, <1>2, <1>3, <1>4, HolderTypes
<1>7. HolderInv'
  <2>1. Mine' = m
    BY <1>2, <1>3, <1>6 DEF Mine
  <2>2. /\ holder.key \in Keys /\ m.status = "pending"
        /\ holder.by # 0 => job[holder.by].at = "punishing"
        /\ m.deleted => holder.acted
    BY <1>1, <1>3 DEF ModInv, HolderInv, LockFree
  <2>. QED BY <1>2, <1>5, <1>6, <2>1, <2>2 DEF HolderInv
<1>8. /\ LogInv' /\ RowInv' /\ EffectInv' /\ OneActive' /\ MemoryInv' /\ SavedProven' /\ SavedEarned'
      /\ RateInv' /\ SendInv'
  BY <1>2, Frames DEF ModInv
<1>9. JobInv' /\ DecidedProven' /\ DecidedEarned'
  <2>1. holder.by \in Updates \cup {0} /\ (holder.by # 0 => job[holder.by].at = "punishing")
    BY <1>1, HolderTypes DEF ModInv, HolderInv, LockFree
  <2>. QED BY <1>2, <2>1, ReturnFrame
<1>. QED BY <1>1, <1>7, <1>8, <1>9 DEF ModInv

\* The row is recorded, and the step is over.
LEMMA ActStep ==
  ASSUME ModInv, Acts
  PROVE  ModInv'
<1>1. TypeOK' /\ ~LockFree
  BY CarryingTypes, ActsIs DEF Carrying
<1>2. UNCHANGED <<log, job, input, memory, wrong, rate, sends, answered, unmarked>>
  BY DEF Acts, world
<1>3. effects' = effects \cup ({holder.key} \X Call)
  BY ActsIs
<1>4. PICK step \in {"delete", "clean", "act"}, p \in Rows :
              /\ At(step) /\ Recorded(p) /\ p.decision = Mine.decision /\ p.status = "pending"
              /\ holder' = [holder EXCEPT !.todo = @ \ {step}, !.acted = TRUE]
              /\ p.deleted = (Mine.deleted \/ step # "act")
              /\ p.acted = (Mine.acted \/ step = "act")
  BY ActsIs
<1>5. PICK m \in Rows : m = Mine
  BY <1>1, HolderTypes
<1>6. PICK k \in Keys : k = holder.key
  BY <1>1, HolderTypes
<1>7. "preflight" \notin holder.todo /\ HolderInv /\ holder # Free
  BY <1>1, <1>4, InTurn DEF ModInv, LockFree
<1>8. /\ p.deleted <=> m.deleted \/ step # "act"
      /\ p.acted <=> m.acted \/ step = "act"
  BY <1>4, <1>5, Zenon
<1>9. /\ m.deleted => <<k, "delete">> \in effects
      /\ m.acted => IF m.decision.action = "delete" THEN m.deleted
                    ELSE <<k, m.decision.action>> \in effects
      /\ m.decision.action = "delete" => m.decision.delete
  <2>1. row[k] = m /\ row[k].status # "none"
    BY <1>1, <1>5, <1>6, HolderTypes DEF Mine
  <2>. QED BY <2>1 DEF ModInv, RowInv, SavedEarned
<1>10. step # "act" => "delete" \in Call
  BY <1>4 DEF Call
<1>11. step = "act" => /\ m.decision.action # "delete" => m.decision.action \in Call
                       /\ m.decision.action = "delete" => m.deleted
  <2>1. SUFFICES ASSUME step = "act"
                 PROVE  /\ m.decision.action # "delete" => m.decision.action \in Call
                        /\ m.decision.action = "delete" => m.deleted
    OBVIOUS
  <2>2. ~At("delete") /\ ~At("clean") /\ At("act") /\ "delete" \notin holder.todo
    BY <1>4, <2>1, InTurn
  <2>3. m.decision.action # "delete" => m.decision.action \in Call
    BY <1>5, <2>2 DEF Call
  <2>4. m.decision.action = "delete" => m.deleted
    BY <1>5, <1>7, <1>9, <2>2 DEF HolderInv
  <2>. QED BY <2>3, <2>4
<1>12. RowInv' /\ EffectInv' /\ OneActive' /\ effects \subseteq effects'
  <2>1. p.deleted => <<holder.key, "delete">> \in effects'
    BY <1>3, <1>6, <1>8, <1>9, <1>10
  <2>2. p.acted => IF p.decision.action = "delete" THEN p.deleted
                   ELSE <<holder.key, p.decision.action>> \in effects'
    BY <1>3, <1>4, <1>5, <1>6, <1>8, <1>9, <1>11
  <2>3. Mine.deleted => p.deleted
    BY <1>5, <1>8
  <2>. QED BY <1>1, <1>2, <1>3, <1>4, <2>1, <2>2, <2>3, RecordStep
<1>13. HolderInv'
  <2>1. /\ holder'.key = k /\ holder'.by = holder.by /\ holder'.acted = TRUE
        /\ holder'.todo = holder.todo \ {step}
    BY <1>1, <1>4, <1>6, HolderTypes
  <2>2. row'[k] = p
    BY <1>4, <1>6, RowsTyped DEF ModInv
  <2>3. Mine' = p
    BY <2>1, <2>2 DEF Mine
  <2>. QED BY <1>2, <1>4, <1>5, <1>7, <1>8, <2>1, <2>3 DEF HolderInv
<1>14. holder.by \in Updates \cup {0} /\ (holder.by # 0 => job[holder.by].at = "punishing")
  BY <1>1, HolderTypes DEF ModInv, HolderInv, LockFree
<1>15. JobInv' /\ DecidedProven' /\ DecidedEarned' /\ SavedProven' /\ SavedEarned'
  BY <1>2, <1>12, <1>14, ReturnFrame
<1>16. MemoryInv'
  BY <1>2, <1>12, MemoryStays DEF ModInv, MemoryInv
<1>17. LogInv' /\ RateInv' /\ SendInv'
  BY <1>2, Frames DEF ModInv
<1>. QED BY <1>1, <1>12, <1>13, <1>15, <1>16, <1>17 DEF ModInv

\* A member is remembered for an advert that was deleted and warned about.
LEMMA AfterStep ==
  ASSUME ModInv, Remembers \/ Notifies
  PROVE  ModInv'
<1>1. TypeOK' /\ ~LockFree
  BY CarryingTypes, AtHeld DEF Carrying, Remembers, Notifies
<1>2. UNCHANGED <<log, row, job, input, wrong, effects, rate, sends, answered, unmarked>>
  BY DEF Remembers, Notifies, world, history
<1>3. PICK step \in {"remember", "notice"} :
        /\ At(step) /\ holder' = [holder EXCEPT !.todo = @ \ {step}, !.acted = TRUE]
        /\ step = "notice" => memory' = memory
        /\ step = "remember" =>
             memory' = IF Evidence(Mine) /\ \A w \in memory : w[2] # log[holder.key].content
                       THEN memory \cup {<<log[holder.key].message, log[holder.key].content>>}
                       ELSE memory
  BY DEF Remembers, Notifies, Onwards, world
<1>4. PICK m \in Rows : m = Mine
  BY <1>1, HolderTypes
<1>5. PICK k \in Keys : k = holder.key
  BY <1>1, HolderTypes
<1>6. "preflight" \notin holder.todo /\ HolderInv /\ holder # Free /\ step \in holder.todo
  BY <1>1, <1>3, InTurn, AtHeld DEF ModInv, LockFree
<1>7. HolderInv'
  <2>1. /\ holder'.key = k /\ holder'.by = holder.by /\ holder'.acted = TRUE
        /\ holder'.todo = holder.todo \ {step}
    BY <1>1, <1>3, <1>5, HolderTypes
  <2>2. Mine' = Mine
    BY <1>2, <1>5, <2>1 DEF Mine
  <2>. QED BY <1>2, <1>3, <1>5, <1>6, <2>1, <2>2 DEF HolderInv
<1>8. MemoryInv'
  <2>1. MemoryInv
    BY DEF ModInv
  <2>2. CASE memory' = memory
    BY <1>2, <2>2, Frames DEF ModInv
  <2>3. CASE /\ step = "remember" /\ Evidence(Mine)
             /\ memory' = memory \cup {<<log[holder.key].message, log[holder.key].content>>}
    <3>1. m.decision.action = "warn" /\ m.deleted /\ m.acted /\ log[k].message \notin wrong
      BY <1>4, <1>5, <1>6, <2>3 DEF HolderInv, Evidence
    <3>2. <<k, "delete">> \in effects /\ <<k, "warn">> \in effects
      <4>1. row[k] = m
        BY <1>4, <1>5 DEF Mine
      <4>. QED BY <3>1, <4>1 DEF ModInv, RowInv
    <3>. QED BY <1>2, <1>5, <2>1, <2>3, <3>1, <3>2 DEF MemoryInv
  <2>4. memory' = memory \/ (step = "remember" /\ Evidence(Mine)
           /\ memory' = memory \cup {<<log[holder.key].message, log[holder.key].content>>})
    BY <1>3, Zenon
  <2>. QED BY <2>2, <2>3, <2>4
<1>9. holder.by \in Updates \cup {0} /\ (holder.by # 0 => job[holder.by].at = "punishing")
  BY <1>1, HolderTypes DEF ModInv, HolderInv, LockFree
<1>10. JobInv' /\ DecidedProven' /\ DecidedEarned' /\ SavedProven' /\ SavedEarned'
  BY <1>2, <1>9, ReturnFrame
<1>11. LogInv' /\ RowInv' /\ EffectInv' /\ OneActive' /\ RateInv' /\ SendInv'
  BY <1>2, Frames DEF ModInv
<1>. QED BY <1>1, <1>7, <1>8, <1>10, <1>11 DEF ModInv

LEMMA OtherStep ==
  ASSUME ModInv, Dies \/ Changes \/ \E m \in Messages : Marks(m)
  PROVE  ModInv'
<1>1. TypeOK' /\ TypeOK
  BY OtherTypes DEF ModInv
<1>2. UNCHANGED <<log, row, input, effects, rate, sends, answered, unmarked>>
  BY DEF Dies, Changes, Marks, world, history
<1>3. LogInv' /\ RowInv' /\ EffectInv' /\ OneActive' /\ RateInv' /\ SendInv' /\ SavedProven' /\ SavedEarned'
  BY <1>2, Frames DEF ModInv
<1>4. CASE Dies
  <2>1. \A u \in Updates : job'[u].at = "idle"
    BY <1>4 DEF Dies, NoJob
  <2>2. JobInv'
    BY <1>2, <2>1 DEF ModInv, JobInv
  <2>3. DecidedProven' /\ DecidedEarned'
    BY <2>1 DEF DecidedProven, DecidedEarned
  <2>4. HolderInv'
    BY <1>4 DEF Dies, HolderInv
  <2>5. MemoryInv'
    BY <1>2, <1>4, Frames DEF ModInv, Dies, world
  <2>. QED BY <1>1, <1>3, <2>2, <2>3, <2>4, <2>5 DEF ModInv
<1>5. CASE Changes \/ \E m \in Messages : Marks(m)
  <2>1. UNCHANGED <<job, holder>>
    BY <1>5 DEF Changes, Marks
  <2>2. JobInv' /\ DecidedProven' /\ DecidedEarned'
    BY <1>2, <2>1, ReturnFrame
  <2>3. HolderInv'
    BY <1>2, <2>1 DEF ModInv, HolderInv, Mine
  <2>4. MemoryInv'
    <3>1. CASE Changes
      BY <1>2, <3>1, Frames DEF ModInv, Changes
    <3>2. CASE \E m \in Messages : Marks(m)
      <4>1. PICK m \in Messages : wrong' = wrong \cup {m} /\ memory' = {w \in memory : w[1] # m}
        BY <3>2 DEF Marks
      <4>2. memory' \subseteq memory /\ \A w \in memory' : w[1] \notin wrong'
        BY <4>1 DEF ModInv, MemoryInv
      <4>. QED BY <1>2, <4>2, MemoryStays
    <3>. QED BY <1>5, <3>1, <3>2
  <2>. QED BY <1>1, <1>3, <2>2, <2>3, <2>4 DEF ModInv
<1>. QED BY <1>4, <1>5

-----------------------------------------------------------------------------
(* The invariant is inductive.                                             *)

LEMMA ModInit ==
  ASSUME Init
  PROVE  ModInv
<1>1. Allowed \in Decisions
  BY DecisionTypes
<1>2. NoJob \in Jobs /\ NoRow \in Rows
      /\ NoLog \in [message : Messages \cup {0}, content : Contents \cup {{}}, decision : Decisions]
      /\ Free \in [key : Keys \cup {NoKey}, by : Updates \cup {0}, todo : SUBSET DOMAIN Turn,
                   acted : BOOLEAN]
      /\ NoInput \in Inputs
  BY <1>1, ModerationAssumption
     DEF NoJob, Jobs, Stages, NoRow, Rows, Statuses, NoLog, Free, NoInput, Inputs
<1>3. TypeOK
  BY <1>2, ModerationAssumption DEF Init, TypeOK, Jobs, Rows, D!States
<1>4. JobInv /\ LogInv /\ SendInv
  BY DEF Init, NoJob, NoInput, Logged, JobInv, LogInv, SendInv
<1>5. RowInv /\ EffectInv /\ OneActive
  BY DEF Init, NoRow, RowInv, EffectInv, Did, OneActive, Active
<1>6. HolderInv /\ MemoryInv
  BY DEF Init, HolderInv, MemoryInv
<1>7. \A k \in Keys : log[k].decision.reason = "low_risk" /\ log[k].decision.action = "allow"
  BY DEF Init, NoLog, Allowed, Decision
<1>8. SavedProven /\ DecidedProven /\ DecidedEarned
  BY <1>7 DEF SavedProven, DecidedProven, DecidedEarned, Init, NoJob
<1>9. SavedEarned
  <2>1. 1 \in DOMAIN Policies
    BY ModerationAssumption
  <2>. QED BY <1>7, <2>1, KeyTypes DEF SavedEarned, Earned
<1>10. RateInv
  BY CountTypes DEF RateInv, Init
<1>. QED BY <1>3, <1>4, <1>5, <1>6, <1>8, <1>9, <1>10 DEF ModInv

LEMMA ModNext ==
  ASSUME ModInv, [Next]_vars
  PROVE  ModInv'
<1>1. CASE \E u \in Updates : Handling(u) \/ Fails(u)
  <2>1. PICK u \in Updates : Handling(u) \/ Fails(u)
    BY <1>1
  <2>2. CASE Begins(u) \/ Settles(u) \/ Fails(u) \/ Applies(u) \/ Announces(u) \/ Replies(u)
    BY <2>2, HandlerStep
  <2>3. CASE Decides(u)
    BY <2>3, DecideStep
  <2>4. CASE Saves(u)
    BY <2>4, SaveStep
  <2>5. CASE Checks(u)
    BY <2>5, CheckStep
  <2>6. CASE Takes(Key(u), u)
    <3>1. Key(u) \in Keys
      <4>1. u # 0
        BY ModerationAssumption
      <4>2. job[u].at # "idle"
        BY <2>6, <4>1 DEF Takes, Caller
      <4>. QED BY <4>2, KeyTypes DEF ModInv
    <3>. QED BY <2>6, <3>1, TakeStep
  <2>. QED BY <2>1, <2>2, <2>3, <2>4, <2>5, <2>6 DEF Handling
<1>2. CASE \E k \in Keys : Takes(k, 0)
  BY <1>2, TakeStep
<1>3. CASE Carrying \/ Breaks
  <2>1. CASE Preflights /\ ~Protected
    BY <2>1, PlanStep
  <2>2. CASE (Preflights /\ Protected) \/ Finishes \/ Breaks
    BY <2>2, ReleasesStep
  <2>3. CASE Acts
    BY <2>3, ActStep
  <2>4. CASE Remembers \/ Notifies
    BY <2>4, AfterStep
  <2>. QED BY <1>3, <2>1, <2>2, <2>3, <2>4 DEF Carrying
<1>4. CASE Dies \/ Changes \/ \E m \in Messages : Marks(m)
  BY <1>4, OtherStep
<1>5. CASE UNCHANGED vars
  <2>1. UNCHANGED <<line, handled, input, job, standing, settings, said, rate, log, row, memory,
                    wrong, answered, holder, budget, effects, sends, unmarked>>
    BY <1>5 DEF vars, deliveryVars, world, history
  <2>2. TypeOK'
    BY <2>1 DEF ModInv, TypeOK
  <2>3. JobInv' /\ HolderInv' /\ DecidedProven' /\ DecidedEarned'
    BY <2>1 DEF ModInv, JobInv, Logged, Key, HolderInv, Mine, DecidedProven, Proven,
                DecidedEarned, Earned, CountedSoFar, Felt, Did
  <2>. QED BY <2>1, <2>2, <2>3, Frames DEF ModInv
<1>. QED BY <1>1, <1>2, <1>3, <1>4, <1>5 DEF Next

LEMMA ModInvariant == Spec => []ModInv
BY ModInit, ModNext, PTL DEF Spec

-----------------------------------------------------------------------------
(* What the inbox promises is all that is taken of it.                     *)

\* An update is in hand only when every older one is settled.
Lineup ==
  \A u, v \in Updates : v < u /\ line[u] = "started" => line[v] \notin {"queued", "started"}

\* A step is a step of the inbox, or none of it.
LEMMA LineMoves ==
  ASSUME ModInv, Lineup, [Next]_vars
  PROVE  D!Next \/ UNCHANGED deliveryVars
<1>1. ASSUME NEW u \in Updates, Handling(u) \/ Fails(u)
      PROVE  D!Next \/ UNCHANGED deliveryVars
  <2>1. CASE Begins(u)
    BY <2>1 DEF Begins, D!Next
  <2>2. CASE Settles(u)
    BY <2>2 DEF Settles, D!Next
  <2>3. CASE Applies(u) \/ Replies(u) \/ Announces(u)
    <3>1. D!Handle(u) \/ UNCHANGED deliveryVars
      BY <2>3 DEF Applies, Replies, Announces, Over
    <3>. QED BY <3>1 DEF D!Next
  <2>4. CASE Decides(u) \/ Saves(u) \/ Checks(u) \/ Takes(Key(u), u) \/ Fails(u)
    BY <2>4 DEF Decides, Saves, Checks, Takes, Fails
  <2>. QED BY <1>1, <2>1, <2>2, <2>3, <2>4 DEF Handling
<1>2. CASE (\E k \in Keys : Takes(k, 0)) \/ Carrying \/ Breaks
  BY <1>2, Zenon DEF Takes, Carrying, Preflights, Acts, Remembers, Notifies, Finishes, Breaks
<1>3. CASE Dies
  <2>1. line \in [Updates -> D!States]
    BY DEF ModInv, TypeOK
  <2>2. /\ line' = [u \in Updates |-> IF line[u] = "started" THEN "queued" ELSE line[u]]
        /\ UNCHANGED handled
    BY <1>3 DEF Dies
  <2>3. CASE \E u \in Updates : line[u] = "started"
    <3>1. PICK u \in Updates : line[u] = "started"
      BY <2>3
    <3>2. \A v \in Updates \ {u} : line[v] # "started"
      <4>1. SUFFICES ASSUME NEW v \in Updates \ {u}, line[v] = "started"
                     PROVE  FALSE
        OBVIOUS
      <4>2. u < v \/ v < u
        BY ModerationAssumption
      <4>. QED BY <3>1, <4>1, <4>2 DEF Lineup
    <3>3. line' = [line EXCEPT ![u] = "queued"]
      BY <2>1, <2>2, <3>1, <3>2
    <3>4. D!Postpone(u)
      BY <2>2, <3>1, <3>3 DEF D!Postpone, D!Move
    <3>. QED BY <3>4 DEF D!Next
  <2>4. CASE \A u \in Updates : line[u] # "started"
    BY <2>1, <2>2, <2>4 DEF deliveryVars
  <2>. QED BY <2>3, <2>4
<1>4. CASE Changes \/ \E m \in Messages : Marks(m)
  BY <1>4 DEF Changes, Marks
<1>5. CASE UNCHANGED vars
  BY <1>5 DEF vars
<1>. QED BY <1>1, <1>2, <1>3, <1>4, <1>5 DEF Next

LEMMA LineupHolds == Spec => [](ModInv /\ Lineup)
<1>1. Init => Lineup
  BY DEF Init, Lineup
<1>2. ASSUME ModInv, Lineup, [Next]_vars
      PROVE  Lineup'
  <2>0. line \in [Updates -> D!States]
    BY <1>2 DEF ModInv, TypeOK
  <2>1. CASE UNCHANGED deliveryVars
    BY <1>2, <2>1 DEF Lineup, deliveryVars
  <2>2. ASSUME NEW w \in Updates, D!Start(w)
        PROVE  Lineup'
    <3>1. /\ line[w] = "queued" /\ line' = [line EXCEPT ![w] = "started"]
          /\ \A v \in Updates : v < w => line[v] \notin {"queued", "started"}
      BY <2>2 DEF D!Start, D!Move, D!Older
    <3>2. \A u \in Updates : w < u => line[u] # "started"
      BY <1>2, <3>1 DEF Lineup
    <3>. QED BY <1>2, <2>0, <3>1, <3>2, ModerationAssumption DEF Lineup
  <2>3. ASSUME NEW w \in Updates, D!Postpone(w) \/ D!Complete(w) \/ D!Abandon(w)
        PROVE  Lineup'
    <3>1. PICK to \in {"queued", "done", "dead"} :
            line[w] = "started" /\ line' = [line EXCEPT ![w] = to]
      BY <2>3 DEF D!Postpone, D!Complete, D!Abandon, D!Move
    <3>2. \A u \in Updates : w < u => line[u] # "started"
      BY <1>2, <3>1 DEF Lineup
    <3>. QED BY <1>2, <2>0, <3>1, <3>2, ModerationAssumption DEF Lineup
  <2>4. ASSUME NEW w \in Updates, D!Handle(w)
        PROVE  Lineup'
    BY <1>2, <2>4 DEF D!Handle, Lineup
  <2>5. CASE Dies
    BY <1>2, <2>0, <2>5 DEF Dies, Lineup
  <2>6. ASSUME ~Dies, NEW u \in Updates, Handling(u)
        PROVE  \/ D!Start(u) \/ D!Postpone(u) \/ D!Complete(u) \/ D!Abandon(u) \/ D!Handle(u)
               \/ UNCHANGED deliveryVars
    BY <2>6 DEF Handling, Begins, Settles, Decides, Saves, Applies, Replies, Checks, Announces,
                Over, Takes
  <2>7. ASSUME ~Dies, ~\E u \in Updates : Handling(u)
        PROVE  UNCHANGED deliveryVars
    BY <1>2, <2>7, Zenon
       DEF Next, Fails, Takes, Carrying, Preflights, Acts, Remembers, Notifies, Finishes,
           Breaks, Marks, Changes, vars
  <2>. QED BY <2>1, <2>2, <2>3, <2>4, <2>5, <2>6, <2>7
<1>. QED BY <1>1, <1>2, ModInvariant, PTL DEF Spec

-----------------------------------------------------------------------------
(* Theorems.                                                               *)

\* Every variable keeps its type, for any updates, settings and failures
\* (service/moderation.go, store/ad_warning.go).
THEOREM ModerationTypeCorrect == Spec => []TypeOK
<1>1. ModInv => TypeOK
  BY DEF ModInv
<1>. QED BY <1>1, ModInvariant, PTL

\* An update is answered or punished, never both, and answered twice only when an answer
\* was sent and not marked: the saved decision decides (moderation.go: ModerateResult).
THEOREM ModerationOneVerdict == Spec => []OneVerdict
<1>1. ModInv => OneVerdict
  <2>1. SUFFICES ASSUME ModInv, NEW u \in Updates
                 PROVE  /\ sends[u] > 0 => ~Did(AutoKey(u), Calls)
                        /\ sends[u] > 1 => u \in unmarked
    BY DEF OneVerdict, AutoKey
  <2>2. Did(AutoKey(u), Calls) => log[AutoKey(u)].decision.action # "allow"
    BY <2>1, KeyTypes DEF ModInv, EffectInv, RowInv, Mild
  <2>. QED BY <2>1, <2>2 DEF ModInv, SendInv
<1>. QED BY <1>1, ModInvariant, PTL

\* A message is punished by one row only, of the update, its edits and its checks
\* (moderation.go: MessageAlreadyPunished in punishLocked).
THEOREM ModerationOnePenalty == Spec => []OnePenalty
<1>1. ModInv => OnePenalty
  <2>1. SUFFICES ASSUME ModInv, NEW k \in Keys, NEW q \in Keys, k # q,
                        log[k].message = log[q].message, Penalized(k), Penalized(q)
                 PROVE  FALSE
    BY DEF OnePenalty
  <2>2. ASSUME NEW x \in Keys, Penalized(x)
        PROVE  Active(x) /\ row[x].decision.delete /\ row[x].decision.action \in {"warn", "mute"}
    <3>1. Did(x, {"warn", "mute"}) /\ row[x].decision.delete /\ row[x].status # "skipped"
      BY <2>2 DEF Penalized
    <3>2. row[x].decision.action \in {"warn", "mute"} /\ row[x].deleted
      BY <2>1, <3>1 DEF ModInv, EffectInv
    <3>3. Did(x, Calls)
      BY <3>1 DEF Did, Calls
    <3>4. row[x].status \in {"pending", "done"}
      BY <2>1, <3>1, <3>2, <3>3 DEF ModInv, EffectInv, RowInv, TypeOK, Statuses
    <3>. QED BY <3>1, <3>2, <3>4 DEF Active
  <2>. QED BY <2>1, <2>2 DEF ModInv, OneActive
<1>. QED BY <1>1, ModInvariant, PTL

\* Only an advert that was deleted and warned about in another message, and was not called
\* a misjudgement, is repeated (store/ad_warning.go).
THEOREM ModerationRepeatNeedsWarning == Spec => []RepeatNeedsWarning
<1>1. ModInv => RepeatNeedsWarning
  BY DEF ModInv, SavedProven, Proven, MemoryInv, RepeatNeedsWarning
<1>. QED BY <1>1, ModInvariant, PTL

\* Nobody is held, banned or punished for spam by more punishments or messages than there
\* were (service/moderation_engine.go).
THEOREM ModerationEscalationEarned == Spec => []EscalationEarned
<1>1. ModInv => EscalationEarned
  BY DEF ModInv, SavedEarned, Earned, CountedSoFar, AutoKey, EscalationEarned
<1>. QED BY <1>1, ModInvariant, PTL

\* Handlers take nothing of the inbox that it does not promise, and settle updates only as
\* it allows, the death of the process included: every step is one step of Delivery or
\* none (bot/runner.go: worker), from the state in which all updates are accepted.
THEOREM ModerationKeepsToDelivery == Spec => [][D!Next]_deliveryVars
<1>1. ModInv /\ Lineup /\ [Next]_vars => [D!Next]_deliveryVars
  BY LineMoves
<1>. QED BY <1>1, LineupHolds, PTL DEF Spec
=============================================================================
