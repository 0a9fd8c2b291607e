-------------------------------- MODULE RulesProofs --------------------------------
(***************************************************************************)
(* What rules.Decide (rules/engine.go) promises for every group setting,    *)
(* every finding and every answer of the model.                             *)
(***************************************************************************)
EXTENDS Rules, TLAPS

\* How hard an action is on the member.
Severity(action) ==
  CASE action = "delete" -> 1 [] action = "warn" -> 2 [] action = "mute" -> 3
    [] action = "ban" -> 4 [] OTHER -> 0

-----------------------------------------------------------------------------
LEMMA SparedIsSpared == Spared.action = "shadow_log" /\ ~Spared.delete
BY DEF Spared, Decision

\* An administrator or a member of the white list is never punished, and nothing of theirs
\* is deleted, by whatever path the decision was reached.
THEOREM ProtectedAreSpared ==
  ASSUME NEW s, NEW risk, NEW ai, NEW violations
  PROVE  /\ Decide(s, risk, ai, violations, TRUE).action \in {"allow", "shadow_log"}
         /\ ~Decide(s, risk, ai, violations, TRUE).delete
<1>1. PICK d : d = IF risk.local # "none" THEN ByRule(s, risk, violations)
                   ELSE ByScore(s, risk, ai, violations)
  OBVIOUS
<1>2. Decide(s, risk, ai, violations, TRUE)
        = IF d.action # "allow" \/ d.delete THEN Spared ELSE d
  BY <1>1 DEF Decide
<1>3. CASE d.action # "allow" \/ d.delete
  <2>1. Decide(s, risk, ai, violations, TRUE) = Spared
    BY <1>2, <1>3, Zenon
  <2>. QED BY <2>1, SparedIsSpared, Zenon
<1>4. CASE ~(d.action # "allow" \/ d.delete)
  <2>1. Decide(s, risk, ai, violations, TRUE) = d
    BY <1>2, <1>4, Zenon
  <2>2. d.action = "allow" /\ ~d.delete
    BY <1>4, Zenon
  <2>. QED BY <2>1, <2>2, Zenon
<1>. QED BY <1>3, <1>4

-----------------------------------------------------------------------------
LEMMA PenaltyKinds ==
  ASSUME NEW s, NEW severe, NEW violations
  PROVE  /\ Penalty(s, severe, violations) \in {"ban", "mute", "warn", "delete", "shadow_log"}
         /\ ~s.AutoBan => Penalty(s, severe, violations) # "ban"
         /\ ~s.AutoMute => Penalty(s, severe, violations) # "mute"
BY DEF Penalty

LEMMA Below == \A a, b \in Int : a < b => ~(a >= b)
OBVIOUS

\* While the rules leave it open, a suspicion of the model below the deletion threshold
\* costs nobody a message: the member is warned at most.
THEOREM SuspicionDeletesNothing ==
  ASSUME NEW s, NEW risk, NEW ai, NEW violations, NEW protected \in BOOLEAN,
         risk.local = "none", Open(s, risk),
         s.AIDeleteConfidence \in Int, ai.confidence \in Int,
         ai.confidence < s.AIDeleteConfidence
  PROVE  /\ Decide(s, risk, ai, violations, protected).action \in {"allow", "warn", "shadow_log"}
         /\ ~Decide(s, risk, ai, violations, protected).delete
<1>1. ~Advert(s, risk, ai)
  <2>1. ~(ai.confidence >= s.AIDeleteConfidence)
    BY Below
  <2>. QED BY <2>1, Zenon DEF Advert
<1>2. PICK d : d = ByScore(s, risk, ai, violations)
  OBVIOUS
<1>3. d = Decision("warn", FALSE, "ai") \/ d = Allowed
  BY <1>1, <1>2 DEF ByScore
<1>4. d.action \in {"allow", "warn"} /\ ~d.delete
  <2>1. CASE d = Decision("warn", FALSE, "ai")
    BY <2>1 DEF Decision
  <2>2. CASE d = Allowed
    BY <2>2 DEF Decision, Allowed
  <2>. QED BY <1>3, <2>1, <2>2
<1>5. Decide(s, risk, ai, violations, protected)
        = IF protected /\ (d.action # "allow" \/ d.delete) THEN Spared ELSE d
  BY <1>2 DEF Decide
<1>6. CASE protected /\ (d.action # "allow" \/ d.delete)
  <2>1. Decide(s, risk, ai, violations, protected) = Spared
    BY <1>5, <1>6, Zenon
  <2>2. Spared.action \notin {"mute", "ban"}
    BY SparedIsSpared
  <2>. QED BY <2>1, <2>2, SparedIsSpared, Zenon
<1>7. CASE ~(protected /\ (d.action # "allow" \/ d.delete))
  <2>1. Decide(s, risk, ai, violations, protected) = d
    BY <1>5, <1>7, Zenon
  <2>. QED BY <1>4, <2>1, Zenon
<1>. QED BY <1>6, <1>7

\* A group that switched automatic bans and mutes off bans and mutes only by a rule that
\* says so itself.
THEOREM SwitchesHold ==
  ASSUME NEW s, NEW risk, NEW ai, NEW violations, NEW protected \in BOOLEAN,
         risk.local = "none", ~s.AutoBan, ~s.AutoMute
  PROVE  Decide(s, risk, ai, violations, protected).action \notin {"mute", "ban"}
<1>1. PICK d : d = ByScore(s, risk, ai, violations)
  OBVIOUS
<1>2. d.action \notin {"mute", "ban"}
  <2>1. CASE ~Open(s, risk) \/ Advert(s, risk, ai)
    <3>1. PICK p : p = Penalty(s, Grave(s, risk, ai), violations)
      OBVIOUS
    <3>2. p \notin {"mute", "ban"}
      BY <3>1, PenaltyKinds
    <3>3. PICK r : r = IF risk.spam THEN "spam" ELSE "advertising"
      OBVIOUS
    <3>4. d = [action |-> p, delete |-> s.AutoDelete, reason |-> r]
      BY <1>1, <2>1, <3>1, <3>3 DEF ByScore, Decision
    <3>. QED BY <3>2, <3>4
  <2>2. CASE ~(~Open(s, risk) \/ Advert(s, risk, ai))
    BY <1>1, <2>2 DEF ByScore, Decision, Allowed
  <2>. QED BY <2>1, <2>2
<1>3. Decide(s, risk, ai, violations, protected)
        = IF protected /\ (d.action # "allow" \/ d.delete) THEN Spared ELSE d
  BY <1>1 DEF Decide
<1>4. CASE protected /\ (d.action # "allow" \/ d.delete)
  <2>1. Decide(s, risk, ai, violations, protected) = Spared
    BY <1>3, <1>4, Zenon
  <2>2. Spared.action \notin {"mute", "ban"}
    BY SparedIsSpared
  <2>. QED BY <2>1, <2>2, SparedIsSpared, Zenon
<1>5. CASE ~(protected /\ (d.action # "allow" \/ d.delete))
  <2>1. Decide(s, risk, ai, violations, protected) = d
    BY <1>3, <1>5, Zenon
  <2>. QED BY <1>2, <2>1, Zenon
<1>. QED BY <1>4, <1>5

-----------------------------------------------------------------------------
LEMMA PenaltyGrows ==
  ASSUME NEW s, NEW severe, NEW v \in Nat, NEW w \in Nat, v <= w,
         s.MuteAfter \in Int, s.BanAfter \in Int
  PROVE  Severity(Penalty(s, severe, v)) <= Severity(Penalty(s, severe, w))
<1>1. v + 1 >= s.BanAfter => w + 1 >= s.BanAfter
  OBVIOUS
<1>2. v + 1 >= s.MuteAfter => w + 1 >= s.MuteAfter
  OBVIOUS
<1>. QED BY <1>1, <1>2 DEF Penalty, Severity

LEMMA ByRuleGrows ==
  ASSUME NEW s, NEW risk, NEW v \in Nat, NEW w \in Nat, v <= w, s.HoldAfter \in Int
  PROVE  Severity(ByRule(s, risk, v).action) <= Severity(ByRule(s, risk, w).action)
<1>1. v >= s.HoldAfter => w >= s.HoldAfter
  OBVIOUS
<1>2. CASE risk.local # "delete"
  <2>1. ByRule(s, risk, v) = ByRule(s, risk, w)
    BY <1>2 DEF ByRule
  <2>2. Severity(ByRule(s, risk, w).action) \in 0..4
    BY DEF Severity
  <2>. QED BY <2>1, <2>2
<1>3. CASE risk.local = "delete"
  <2>1. ByRule(s, risk, v).action = IF v >= s.HoldAfter THEN "mute" ELSE "warn"
    BY <1>3 DEF ByRule, Decision
  <2>2. ByRule(s, risk, w).action = IF w >= s.HoldAfter THEN "mute" ELSE "warn"
    BY <1>3 DEF ByRule, Decision
  <2>. QED BY <1>1, <2>1, <2>2 DEF Severity
<1>. QED BY <1>2, <1>3

LEMMA ByScoreGrows ==
  ASSUME NEW s, NEW risk, NEW ai, NEW v \in Nat, NEW w \in Nat, v <= w,
         s.MuteAfter \in Int, s.BanAfter \in Int
  PROVE  Severity(ByScore(s, risk, ai, v).action) <= Severity(ByScore(s, risk, ai, w).action)
<1>1. CASE ~Open(s, risk) \/ Advert(s, risk, ai)
  <2>1. /\ ByScore(s, risk, ai, v).action = Penalty(s, Grave(s, risk, ai), v)
        /\ ByScore(s, risk, ai, w).action = Penalty(s, Grave(s, risk, ai), w)
    BY <1>1 DEF ByScore, Decision
  <2>. QED BY <2>1, PenaltyGrows
<1>2. CASE ~(~Open(s, risk) \/ Advert(s, risk, ai))
  <2>1. ByScore(s, risk, ai, v) = ByScore(s, risk, ai, w)
    BY <1>2 DEF ByScore
  <2>2. Severity(ByScore(s, risk, ai, w).action) \in 0..4
    BY DEF Severity
  <2>. QED BY <2>1, <2>2
<1>. QED BY <1>1, <1>2

\* The same finding is never judged more mildly because the member did more before: every
\* threshold on the number of violations only hardens the decision.
THEOREM EscalationNeverSoftens ==
  ASSUME NEW s, NEW risk, NEW ai, NEW v \in Nat, NEW w \in Nat, v <= w,
         s.MuteAfter \in Int, s.BanAfter \in Int, s.HoldAfter \in Int
  PROVE  Severity(Decide(s, risk, ai, v, FALSE).action)
           <= Severity(Decide(s, risk, ai, w, FALSE).action)
<1>1. CASE risk.local # "none"
  <2>1. /\ Decide(s, risk, ai, v, FALSE) = ByRule(s, risk, v)
        /\ Decide(s, risk, ai, w, FALSE) = ByRule(s, risk, w)
    BY <1>1 DEF Decide
  <2>. QED BY <2>1, ByRuleGrows
<1>2. CASE risk.local = "none"
  <2>1. /\ Decide(s, risk, ai, v, FALSE) = ByScore(s, risk, ai, v)
        /\ Decide(s, risk, ai, w, FALSE) = ByScore(s, risk, ai, w)
    BY <1>2 DEF Decide
  <2>. QED BY <2>1, ByScoreGrows
<1>. QED BY <1>1, <1>2
=============================================================================
