---------------------------------- MODULE Rules ----------------------------------
(***************************************************************************)
(* What the local rules find in a message and what the policy makes of it   *)
(* (rules/engine.go, rules/local_action.go, domain/builtin_rules.go).  A    *)
(* part of a message -- its text, a quoted text, a button -- is the set of  *)
(* rules whose pattern or condition it meets; how a text is normalised and  *)
(* matched is left out.  Settings are a record named as in the code.        *)
(***************************************************************************)
EXTENDS Integers, FiniteSetsExt

\* rank of strongerAction; "none" ("" in the code) is a rule that only adds to the score.
Rank(action) ==
  CASE action = "delete" -> 1 [] action = "mute" -> 2 [] action = "ban" -> 3 [] OTHER -> 0

Strongest(actions) ==
  CHOOSE a \in actions \cup {"none"} : \A b \in actions : Rank(b) <= Rank(a)

\* EffectiveRule: the group's setting of a built-in rule, or the built-in one.
Effective(s, rule) ==
  IF rule \in DOMAIN s.Rules THEN s.Rules[rule] ELSE s.Builtin[rule]

Newcomer == [new_member |-> 10, first_link |-> 30, first_contact |-> 30]

Points(s, match) ==
  IF match \in DOMAIN Newcomer THEN Newcomer[match]
  ELSE IF match \in DOMAIN s.AdRules THEN 100 ELSE Effective(s, match).score

ActionOf(s, match) ==
  IF match \in DOMAIN Newcomer THEN "none"
  ELSE IF match \in DOMAIN s.AdRules THEN s.AdRules[match].action
  ELSE Effective(s, match).action

Total(s, matches) ==
  LET points(match) == Points(s, match) IN MapThenSumSet(points, matches)

\* evaluatePart: what a new member does weighs more once anything scores at all.
Matches(s, part, isNew, first) ==
  LET builtin == {r \in part \cap DOMAIN s.Builtin : Effective(s, r).enabled}
      own     == {r \in part \cap DOMAIN s.AdRules : s.AdRules[r].enabled}
      weighs  == s.NewMemberProtection /\ Total(s, builtin) > 0
  IN builtin \cup own
     \cup {m \in DOMAIN Newcomer : weighs /\
             CASE m = "new_member"    -> isNew
               [] m = "first_link"    -> first /\ "url" \in part
               [] m = "first_contact" -> first /\ "contact" \in part}

\* Evaluate: each part on its own, each rule counted once.
Evaluate(s, parts, isNew, first) ==
  LET found == UNION {Matches(s, p, isNew, first) : p \in parts}
      local == Strongest({ActionOf(s, m) : m \in found})
  IN [local |-> local, spam |-> FALSE,
      score |-> IF local # "none" \/ Total(s, found) > 100 THEN 100 ELSE Total(s, found)]

-----------------------------------------------------------------------------
(* Decide.                                                                 *)

Decision(action, delete, reason) == [action |-> action, delete |-> delete, reason |-> reason]
Allowed == Decision("allow", FALSE, "low_risk")
Spared == Decision("shadow_log", FALSE, "protected_user")

\* No answer of the model.
NoAI == [ad |-> FALSE, confidence |-> 0, severe |-> FALSE]

\* A rule that says itself what to do.  "delete" warns, and from the fourth time holds
\* the member for an administrator.
ByRule(s, risk, violations) ==
  IF risk.local # "delete" THEN Decision(risk.local, TRUE, "local_ad_rule")
  ELSE IF violations >= s.HoldAfter THEN Decision("mute", TRUE, "local_ad_review")
  ELSE Decision("warn", TRUE, "local_ad_rule")

\* The model is asked about what the rules leave open.
Open(s, risk) == ~risk.spam /\ risk.score < s.DirectThreshold
Advert(s, risk, ai) == Open(s, risk) /\ ai.ad /\ ai.confidence >= s.AIDeleteConfidence
Grave(s, risk, ai) == Advert(s, risk, ai) /\ ai.confidence >= s.AIMuteConfidence /\ ai.severe

Penalty(s, severe, violations) ==
  IF s.AutoBan /\ violations + 1 >= s.BanAfter THEN "ban"
  ELSE IF s.AutoMute /\ (severe \/ violations + 1 >= s.MuteAfter) THEN "mute"
  ELSE IF s.AutoWarn THEN "warn"
  ELSE IF s.AutoDelete THEN "delete" ELSE "shadow_log"

ByScore(s, risk, ai, violations) ==
  IF ~Open(s, risk) \/ Advert(s, risk, ai)
    THEN Decision(Penalty(s, Grave(s, risk, ai), violations), s.AutoDelete,
                  IF risk.spam THEN "spam" ELSE "advertising")
  ELSE IF ai.ad /\ ai.confidence >= s.AIWarnConfidence /\ s.AutoWarn
    THEN Decision("warn", FALSE, "ai")
  ELSE Allowed

Decide(s, risk, ai, violations, protected) ==
  LET d == IF risk.local # "none" THEN ByRule(s, risk, violations)
           ELSE ByScore(s, risk, ai, violations)
  IN IF protected /\ (d.action # "allow" \/ d.delete) THEN Spared ELSE d
=============================================================================
