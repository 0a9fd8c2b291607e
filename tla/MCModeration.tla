------------------------------- MODULE MCModeration -------------------------------
(* Instances of Moderation for TLC.                                        *)
EXTENDS Moderation

TwoUpdates == 1..2
ThreeUpdates == 1..3
OneMessage == 1..1
TwoMessages == 1..2

\* Two harmless parts that score together, with a rule of the group that is switched off;
\* a preset advert that meets a rule of the group as well; a rule that bans.
Offer == {{"url"}, {"url", "contact", "shouting"}}
JobOffer == {{"ad_jobs", "promo"}}
Worst == {{"worst"}}
TwoContents == {Offer, JobOffer}
AdvertOrWorst == {JobOffer, Worst}

Rule(enabled, score, action) == [enabled |-> enabled, score |-> score, action |-> action]
Policy ==
  [Builtin |-> [url |-> Rule(TRUE, 20, "none"), contact |-> Rule(TRUE, 25, "none"),
                ad_jobs |-> Rule(TRUE, 60, "delete")],
   Rules |-> [contact |-> Rule(TRUE, 60, "none")],
   AdRules |-> [promo |-> Rule(TRUE, 100, "delete"), worst |-> Rule(TRUE, 100, "ban"),
                shouting |-> Rule(FALSE, 100, "ban")],
   ModerationEnabled |-> TRUE, SpamEnabled |-> TRUE,
   NewMemberProtection |-> TRUE, AdminBypass |-> FALSE,
   AutoDelete |-> TRUE, AutoWarn |-> TRUE, AutoMute |-> TRUE, AutoBan |-> TRUE,
   AIThreshold |-> 30, DirectThreshold |-> 85, AIWarnConfidence |-> 60,
   AIDeleteConfidence |-> 80, AIMuteConfidence |-> 95,
   RateLimit |-> 2, MuteAfter |-> 2, BanAfter |-> 3, HoldAfter |-> 2]

\* The same, without warnings and the spam counter, and with moderation off.
OnePolicy == <<Policy>>
ThreePolicies == <<Policy, [Policy EXCEPT !.AutoWarn = FALSE, !.SpamEnabled = FALSE],
                   [Policy EXCEPT !.ModerationEnabled = FALSE]>>

Answers == {NoAI, [ad |-> TRUE, confidence |-> 60, severe |-> FALSE],
            [ad |-> TRUE, confidence |-> 95, severe |-> TRUE]}
NoAnswers == {NoAI}
AnyStanding == {"plain", "admin", "white", "black"}
JustPlain == {"plain"}
=============================================================================
