-------------------------------- MODULE Moderation --------------------------------
(***************************************************************************)
(* What becomes of a member's messages: judged by the rules, the spam       *)
(* counter, the model and the lists; answered by a keyword or punished;     *)
(* /check by another member; misjudgements marked by administrators         *)
(* (service/moderation.go, moderation_engine.go, ad_repeat.go,              *)
(* store/ad_warning.go).  Updates of the chat arrive as Delivery promises,  *)
(* the recovery sweep carries pending punishments on beside them, and each  *)
(* punishment runs under the member's lock.                                 *)
(*                                                                         *)
(* One member of one approved group.  Durations, verification and manual    *)
(* actions are Punishment's; the lock is not lost while it is held.         *)
(***************************************************************************)
EXTENDS Rules, Naturals, Sequences

CONSTANTS
  Updates,     \* updates of the chat, in the order they arrive
  Messages,    \* messages of the member; an edit keeps its message
  Contents,    \* what a message may say: sets of parts, as Evaluate takes them
  Policies,    \* settings the group may have, the first ones it starts with
  AIs,         \* answers of the model, NoAI when it has none
  Standings,   \* places on lists, or among administrators, the member may have
  Answering,   \* keyword answers are on and match
  MaxAttempts, \* 20: tries of a punishment by the recovery sweep
  MaxFaults,   \* bound: calls that fail or are not recorded, crashes
  MaxMoves     \* bound: changes of standing and settings, marked misjudgements

ASSUME ModerationAssumption ==
  /\ Updates \subseteq Nat \ {0} /\ Messages \subseteq Nat \ {0} /\ IsFiniteSet(Updates)
  /\ "plain" \in Standings /\ Standings \subseteq {"plain", "admin", "white", "black"}
  /\ {MaxAttempts, MaxFaults, MaxMoves} \subseteq Nat /\ 1 \in DOMAIN Policies
  /\ \A n \in DOMAIN Policies : LET s == Policies[n] IN
       /\ {s.AutoDelete, s.AutoWarn, s.AutoMute, s.AutoBan} \subseteq BOOLEAN
       /\ {s.ModerationEnabled, s.SpamEnabled} \subseteq BOOLEAN
       /\ {s.HoldAfter, s.MuteAfter, s.BanAfter, s.RateLimit} \subseteq Nat
       /\ \A rules \in {s.Builtin, s.Rules, s.AdRules} : \A r \in DOMAIN rules :
            rules[r].action \in {"none", "delete", "mute", "ban"}

VARIABLES
  line, handled, \* what Delivery keeps of the updates
  input,     \* input[u]: the message and its content, or the message to check
  job,       \* job[u]: the handler running for u
  standing, settings,
  said,      \* what the member's messages said so far
  rate,      \* rate[u]: the counter of messages as u found it, 0 before that
  log,       \* moderation_logs, by event key
  row,       \* punishments and punishment_workflows, by event key
  memory,    \* ad_warning_memory
  wrong,     \* feedback: messages marked as misjudged
  answered,  \* keyword:sent marks
  holder,    \* who holds the member's lock, and the calls left
  budget,    \* faults and moves so far
  effects,   \* history: what was done at Telegram, by event key
  sends,     \* history: sends[u]: keyword answers sent
  unmarked   \* history: updates whose answer was sent and not marked

deliveryVars == <<line, handled>>
world == <<standing, settings, memory, wrong>>
history == <<effects, sends, unmarked>>
vars == <<deliveryVars, input, job, world, said, rate, log, row, answered, holder,
          budget, history>>

D == INSTANCE Delivery WITH Chat <- [u \in Updates |-> 1], state <- line

Keys == ({"auto"} \X Updates) \cup ({"check"} \X Messages)
NoKey == <<"none", 0>>

NoInput == [kind |-> "none", message |-> 0, content |-> {}]
Inputs == [kind : {"none", "say", "check"}, message : Messages \cup {0},
           content : Contents \cup {{}}]
Key(u) == IF input[u].kind = "say" THEN <<"auto", u>> ELSE <<"check", input[u].message>>

Actions == {"allow", "shadow_log", "delete", "warn", "mute", "ban"}
Decisions == [action : Actions, delete : BOOLEAN,
              reason : {"low_risk", "protected_user", "local_ad_rule", "local_ad_review", "spam",
                        "advertising", "ai", "repeated_ad", "moderation_disabled", "blacklist",
                        "manual_ai_ad", "manual_review"}]
NoLog == [message |-> 0, content |-> {}, decision |-> Allowed]
Logged(k) == log[k] # NoLog
NoRow == [status |-> "none", decision |-> Allowed, deleted |-> FALSE, acted |-> FALSE,
          started |-> FALSE, attempts |-> 0]
Statuses == {"none", "pending", "done", "skipped", "failed"}
Stages == {"idle", "begun", "decided", "judged", "replying", "punishing", "answering",
           "over", "failed"}
NoJob == [at |-> "idle", decision |-> Allowed]
\* What punishLocked does for a row, in order.
Turn == [preflight |-> 0, delete |-> 1, act |-> 2, clean |-> 3, remember |-> 4, notice |-> 5, done |-> 6]
Free == [key |-> NoKey, by |-> 0, todo |-> {}, acted |-> FALSE]
LockFree == holder = Free

TypeOK ==
  /\ line \in [Updates -> D!States] /\ handled \subseteq Updates
  /\ input \in [Updates -> Inputs]
  /\ job \in [Updates -> [at : Stages, decision : Decisions]]
  /\ standing \in Standings /\ settings \in DOMAIN Policies /\ said \subseteq Messages \X Contents
  /\ rate \in [Updates -> Nat]
  /\ log \in [Keys -> [message : Messages \cup {0}, content : Contents \cup {{}},
                      decision : Decisions]]
  /\ row \in [Keys -> [status : Statuses, decision : Decisions, deleted : BOOLEAN,
                      acted : BOOLEAN, started : BOOLEAN, attempts : 0..MaxAttempts]]
  /\ memory \subseteq Messages \X Contents /\ wrong \subseteq Messages
  /\ answered \subseteq Updates
  /\ holder \in [key : Keys \cup {NoKey}, by : Updates \cup {0},
                 todo : SUBSET DOMAIN Turn, acted : BOOLEAN]
  /\ budget \in [faults : 0..MaxFaults, moves : 0..MaxMoves]
  /\ effects \subseteq Keys \X {"delete", "warn", "mute", "ban"}
  /\ sends \in [Updates -> Nat] /\ unmarked \subseteq Updates

Init ==
  /\ line = [u \in Updates |-> "queued"] /\ handled = {}
  /\ input = [u \in Updates |-> NoInput] /\ job = [u \in Updates |-> NoJob]
  /\ standing = "plain" /\ settings = 1 /\ said = {} /\ rate = [u \in Updates |-> 0]
  /\ log = [k \in Keys |-> NoLog] /\ row = [k \in Keys |-> NoRow]
  /\ memory = {} /\ wrong = {} /\ answered = {} /\ holder = Free
  /\ budget = [faults |-> 0, moves |-> 0]
  /\ effects = {} /\ sends = [u \in Updates |-> 0] /\ unmarked = {}

Spends(what, max) == budget[what] < max /\ budget' = [budget EXCEPT ![what] = @ + 1]
Goes(u, at) == job' = [job EXCEPT ![u] = [at |-> at, decision |-> Allowed]]

-----------------------------------------------------------------------------
(* The inbox.                                                              *)

\* A message, an edit of one, or a /check of one that was said; nothing looks at an
\* update before its handler begins for the first time.
Chosen(u, i) ==
  IF input[u] # NoInput THEN i = input[u]
  ELSE /\ i.kind # "none" /\ i.message # 0 /\ i.content \in Contents
       /\ i.kind = "check" => <<i.message, i.content>> \in said
       /\ \A m \in Messages : m < i.message => \E c \in Contents : <<m, c>> \in said

Begins(u) ==
  /\ job[u].at = "idle" /\ D!Start(u) /\ Goes(u, "begun")
  /\ \E i \in Inputs : /\ Chosen(u, i) /\ input' = [input EXCEPT ![u] = i]
                       /\ said' = said \cup {<<i.message, i.content>>}
  /\ UNCHANGED <<world, rate, log, row, answered, holder, budget, history>>

Over(u) == D!Handle(u) /\ Goes(u, "over")

\* A settled update is not looked at again.
Settles(u) ==
  /\ \/ job[u].at = "over" /\ D!Complete(u) /\ UNCHANGED budget
     \/ job[u].at = "over" /\ D!Postpone(u) /\ Spends("faults", MaxFaults)
     \/ job[u].at = "failed" /\ (D!Postpone(u) \/ D!Abandon(u)) /\ UNCHANGED budget
  /\ job' = [job EXCEPT ![u] = NoJob]
  /\ input' = IF line'[u] = "queued" THEN input ELSE [input EXCEPT ![u] = NoInput]
  /\ UNCHANGED <<world, said, rate, log, row, answered, holder, history>>

\* A call of the handler fails, the process dies, or the lock is somebody else's.
Fails(u) ==
  /\ job[u].at \in {"begun", "decided", "replying", "punishing", "answering"}
  /\ holder.by # u
  /\ IF job[u].at = "punishing" /\ ~LockFree
     THEN UNCHANGED budget ELSE Spends("faults", MaxFaults)
  /\ Goes(u, "failed")
  /\ UNCHANGED <<deliveryVars, input, world, said, rate, log, row, answered, holder, history>>

\* The process dies in the middle of a punishment, with all its handlers; the lock expires.
Dies ==
  /\ ~LockFree /\ Spends("faults", MaxFaults) /\ holder' = Free
  /\ job' = [u \in Updates |-> NoJob]
  /\ line' = [u \in Updates |-> IF line[u] = "started" THEN "queued" ELSE line[u]]
  /\ UNCHANGED <<handled, input, world, said, rate, log, row, answered, history>>

-----------------------------------------------------------------------------
(* Judging: ModerateResult.                                                *)

Settings == Policies[settings]
Protected == standing \in {"admin", "white"}

\* Only rows whose effect is known count.
\* Mutant: what was merely begun counts.
CountsRowBegun(k) == row[k].status # "none"
CountsRow(k) == row[k].status = "done" \/ row[k].acted \/ row[k].deleted

ViolationCount == Cardinality({u \in Updates : CountsRow(<<"auto", u>>)})

\* Mutant: a message that is edited, or run again, repeats itself.
RepeatedSelf(m, c) == \E w \in memory : w[2] = c
\* RepeatedAd: the same content was deleted and warned about in another message.
Repeated(m, c) == \E w \in memory : w[1] # m /\ w[2] = c

RepeatedAd == Decision("mute", TRUE, "repeated_ad")
AdDecision(d, m, c) ==
  IF ~Repeated(m, c) \/ d.action = "ban" \/ d.reason = "local_ad_review" THEN d ELSE RepeatedAd

\* Mutant: every run of an update counts it.
CountedAgain(u) == Cardinality({v \in Updates : rate[v] > 0}) + 1
\* Spam: an update is counted once, whatever becomes of its handler.
Counted(u) == IF rate[u] > 0 THEN rate[u] ELSE Cardinality({v \in Updates : rate[v] > 0}) + 1

Spamming(risk, n) ==
  IF Settings.SpamEnabled /\ n > Settings.RateLimit THEN [risk EXCEPT !.spam = TRUE, !.score = 100] ELSE risk

Risks == [n \in DOMAIN Policies |-> [c \in Contents |->
           [isNew \in BOOLEAN |-> [first \in BOOLEAN |-> Evaluate(Policies[n], c, isNew, first)]]]]

\* moderationEngine.decide
Judged(c, n, ai, isNew, first) ==
  LET risk == Spamming(Risks[settings][c][isNew][first], n)
  IN Decide(Settings, risk, IF risk.score >= Settings.AIThreshold THEN ai ELSE NoAI,
            ViolationCount, Protected)

Disabled == Decision("allow", FALSE, "moderation_disabled")
Blacklisted == Decision("ban", Settings.AutoDelete, "blacklist")

\* Moderation is off, or the settings exempt protected users: not looked at, nor counted.
Exempt ==
  ~Settings.ModerationEnabled \/ (Protected /\ (Settings.AdminBypass \/ standing = "white"))

\* Mutant: the event key is another one whenever the update is run.
KnownNever(u) == FALSE
\* GetLog, and the INSERT IGNORE of SaveLog: a saved decision is not taken again.
Known(u) == Logged(Key(u))

LogOf(u, d) == [message |-> input[u].message, content |-> input[u].content, decision |-> d]

\* ModerateResult up to SaveLog.  The blacklist holds whether moderation is on or not.
Decides(u) ==
  /\ job[u].at = "begun" /\ input[u].kind = "say" /\ ~Known(u)
  /\ LET m == input[u].message
         c == input[u].content
         takes(d) == job' = [job EXCEPT ![u] = [at |-> "decided", decision |->
                       LET e == IF standing = "black" THEN Blacklisted ELSE d
                       IN IF Settings.ModerationEnabled /\ ~Protected
                          THEN AdDecision(e, m, c) ELSE e]]
     IN \/ Exempt /\ takes(Disabled) /\ UNCHANGED rate
        \/ /\ ~Exempt
           /\ rate' = IF Settings.SpamEnabled THEN [rate EXCEPT ![u] = Counted(u)] ELSE rate
           /\ \E ai \in AIs, isNew, first \in BOOLEAN :
                takes(Judged(c, rate'[u], ai, isNew, first))
  /\ UNCHANGED <<deliveryVars, input, world, said, log, row, answered, holder, budget, history>>

Saves(u) ==
  /\ job[u].at = "decided" /\ Goes(u, "judged")
  /\ log' = IF Known(u) THEN log ELSE [log EXCEPT ![Key(u)] = LogOf(u, job[u].decision)]
  /\ UNCHANGED <<deliveryVars, input, world, said, rate, row, answered, holder, budget, history>>

Applies(u) ==
  /\ job[u].at = "judged" \/ (job[u].at = "begun" /\ Known(u))
  /\ input[u].kind = "say"
  /\ LET a == log[Key(u)].decision.action IN
     \/ a = "allow" /\ Goes(u, "replying") /\ UNCHANGED deliveryVars
     \/ a = "shadow_log" /\ Over(u)
     \/ a \notin {"allow", "shadow_log"} /\ Goes(u, "punishing") /\ UNCHANGED deliveryVars
  /\ UNCHANGED <<input, world, said, rate, log, row, answered, holder, budget, history>>

\* Mutant: the mark of an answer is not looked at.
AnsweredNever(u) == FALSE
Answered(u) == u \in answered

\* Keywords: sent, then marked; one that is marked is not sent again.
Replies(u) ==
  /\ job[u].at = "replying"
  /\ \/ /\ Answered(u) \/ ~Answering
        /\ Over(u) /\ UNCHANGED <<answered, budget, sends, unmarked>>
     \/ /\ ~Answered(u) /\ Answering /\ sends' = [sends EXCEPT ![u] = @ + 1]
        /\ \/ Over(u) /\ answered' = answered \cup {u} /\ UNCHANGED <<budget, unmarked>>
           \/ /\ Goes(u, "failed") /\ Spends("faults", MaxFaults)
              /\ unmarked' = unmarked \cup {u} /\ UNCHANGED <<deliveryVars, answered>>
  /\ UNCHANGED <<input, world, said, rate, log, row, holder, effects>>

-----------------------------------------------------------------------------
(* /check: Review.  The first verdict on a message stays.                  *)

ManualAd == Decision("warn", TRUE, "manual_ai_ad")
ManualReview == Decision("shadow_log", FALSE, "manual_review")

\* Denied, limited, or the model does not answer; or it does, and its verdict is saved
\* unless there is one already.
Checks(u) ==
  /\ job[u].at = "begun" /\ input[u].kind = "check"
  /\ \/ Goes(u, "answering") /\ UNCHANGED log
     \/ \E d \in {ManualAd, ManualReview} :
          /\ log' = IF Known(u) THEN log ELSE [log EXCEPT ![Key(u)] = LogOf(u, d)]
          /\ Goes(u, IF log'[Key(u)].decision.action = "shadow_log" THEN "answering"
                     ELSE "punishing")
  /\ UNCHANGED <<deliveryVars, input, world, said, rate, row, answered, holder, budget, history>>

\* The result of a /check is announced; a punished message needs nothing more.
Announces(u) ==
  /\ job[u].at = "answering" /\ Over(u)
  /\ UNCHANGED <<input, world, said, rate, log, row, answered, holder, budget, history>>

-----------------------------------------------------------------------------
(* Punishing: punishLocked, for a handler (by = u) or the sweep (by = 0).  *)

Removes(d) == d.delete \/ d.action = "ban"

\* MessageAlreadyPunished.
\* Mutant: only punishments that are complete count.
AlreadyDone(k) ==
  \E q \in Keys \ {k} : /\ log[q].message = log[k].message /\ row[q].status = "done"
                         /\ row[q].decision.delete
Already(k) ==
  \E q \in Keys \ {k} : /\ log[q].message = log[k].message
                         /\ row[q].status \in {"pending", "done"} /\ row[q].decision.delete

Once(k) == Removes(log[k].decision) /\ log[k].decision.action # "ban"

\* The decision a new row is made with.
Revised(k) ==
  LET d == [log[k].decision EXCEPT !.delete = Removes(log[k].decision)]
  IN IF Once(k) THEN AdDecision(d, log[k].message, log[k].content) ELSE d

\* How the call ends for the one who made it.
Returns(by, at) == IF by = 0 THEN UNCHANGED job ELSE Goes(by, at)
Caller(k, by) ==
  IF by = 0 THEN row[k].status = "pending" /\ row[k].attempts < MaxAttempts
  ELSE job[by].at = "punishing" /\ Key(by) = k

\* Up to PreparePunishment, whose row stays what it is once there is one.
Takes(k, by) ==
  /\ Caller(k, by) /\ LockFree
  /\ LET new == [NoRow EXCEPT !.status = "pending", !.decision = Revised(k)]
         r == IF row[k] = NoRow THEN new ELSE row[k]
     IN \/ Once(k) /\ Already(k) /\ Returns(by, "answering") /\ UNCHANGED <<log, row, holder>>
        \/ /\ ~(Once(k) /\ Already(k)) /\ row' = [row EXCEPT ![k] = r]
           /\ \/ r.status \in {"done", "skipped"} /\ Returns(by, "answering")
                 /\ UNCHANGED <<log, holder>>
              \/ r.status = "failed" /\ Returns(by, "failed") /\ UNCHANGED <<log, holder>>
              \/ /\ r.status = "pending"
                 /\ log' = [log EXCEPT ![k].decision = r.decision]
                 /\ holder' = [key |-> k, by |-> by, todo |-> {"preflight"},
                               acted |-> r.acted \/ r.deleted \/ r.started]
                 /\ UNCHANGED job
  /\ UNCHANGED <<deliveryVars, input, world, said, rate, answered, budget, history>>

Step(condition, step) == IF condition THEN {step} ELSE {}

\* What is left to do for a row.  A ban deletes afterwards.
Plan(p) ==
  LET d == p.decision IN
  Step(d.delete /\ ~p.deleted, IF d.action = "ban" THEN "clean" ELSE "delete")
  \cup Step(~p.acted, "act")
  \cup Step(d.action = "warn" /\ d.delete, "remember")
  \cup Step(d.reason \in {"repeated_ad", "local_ad_review"}, "notice")
  \cup {"done"}

Mine == row[holder.key]
Recorded(p) == row' = [row EXCEPT ![holder.key] = p]
At(step) == step \in holder.todo /\ \A t \in holder.todo : Turn[step] <= Turn[t]
Onwards(step) == holder' = [holder EXCEPT !.todo = @ \ {step}, !.acted = TRUE]

\* A protected member is spared, whatever was decided.
Preflights ==
  /\ At("preflight")
  /\ IF Protected
     THEN /\ Recorded([Mine EXCEPT !.status = "skipped"]) /\ holder' = Free
          /\ Returns(holder.by, "answering")
     ELSE holder' = [holder EXCEPT !.todo = Plan(Mine)] /\ UNCHANGED <<row, job>>
  /\ UNCHANGED <<deliveryVars, input, world, said, rate, log, answered, budget, history>>

Calls == {"delete", "warn", "mute", "ban"}
\* The call of the step the holder is at.  A plain deletion has been carried out already.
Call ==
  IF At("delete") \/ At("clean") THEN {"delete"}
  ELSE IF At("act") THEN {Mine.decision.action} \ {"delete"} ELSE {}

\* Mutant: the start is kept in the status.
BegunStatus(p) == [p EXCEPT !.status = "started"]
\* StartPermission comes before the call.
Begun(p) == IF p.decision.action \in {"mute", "ban"} THEN [p EXCEPT !.started = TRUE] ELSE p
Reached == IF At("act") THEN Begun(Mine) ELSE Mine

\* The call is done and recorded.
Acts ==
  /\ \/ \E step \in {"delete", "clean"} :
          At(step) /\ Recorded([Mine EXCEPT !.deleted = TRUE]) /\ Onwards(step)
     \/ At("act") /\ Recorded([Reached EXCEPT !.acted = TRUE]) /\ Onwards("act")
  /\ effects' = effects \cup ({holder.key} \X Call)
  /\ UNCHANGED <<deliveryVars, input, job, world, said, rate, log, answered, budget, sends, unmarked>>

\* RetryPunishment.
Retried(p) == [p EXCEPT !.attempts = IF @ < MaxAttempts THEN @ + 1 ELSE @]

\* RejectPunishment: definite, and nothing was done.
Rejected(p) == [p EXCEPT !.status = "failed", !.started = FALSE]

\* A step fails: before anything is done, with the effect done and not recorded, or
\* with a definite refusal (a warning is not refused for good).
Breaks ==
  /\ ~LockFree /\ Spends("faults", MaxFaults)
  /\ \/ Recorded(Retried(Reached)) /\ UNCHANGED effects
     \/ /\ Call # {} /\ Recorded(Retried(Reached))
        /\ effects' = effects \cup ({holder.key} \X Call)
     \/ /\ Call # {} /\ Call # {"warn"} /\ ~holder.acted
        /\ Recorded(Retried(Rejected(Reached))) /\ UNCHANGED effects
  /\ holder' = Free /\ Returns(holder.by, "failed")
  /\ UNCHANGED <<deliveryVars, input, world, said, rate, log, answered, sends, unmarked>>

\* Mutant: a message that was marked as misjudged meanwhile is remembered.
EvidenceAlways(p) == p.deleted /\ p.acted
\* What RememberAdWarning selects.
Evidence(p) == p.deleted /\ p.acted /\ log[holder.key].message \notin wrong

\* INSERT IGNORE: of the messages with one content the first is kept.
Remembers ==
  /\ At("remember") /\ Onwards("remember")
  /\ memory' = IF Evidence(Mine) /\ \A w \in memory : w[2] # log[holder.key].content
               THEN memory \cup {<<log[holder.key].message, log[holder.key].content>>}
               ELSE memory
  /\ UNCHANGED <<deliveryVars, input, job, standing, settings, wrong, said, rate, log, row,
                 answered, budget, history>>

Notifies ==
  /\ At("notice") /\ Onwards("notice")
  /\ UNCHANGED <<deliveryVars, input, job, world, said, rate, log, row, answered, budget, history>>

Finishes ==
  /\ At("done") /\ Recorded([Mine EXCEPT !.status = "done"]) /\ holder' = Free
  /\ Returns(holder.by, "answering")
  /\ UNCHANGED <<deliveryVars, input, world, said, rate, log, answered, budget, history>>

-----------------------------------------------------------------------------
\* Feedback: an administrator marks a judged message as misjudged.
Marks(m) ==
  /\ \E k \in Keys : log[k].message = m
  /\ m \notin wrong /\ Spends("moves", MaxMoves)
  /\ wrong' = wrong \cup {m} /\ memory' = {w \in memory : w[1] # m}
  /\ UNCHANGED <<deliveryVars, input, job, standing, settings, said, rate, log, row, answered,
                 holder, history>>

\* The member is promoted, demoted, listed; the group gets other settings.
Changes ==
  /\ Spends("moves", MaxMoves)
  /\ \/ standing' \in Standings \ {standing} /\ UNCHANGED settings
     \/ settings' \in DOMAIN Policies \ {settings} /\ UNCHANGED standing
  /\ UNCHANGED <<deliveryVars, input, job, memory, wrong, said, rate, log, row, answered,
                 holder, history>>

Handling(u) ==
  \/ Begins(u) \/ Settles(u) \/ Decides(u) \/ Saves(u) \/ Applies(u) \/ Replies(u)
  \/ Checks(u) \/ Announces(u) \/ Takes(Key(u), u)

Carrying == Preflights \/ Acts \/ Remembers \/ Notifies \/ Finishes

Next ==
  \/ \E u \in Updates : Handling(u) \/ Fails(u)
  \/ \E k \in Keys : Takes(k, 0)
  \/ Carrying \/ Breaks \/ Dies
  \/ \E m \in Messages : Marks(m)
  \/ Changes

Spec == Init /\ [][Next]_vars

\* Handlers and the sweep go on.
FairSpec ==
  /\ Spec /\ WF_vars(Carrying) /\ \A u \in Updates : WF_vars(Handling(u))
  /\ \A k \in Keys : WF_vars(Takes(k, 0))

-----------------------------------------------------------------------------
(* Properties.                                                             *)

Did(k, calls) == \E c \in calls : <<k, c>> \in effects

\* A message is either answered or punished, and answered once: whatever fails and is run
\* again, and whatever lists and counters have become, an update keeps its first verdict.
\* Only an answer that was sent and not marked is sent again.
OneVerdict ==
  \A u \in Updates :
    /\ sends[u] > 0 => ~Did(<<"auto", u>>, Calls)
    /\ sends[u] > 1 => u \in unmarked

\* "The same message is not punished twice": of the update, its edits and the checks of
\* a message at most one warns or mutes the member (bans are not held back), as long as
\* none was given up half-done because the member had become protected.
Penalized(k) ==
  Did(k, {"warn", "mute"}) /\ row[k].decision.delete /\ row[k].status # "skipped"
OnePenalty ==
  \A k, q \in Keys :
    k # q /\ log[k].message = log[q].message => ~(Penalized(k) /\ Penalized(q))

\* "Only completed delete+warning effects can establish repeat-ad evidence": a member is
\* muted for repeating an advert only if another message with it was deleted and warned
\* about, and what an administrator called a misjudgement is no evidence, even if the
\* warning it was about completes afterwards.
RepeatNeedsWarning ==
  /\ \A k \in Keys : log[k].decision.reason = "repeated_ad" =>
       \E q \in Keys : /\ log[q].message # log[k].message /\ log[q].content = log[k].content
                       /\ <<q, "delete">> \in effects /\ <<q, "warn">> \in effects
  /\ \A w \in memory : w[1] \notin wrong

\* Escalation counts what members felt: who is held for the fourth advert, or banned by
\* their number, had that many punishments carried out, and so had who is muted for spam.
\* "Each update contributes once even if a durable inbox job is retried": who is punished
\* for spam sent more messages than the limit of a setting that counts them.
Felt(u) == Cardinality({v \in Updates \ {u} : Did(<<"auto", v>>, Calls)})
EscalationEarned ==
  \A u \in Updates :
    LET d == log[<<"auto", u>>].decision IN
    \E n \in DOMAIN Policies : LET s == Policies[n] IN
      /\ d.reason = "local_ad_review" => Felt(u) >= s.HoldAfter
      /\ d.reason \in {"advertising", "spam"} /\ d.action = "ban" => Felt(u) + 1 >= s.BanAfter
      /\ d.reason = "spam" /\ d.action = "mute" => Felt(u) + 1 >= s.MuteAfter
      /\ d.reason = "spam" =>
           s.SpamEnabled /\ Cardinality({v \in Updates : rate[v] > 0}) > s.RateLimit

\* A punishment that was begun ends or runs out of tries, unless a ban for the same
\* message came in between: then the sweep takes it up for ever and does nothing.
Overtaken(k) == Once(k) /\ Already(k)
RowsEnd(k) == row[k].status = "pending" => row[k].attempts = MaxAttempts
RowsSettle == \A k \in Keys : row[k].status = "pending" ~> RowsEnd(k) \/ Overtaken(k)

\* "At most 20 automatic tries, then kept as pending for manual attention."
EveryRowSettles == \A k \in Keys : row[k].status = "pending" ~> RowsEnd(k)
=============================================================================
