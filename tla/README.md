# TG-Guard-Bot in TLA+

TG-Guard-Bot is a Telegram group guard written in Go: it takes updates from
Telegram, keeps them in MySQL, moderates messages, verifies new members, punishes
and pardons, and lets administrators steer it by commands, menus and a web panel.
This directory models the parts of it whose correctness depends on the order in
which things happen, checks the models with TLC and proves the most important
invariants with TLAPS. All source paths below are relative to `src/`.

## The system

| Component | State it keeps | Operations | What makes it correct |
|---|---|---|---|
| Ingestion (`internal/bot/runner.go` Poll, `internal/api/server.go` webhook) | poll offset in `bot_state` | fetch, store, save offset; post | an update Telegram is told to forget is in MySQL |
| Durable inbox (`internal/store/queue.go`, worker in `runner.go`) | `update_inbox`: status, attempts, lease | Enqueue, Claim, Finish, RetryDead | one runner per update, order within a chat, every update settles |
| Join verification (`internal/service/verification.go`, `internal/store/verification.go`, `kick.go`) | `verification_sessions`, `group_members` | Join, Answer, expiry, finishVerification, sweep | a session that is over leaves no mute and no half-done kick |
| Self-verification (`self_verification.go`) | sessions with a `self_` token | start, answer, unmute | an unmute only of a member nobody else is deciding on |
| Punishment (`internal/service/moderation.go`, `store/takeover.go`, `store/action_workflow.go`, `service/recovery.go`) | `punishments`, `punishment_workflows` | prepare, start, act, complete, recover, release | acts only under present authority, never undoes a newer decision, lifts what a revocation leaves |
| Group authorization (`store/authorization.go`) | `bot_groups`, `authorization_epochs` | approve, reject, revoke, deactivate | a revocation retires and compensates everything under way |
| Moderation pipeline (`rules/engine.go`, `moderation_engine.go`, `moderation.go`, `ad_repeat.go`, `store/ad_warning.go`) | `moderation_logs`, `punishments`, counters in Redis, `ad_warning_memory` | evaluate, decide, escalate, check again, mark a misjudgement | one verdict per update, one penalty per message, escalation only by what was felt |
| AI review (`internal/ai`) | cache, slots | review | bounded concurrency, a failure decides nothing |
| Keyword replies (`moderation.go`), group menu and prompts (`group_interaction.go`, `group_menu.go`, `group_actions.go`) | marks of what was sent; prompts and their generation in Redis | reply, press, ask, type, cancel | each input has its effect once, /cancel holds, a press run again changes nothing |
| Review buttons, welcome, commands (`internal/service`) | one-time tokens, `welcome_cleanup` | press, greet, clean up | each is done once |
| Settings (`store.go`, `menu.go`, `internal/settings`) | `group_settings`, `system_settings` | change under a row lock, save | no lost update; a switched-off verification releases its sessions |
| Web panel (`internal/api`) | tickets, sessions, generation in Redis; credentials in MySQL | login, ticket, exchange, logout | a session dies with its administrator and its credentials |
| Web upgrade (`internal/upgrade`) | files in `.updates` | Request, RunAgent | one job at a time, none replayed after a crash |
| Redis state (`internal/state/redis.go`) | member locks, limits, spam windows | Lock, Limit, Spam | a lock has one owner and is given back only by it |
| Lifecycle (`cmd/tgguard`) | MySQL instance lock | run, watch, shut down | one live instance |
| Migrations, retention, health, configuration, texts, scripts | | | |

How they interact. An update goes Telegram -> Poll or webhook -> `update_inbox` ->
a worker -> the handlers. Handlers, the recovery goroutine of `Workers` (every
five seconds: releases, pending punishments, due sessions) and button callbacks
all work on the same rows and call Telegram; for one member they exclude each
other by the Redis lock `verify:lock:<chat>:<user>`, which is tried once, never
waited for. The authorization and settings transactions do not take that lock:
they can fall between any two steps of a workflow, and so can a crash. Telegram's
answer may be lost after the call took effect. What was begun is recorded in
MySQL before Telegram is called and carried on by the recovery goroutine.

What is hard, therefore: the interleaving of workflows with revocations and
settings; calls whose outcome is unknown; crashes between a call and its record;
order (same-chat updates, old requests against newer decisions); and progress (a
workflow that waits for another that cannot move). `PROJECT.json` lists the
hazards line by line.

## The modules

| Module | Models | Extends |
|---|---|---|
| `Delivery` | what the inbox promises, without rows, leases or workers | |
| `Inbox` | ingestion, inbox and workers | |
| `GroupMember` | the state around one member of one group: rows, rights at Telegram, the lock; the effects of Telegram calls and their failures | |
| `Verification` | the join workflow as actions on that state | `GroupMember` |
| `Punishment` | punishments, their recovery and their releases, as actions on that state | `GroupMember` |
| `MemberWorkflow` | both together, with revocations, settings, the member's moves, faults, crashes; fairness and properties | `Verification`, `Punishment` |
| `Rules` | what the local rules find in a message and what the policy decides, as operators | |
| `Moderation` | what becomes of a member's messages: verdicts, answers, warnings and punishments | `Rules`, instance of `Delivery` |
| `GroupInput` | managing a group from a private chat: buttons, prompts, replies, /cancel | instance of `Delivery` |
| `SystemSettings` | the settings, stored and in memory, the list of administrators, their credentials | |
| `WebSessions` | login, sessions and tickets of the web panel, with requests under way | `SystemSettings` |
| `UpgradeQueue` | upgrades: the application and the agent over the files of `.updates` | |
| `InboxProofs`, `MemberProofs`, `RulesProofs`, `ModerationProofs`, `GroupInputProofs`, `WebProofs`, `UpgradeProofs` | theorems about the module named | that module |
| `MemberRightsProofs` | theorems about what `MemberWorkflow` leaves behind | `MemberProofs` |
| `MCInbox`, `MCMemberWorkflow`, `MCModeration`, `MCGroupInput`, `MCWebSessions`, `MCUpgradeQueue` | instances for TLC | that module |

The layers meet at `Delivery`. `Inbox` is shown to implement it; `Moderation` and
`GroupInput` take their updates from it (`D!Start`, `D!Handle`, `D!Complete`,
`D!Postpone`, `D!Abandon`), so that a handler meets every retry, every run without an outcome and
every order that the inbox can produce, without rows and leases; that they take nothing
else of it is proved (`ModerationKeepsToDelivery`, `InputKeepsToDelivery`). Definitions
that a comment calls a mutant are broken forms of the definition that follows; nothing uses
them in the specifications.

### Inbox

`row[u]` is the `update_inbox` row of update `u`. Time is two flags:
`ready` (`available_at` has passed) and `leased` (`lease_until` has not).
`worker[w]` is a worker goroutine between Claim and Finish, with the attempt
number it was given; `poll` is the poller with the batch it still holds; `arrived`
and `confirmed` are Telegram's side. `StoreNext` is one turn of the loop in Poll:
Enqueue, then the step of the offset; so a crash can fall between any two.
`Claim` and `Finish` are one statement or transaction each, and either may commit
unseen or be lost. A claim may return any claimable row, because `SKIP LOCKED`
passes over rows that others hold. What a handler returns is left open.
`Stalls` allows a lease to end under a live worker: the handler context ends
after 45 s and Finish after 5 s more, so that 90 s pass only in a stalled process.
`handled` and `claims` are history variables.

`Delivery` says what this is for: an update is started only when every older
accepted update of its chat is settled, is done only after a successful run,
never again once done, and dead ones come back only at an operator's hand. Under
the mapping `DeliveryState` the inbox implements it.

### GroupMember, Verification, Punishment, MemberWorkflow

One member of one group. `ses[s]` is a verification session, `pun[r]` a row of
`punishments` joined with its workflow row, `group` the authorization, its epoch
and the verification switch, `tg` the member's rights and presence as Telegram
has them, `cause` (history) whose call set the rights. `holder` is the workflow
that owns the lock; `holder.todo` the steps it has left, one Telegram call or
one transaction each, in the order of the code; the other fields are what the Go
function keeps in variables (the status it read, `KickStarted`, the outcome it
will write, `mayHaveActed`). Reads at the start of a workflow are one action with
the plan they lead to: every later step is one of its own, so that revocations,
settings, clocks and crashes can come between. `calls` are workflows past their
first, unlocked checks.

| Code | Actions |
|---|---|
| `Join` | `JoinChecked` (up to the lock), `JoinLocked` (lock, reads, CreateVerification), `JoinMutes` (Restrict and the rest) |
| `AnswerVerification`, `Answer` | `AnsweredRight`, `AnsweredWrong` |
| `DueVerifications`, `SweepVerification` | `Expires`, `FinishStarts` |
| `finishVerification` | `FinishReads`, `BeginKick`, `FinishCalls`, `Settle` |
| `Punish`, `punishLocked` | `Requested`, `PunishStarts` (first insert), `Prepares` (second insert, read, preflight), `DeletesMessage`, `StartsPermission`, `PunishCalls`, `MarksKickBanned`, `CompletesTakeover`, `PunishDone`; `PunishFails` and `PunishRefused` are the deferred error handler |
| `sweepPermissionReleases` | `ReleaseListed`, `ReleaseStarts`, `ReleaseCalls`, `Drops` |
| `changeAuthorization` | `Revoked`, `Approved` |
| `ChangeSettings` | `VerificationOff`, `VerificationOn` |
| failures | `Refused` (400, 403), `Lost` (no answer, applied or not), `GivesUp` (any other error), `Busy` (lock taken), `Crash` |

Telegram is modelled by what the code relies on: restricting or restoring a
banned user replaces the ban; `unbanChatMember` is called with `only_if_banned`
and does nothing to a muted member; a ban removes a present member and is
followed by a member update; updates about the member are handled in order.
`hold` is the mute with reason `local_ad_review`, which has no term.

A protected member is not challenged (`JoinChecked`), and one who has become an
administrator ends an answered session without a call (`AdminPlan`): the run `member_punish`
and the theorems for any `Protections` meet both.

Left out: prompts, private messages, welcomes and notices (their failure is
`GivesUp`); backoff times (a due row may be picked up at any time); the answer log;
`self_` sessions; takeovers by administrators outside the bot
(`ObserveVerificationTakeover`); warnings, deletions and sender chats as
punishments of their own. The lock's 60 s exceed every holder's context (45 s for a
handler, 8 s for recovery), so the lock does not run out under a live holder.
`bot_groups.active` is folded into `approved`: leaving the group is `Revoked`.

### SystemSettings, WebSessions

`stored` is the `system_settings` row and `memory` the copy the process works on
(`Manager.current`), each reduced to its revision and its administrators;
`secret[u]` is the row of `u` in `web_credentials`, as the number of the secret it is
the hash of. Between the commit of a save and the replacement of the copy lies a
state of its own (`saving`): the mutex is held, and `WithAdmin` has to wait for it,
while everything that only reads the copy does not. `shown` collects the
snapshots settings pages may have been loaded from: a page may stay open as long as
it likes, so a save may come from any of them. If the answer to a commit is lost,
the row has changed and the copy has not; `unsure` remembers that this happened.

`session[s]` and `ticket[t]` are rows in Redis, `generation` is `web:auth_epoch`,
`master` the recovery key; an epoch is the record of what the code hashes (the
hash is taken to be free of collisions). `req[q]` is a request between what it
checked and what it writes: a login whose credential is proved, a request whose
session was accepted, an exchange whose ticket was accepted.

| Code | Actions |
|---|---|
| `Manager.Save`, `SaveSystemSettings` | `SaveCommits`, `SaveReturns` |
| `settings.New`, a restart | `SettingsReloaded`, `Restarted` |
| `adminCredential`, `WithAdmin`, `SetWebCredential` | `SecretIssued`, `SecretWithdrawn` |
| `login`, `credentialEpoch`, `createSession` | `LoginProved`, `SessionCreated` |
| `authenticate`, `session`, `authEpoch` | `SessionAccepted` |
| `ticket` | `TicketCreated` (session), `TicketForBearer` (recovery key) |
| `exchangeTicket` | `TicketAccepted`, `TicketSpent` (the script in Redis) |
| `logout`, `revokeSessions` | `LoggedOut`, `AllRevoked` |
| times to live; timeouts and failures | `SessionExpires`, `TicketExpires`; `RequestEnds` |

Reads compared with one another at once are one step, and `SessionCreated` reads the
generation and writes the session in one: a session put under a generation replaced in
between is refused at its first use. That loses nothing: the
generation is read last and is a fresh random value after each revocation, so
that a request that sees the old one saw it throughout; a credential that was
removed is never the same again. Redis is taken to keep the generation and
operators not to go back to an earlier recovery key: going back to one revives its
sessions by design. Left out are the rate limits, origins, CSRF values and
cookies that stand in front of these handlers, and all settings but the
administrators: a request they refuse does nothing.

### Rules, Moderation

`Rules` has no state. A part of a message (its text, a quoted text, a button) is the set of
rules it meets; `Evaluate` is `rules/engine.go` Evaluate with `evaluatePart` (each
part on its own, each rule once, the weights of new members, the strongest local action),
`Decide` the precedence of local rules, spam, the model's answer, thresholds
and the number of violations. `EscalationEarned` speaks of `HoldAfter`, `BanAfter`, the rate
limit and mutes for spam; the thresholds of scores and confidence are the subject of the
theorems of `RulesProofs` only. How a text is normalised and matched is left out, and "none" stands
for the code's empty action.

`Moderation` follows the messages of one member of one approved group. An update is a
message, an edit of one, or another member's /check of one. A group may moderate nothing
(`ModerationEnabled`) or leave spam alone (`SpamEnabled`); `memory` keeps the first warned
message of a content, as its `INSERT IGNORE` does. `log[k]` is the row of
`moderation_logs` under event key `k` (an update, or a checked message), `row[k]` the
punishment with its workflow row, `memory` the `ad_warning_memory`, `wrong` the marks of
misjudgement, `rate` the spam counter as each update found it, `answered` the
`keyword:sent` marks. `holder` is who runs `punishLocked` under the member's lock, with the
steps left: each Telegram call with its record, `RememberAdWarning`, the notice and
`CompletePunishment` are steps of their own. `effects`, `sends` and `unmarked` are history.

| Code | Actions |
|---|---|
| `Handle`, the inbox | `Begins`, `Settles`, `Fails`; a crash is `Dies` |
| `ModerateResult`, `moderationEngine.decide`, `Evaluate`, `Decide`, `AdDecision` | `Decides` (`Judged`, `Counted`, `ViolationCount`) |
| `SaveLog`, `GetLog` | `Saves`, `Known` |
| what the verdict leads to; keyword answers and their mark | `Applies`, `Replies` |
| `Review` (/check) and its announcement | `Checks`, `Announces` |
| `Punish` up to `PreparePunishment`; the recovery sweep (`by = 0`) | `Takes` |
| `punishLocked` | `Preflights`, `Acts`, `Remembers`, `Notifies`, `Finishes`; its deferred error handler is `Breaks` |
| feedback; administrators and settings | `Marks`, `Changes` |

A failing call may have had its effect or not, or be refused for good. The lock is
tried, not waited for: a handler that finds it taken fails and is run again. Verification,
timed release, kicks, administrators' own punishments and the fences of a
revocation are in `Punishment`; here the group stays approved. Left out: the message of
the /check itself is not moderated, several matching keywords (at most five are sent in one
run), the counter of duplicates beside that of messages, the length of a mute, the cache and
slots of the AI client (an answer or none is an input), senders that are channels.

### GroupInput

One administrator in a private chat, one group. `prompt[p]` is `group:prompt:<user>:<p>`
in Redis ("taken" is the time a handler has it by GETDEL), `gen` the generation that
/cancel replaces and every prompt carries, `option` a setting with two values. A
handler is cut where something else can come between two of its calls. Nothing of the same
chat does, so `Sends` reads the generation and stores the prompt with it in one step. A reply
whose keyword rule was deleted meanwhile saves nothing and uses the prompt up (`ReplySaves`).

| Code | Actions |
|---|---|
| `MenuCallback`, `GroupMenu`, `groupAction` | `PressChecks`, `PressOpens` (`promptGroup`), `PressSets` (`ChangeSettings`) |
| `GroupReply` | `ReplyTakes` (GETDEL), `ReplyChecks` (generation, rights, approval), `ReplySaves`, `ReplyAsksNext` (the keyword wizard), `ReplyRefused`; the deferred `restorePrompt` is `Restored`, part of every end |
| `CancelGroupInput` | `CancelSets` |
| the inbox, failures, death of a handler, the ten minutes of a prompt | `Begins`, `Settles`, `Postpones`, `Answers`, `Fails`, `Dies`, `Expires` |
| rights, approval, the web panel | `Moves` |

### UpgradeQueue

The four files `busy`, `request.json`, `active.json`, `status.json` are variables, and
every call on one of them is an action, so that either process can die in between;
a job is known by its number. `lock` is the Redis lock `web:upgrade`, which runs out
after 15 s whatever its holder does, `heard` the heartbeat younger than 20 s.

| Code | Actions |
|---|---|
| `Server.upgrades` | `PostChecks` (release, heartbeat), `PostLocks` (lock, audit row), `PostMarks`, `PostWrites` (`Queue.Request`) |
| `RunAgent` before its loop | `AgentStarts`, `AgentInherits` and `AgentDrops` (a job that was cut short), `AgentSweeps` (the mark of nobody), `AgentPulses` |
| `RunAgent`'s loop, `process` | `AgentTakes`, `AgentChecks`, `AgentRuns`, `AgentReports`, `AgentRemoves`, `AgentClears` |
| deaths, time, releases | `AgentStops`, `AppStops`, `LockExpires`, `HeartbeatAges`, `Published` |

install.sh is a command that ends well or not; one that dies with the agent leaves either
version. The report of a job that was cut short names no version (`AgentInherits`); the number
it keeps is how the model knows the job. A mark that cannot be closed is an error that leaves it
there (`PostMarks`). `Shown` says what the files tell: `Status` opens three of them one after
another, so that a single answer of the panel may miss a job that is being moved, and the next
one has it. Stat and Remove of the mark are one step: a request written between them ends up
as one written after.

## What the runs check

Inbox, two workers:

| Run | Bounds | Shows |
|---|---|---|
| `inbox_polling` | polling, 2 updates of one chat, 2 attempts, 2 faults, 1 operator retry | `NothingLost`, `OneRunner`, `ChatSerialUntilRetried` and, under fairness, `EveryUpdateSettles` |
| `inbox_webhook_stalls` | webhook, 3 updates of 2 chats, 2 attempts, 2 faults, stalls | `OnlyNewestClaimSettles` and the refinement `KeepsPromise` |

Two updates of one chat and one of another are the least with both "held back" and
"runs beside"; two attempts are the least with both a retried and a dead update;
two faults allow a crash while recovering from a crash. `MaxAttempts` is 2 here and
5 in the code: the difference is only the number of returns to pending.

One member:

| Run | Instance | Shows |
|---|---|---|
| `member_verification` | a session that kicks and a later one that mutes, 2 faults, 1 revocation, leaving, switching | `NoOrphanMute`, `KickIsLifted`, `SessionsMoveOn` |
| `member_punish` | a session that bans, an automatic ban with a message, an administrator's unmute, 1 fault, 1 revocation, a member who may become protected | `BegunUnderAuthority`, `VerificationWaits`, `OldRequestYields` |
| `member_revoked` | a kick with a message, 3 faults, 2 revocations | `RevokedIsLifted`, `FailedLeavesNothing` |
| `member_settles` | a session that kicks, a timed mute, 1 fault, switching | `SessionsSettle`, `ReleasesSettle`, under fairness |
| `member_kick_released` | a session that kicks, 1 fault, 1 revocation | `NoOrphanBan` violated: finding 1 |

Of the properties about what is left at Telegram three (`NoOrphanMute`, `KickIsLifted`,
`RevokedIsLifted`) hold only in part of the parameter space: the passing runs lie in
the part for which they are proved, the section "Where the properties end" lists what
lies beyond. Two sessions let a member return while an old
session is still being settled; three faults let each half of a kick fail and a crash
follow; two revocations with an approval between let a request meet a foreign
epoch. `MaxTries` is 1 and `MaxAttempts` 3, above the number of faults in
`member_settles`, so that recovery does not give up there. The passing member runs
without `switch`, and the inbox runs, may come to rest when the bounded environment is
exhausted and everything is settled; deadlock is not checked there.

Messages:

| Run | Instance | Shows |
|---|---|---|
| `message_flow` | 3 updates on 2 messages with 2 contents, 3 policies (everything on; no warnings and no spam control; no moderation), 3 answers of the model, every standing, 1 try, 1 fault, 1 change or mark | `OneVerdict`, `OnePenalty`, `RepeatNeedsWarning`, `EscalationEarned` |
| `message_row_waits` | 2 updates on 1 message, an advert or a ban, 2 tries, 2 faults, fair | `EveryRowSettles` violated: finding 2 |

Three updates are the least with a message, its edit and a /check of it, or with a fourth
advert at `HoldAfter = 2`; the thresholds are as small as the number of
updates, so that each of them is reached, missed by one and exceeded. One of the two contents
is harmless part by part and scores together with the newcomer's weights, the other meets a preset advert
and a rule of the group at once. The same properties also passed on an instance with 2 updates, 2 tries,
2 faults and 2 changes, which lets a change come between two failures of one punishment.

The private chat, the web panel, the upgrade:

| Run | Instance | Shows |
|---|---|---|
| `group_input` | 4 updates, 2 prompts, 1 /cancel, 1 failing call or dying handler, 1 lost commit, 1 change of rights, approval or setting | `OncePerPrompt`, `CancelHolds`, `SettingsOfApproved`, `PressIsExact` |
| `web_sessions` | one administrator and the recovery key, 2 requests at a time, 2 sessions, a ticket, a secret, 2 saves, 1 restart or lost commit, 1 revocation | `RevokedStaysRevoked`, `OneSessionPerTicket`, `DeadSecretsStayDead`, `OnlyAdminsHaveSecrets`, `SavesKeepEachOther` |
| `upgrade_queue` | 2 requests at a time, 2 jobs, 2 releases, 2 deaths of the agent, 1 of the application | `NeverReplayed`, `ReportIsTrue`, `MarkGuardsJob`, `LeavesAReport` and, under fairness, `JobsSettle` |

Four updates are a button that asks, a reply, a second reply or /cancel, and one more; two
prompts are what the keyword wizard needs. Two requests are the least that race for a
ticket or for the mark, two saves the least that remove an administrator and add him
again, two sessions the least that come from one ticket or that a ticket leads from one
to the other, two deaths of the agent the least that interrupt the settling of an interrupted
job, two releases the least that let a queued job fall behind. Requests and sessions
of the web panel are interchangeable and nothing temporal but a step property is checked there, so
symmetry is sound; no other run uses it. When a starting agent removes the mark of a request
that is being written (`upgrade/agent.go:36`), `MarkGuardsJob` and `LeavesAReport` are no longer
claimed (`swept`); that two jobs accepted so both settle, once each, still is. All these runs come to rest when identifiers, updates or
releases are used up.

### Fairness

`Inbox!FairSpec`: Poll, the workers and Telegram's deliveries go on, leases and
backoffs run out. They are loops that end only with the process, which is started
again. Faults and operators owe nothing.

`MemberWorkflow!FairSpec`: whoever has the lock goes on (every call and statement
has a timeout); the recovery goroutine comes round to every due row; a handler
that returned an error is run again by the inbox; clocks advance. Getting the
lock is strongly fair, and the lock of this one member is not found taken for
ever: recovery is one goroutine which takes the rows of a chat one after
another, updates about one chat are handled one at a time, and both back off. No
fairness on answers, revocations, approvals, joins, faults.

`Moderation!FairSpec`: a handler that was begun goes on and is run again by the inbox
after a failure (`EveryUpdateSettles` is what the inbox gives for it), the sweep of
`Workers` comes round to each pending row, and whoever holds the lock goes on.

`UpgradeQueue!FairSpec`: systemd starts the agent again (`Restart=on-failure`, and the
unit is enabled for the next boot: `scripts/setup-updater.sh:28`), its loop and the
handlers of the application go on while they live. An operator who stops the unit for good
gets no promise. Nothing is owed by administrators, releases or the heartbeat's age.

## What is proved

For every set of updates, chats, workers and every bound (`InboxProofs`):

- `TypeCorrect`: the type invariant.
- `NoUpdateLost`: `NothingLost`, from `PollInv`: what is below the poller's offset
  or the saved one has been stored, and the offset is at or below what the batch
  still holds. `NothingLost` alone says nothing of the batch and is not inductive.
- `RunnersApart`: `OneRunner`, from `LeaseInv`: a busy worker's claim holds a live
  lease on a processing row with its attempt number, so a second claim of the row
  is not enabled.
- `ChatsAreSerial`: `ChatSerialUntilRetried` with polling and without stalls, from
  `SerialInv` (what is stored is closed downwards, because `Poll` stores from the
  smallest up, and who is busy has nothing older of its chat waiting) together with
  `PollInv` and `LeaseInv`. A webhook takes posts in any order: nothing is claimed there.
- `StaleRunnersAreFenced`: `OnlyNewestClaimSettles` when no operator retries dead
  updates (`MaxRetries = 0`): attempts count claims (`ClaimInv`), so equal attempt
  numbers are the same claim. `RetryDead` resets attempts and breaks this; see hazards.
- `InboxImplementsDelivery`: `Spec => KeepsPromise`, step by step under the mapping.

For every set of sessions and requests, every setting and bound (`MemberProofs`):

- `MemberTypeCorrect`: the type invariant, with `JoinInv` (a join in progress keeps
  its update at the head of the queue), which the actions that take it off need.
- `FenceHoldsAlways`: `BegunUnderAuthority`, from `FenceInv`, which adds that a
  request that was never opened has no progress and that whoever carries a request
  out has opened it. A revocation retires every pending request in the transaction
  that moves the epoch, and `StartPermission` looks at the group again.
- `VerificationGivesWay`: `VerificationWaits` is inductive: only a workflow with the
  lock puts a request on record, and it is a punishment.
- `OldRequestsYield`: `OldRequestYields`, from `YieldInv`: between preflight and the
  last call of a request no newer one can be completed, since that takes the lock.

What is left at Telegram and in the rows (`MemberRightsProofs`). None of these properties
is inductive: each compares rights at Telegram with rows, and between a call and its record the
two disagree in a way that only the plan of the lock's holder explains. The ground
is therefore `LockInv` (`LockInvHolds`): the steps left are in the order of the code
(`Place`), each operation has only steps of its own, and session and request are
where the steps already done left them, or where a revocation, the settings or a clock has
taken them since, which do not wait for the lock (`Drifts`, `RowDrifts`). Lemmas say
once what a step may do: `HolderSteps` to the plan, `SessionSteps` to a session,
`RowSteps` to a request, `RightsSteps` to the rights. On them rest

| Theorem | For | Invariant that carries it |
|---|---|---|
| `SessionsMoveForward`: `SessionsMoveOn` | all constants | `LockInv`: the status a plan was made for is the present one, or "releasing", unless the session is over |
| `FailuresLeaveNothing`: `FailedLeavesNothing` | all constants | `ForceInv`: what is in force was begun; whoever carries out a request and has done nothing finds nothing of it in force |
| `DutiesAreKept`: a duty to lift ends only when nothing of the request is in force, or when its own release saw newer work | all constants | `RightsMatch`, `LiftInv`: the rights are those of the action, a release past its call has nothing in force |
| `NoMuteIsOrphaned`: `NoOrphanMute` | `OnlyMutesAreLifted`: no revocation, or no request bans or kicks | `TakeoverInv`, `FinishMuteInv`, `ReleaseInv`: before a workflow ends a muted session the call that undoes the mute is still ahead |
| `KicksAreLifted`: `KickIsLifted` | nobody becomes protected | `KickInv`: while a kick's ban is in force its session is not over, and a holder about to end it has the unban ahead |
| `RevocationsLift`: `RevokedIsLifted` | `Alone`: one request, no session, nobody protected | `RevokedInv`: what was retired half-done and is in force has its release due |
| `NoBanIsOrphaned`: `NoOrphanBan` | `LeftAlone`: no revocation, no switching, nobody protected or blacklisted | `BanInv`, with `KickInv`, `TakeoverInv`, `ReleaseInv` |

No part of these hypotheses can be dropped: for each, finding 1 or "Where the properties
end" names what breaks the property without it. `NoOrphanBan` is the property that finding 1 violates; the
theorem says that lost answers, crashes, refused calls, the member's comings and goings and
punishments beside the session leave no such ban. The runs `member_verification` and
`member_revoked` lie within the hypotheses of the theorems about their properties.

For every set of administrators, requests, sessions and tickets, every number of saves,
faults and revocations (`WebProofs`):

- `WebTypeCorrect`: the type invariant.
- `WebRevocation`: `RevokedStaysRevoked`, from `EpochsDescend`: whatever is live in Redis, and
  every request past its check, has the epoch of the login it descends from.
- `WebTicketOnce`: `OneSessionPerTicket`, from `SpentOnce`: the ticket a session names is gone.
- `WebDeadSecrets`: `DeadSecretsStayDead`, from `SecretsOnce`: secrets in force are distinct and
  none was ever replaced.
- `WebOnlyAdmins`: `OnlyAdminsHaveSecrets`, from `AdminsKnown`: outside a save the process
  knows the stored list. This needs the mutex of `WithAdmin`.
- `WebSavesKeepEachOther`: from `PagesKnown`: a shown page with the present revision is
  the present configuration, although a lost commit lets a revision be used twice.

`HolderMoves`, `RequestsKept` and `GroupKept` say once what a step of the member workflow
may do to the holder, the requests and the group; its invariance proofs cite them.

For every number of requests, jobs, releases and deaths (`UpgradeProofs`), from one
inductive invariant `UpgradeInv`: where the agent is tells whether there is an active job
(`AgentInv`), a queued job was never started and is not the active one (`JobInv`), what is
reported is an outcome and of the active job until that is removed (`ReportInv`), and a
request between its mark and its file has the mark to itself (`MarkInv`):

- `UpgradeTypeCorrect`, `UpgradeNeverReplayed`, `UpgradeReportIsTrue`, `UpgradeMarkGuards`,
  `UpgradeLeavesAReport`: every property of `upgrade_queue` but the liveness of jobs.

For all settings, findings and answers of the model (`RulesProofs`):

- `ProtectedAreSpared`: nothing is deleted and nobody punished who is protected.
- `SuspicionDeletesNothing`: below the deletion threshold the model warns at most.
- `SwitchesHold`: with the automatic switches off only a rule that says so mutes or bans.
- `EscalationNeverSoftens`: more violations never make a decision milder.

For every set of updates, messages, contents and settings, and every number of tries,
faults and changes (`ModerationProofs`), from `ModInv`. `OneVerdict` and its companions
relate what was done at Telegram to rows and logs, so none is inductive alone; `ModInv`
adds

- what the handler of an update implies (`JobInv`: one at a time, and a stage past the
  verdict has one), what a verdict says and that it does not change (`LogInv`), that a row
  belongs to a verdict that calls for it (`RowInv`);
- that effects are those of rows that were begun (`EffectInv`), that the holder's steps
  left are a suffix of the row's plan and what is recorded was done (`HolderInv`), that at
  most one row of a message is open or done (`OneActive`);
- that memory and decisions to mute for a repeated advert go back to a delete and a warning that were carried out
  (`MemoryInv`, `DecidedProven`, `SavedProven`);
- that answers are marked or known not to be (`SendInv`), and that counters and
  escalations have their cause, also while the decision is not saved yet
  (`RateInv`, `DecidedEarned`, `SavedEarned`).

From it follow `ModerationTypeCorrect`, `ModerationOneVerdict`, `ModerationOnePenalty`,
`ModerationRepeatNeedsWarning` and `ModerationEscalationEarned`: every property of
`message_flow`. `ModerationKeepsToDelivery` says that every step is one step of `Delivery`
or none. A death puts back all that is in hand at once; that this is one update needs
`Lineup`: an update is in hand only when every older one is settled.

For every set of updates and prompts, every number of cancellations, faults, lost commits
and changes (`GroupInputProofs`), from `InputInv`: one handler at a time, for the oldest
update that is not settled (`LineInv`), a prompt is out of Redis exactly while a live
handler holds it (`HoldInv`), a prompt that is not used was saved only by commits whose
answer was lost (`MadeInv`), prompts that were open at /cancel are of an older generation
(`VoidInv`), and while the last press is not settled the setting is what it says
(`WriterInv`). From it follow `InputTypeCorrect`, `InputOncePerPrompt`,
`InputCancelHolds`, `InputSettingsOfApproved` and `InputPressIsExact`: every property of
`group_input`. `InputKeepsToDelivery` relates its steps to `Delivery` as above.

The assumptions are the `...Assumption` of each module: types of the constants, that 0 is
neither an administrator, a ticket, an update nor a prompt, that finitely many updates
arrive in a chat, and that the rules of a policy carry known actions.

Only model-checked: liveness (`EveryUpdateSettles`, `SessionsSettle`, `ReleasesSettle`,
`JobsSettle`), which needs fairness and ENABLED. Every other property of a passing run is a
theorem, within the hypotheses above. No induction over data is used: the counts in
`Moderation` are cardinalities of subsets, and the plans in `MemberWorkflow` have
bounded length.

## Findings

1. `member_kick_released`: `BeginVerificationKick` updates nothing, silently, when the
   session was released since it was read; if then the unban half fails, the retry
   no longer knows of the kick and settles with the member banned. Switching
   verification off releases the session just as a revocation does (`MaxRevokes = 0`,
   `Moves = {"switch"}`).
2. `message_row_waits`: a warning breaks off, an edit of the message is banned for, and the
   sweep takes the warning up for ever: `punishLocked` returns before its deferred
   `RetryPunishment`, so no try is counted and the row stays pending and due. Apart from
   that case every row ends or runs out of tries (`RowsSettle`, which TLC confirms
   on the same instance).

Each is a violated run; `PROJECT.json` names the lines and the sentence it contradicts.

### Where the properties end

The properties of the passing runs are stated, or their instances chosen, so that they hold. What
lies beyond is known; each of these is found by TLC when the run named is changed as said:

- Order in a chat after an operator's retry (`store/queue.go:87`): `ChatSerial` instead of
  `ChatSerialUntilRetried` in `inbox_polling`. A dead update that is put back runs beside a
  younger one that is being processed.
- A member who becomes protected between the halves of a kick stays banned
  (`verification.go:316`; `moderation.go:181` likewise): `KickIsLifted` or `NoOrphanBan` in
  `member_kick_released` with `Protections <- Both`, `MaxRevokes = 0`, and
  `RevokedIsLifted` in `member_revoked` with `Protections <- Both`.
- A blacklisted member is banned after the answer and the call's answer is lost: the retry finds
  the member gone and ends the session as "left", with the ban, which the list asks for, in
  force (`verification.go:284`): `NoOrphanBan`
  in `member_kick_released` with `Listings <- Both`, `Moves = {"leave"}`, `MaxRevokes = 0`.
- The release of a revoked ban gives way to a session that was created after the group had been
  approved again, and that then ends as cancelled because the member is not muted:
  `RevokedIsLifted` in `member_revoked` with `Sessions <- OneSession`,
  `FailAction <- FailBan`, `MaxFaults = 2`, `MaxRevokes = 1`.
- A punishment that was prepared after its group had been revoked stays pending and keeps
  a session from ending (`moderation.go:102`; the same would a request out of attempts): `member_settles` with `MaxRevokes = 1`, `Moves = {}`,
  `MaxFaults = 0`, without the check for deadlock.
- The release of an older ban is dropped when a newer request was begun and retired by
  the same revocation (`NewerPermissionAction`): `RevokedIsLifted` in `member_revoked`
  with the two requests of `member_punish`, `MaxFaults = 2`, `MaxRevokes = 1`.
- A begun ban without effect is retired, and `FinishPermissionRelease` cancels the
  released session although nothing lifted its mute: `NoOrphanMute` in `member_punish`.
- A request that dies between its mark and its file, or fails to close its mark, leaves the mark until the agent starts
  again, and every request until then is told to wait for a job that does not exist
  (`upgrade.go:129`; `ErrBusy` at line 21 says there is one): `MarkEnds` in `upgrade_queue`.
- A commit whose answer is lost puts the prompt back, and the same reply creates the
  keyword a second time (`group_interaction.go:325`; `docs/acceptance-2026-09-06.md:18` says
  a repeated reply does not): `OncePerPrompt` without `budget.lost` in `group_input`.
- A punishment that was given up half-done because the member had become protected does
  not keep another one for the same message back: `OnePenalty` without the status
  "skipped" in `message_flow` with `MaxMoves = 2`.

## Plan

Done: the inbox, the member workflow, the moderation of messages with the rules, the
private chat, the web panel with the system settings, the upgrade. What would come next, in this order:

1. `SelfVerification`: over `GroupMember`, sessions that end in an unmute by
   `punishLocked`, against punishments and revocations.
2. `Welcome`: greeting and cleanup with failed marks.
3. `ReviewCallback`: the one-time token of a button and the manual action it starts.

## Not modelled

- Self-verification, the welcome and its cleanup, review buttons beyond the mark of a
  misjudgement, senders that are channels (a shorter variant of `Punishment`): state machines of their own,
  see the plan.
- Commands: they parse and word; the requests they make are requests of `Punishment`.
- The inside of the AI client (slots, cache, circuit): its answers are inputs. Sending more than one keyword
  answer for a message (`keyword_all`, at most five).
- The instance lock and the lifecycle: the models take one live process and its restarts
  for granted; the inbox's leases stand two.
- Rate limits, origins, CSRF values and cookies of the panel; encryption and validation of settings.
- Migrations and retention (batch SQL), configuration, texts, health pages, the panel's
  JavaScript and the install scripts: no state of their own, or presentation only.
