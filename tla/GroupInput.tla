-------------------------------- MODULE GroupInput --------------------------------
(***************************************************************************)
(* Managing a group in a private chat (service/group_interaction.go,        *)
(* group_menu.go, group_actions.go, menu.go): menu buttons that set a value *)
(* or ask for one, prompts kept in Redis that a reply consumes with GETDEL  *)
(* and gets back when it could not be saved, the two-step keyword wizard,   *)
(* and /cancel, which replaces a generation that every prompt carries.  The *)
(* updates of the chat arrive as Delivery promises: in order, each run      *)
(* again until a run succeeds and its outcome is stored.                    *)
(*                                                                         *)
(* A handler is cut where something else can happen between two of its      *)
(* calls.  Values are reduced to whether they can be saved; one group.      *)
(***************************************************************************)
EXTENDS Naturals

CONSTANTS
  Updates,    \* updates of the private chat, in the order they arrive
  Prompts,    \* bound: prompts that are sent, by message number
  MaxCancels, \* bound: generations
  MaxFaults,  \* bound: calls that fail, handlers that die
  MaxLost,    \* bound: commits whose answer is lost
  MaxMoves    \* bound: changes of rights, of the approval, from the web panel

ASSUME GroupInputAssumption ==
  /\ Updates \subseteq Nat \ {0} /\ Prompts \subseteq Nat \ {0}
  /\ {MaxCancels, MaxFaults, MaxLost, MaxMoves} \subseteq Nat

VARIABLES
  line, handled,  \* what Delivery keeps of the updates
  input,     \* input[u]: what the user did
  job,       \* job[u]: the handler running for u
  prompt,    \* prompt[p]: group:prompt:<user>:<p>
  gen,       \* group:cancel:<user>
  admin,     \* the user is an administrator of the group
  approved,  \* the group is active and approved
  option,    \* a setting with two values
  budget,    \* faults, lost answers and moves so far
  made,      \* history: made[p]: changes saved for prompt p
  void,      \* history: prompts that were open when the user cancelled
  writer     \* history: the update that wrote option last, or 0

deliveryVars == <<line, handled>>
world == <<admin, approved>>
history == <<made, void, writer>>
vars == <<deliveryVars, input, job, prompt, gen, world, option, budget, history>>

D == INSTANCE Delivery WITH Chat <- [u \in Updates |-> 1], state <- line

NoPrompt == 0
Input == [kind : {"none", "open", "set", "reply", "drop", "cancel"},
          prompt : Prompts \cup {NoPrompt}, value : BOOLEAN]
NoInput == [kind |-> "none", prompt |-> NoPrompt, value |-> FALSE]
\* "taken": a handler has it; "used": consumed, expired, or lost with its handler.
Prompt == [at : {"none", "live", "taken", "used"},
           section : {"setting", "words", "content"}, gen : 0..MaxCancels, late : BOOLEAN]
Unsent == [at |-> "none", section |-> "setting", gen |-> 0, late |-> FALSE]
Used == [Unsent EXCEPT !.at = "used"]
Job == [at : {"idle", "begun", "taken", "checked", "answering", "over", "failed"},
        holds : BOOLEAN]
NoJob == [at |-> "idle", holds |-> FALSE]

TypeOK ==
  /\ line \in [Updates -> D!States] /\ handled \subseteq Updates
  /\ input \in [Updates -> Input] /\ job \in [Updates -> Job]
  /\ prompt \in [Prompts -> Prompt] /\ gen \in 0..MaxCancels
  /\ {admin, approved, option} \subseteq BOOLEAN
  /\ budget \in [faults : 0..MaxFaults, lost : 0..MaxLost,
                 moves : 0..MaxMoves]
  /\ made \in [Prompts -> Nat] /\ void \subseteq Prompts
  /\ writer \in Updates \cup {0}

Init ==
  /\ line = [u \in Updates |-> "queued"] /\ handled = {}
  /\ input = [u \in Updates |-> NoInput] /\ job = [u \in Updates |-> NoJob]
  /\ prompt = [p \in Prompts |-> Unsent] /\ gen = 0
  /\ admin = TRUE /\ approved = TRUE /\ option = FALSE
  /\ budget = [faults |-> 0, lost |-> 0, moves |-> 0]
  /\ made = [p \in Prompts |-> 0] /\ void = {} /\ writer = 0

Spends(what, max) == budget[what] < max /\ budget' = [budget EXCEPT ![what] = @ + 1]
Goes(u, at) == job' = [job EXCEPT ![u].at = at]
\* restorePrompt = false: the prompt stays consumed.
Consumed(u, at) == job' = [job EXCEPT ![u] = [at |-> at, holds |-> FALSE]]

-----------------------------------------------------------------------------
(* The inbox.                                                              *)

\* The user presses a button, replies to a prompt (with "drop" to drop it), or sends
\* /cancel.  Nothing looks at it before its handler begins for the first time.
Chosen(u, i) ==
  IF input[u] # NoInput THEN i = input[u]
  ELSE /\ i.kind # "none"
       /\ i.kind \in {"reply", "drop"} <=> i.prompt # NoPrompt
       /\ i.prompt # NoPrompt => prompt[i.prompt].at # "none"
       /\ i.kind \in {"drop", "cancel"} => ~i.value

Begins(u) ==
  /\ job[u].at = "idle" /\ D!Start(u) /\ Goes(u, "begun")
  /\ \E i \in Input : Chosen(u, i) /\ input' = [input EXCEPT ![u] = i]
  /\ UNCHANGED <<prompt, gen, world, option, budget, history>>

\* A settled update is not looked at again (one that an operator queues again is left out).
Forgotten(u) == input' = [input EXCEPT ![u] = NoInput]

\* The handler is over: the update is done, or its outcome is lost and it runs again.
Settles(u) ==
  /\ job[u].at = "over"
  /\ \/ D!Complete(u) /\ Forgotten(u) /\ UNCHANGED budget
     \/ D!Postpone(u) /\ Spends("faults", MaxFaults) /\ UNCHANGED input
  /\ job' = [job EXCEPT ![u] = NoJob]
  /\ UNCHANGED <<prompt, gen, world, option, history>>

\* It returned an error: a later attempt, or after five of them dead.
Postpones(u) ==
  /\ job[u].at = "failed"
  /\ \/ D!Postpone(u) /\ UNCHANGED input
     \/ D!Abandon(u) /\ Forgotten(u)
  /\ job' = [job EXCEPT ![u] = NoJob]
  /\ UNCHANGED <<prompt, gen, world, option, budget, history>>

-----------------------------------------------------------------------------
(* Prompts.                                                                *)

\* Mutant: a prompt is stored with a generation that does not exist yet.
GenerationNext == gen + 1
PromptGeneration == gen

\* Mutant: a reply does not look at the generation.
InForceAlways(p) == TRUE
InForce(p) == prompt[p].gen = gen

\* promptGroup sends the next prompt and stores it with the generation of the moment.
Sends(p, section) ==
  /\ prompt[p].at = "none" /\ \A q \in Prompts : q < p => prompt[q].at # "none"
  /\ prompt' = [prompt EXCEPT ![p] =
       [at |-> "live", section |-> section, gen |-> PromptGeneration, late |-> FALSE]]

\* Mutant: an answer that could not be saved consumes the prompt.
KeptNever(u) == FALSE
\* The deferred function puts a prompt back that was not consumed, for the time it had left.
Kept(u) == job[u].holds

Restored(u) ==
  LET p == input[u].prompt IN
  IF job[u].holds
  THEN prompt' = [prompt EXCEPT ![p] =
         IF ~Kept(u) THEN @ ELSE IF @.late THEN Used ELSE [@ EXCEPT !.at = "live"]]
  ELSE UNCHANGED prompt

\* Ten minutes pass.
Expires(p) ==
  /\ prompt[p].at \in {"live", "taken"} /\ ~prompt[p].late
  /\ prompt' = [prompt EXCEPT ![p] = IF @.at = "live" THEN Used ELSE [@ EXCEPT !.late = TRUE]]
  /\ UNCHANGED <<deliveryVars, input, job, gen, world, option, budget, history>>

-----------------------------------------------------------------------------
(* Every handler ends in one of these.                                     *)

Over(u) == D!Handle(u) /\ job' = [job EXCEPT ![u] = [at |-> "over", holds |-> FALSE]]

\* The answer, or the menu, is sent.
Answers(u) ==
  /\ job[u].at = "answering" /\ Over(u) /\ Restored(u)
  /\ UNCHANGED <<input, gen, world, option, budget, history>>

\* A call failed, and its error is returned.
Fails(u) ==
  /\ job[u].at \in {"begun", "taken", "checked", "answering"}
  /\ Spends("faults", MaxFaults) /\ Consumed(u, "failed") /\ Restored(u)
  /\ UNCHANGED <<deliveryVars, input, gen, world, option, history>>

\* The handler dies, or Redis does not take the prompt back; the update is run again.
Dies(u) ==
  /\ job[u].at # "idle" /\ D!Postpone(u) /\ Spends("faults", MaxFaults)
  /\ job' = [job EXCEPT ![u] = NoJob]
  /\ LET p == input[u].prompt IN
     prompt' = IF job[u].holds THEN [prompt EXCEPT ![p] = Used] ELSE prompt
  /\ UNCHANGED <<input, gen, world, option, history>>

-----------------------------------------------------------------------------
(* Buttons: MenuCallback, GroupMenu, groupAction.                          *)

\* The button's token is the user's and in force, and rights are looked up again.
PressChecks(u) ==
  /\ job[u].at = "begun" /\ input[u].kind \in {"open", "set"}
  /\ \/ admin /\ approved /\ Goes(u, "checked")
     \/ Goes(u, "answering")
  /\ UNCHANGED <<deliveryVars, input, prompt, gen, world, option, budget, history>>

PressOpens(u) ==
  /\ job[u].at = "checked" /\ input[u].kind = "open"
  /\ \E p \in Prompts : Sends(p, IF input[u].value THEN "words" ELSE "setting")
  /\ Over(u)
  /\ UNCHANGED <<input, gen, world, option, budget, history>>

\* Mutant: a button switches the setting over.
TargetToggled(u) == ~option
Target(u) == input[u].value

\* Mutant: the transaction does not look at the group again.
StillApprovedAlways == TRUE
\* ChangeSettings locks the row of an approved group.
StillApproved == approved

PressSets(u) ==
  /\ job[u].at = "checked" /\ input[u].kind = "set"
  /\ IF StillApproved
     THEN /\ option' = Target(u) /\ writer' = u
          /\ \/ Goes(u, "answering") /\ UNCHANGED budget
             \/ Goes(u, "failed") /\ Spends("lost", MaxLost)
     ELSE Goes(u, "failed") /\ UNCHANGED <<option, writer, budget>>
  /\ UNCHANGED <<deliveryVars, input, prompt, gen, world, made, void>>

-----------------------------------------------------------------------------
(* Replies: GroupReply.                                                    *)

Uses(p) == prompt' = [prompt EXCEPT ![p] = Used]

\* GETDEL; a prompt that is gone is answered with "done, cancelled or expired".
ReplyTakes(u) ==
  /\ job[u].at = "begun" /\ input[u].kind \in {"reply", "drop"}
  /\ IF prompt[input[u].prompt].at = "live"
     THEN /\ prompt' = [prompt EXCEPT ![input[u].prompt].at = "taken"]
          /\ job' = [job EXCEPT ![u] = [at |-> "taken", holds |-> TRUE]]
     ELSE Goes(u, "answering") /\ UNCHANGED prompt
  /\ UNCHANGED <<deliveryVars, input, gen, world, option, budget, history>>

\* "/cancel", an older generation, lost rights or a lost group consume the prompt.
ReplyChecks(u) ==
  /\ job[u].at = "taken"
  /\ LET p == input[u].prompt IN
     IF input[u].kind = "reply" /\ InForce(p) /\ admin /\ approved
     THEN Goes(u, "checked") /\ UNCHANGED prompt
     ELSE Consumed(u, "answering") /\ Uses(p)
  /\ UNCHANGED <<deliveryVars, input, gen, world, option, budget, history>>

\* Mutant: a prompt whose input was saved is not marked as consumed.
HoldsAfterSaveStill == TRUE
HoldsAfterSave == FALSE

Saved(p) == made' = [made EXCEPT ![p] = @ + 1]

\* The setting or the keyword is committed.  Keywords and lists do not look at the
\* group.  A setting whose group has gone consumes the prompt, and so does a keyword
\* that was edited and is deleted by now (sql.ErrNoRows).  When the answer to the commit
\* is lost, the user is told that nothing was saved and keeps the prompt.
ReplySaves(u) ==
  /\ job[u].at = "checked" /\ input[u].kind = "reply" /\ input[u].value
  /\ LET p == input[u].prompt IN
     /\ prompt[p].section \in {"setting", "content"}
     /\ \/ /\ prompt[p].section = "setting" => ~StillApproved
           /\ Consumed(u, "answering") /\ Uses(p) /\ UNCHANGED <<made, budget>>
        \/ /\ prompt[p].section = "content" \/ StillApproved
           /\ Saved(p) /\ Uses(p) /\ UNCHANGED budget
           /\ job' = [job EXCEPT ![u] = [at |-> "answering", holds |-> HoldsAfterSave]]
        \/ /\ prompt[p].section = "content" \/ StillApproved
           /\ Saved(p) /\ Goes(u, "answering") /\ Spends("lost", MaxLost) /\ UNCHANGED prompt
  /\ UNCHANGED <<deliveryVars, input, gen, world, option, void, writer>>

\* The words of a keyword are kept as the draft of the next prompt.
ReplyAsksNext(u) ==
  /\ job[u].at = "checked" /\ input[u].kind = "reply" /\ input[u].value
  /\ LET p == input[u].prompt IN
     /\ prompt[p].section = "words"
     /\ \E q \in Prompts \ {p} :
          /\ prompt[q].at = "none" /\ \A r \in Prompts : r < q => prompt[r].at # "none"
          /\ prompt' = [prompt EXCEPT ![p] = Used, ![q] =
               [at |-> "live", section |-> "content", gen |-> PromptGeneration, late |-> FALSE]]
  /\ Over(u)
  /\ UNCHANGED <<input, gen, world, option, budget, history>>

\* The input is invalid, or saving it fails: the user is told, and keeps the prompt.
ReplyRefused(u) ==
  /\ job[u].at = "checked" /\ input[u].kind = "reply" /\ ~input[u].value
  /\ Goes(u, "answering")
  /\ UNCHANGED <<deliveryVars, input, prompt, gen, world, option, budget, history>>

\* CancelGroupInput: prompts of an earlier generation are void.
CancelSets(u) ==
  /\ job[u].at = "begun" /\ input[u].kind = "cancel" /\ gen < MaxCancels
  /\ gen' = gen + 1 /\ void' = {p \in Prompts : prompt[p].at # "none"}
  /\ Goes(u, "answering")
  /\ UNCHANGED <<deliveryVars, input, prompt, world, option, budget, made, writer>>

-----------------------------------------------------------------------------
\* Rights, the approval and the web panel change on their own.
Moves ==
  /\ Spends("moves", MaxMoves)
  /\ \/ admin' = ~admin /\ UNCHANGED <<approved, option, writer>>
     \/ approved' = ~approved /\ UNCHANGED <<admin, option, writer>>
     \/ option' = ~option /\ writer' = 0 /\ UNCHANGED world
  /\ UNCHANGED <<deliveryVars, input, job, prompt, gen, made, void>>

Next ==
  \/ \E u \in Updates :
       \/ Begins(u) \/ Settles(u) \/ Postpones(u)
       \/ Answers(u) \/ Fails(u) \/ Dies(u)
       \/ PressChecks(u) \/ PressOpens(u) \/ PressSets(u)
       \/ ReplyTakes(u) \/ ReplyChecks(u) \/ ReplySaves(u) \/ ReplyAsksNext(u) \/ ReplyRefused(u)
       \/ CancelSets(u)
  \/ \E p \in Prompts : Expires(p)
  \/ Moves

Spec == Init /\ [][Next]_vars

-----------------------------------------------------------------------------
(* Properties.                                                             *)

\* A prompt is consumed once, and only then: whatever fails, dies, is replied to again or
\* run again, its input is saved once (a commit whose answer is lost lets it be saved once
\* more), and it is in Redis until it is consumed or expires, unless the handler that
\* held it died.
OncePerPrompt ==
  \A p \in Prompts :
    /\ made[p] <= 1 + budget.lost
    /\ prompt[p].at = "taken" => \E u \in Updates : input[u].prompt = p /\ job[u].holds

\* Nothing is saved for a prompt that was open when the user cancelled.
CancelHolds ==
  [][\A p \in Prompts : made'[p] # made[p] => p \notin void]_vars

\* Settings of a group that is not approved any more do not change from a chat, however
\* long ago the handler checked.
SettingsOfApproved ==
  [][/\ \A p \in Prompts :
          (made'[p] # made[p] /\ prompt[p].section = "setting") => approved
     /\ writer' # 0 /\ writer' # writer => approved]_vars

\* "This action opens explicit choices, preventing retries from toggling twice": a press
\* that is run again changes nothing, and an older press never undoes a newer one.
PressIsExact ==
  [][writer # 0 /\ writer' # 0 =>
       /\ writer' = writer => option' = option
       /\ writer' >= writer]_vars
=============================================================================
