------------------------------ MODULE GroupInputProofs ------------------------------
(***************************************************************************)
(* Theorems about GroupInput, for any number of updates, prompts, failures  *)
(* and moves: its types, that a prompt is used once, that /cancel holds,    *)
(* that a group that is not approved keeps its settings, and that presses   *)
(* that are run again change nothing.                                       *)
(***************************************************************************)
EXTENDS GroupInput, TLAPS

-----------------------------------------------------------------------------
(* The inductive invariant.                                                *)

Open == {"queued", "started"}

\* One handler runs at a time, for the oldest update that is not settled.
LineInv ==
  \A u \in Updates :
    /\ job[u].at # "idle" => line[u] = "started"
    /\ line[u] = "started" => \A v \in Updates : v < u => line[v] \notin Open
    /\ job[u].at # "idle" => input[u] # NoInput
    /\ input[u].kind \in {"reply", "drop"} => input[u].prompt \in Prompts

\* Who holds a prompt has taken it, and what is taken is held.
HoldInv ==
  /\ \A u \in Updates :
       /\ job[u].holds => /\ input[u].kind \in {"reply", "drop"}
                          /\ prompt[input[u].prompt].at = "taken"
                          /\ job[u].at \in {"taken", "checked", "answering"}
       /\ job[u].at = "taken" => job[u].holds
       /\ job[u].at = "checked" => job[u].holds \/ input[u].kind \in {"open", "set"}
  /\ \A p \in Prompts : prompt[p].at = "taken" =>
       \E u \in Updates : input[u].prompt = p /\ job[u].holds

\* What is in Redis or held was saved only by commits whose answer was lost.
MadeInv ==
  \A p \in Prompts : made[p] <= budget.lost + IF prompt[p].at = "used" THEN 1 ELSE 0

\* Prompts that were cancelled are of an earlier generation, and nobody goes on with one.
VoidInv ==
  /\ \A p \in Prompts : prompt[p].gen <= gen
  /\ \A p \in void : prompt[p].at # "none" /\ prompt[p].gen < gen
  /\ \A u \in Updates :
       job[u].at = "checked" /\ input[u].kind = "reply" => input[u].prompt \notin void

\* The last press set what it says, and older ones are over.
WriterInv ==
  writer # 0 =>
    /\ line[writer] \in Open => input[writer] # NoInput /\ option = input[writer].value
    /\ \A v \in Updates : v < writer => line[v] \notin Open

InputInv == TypeOK /\ LineInv /\ HoldInv /\ MadeInv /\ VoidInv /\ WriterInv

-----------------------------------------------------------------------------
(* Types.                                                                  *)

LEMMA ValueTypes ==
  /\ NoInput \in Input /\ NoInput.kind = "none"
  /\ NoJob \in Job /\ NoJob.at = "idle" /\ NoJob.holds = FALSE
  /\ Unsent \in Prompt /\ Used \in Prompt /\ Used.at = "used" /\ Used.gen = 0
<1>1. NoInput \in Input /\ NoInput.kind = "none"
  BY DEF NoInput, Input, NoPrompt
<1>2. NoJob \in Job /\ NoJob.at = "idle" /\ NoJob.holds = FALSE
  BY DEF NoJob, Job
<1>3. MaxCancels \in Nat
  BY GroupInputAssumption
<1>4. Unsent \in Prompt
  BY <1>3 DEF Unsent, Prompt
<1>5. Used \in Prompt /\ Used.at = "used" /\ Used.gen = 0
  <2>1. \A t \in Prompt : /\ [t EXCEPT !.at = "used"] \in Prompt
                          /\ [t EXCEPT !.at = "used"].at = "used"
                          /\ [t EXCEPT !.at = "used"].gen = t.gen
    BY DEF Prompt
  <2>2. Unsent.gen = 0
    BY DEF Unsent
  <2>. QED BY <1>4, <2>1, <2>2 DEF Used
<1>. QED BY <1>1, <1>2, <1>4, <1>5

\* What a step may do to a job, a prompt and the bounds.
LEMMA JobTypes ==
  ASSUME TypeOK, NEW u \in Updates,
         NEW at \in {"idle", "begun", "taken", "checked", "answering", "over", "failed"}
  PROVE  /\ Goes(u, at) =>
              /\ job' \in [Updates -> Job] /\ job'[u].at = at /\ job'[u].holds = job[u].holds
              /\ \A v \in Updates \ {u} : job'[v] = job[v]
         /\ Consumed(u, at) =>
              /\ job' \in [Updates -> Job] /\ job'[u].at = at /\ job'[u].holds = FALSE
              /\ \A v \in Updates \ {u} : job'[v] = job[v]
<1>0. job \in [Updates -> Job] /\ job[u] \in Job
  BY DEF TypeOK
<1>1. ASSUME Goes(u, at)
      PROVE  /\ job' \in [Updates -> Job] /\ job'[u].at = at /\ job'[u].holds = job[u].holds
             /\ \A v \in Updates \ {u} : job'[v] = job[v]
  <2>1. [job[u] EXCEPT !.at = at] \in Job
    BY <1>0 DEF Job
  <2>2. /\ [job[u] EXCEPT !.at = at].at = at
        /\ [job[u] EXCEPT !.at = at].holds = job[u].holds
    BY <1>0 DEF Job
  <2>3. job' = [job EXCEPT ![u] = [job[u] EXCEPT !.at = at]]
    BY <1>1 DEF Goes
  <2>. QED BY <1>0, <2>1, <2>2, <2>3, Zenon
<1>2. ASSUME Consumed(u, at)
      PROVE  /\ job' \in [Updates -> Job] /\ job'[u].at = at /\ job'[u].holds = FALSE
             /\ \A v \in Updates \ {u} : job'[v] = job[v]
  <2>1. [at |-> at, holds |-> FALSE] \in Job
    BY DEF Job
  <2>2. job' = [job EXCEPT ![u] = [at |-> at, holds |-> FALSE]]
    BY <1>2 DEF Consumed
  <2>. QED BY <1>0, <2>1, <2>2
<1>. QED BY <1>1, <1>2

LEMMA BudgetTypes ==
  ASSUME TypeOK
  PROVE  LET B == [faults : 0..MaxFaults, lost : 0..MaxLost, moves : 0..MaxMoves] IN
         /\ Spends("faults", MaxFaults) => budget' \in B /\ budget'.lost = budget.lost
         /\ Spends("lost", MaxLost) => budget' \in B /\ budget'.lost = budget.lost + 1
         /\ Spends("moves", MaxMoves) => budget' \in B /\ budget'.lost = budget.lost
BY GroupInputAssumption DEF TypeOK, Spends

LEMMA PromptTypes ==
  ASSUME TypeOK
  PROVE  /\ \A p \in Prompts : Uses(p) => prompt' \in [Prompts -> Prompt]
         /\ \A p \in Prompts : \A section \in {"setting", "words", "content"} :
              Sends(p, section) => prompt' \in [Prompts -> Prompt]
         /\ \A u \in Updates : Restored(u) => prompt' \in [Prompts -> Prompt]
<1>1. \A p \in Prompts : Uses(p) => prompt' \in [Prompts -> Prompt]
  BY ValueTypes DEF TypeOK, Uses
<1>2. \A p \in Prompts : \A section \in {"setting", "words", "content"} :
        Sends(p, section) => prompt' \in [Prompts -> Prompt]
  BY DEF TypeOK, Sends, PromptGeneration, Prompt
<1>3. ASSUME NEW u \in Updates, Restored(u)
      PROVE  prompt' \in [Prompts -> Prompt]
  <2>1. CASE job[u].holds
    BY <1>3, <2>1, ValueTypes DEF TypeOK, Restored, Kept, Prompt
  <2>2. CASE ~job[u].holds
    BY <1>3, <2>2 DEF TypeOK, Restored
  <2>. QED BY <2>1, <2>2
<1>. QED BY <1>1, <1>2, <1>3

\* The line of the updates.
LEMMA LineTypes ==
  ASSUME TypeOK, NEW u \in Updates
  PROVE  /\ D!Start(u) =>
              /\ line[u] = "queued" /\ line' = [line EXCEPT ![u] = "started"]
              /\ \A v \in Updates : v < u => line[v] \notin Open
              /\ UNCHANGED handled
         /\ D!Postpone(u) => line' = [line EXCEPT ![u] = "queued"] /\ UNCHANGED handled
         /\ D!Complete(u) => line' = [line EXCEPT ![u] = "done"] /\ UNCHANGED handled
         /\ D!Abandon(u) => line' = [line EXCEPT ![u] = "dead"] /\ UNCHANGED handled
         /\ D!Handle(u) => handled' \subseteq Updates /\ UNCHANGED line
         /\ {"queued", "started", "done", "dead"} \subseteq D!States
BY DEF TypeOK, D!Start, D!Move, D!Older, D!Postpone, D!Complete, D!Abandon, D!Handle,
       D!States, Open

\* The part of a step that is about one update.
HandlerStep(u) ==
  \/ Begins(u) \/ Settles(u) \/ Postpones(u)
  \/ Answers(u) \/ Fails(u) \/ Dies(u)
  \/ PressChecks(u) \/ PressOpens(u) \/ PressSets(u)
  \/ ReplyTakes(u) \/ ReplyChecks(u) \/ ReplySaves(u) \/ ReplyAsksNext(u) \/ ReplyRefused(u)
  \/ CancelSets(u)

LEMMA StepCases ==
  ASSUME Next
  PROVE  \/ \E u \in Updates : HandlerStep(u)
         \/ \E p \in Prompts : Expires(p)
         \/ Moves
BY DEF Next, HandlerStep

LEMMA TypeStep ==
  ASSUME TypeOK, NEW u \in Updates, HandlerStep(u)
  PROVE  TypeOK'
<1>. USE ValueTypes DEF world, history, deliveryVars
<1>1. CASE Begins(u)
  <2>1. PICK i \in Input : input' = [input EXCEPT ![u] = i]
    BY <1>1 DEF Begins
  <2>2. input' \in [Updates -> Input]
    BY <2>1 DEF TypeOK
  <2>3. line' \in [Updates -> D!States] /\ handled' = handled
    BY <1>1, LineTypes DEF Begins, TypeOK
  <2>. QED BY <1>1, <2>2, <2>3, JobTypes DEF Begins, TypeOK
<1>2. CASE Settles(u) \/ Postpones(u)
  <2>1. line' \in [Updates -> D!States] /\ handled' = handled
    BY <1>2, LineTypes DEF Settles, Postpones, TypeOK
  <2>2. input' \in [Updates -> Input]
    BY <1>2 DEF Settles, Postpones, Forgotten, TypeOK
  <2>3. job' \in [Updates -> Job]
    BY <1>2 DEF Settles, Postpones, TypeOK
  <2>4. budget' \in [faults : 0..MaxFaults, lost : 0..MaxLost, moves : 0..MaxMoves]
    BY <1>2, BudgetTypes DEF Settles, Postpones, TypeOK
  <2>. QED BY <1>2, <2>1, <2>2, <2>3, <2>4 DEF Settles, Postpones, TypeOK
<1>3. CASE Answers(u)
  <2>1. job' \in [Updates -> Job] /\ handled' \subseteq Updates /\ UNCHANGED line
    BY <1>3, LineTypes DEF Answers, Over, TypeOK, Job
  <2>. QED BY <1>3, <2>1, PromptTypes DEF Answers, TypeOK
<1>4. CASE Fails(u)
  BY <1>4, JobTypes, PromptTypes, BudgetTypes DEF Fails, TypeOK
<1>5. CASE Dies(u)
  <2>1. line' \in [Updates -> D!States] /\ handled' = handled
    BY <1>5, LineTypes DEF Dies, TypeOK
  <2>2. prompt' \in [Prompts -> Prompt]
    BY <1>5 DEF Dies, TypeOK
  <2>3. job' \in [Updates -> Job]
    BY <1>5 DEF Dies, TypeOK
  <2>. QED BY <1>5, <2>1, <2>2, <2>3, BudgetTypes DEF Dies, TypeOK
<1>6. CASE PressChecks(u)
  BY <1>6, JobTypes DEF PressChecks, TypeOK
<1>7. CASE PressOpens(u)
  <2>1. job' \in [Updates -> Job] /\ handled' \subseteq Updates /\ UNCHANGED line
    BY <1>7, LineTypes DEF PressOpens, Over, TypeOK, Job
  <2>2. PICK p \in Prompts : Sends(p, IF input[u].value THEN "words" ELSE "setting")
    BY <1>7 DEF PressOpens
  <2>3. prompt' \in [Prompts -> Prompt]
    BY <2>2, PromptTypes
  <2>. QED BY <1>7, <2>1, <2>3 DEF PressOpens, TypeOK
<1>8. CASE PressSets(u)
  <2>1. job' \in [Updates -> Job]
    BY <1>8, JobTypes DEF PressSets
  <2>2. budget' \in [faults : 0..MaxFaults, lost : 0..MaxLost, moves : 0..MaxMoves]
    BY <1>8, BudgetTypes DEF PressSets, TypeOK
  <2>3. option' \in BOOLEAN /\ writer' \in Updates \cup {0}
    BY <1>8 DEF PressSets, Target, TypeOK, Input
  <2>. QED BY <1>8, <2>1, <2>2, <2>3 DEF PressSets, TypeOK
<1>9. CASE ReplyTakes(u)
  <2>1. job' \in [Updates -> Job]
    <3>1. [at |-> "taken", holds |-> TRUE] \in Job
      BY DEF Job
    <3>2. \/ job' = [job EXCEPT ![u] = [at |-> "taken", holds |-> TRUE]]
          \/ Goes(u, "answering")
      BY <1>9 DEF ReplyTakes
    <3>. QED BY <3>1, <3>2, JobTypes DEF TypeOK
  <2>2. prompt' \in [Prompts -> Prompt]
    BY <1>9 DEF ReplyTakes, TypeOK, Prompt
  <2>. QED BY <1>9, <2>1, <2>2 DEF ReplyTakes, TypeOK
<1>10. CASE ReplyChecks(u)
  <2>1. job' \in [Updates -> Job]
    BY <1>10, JobTypes DEF ReplyChecks
  <2>2. prompt' \in [Prompts -> Prompt]
    BY <1>10 DEF ReplyChecks, Uses, TypeOK
  <2>. QED BY <1>10, <2>1, <2>2 DEF ReplyChecks, TypeOK
<1>11. CASE ReplySaves(u)
  <2>1. job' \in [Updates -> Job]
    <3>1. [at |-> "answering", holds |-> FALSE] \in Job
      BY DEF Job
    <3>2. \/ job' = [job EXCEPT ![u] = [at |-> "answering", holds |-> FALSE]]
          \/ Goes(u, "answering") \/ Consumed(u, "answering")
      BY <1>11 DEF ReplySaves, HoldsAfterSave
    <3>. QED BY <3>1, <3>2, JobTypes DEF TypeOK
  <2>2. prompt' \in [Prompts -> Prompt]
    BY <1>11 DEF ReplySaves, Uses, TypeOK
  <2>3. made' \in [Prompts -> Nat]
    BY <1>11 DEF ReplySaves, Saved, TypeOK
  <2>4. budget' \in [faults : 0..MaxFaults, lost : 0..MaxLost, moves : 0..MaxMoves]
    BY <1>11, BudgetTypes DEF ReplySaves, TypeOK
  <2>. QED BY <1>11, <2>1, <2>2, <2>3, <2>4 DEF ReplySaves, TypeOK
<1>12. CASE ReplyAsksNext(u)
  <2>1. job' \in [Updates -> Job] /\ handled' \subseteq Updates /\ UNCHANGED line
    BY <1>12, LineTypes DEF ReplyAsksNext, Over, TypeOK, Job
  <2>2. PICK q \in Prompts : prompt' = [prompt EXCEPT ![input[u].prompt] = Used, ![q] =
          [at |-> "live", section |-> "content", gen |-> PromptGeneration, late |-> FALSE]]
    BY <1>12, Zenon DEF ReplyAsksNext
  <2>3. [at |-> "live", section |-> "content", gen |-> gen, late |-> FALSE] \in Prompt
    BY DEF TypeOK, Prompt
  <2>4. prompt' \in [Prompts -> Prompt]
    BY <2>2, <2>3 DEF PromptGeneration, TypeOK
  <2>. QED BY <1>12, <2>1, <2>4 DEF ReplyAsksNext, TypeOK
<1>13. CASE ReplyRefused(u)
  BY <1>13, JobTypes DEF ReplyRefused, TypeOK
<1>14. CASE CancelSets(u)
  <2>1. gen' \in 0..MaxCancels /\ void' \subseteq Prompts
    BY <1>14, GroupInputAssumption DEF CancelSets, TypeOK
  <2>. QED BY <1>14, <2>1, JobTypes DEF CancelSets, TypeOK
<1>. QED
  BY <1>1, <1>2, <1>3, <1>4, <1>5, <1>6, <1>7, <1>8, <1>9, <1>10, <1>11, <1>12, <1>13, <1>14
     DEF HandlerStep

LEMMA WorldType ==
  ASSUME TypeOK, Moves \/ \E p \in Prompts : Expires(p)
  PROVE  TypeOK'
<1>. USE ValueTypes DEF world, history, deliveryVars
<1>1. CASE Moves
  <2>1. budget' \in [faults : 0..MaxFaults, lost : 0..MaxLost, moves : 0..MaxMoves]
    BY <1>1, BudgetTypes DEF Moves
  <2>2. admin' \in BOOLEAN /\ approved' \in BOOLEAN /\ option' \in BOOLEAN
    BY <1>1, Zenon DEF Moves, TypeOK
  <2>3. writer' \in Updates \cup {0}
    BY <1>1 DEF Moves, TypeOK
  <2>. QED BY <1>1, <2>1, <2>2, <2>3 DEF Moves, TypeOK
<1>2. ASSUME NEW p \in Prompts, Expires(p)
      PROVE  TypeOK'
  <2>1. prompt' \in [Prompts -> Prompt]
    <3>1. prompt[p] \in Prompt
      BY DEF TypeOK
    <3>2. [prompt[p] EXCEPT !.late = TRUE] \in Prompt
      BY <3>1 DEF Prompt
    <3>. QED BY <1>2, <3>2 DEF Expires, TypeOK
  <2>. QED BY <1>2, <2>1 DEF Expires, TypeOK
<1>. QED BY <1>1, <1>2

-----------------------------------------------------------------------------
(* The line.                                                               *)

\* While a handler runs, every other update has none, and no older one is open.
LEMMA OnlyOne ==
  ASSUME TypeOK, LineInv, NEW u \in Updates, job[u].at # "idle"
  PROVE  /\ line[u] = "started"
         /\ \A v \in Updates \ {u} :
              job[v].at = "idle" /\ line[v] # "started" /\ (v < u => line[v] \notin Open)
<1>1. line[u] = "started"
  BY DEF LineInv
<1>2. \A v \in Updates : v < u => line[v] \notin Open
  BY <1>1 DEF LineInv
<1>3. ASSUME NEW v \in Updates \ {u}
      PROVE  line[v] # "started"
  <2>1. CASE v < u
    BY <1>2, <2>1 DEF Open
  <2>2. CASE u < v
    BY <1>1, <2>2 DEF LineInv, Open
  <2>. QED BY <2>1, <2>2, GroupInputAssumption
<1>4. \A v \in Updates \ {u} : job[v].at = "idle"
  BY <1>3 DEF LineInv
<1>. QED BY <1>1, <1>2, <1>3, <1>4

\* What the handler of u may do to the line, its job and its input.
Proceeds(u) ==
  /\ job[u].at # "idle"
  /\ UNCHANGED <<line, input>>
  /\ job' \in [Updates -> Job] /\ \A v \in Updates \ {u} : job'[v] = job[v]

Leaves(u) ==
  /\ job[u].at # "idle"
  /\ job' = [job EXCEPT ![u] = NoJob]
  /\ \/ line' = [line EXCEPT ![u] = "queued"] /\ UNCHANGED input
     \/ /\ \E over \in {"done", "dead"} : line' = [line EXCEPT ![u] = over]
        /\ Forgotten(u)

LEMMA LineCases ==
  ASSUME TypeOK, NEW u \in Updates, HandlerStep(u)
  PROVE  Begins(u) \/ Proceeds(u) \/ Leaves(u)
<1>. USE DEF deliveryVars
<1>0. \A v \in Updates : job[v] \in Job
  BY DEF TypeOK
<1>1. CASE Begins(u)
  BY <1>1
<1>2. CASE Settles(u) \/ Postpones(u) \/ Dies(u)
  <2>1. Leaves(u)
    BY <1>2, LineTypes DEF Settles, Postpones, Dies, Leaves
  <2>. QED BY <2>1
<1>3. CASE Answers(u) \/ PressOpens(u) \/ ReplyAsksNext(u)
  <2>1. Over(u) /\ job[u].at # "idle" /\ UNCHANGED input
    BY <1>3 DEF Answers, PressOpens, ReplyAsksNext
  <2>2. [at |-> "over", holds |-> FALSE] \in Job
    BY DEF Job
  <2>3. Proceeds(u)
    BY <2>1, <2>2, LineTypes DEF Over, Proceeds, TypeOK
  <2>. QED BY <2>3
<1>4. CASE Fails(u) \/ PressChecks(u) \/ PressSets(u) \/ ReplyChecks(u) \/ ReplyRefused(u)
           \/ CancelSets(u)
  <2>1. /\ job[u].at # "idle" /\ UNCHANGED <<line, input>>
        /\ \E at \in {"checked", "answering", "failed"} : Goes(u, at) \/ Consumed(u, at)
    BY <1>4 DEF Fails, PressChecks, PressSets, ReplyChecks, ReplyRefused, CancelSets
  <2>2. Proceeds(u)
    BY <2>1, JobTypes DEF Proceeds
  <2>. QED BY <2>2
<1>5. CASE ReplyTakes(u) \/ ReplySaves(u)
  <2>1. job[u].at # "idle" /\ UNCHANGED <<line, input>>
    BY <1>5 DEF ReplyTakes, ReplySaves
  <2>2. \/ Goes(u, "answering") \/ Consumed(u, "answering")
        \/ job' = [job EXCEPT ![u] = [at |-> "taken", holds |-> TRUE]]
        \/ job' = [job EXCEPT ![u] = [at |-> "answering", holds |-> FALSE]]
    BY <1>5 DEF ReplyTakes, ReplySaves, HoldsAfterSave
  <2>3. [at |-> "taken", holds |-> TRUE] \in Job /\ [at |-> "answering", holds |-> FALSE] \in Job
    BY DEF Job
  <2>4. Proceeds(u)
    BY <2>1, <2>2, <2>3, JobTypes DEF Proceeds, TypeOK
  <2>. QED BY <2>4
<1>. QED
  BY <1>1, <1>2, <1>3, <1>4, <1>5 DEF HandlerStep

\* What is known of the input of an update whose handler begins.
LEMMA BeginsWith ==
  ASSUME TypeOK, LineInv, NEW u \in Updates, Begins(u)
  PROVE  /\ line[u] = "queued" /\ job[u].at = "idle"
         /\ line' = [line EXCEPT ![u] = "started"]
         /\ \A v \in Updates : v < u => line[v] \notin Open
         /\ \A v \in Updates : line[v] # "started"
         /\ job' \in [Updates -> Job] /\ job'[u].at = "begun" /\ job'[u].holds = job[u].holds
         /\ \A v \in Updates \ {u} : job'[v] = job[v] /\ input'[v] = input[v]
         /\ input'[u] # NoInput /\ (input[u] # NoInput => input'[u] = input[u])
         /\ input'[u].kind \in {"reply", "drop"} => input'[u].prompt \in Prompts
<1>1. /\ line[u] = "queued" /\ job[u].at = "idle"
      /\ line' = [line EXCEPT ![u] = "started"]
      /\ \A v \in Updates : v < u => line[v] \notin Open
  BY LineTypes DEF Begins
<1>2. ASSUME NEW v \in Updates, line[v] = "started"
      PROVE  FALSE
  <2>1. ~(v < u)
    BY <1>1, <1>2 DEF Open
  <2>2. ~(u < v)
    BY <1>1, <1>2 DEF LineInv, Open
  <2>3. u # v
    BY <1>1, <1>2
  <2>. QED BY <2>1, <2>2, <2>3, GroupInputAssumption
<1>3. PICK i \in Input : Chosen(u, i) /\ input' = [input EXCEPT ![u] = i]
  BY DEF Begins
<1>4. input'[u] = i /\ \A v \in Updates \ {u} : input'[v] = input[v]
  BY <1>3 DEF TypeOK
<1>5. /\ i # NoInput /\ (input[u] # NoInput => i = input[u])
      /\ i.kind \in {"reply", "drop"} => i.prompt \in Prompts
  <2>1. CASE input[u] # NoInput
    BY <1>3, <2>1 DEF Chosen, LineInv
  <2>2. CASE input[u] = NoInput
    BY <1>3, <2>2, ValueTypes DEF Chosen, Input
  <2>. QED BY <2>1, <2>2
<1>6. Goes(u, "begun")
  BY DEF Begins
<1>7. /\ job' \in [Updates -> Job] /\ job'[u].at = "begun" /\ job'[u].holds = job[u].holds
      /\ \A v \in Updates \ {u} : job'[v] = job[v]
  BY <1>6, JobTypes
<1>. QED BY <1>1, <1>2, <1>4, <1>5, <1>7

LEMMA LineStep ==
  ASSUME TypeOK, LineInv, NEW u \in Updates, HandlerStep(u)
  PROVE  LineInv'
<1>0. line \in [Updates -> D!States] /\ input \in [Updates -> Input] /\ job \in [Updates -> Job]
  BY DEF TypeOK
<1>1. CASE Begins(u)
  BY <1>0, <1>1, BeginsWith DEF LineInv, Open
<1>2. CASE Proceeds(u)
  BY <1>2, OnlyOne DEF Proceeds, LineInv
<1>3. CASE Leaves(u)
  <2>1. line[u] = "started" /\ \A v \in Updates \ {u} : job[v].at = "idle" /\ line[v] # "started"
    BY <1>3, OnlyOne DEF Leaves
  <2>2. \A v \in Updates : job'[v].at = "idle"
    BY <1>0, <1>3, <2>1, ValueTypes DEF Leaves
  <2>3. \A v \in Updates : line'[v] # "started"
    BY <1>0, <1>3, <2>1 DEF Leaves
  <2>4. \A v \in Updates : input'[v] = input[v] \/ input'[v] = NoInput
    BY <1>0, <1>3 DEF Leaves, Forgotten
  <2>. QED BY <2>2, <2>3, <2>4, ValueTypes DEF LineInv
<1>. QED BY <1>1, <1>2, <1>3, LineCases

-----------------------------------------------------------------------------
(* Who holds what.                                                         *)

\* Nobody holds a prompt who has no handler; what is taken is held by the only handler.
LEMMA OnlyHolder ==
  ASSUME TypeOK, LineInv, HoldInv, NEW u \in Updates, job[u].at # "idle"
  PROVE  /\ \A v \in Updates \ {u} : job[v].at = "idle" /\ ~job[v].holds
         /\ \A p \in Prompts : prompt[p].at = "taken" => job[u].holds /\ input[u].prompt = p
<1>1. \A v \in Updates \ {u} : job[v].at = "idle" /\ ~job[v].holds
  BY OnlyOne DEF HoldInv
<1>. QED BY <1>1 DEF HoldInv

\* The handler keeps what it holds, and no prompt is touched that is taken.
LEMMA HoldKept ==
  ASSUME TypeOK, LineInv, HoldInv, NEW u \in Updates, Proceeds(u),
         job'[u].holds = job[u].holds, job'[u].at \in {"checked", "answering"},
         job'[u].at = "checked" => job[u].holds \/ input[u].kind \in {"open", "set"},
         UNCHANGED prompt
  PROVE  HoldInv'
BY OnlyHolder DEF Proceeds, HoldInv

\* The handler holds nothing any more, and nothing is taken.
LEMMA HoldEnds ==
  ASSUME TypeOK, LineInv, HoldInv, NEW u \in Updates, job[u].at # "idle",
         job'[u].at \in {"idle", "over", "failed", "answering"}, job'[u].holds = FALSE,
         \A v \in Updates \ {u} : job'[v] = job[v],
         \A p \in Prompts : prompt'[p].at # "taken"
  PROVE  HoldInv'
BY OnlyHolder DEF HoldInv

\* Putting the prompt back leaves none taken.
LEMMA RestoredNone ==
  ASSUME TypeOK, LineInv, HoldInv, NEW u \in Updates, job[u].at # "idle", Restored(u)
  PROVE  /\ \A p \in Prompts : prompt'[p].at # "taken"
         /\ \A p \in Prompts : /\ prompt'[p] # prompt[p] => prompt[p].at = "taken"
                               /\ prompt'[p].gen \in {0, prompt[p].gen}
                               /\ prompt'[p].at = "none" => prompt[p].at = "none"
                               /\ prompt[p].at = "used" => prompt'[p].at = "used"
<1>1. CASE job[u].holds
  <2>1. PICK q \in Prompts : q = input[u].prompt /\ prompt[q].at = "taken"
    BY <1>1 DEF HoldInv, LineInv
  <2>2. \A p \in Prompts \ {q} : prompt[p].at # "taken"
    BY <2>1, OnlyHolder
  <2>3. prompt' = [prompt EXCEPT ![q] =
          IF prompt[q].late THEN Used ELSE [prompt[q] EXCEPT !.at = "live"]]
    BY <1>1, <2>1 DEF Restored, Kept
  <2>4. \A p \in Prompts \ {q} : prompt'[p] = prompt[p]
    BY <2>3 DEF TypeOK
  <2>5. prompt[q] \in Prompt
    BY DEF TypeOK
  <2>6. /\ [prompt[q] EXCEPT !.at = "live"].at = "live"
        /\ [prompt[q] EXCEPT !.at = "live"].gen = prompt[q].gen
    BY <2>5 DEF Prompt
  <2>7. prompt'[q] \in {Used, [prompt[q] EXCEPT !.at = "live"]}
    BY <2>3 DEF TypeOK
  <2>8. prompt'[q].at \in {"used", "live"} /\ prompt'[q].gen \in {0, prompt[q].gen}
    BY <2>6, <2>7, ValueTypes
  <2>. QED BY <2>1, <2>2, <2>4, <2>8
<1>2. CASE ~job[u].holds
  <2>1. UNCHANGED prompt
    BY <1>2 DEF Restored
  <2>. QED BY <1>2, <2>1, OnlyHolder
<1>. QED BY <1>1, <1>2

LEMMA HoldStep ==
  ASSUME TypeOK, LineInv, HoldInv, NEW u \in Updates, HandlerStep(u)
  PROVE  HoldInv'
<1>. USE DEF deliveryVars
<1>0. /\ job \in [Updates -> Job] /\ prompt \in [Prompts -> Prompt]
      /\ \A v \in Updates : job[v] \in Job
  BY DEF TypeOK
<1>1. CASE Begins(u)
  <2>1. job[u].at = "idle" /\ ~job[u].holds
    BY <1>1, BeginsWith DEF HoldInv
  <2>2. UNCHANGED prompt
    BY <1>1 DEF Begins
  <2>3. \A v \in Updates : job'[v].holds = job[v].holds
    BY <1>1, BeginsWith
  <2>4. \A v \in Updates : job[v].holds => input'[v] = input[v] /\ job'[v] = job[v]
    BY <1>1, <2>1, BeginsWith
  <2>5. ASSUME NEW p \in Prompts, prompt'[p].at = "taken"
        PROVE  \E v \in Updates : input'[v].prompt = p /\ job'[v].holds
    <3>1. PICK v \in Updates : input[v].prompt = p /\ job[v].holds
      BY <2>2, <2>5 DEF HoldInv
    <3>. QED BY <3>1, <2>4
  <2>6. ASSUME NEW v \in Updates \ {u}
        PROVE  job'[v] = job[v] /\ input'[v] = input[v]
    BY <1>1, BeginsWith
  <2>7. job'[u].at = "begun" /\ ~job'[u].holds
    BY <1>1, <2>1, BeginsWith
  <2>. QED BY <2>2, <2>5, <2>6, <2>7 DEF HoldInv
<1>2. CASE Settles(u) \/ Postpones(u)
  <2>1. /\ job[u].at \in {"over", "failed"} /\ job' = [job EXCEPT ![u] = NoJob]
        /\ UNCHANGED prompt
    BY <1>2 DEF Settles, Postpones
  <2>2. ~job[u].holds
    BY <2>1 DEF HoldInv
  <2>3. \A p \in Prompts : prompt'[p].at # "taken"
    BY <2>1, <2>2, OnlyHolder
  <2>. QED BY <1>0, <2>1, <2>3, HoldEnds, ValueTypes
<1>3. CASE Dies(u)
  <2>1. job[u].at # "idle" /\ job' = [job EXCEPT ![u] = NoJob]
    BY <1>3 DEF Dies
  <2>2. \A p \in Prompts : prompt'[p].at # "taken"
    BY <1>0, <1>3, <2>1, OnlyHolder, ValueTypes DEF Dies
  <2>. QED BY <1>0, <2>1, <2>2, HoldEnds, ValueTypes
<1>4. CASE Answers(u)
  <2>1. job[u].at = "answering" /\ job' = [job EXCEPT ![u] = [at |-> "over", holds |-> FALSE]]
    BY <1>4 DEF Answers, Over
  <2>2. \A p \in Prompts : prompt'[p].at # "taken"
    BY <1>4, <2>1, RestoredNone DEF Answers
  <2>. QED BY <1>0, <2>1, <2>2, HoldEnds
<1>5. CASE Fails(u)
  <2>1. job[u].at # "idle" /\ Consumed(u, "failed")
    BY <1>5 DEF Fails
  <2>2. \A p \in Prompts : prompt'[p].at # "taken"
    BY <1>5, <2>1, RestoredNone DEF Fails
  <2>. QED BY <2>1, <2>2, HoldEnds, JobTypes
<1>6. CASE PressChecks(u) \/ PressSets(u) \/ ReplyRefused(u) \/ CancelSets(u)
  <2>1. job[u].at \in {"begun", "checked"} /\ UNCHANGED <<line, input, prompt>>
    BY <1>6 DEF PressChecks, PressSets, ReplyRefused, CancelSets
  <2>2. CASE Goes(u, "answering")
    <3>1. Proceeds(u)
      BY <2>1, <2>2, JobTypes DEF Proceeds
    <3>. QED BY <2>1, <2>2, <3>1, JobTypes, HoldKept
  <2>3. CASE Goes(u, "checked") /\ PressChecks(u)
    <3>1. Proceeds(u)
      BY <2>1, <2>3, JobTypes DEF Proceeds
    <3>. QED BY <2>1, <2>3, <3>1, JobTypes, HoldKept DEF PressChecks
  <2>4. CASE Goes(u, "failed") /\ PressSets(u)
    <3>1. ~job[u].holds
      BY <2>4 DEF PressSets, HoldInv
    <3>2. \A p \in Prompts : prompt'[p].at # "taken"
      BY <2>1, <3>1, OnlyHolder
    <3>3. job'[u].holds = FALSE
      BY <1>0, <2>4, <3>1, JobTypes DEF Job
    <3>. QED BY <2>1, <2>4, <3>2, <3>3, JobTypes, HoldEnds
  <2>. QED
    BY <1>6, <2>2, <2>3, <2>4 DEF PressChecks, PressSets, ReplyRefused, CancelSets
<1>7. CASE PressOpens(u)
  <2>1. /\ job[u].at = "checked" /\ input[u].kind = "open"
        /\ job' = [job EXCEPT ![u] = [at |-> "over", holds |-> FALSE]]
    BY <1>7 DEF PressOpens, Over
  <2>2. ~job[u].holds
    BY <2>1 DEF HoldInv
  <2>3. PICK p \in Prompts : \E section \in {"words", "setting"} : Sends(p, section)
    BY <1>7 DEF PressOpens
  <2>4. \A q \in Prompts : prompt'[q].at # "taken"
    BY <1>0, <2>1, <2>2, <2>3, OnlyHolder DEF Sends
  <2>. QED BY <1>0, <2>1, <2>4, HoldEnds
<1>8. CASE ReplyTakes(u)
  <2>1. job[u].at = "begun" /\ UNCHANGED <<line, input>>
    BY <1>8 DEF ReplyTakes
  <2>2. PICK q \in Prompts : q = input[u].prompt
    BY <1>8 DEF ReplyTakes, LineInv
  <2>3. CASE prompt[q].at = "live"
    <3>1. /\ prompt' = [prompt EXCEPT ![q] = [prompt[q] EXCEPT !.at = "taken"]]
          /\ job' = [job EXCEPT ![u] = [at |-> "taken", holds |-> TRUE]]
      BY <1>8, <2>2, <2>3 DEF ReplyTakes
    <3>2. [prompt[q] EXCEPT !.at = "taken"].at = "taken"
      BY <1>0 DEF Prompt
    <3>3. prompt'[q].at = "taken" /\ \A p \in Prompts \ {q} : prompt'[p] = prompt[p]
      BY <1>0, <3>1, <3>2
    <3>4. ~job[u].holds
      BY <2>1 DEF HoldInv
    <3>5. \A p \in Prompts \ {q} : prompt'[p].at # "taken"
      BY <2>1, <3>3, <3>4, OnlyHolder
    <3>6. job'[u].at = "taken" /\ job'[u].holds /\ \A v \in Updates \ {u} : job'[v] = job[v]
      BY <1>0, <3>1
    <3>7. \A v \in Updates \ {u} : job'[v].at = "idle" /\ ~job'[v].holds
      BY <2>1, <3>6, OnlyHolder
    <3>8. input'[u].kind \in {"reply", "drop"} /\ input'[u].prompt = q
      BY <1>8, <2>2 DEF ReplyTakes
    <3>. QED BY <3>3, <3>5, <3>6, <3>7, <3>8 DEF HoldInv
  <2>4. CASE prompt[q].at # "live"
    <3>1. Goes(u, "answering") /\ UNCHANGED prompt
      BY <1>8, <2>2, <2>4 DEF ReplyTakes
    <3>2. Proceeds(u)
      BY <2>1, <3>1, JobTypes DEF Proceeds
    <3>. QED BY <3>1, <3>2, JobTypes, HoldKept
  <2>. QED BY <2>3, <2>4
<1>9. CASE ReplyChecks(u)
  <2>1. job[u].at = "taken" /\ job[u].holds /\ UNCHANGED <<line, input>>
    BY <1>9 DEF ReplyChecks, HoldInv
  <2>2. CASE Goes(u, "checked") /\ UNCHANGED prompt
    <3>1. Proceeds(u)
      BY <2>1, <2>2, JobTypes DEF Proceeds
    <3>. QED BY <2>1, <2>2, <3>1, JobTypes, HoldKept
  <2>3. CASE Consumed(u, "answering") /\ Uses(input[u].prompt)
    <3>1. \A p \in Prompts : prompt'[p].at # "taken"
      BY <1>0, <2>1, <2>3, OnlyHolder, ValueTypes DEF Uses
    <3>. QED BY <2>1, <2>3, <3>1, JobTypes, HoldEnds
  <2>. QED BY <1>9, <2>2, <2>3 DEF ReplyChecks
<1>10. CASE ReplySaves(u)
  <2>1. job[u].at = "checked" /\ job[u].holds /\ UNCHANGED <<line, input>>
    BY <1>10 DEF ReplySaves, HoldInv
  <2>2. CASE Goes(u, "answering") /\ UNCHANGED prompt
    <3>1. Proceeds(u)
      BY <2>1, <2>2, JobTypes DEF Proceeds
    <3>. QED BY <2>1, <2>2, <3>1, JobTypes, HoldKept
  <2>3. CASE /\ Uses(input[u].prompt)
             /\ \/ Consumed(u, "answering")
                \/ job' = [job EXCEPT ![u] = [at |-> "answering", holds |-> FALSE]]
    <3>1. \A p \in Prompts : prompt'[p].at # "taken"
      BY <1>0, <2>1, <2>3, OnlyHolder, ValueTypes DEF Uses
    <3>2. /\ job'[u].at = "answering" /\ job'[u].holds = FALSE
          /\ \A v \in Updates \ {u} : job'[v] = job[v]
      <4>1. CASE Consumed(u, "answering")
        BY <4>1, JobTypes
      <4>2. CASE job' = [job EXCEPT ![u] = [at |-> "answering", holds |-> FALSE]]
        BY <1>0, <4>2
      <4>. QED BY <2>3, <4>1, <4>2
    <3>. QED BY <2>1, <3>1, <3>2, HoldEnds
  <2>. QED BY <1>10, <2>2, <2>3 DEF ReplySaves, HoldsAfterSave
<1>11. CASE ReplyAsksNext(u)
  <2>1. /\ job[u].at = "checked" /\ job[u].holds
        /\ job' = [job EXCEPT ![u] = [at |-> "over", holds |-> FALSE]]
    BY <1>11 DEF ReplyAsksNext, Over, HoldInv
  <2>2. PICK q \in Prompts : prompt' = [prompt EXCEPT ![input[u].prompt] = Used, ![q] =
          [at |-> "live", section |-> "content", gen |-> PromptGeneration, late |-> FALSE]]
    BY <1>11, Zenon DEF ReplyAsksNext
  <2>3. \A p \in Prompts : prompt'[p].at # "taken"
    BY <1>0, <2>1, <2>2, OnlyHolder, ValueTypes
  <2>. QED BY <1>0, <2>1, <2>3, HoldEnds
<1>. QED
  BY <1>1, <1>2, <1>3, <1>4, <1>5, <1>6, <1>7, <1>8, <1>9, <1>10, <1>11 DEF HandlerStep

-----------------------------------------------------------------------------
(* What was saved for prompts, and the generations they carry.             *)

\* What a handler may do to the prompts and to what is saved for them.
LEMMA PromptCases ==
  ASSUME TypeOK, LineInv, HoldInv, NEW u \in Updates, HandlerStep(u)
  PROVE  \/ UNCHANGED <<prompt, made>>
         \/ /\ UNCHANGED made
            /\ \A p \in Prompts : /\ prompt'[p].gen \in {0, prompt[p].gen, gen}
                                  /\ prompt'[p].gen # prompt[p].gen =>
                                       prompt[p].at = "none" \/ prompt'[p].gen = 0
                                  /\ prompt'[p].at = "none" => prompt[p].at = "none"
                                  /\ prompt[p].at = "used" => prompt'[p].at = "used"
         \/ /\ ReplySaves(u)
            /\ \E p \in Prompts : p = input[u].prompt /\ Uses(p) /\ made' = made
         \/ /\ ReplySaves(u)
            /\ \E p \in Prompts : p = input[u].prompt /\ Saved(p) /\ Uses(p) /\ UNCHANGED budget
         \/ /\ ReplySaves(u)
            /\ \E p \in Prompts : /\ p = input[u].prompt /\ Saved(p)
                                  /\ Spends("lost", MaxLost) /\ UNCHANGED prompt
<1>. USE DEF deliveryVars, history
<1>0. prompt \in [Prompts -> Prompt] /\ \A p \in Prompts : prompt[p] \in Prompt
  BY DEF TypeOK
<1>1. CASE \/ Begins(u) \/ Settles(u) \/ Postpones(u) \/ PressChecks(u) \/ PressSets(u)
           \/ ReplyRefused(u) \/ CancelSets(u)
  BY <1>1 DEF Begins, Settles, Postpones, PressChecks, PressSets, ReplyRefused, CancelSets
<1>2. CASE Answers(u) \/ Fails(u)
  <2>1. job[u].at # "idle" /\ Restored(u) /\ UNCHANGED made
    BY <1>2 DEF Answers, Fails
  <2>. QED BY <2>1, RestoredNone
<1>3. CASE Dies(u)
  <2>1. UNCHANGED made /\ \A p \in Prompts : prompt'[p] \in {prompt[p], Used}
    BY <1>0, <1>3 DEF Dies
  <2>. QED BY <2>1, ValueTypes
<1>4. CASE PressOpens(u)
  <2>1. PICK p \in Prompts, section \in {"words", "setting"} : Sends(p, section)
    BY <1>4 DEF PressOpens
  <2>2. /\ prompt[p].at = "none" /\ \A q \in Prompts \ {p} : prompt'[q] = prompt[q]
        /\ prompt'[p].at = "live" /\ prompt'[p].gen = gen
    BY <1>0, <2>1 DEF Sends, PromptGeneration
  <2>3. UNCHANGED made
    BY <1>4 DEF PressOpens
  <2>. QED BY <2>2, <2>3
<1>5. CASE ReplyTakes(u)
  <2>1. PICK q \in Prompts : q = input[u].prompt
    BY <1>5 DEF ReplyTakes, LineInv
  <2>2. CASE prompt[q].at = "live"
    <3>1. prompt' = [prompt EXCEPT ![q] = [prompt[q] EXCEPT !.at = "taken"]] /\ UNCHANGED made
      BY <1>5, <2>1, <2>2 DEF ReplyTakes
    <3>2. /\ [prompt[q] EXCEPT !.at = "taken"].at = "taken"
          /\ [prompt[q] EXCEPT !.at = "taken"].gen = prompt[q].gen
      BY <1>0 DEF Prompt
    <3>3. prompt'[q] = [prompt[q] EXCEPT !.at = "taken"]
      BY <1>0, <3>1
    <3>4. \A p \in Prompts \ {q} : prompt'[p] = prompt[p]
      BY <1>0, <3>1
    <3>. QED BY <2>2, <3>1, <3>2, <3>3, <3>4
  <2>3. CASE prompt[q].at # "live"
    BY <1>5, <2>1, <2>3 DEF ReplyTakes
  <2>. QED BY <2>2, <2>3
<1>6. CASE ReplyChecks(u)
  <2>1. UNCHANGED made /\ (UNCHANGED prompt \/ Uses(input[u].prompt))
    BY <1>6 DEF ReplyChecks
  <2>2. \A p \in Prompts : prompt'[p] \in {prompt[p], Used}
    BY <1>0, <2>1 DEF Uses
  <2>. QED BY <2>1, <2>2, ValueTypes
<1>7. CASE ReplySaves(u)
  <2>1. PICK p \in Prompts : p = input[u].prompt
    BY <1>7 DEF ReplySaves, LineInv
  <2>2. \/ Uses(p) /\ made' = made
        \/ Saved(p) /\ Uses(p) /\ UNCHANGED budget
        \/ Saved(p) /\ Spends("lost", MaxLost) /\ UNCHANGED prompt
    BY <1>7, <2>1 DEF ReplySaves
  <2>. QED BY <1>7, <2>1, <2>2
<1>8. CASE ReplyAsksNext(u)
  <2>1. PICK q \in Prompts :
          /\ prompt[q].at = "none"
          /\ prompt' = [prompt EXCEPT ![input[u].prompt] = Used, ![q] =
               [at |-> "live", section |-> "content", gen |-> PromptGeneration, late |-> FALSE]]
    BY <1>8, Zenon DEF ReplyAsksNext
  <2>2. UNCHANGED made
    BY <1>8 DEF ReplyAsksNext
  <2>3. /\ prompt'[q].at = "live" /\ prompt'[q].gen = gen
        /\ \A p \in Prompts \ {q} : prompt'[p] \in {prompt[p], Used}
    BY <1>0, <2>1 DEF PromptGeneration
  <2>. QED BY <2>1, <2>2, <2>3, ValueTypes
<1>. QED
  BY <1>1, <1>2, <1>3, <1>4, <1>5, <1>6, <1>7, <1>8 DEF HandlerStep

LEMMA BudgetGrows ==
  ASSUME TypeOK, NEW u \in Updates, HandlerStep(u)
  PROVE  budget'.lost >= budget.lost /\ budget'.lost \in Nat /\ budget.lost \in Nat
<1>1. budget.lost \in Nat
  BY GroupInputAssumption DEF TypeOK
<1>2. \/ UNCHANGED budget \/ Spends("faults", MaxFaults) \/ Spends("lost", MaxLost)
  BY DEF HandlerStep, Begins, Settles, Postpones, Answers, Fails, Dies, PressChecks, PressOpens,
     PressSets, ReplyTakes, ReplyChecks, ReplySaves, ReplyAsksNext, ReplyRefused, CancelSets
<1>. QED BY <1>1, <1>2, BudgetTypes

LEMMA MadeStep ==
  ASSUME TypeOK, LineInv, HoldInv, MadeInv, NEW u \in Updates, HandlerStep(u)
  PROVE  MadeInv'
<1>0. /\ prompt \in [Prompts -> Prompt] /\ made \in [Prompts -> Nat]
      /\ \A p \in Prompts : made[p] \in Nat
  BY DEF TypeOK
<1>1. budget'.lost >= budget.lost /\ budget'.lost \in Nat /\ budget.lost \in Nat
  BY BudgetGrows
<1>2. CASE /\ UNCHANGED made
           /\ \A p \in Prompts : prompt[p].at = "used" => prompt'[p].at = "used"
  BY <1>0, <1>1, <1>2 DEF MadeInv
<1>3. ASSUME ReplySaves(u), NEW p \in Prompts, p = input[u].prompt
      PROVE  MadeInv'
  <2>0. prompt[p].at = "taken"
    BY <1>3 DEF ReplySaves, HoldInv
  <2>1. CASE Uses(p) /\ made' = made
    <3>1. \A q \in Prompts : prompt[q].at = "used" => prompt'[q].at = "used"
      BY <1>0, <2>1, ValueTypes DEF Uses
    <3>. QED BY <1>2, <2>1, <3>1
  <2>2. CASE Saved(p) /\ Uses(p) /\ UNCHANGED budget
    <3>1. /\ prompt'[p].at = "used" /\ made'[p] = made[p] + 1
          /\ \A q \in Prompts \ {p} : prompt'[q] = prompt[q] /\ made'[q] = made[q]
      BY <1>0, <2>2, ValueTypes DEF Uses, Saved
    <3>. QED BY <1>0, <1>1, <2>0, <2>2, <3>1 DEF MadeInv
  <2>3. CASE Saved(p) /\ Spends("lost", MaxLost) /\ UNCHANGED prompt
    <3>1. /\ made'[p] = made[p] + 1
          /\ \A q \in Prompts \ {p} : made'[q] = made[q]
      BY <1>0, <2>3 DEF Saved
    <3>2. budget'.lost = budget.lost + 1
      BY <2>3, BudgetTypes
    <3>. QED BY <1>0, <1>1, <2>3, <3>1, <3>2 DEF MadeInv
  <2>. QED
    BY <1>3, <2>1, <2>2, <2>3 DEF ReplySaves
<1>. QED BY <1>2, <1>3, PromptCases

LEMMA VoidStep ==
  ASSUME TypeOK, LineInv, HoldInv, VoidInv, NEW u \in Updates, HandlerStep(u)
  PROVE  VoidInv'
<1>. USE DEF deliveryVars, history
<1>0. /\ gen \in Nat /\ void \subseteq Prompts /\ prompt \in [Prompts -> Prompt]
      /\ \A p \in Prompts : prompt[p].gen \in Nat
  BY GroupInputAssumption DEF TypeOK, Prompt
<1>1. CASE CancelSets(u)
  <2>1. gen' = gen + 1 /\ void' = {p \in Prompts : prompt[p].at # "none"} /\ UNCHANGED prompt
    BY <1>1 DEF CancelSets
  <2>2. \A v \in Updates : job'[v].at # "checked"
    BY <1>1, OnlyOne, JobTypes DEF CancelSets
  <2>. QED BY <1>0, <2>1, <2>2 DEF VoidInv
<1>2. CASE ~CancelSets(u)
  <2>1. UNCHANGED <<gen, void>>
    BY <1>2 DEF HandlerStep, Begins, Settles, Postpones, Answers, Fails, Dies, PressChecks,
       PressOpens, PressSets, ReplyTakes, ReplyChecks, ReplySaves, ReplyAsksNext, ReplyRefused
  <2>2. \A p \in Prompts : /\ prompt'[p].gen \in {0, prompt[p].gen, gen}
                           /\ prompt'[p].gen # prompt[p].gen =>
                                prompt[p].at = "none" \/ prompt'[p].gen = 0
                           /\ prompt'[p].at = "none" => prompt[p].at = "none"
    <3>1. ASSUME NEW q \in Prompts, Uses(q)
          PROVE  \A p \in Prompts : prompt'[p] \in {prompt[p], Used}
      BY <1>0, <3>1 DEF Uses
    <3>. QED BY <3>1, PromptCases, ValueTypes
  <2>3. \A p \in Prompts : prompt'[p].gen <= gen'
    BY <1>0, <2>1, <2>2 DEF VoidInv
  <2>4. \A p \in void' : prompt'[p].at # "none" /\ prompt'[p].gen < gen'
    BY <1>0, <2>1, <2>2 DEF VoidInv
  <2>5. ASSUME NEW v \in Updates, job'[v].at = "checked", input'[v].kind = "reply"
        PROVE  input'[v].prompt \notin void'
    <3>1. CASE ReplyChecks(u) /\ u = v
      <4>1. CASE Goes(u, "checked") /\ InForce(input[u].prompt) /\ UNCHANGED input
        BY <1>0, <2>1, <3>1, <4>1 DEF InForce, VoidInv
      <4>2. CASE Consumed(u, "answering")
        BY <2>5, <3>1, <4>2, JobTypes
      <4>. QED BY <3>1, <4>1, <4>2 DEF ReplyChecks
    <3>2. CASE PressChecks(u) /\ u = v
      BY <2>5, <3>2 DEF PressChecks
    <3>3. CASE ~(ReplyChecks(u) \/ PressChecks(u)) \/ u # v
      <4>1. job[v].at = "checked" /\ input[v] = input'[v]
        <5>1. CASE Begins(u)
          BY <2>5, <5>1, BeginsWith
        <5>2. CASE Leaves(u)
          BY <2>5, <5>2, ValueTypes, OnlyOne DEF Leaves, TypeOK
        <5>3. CASE Proceeds(u) /\ u # v
          BY <2>5, <5>3 DEF Proceeds
        <5>4. CASE Proceeds(u) /\ u = v
          <6>1. ~(Answers(u) \/ PressOpens(u) \/ ReplyAsksNext(u))
            BY <2>5, <5>4 DEF Answers, PressOpens, ReplyAsksNext, Over, TypeOK
          <6>2. ~(Fails(u) \/ PressSets(u) \/ ReplyRefused(u))
            BY <2>5, <5>4, JobTypes DEF Fails, PressSets, ReplyRefused
          <6>3. ~(ReplyTakes(u) \/ ReplySaves(u))
            <7>1. ~(Goes(u, "answering") \/ Consumed(u, "answering"))
              BY <2>5, <5>4, JobTypes
            <7>2. \A next \in Job : next.at # "checked" => job' # [job EXCEPT ![u] = next]
              BY <2>5, <5>4 DEF TypeOK
            <7>3. /\ [at |-> "taken", holds |-> TRUE] \in Job
                  /\ [at |-> "answering", holds |-> FALSE] \in Job
              BY DEF Job
            <7>. QED BY <7>1, <7>2, <7>3 DEF ReplyTakes, ReplySaves, HoldsAfterSave
          <6>4. ~(Settles(u) \/ Postpones(u) \/ Dies(u))
            BY <2>5, <5>4, ValueTypes DEF Settles, Postpones, Dies, TypeOK
          <6>5. Begins(u)
            BY <1>2, <3>3, <5>4, <6>1, <6>2, <6>3, <6>4 DEF HandlerStep
          <6>. QED BY <2>5, <5>4, <6>5, BeginsWith
        <5>. QED BY <5>1, <5>2, <5>3, <5>4, LineCases
      <4>. QED BY <2>1, <2>5, <4>1 DEF VoidInv
    <3>. QED BY <3>1, <3>2, <3>3
  <2>. QED BY <2>3, <2>4, <2>5 DEF VoidInv
<1>. QED BY <1>1, <1>2

-----------------------------------------------------------------------------
(* Presses.                                                                *)

LEMMA WriterStep ==
  ASSUME TypeOK, LineInv, WriterInv, NEW u \in Updates, HandlerStep(u)
  PROVE  WriterInv'
<1>. USE DEF deliveryVars, history
<1>0. line \in [Updates -> D!States] /\ input \in [Updates -> Input] /\ Updates \subseteq Nat
  BY GroupInputAssumption DEF TypeOK
<1>1. CASE PressSets(u) /\ StillApproved
  <2>1. /\ writer' = u /\ option' = input[u].value /\ UNCHANGED <<line, input>>
        /\ job[u].at # "idle"
    BY <1>1 DEF PressSets, Target
  <2>2. input[u] # NoInput /\ \A v \in Updates : v < u => line[v] \notin Open
    BY <2>1, OnlyOne DEF LineInv
  <2>. QED BY <2>1, <2>2 DEF WriterInv
<1>2. CASE ~(PressSets(u) /\ StillApproved)
  <2>1. UNCHANGED <<writer, option>>
    BY <1>2 DEF HandlerStep, Begins, Settles, Postpones, Answers, Fails, Dies, PressChecks,
       PressOpens, PressSets, ReplyTakes, ReplyChecks, ReplySaves, ReplyAsksNext, ReplyRefused,
       CancelSets
  <2>2. SUFFICES ASSUME writer # 0
                 PROVE  /\ line'[writer] \in Open =>
                             input'[writer] # NoInput /\ option = input'[writer].value
                        /\ \A v \in Updates : v < writer => line'[v] \notin Open
    BY <2>1 DEF WriterInv
  <2>3. writer \in Updates
    BY <2>2 DEF TypeOK
  <2>4. CASE Begins(u)
    <3>1. /\ line[u] \in Open /\ line' = [line EXCEPT ![u] = "started"]
          /\ \A v \in Updates \ {u} : input'[v] = input[v]
          /\ input[u] # NoInput => input'[u] = input[u]
      BY <2>4, BeginsWith DEF Open
    <3>. QED BY <1>0, <2>2, <2>3, <3>1 DEF WriterInv
  <2>5. CASE Proceeds(u)
    BY <2>2, <2>3, <2>5 DEF Proceeds, WriterInv
  <2>6. CASE Leaves(u)
    <3>1. line[u] = "started"
      BY <2>6, OnlyOne DEF Leaves
    <3>2. CASE line' = [line EXCEPT ![u] = "queued"] /\ UNCHANGED input
      BY <1>0, <2>2, <2>3, <3>1, <3>2 DEF WriterInv, Open
    <3>3. CASE /\ \E over \in {"done", "dead"} : line' = [line EXCEPT ![u] = over]
               /\ Forgotten(u)
      BY <1>0, <2>2, <2>3, <3>1, <3>3 DEF WriterInv, Open, Forgotten
    <3>. QED BY <2>6, <3>2, <3>3 DEF Leaves
  <2>. QED BY <2>4, <2>5, <2>6, LineCases
<1>. QED BY <1>1, <1>2

\* The clock, administrators and the web panel.
LEMMA WorldStep ==
  ASSUME InputInv, Moves \/ \E p \in Prompts : Expires(p)
  PROVE  InputInv'
<1>. USE DEF InputInv, deliveryVars, history
<1>0. TypeOK'
  BY WorldType
<1>1. CASE Moves
  <2>1. UNCHANGED <<line, input, job, prompt, gen, made, void>> /\ budget'.lost = budget.lost
    BY <1>1, BudgetTypes DEF Moves
  <2>2. writer' = 0 \/ UNCHANGED <<writer, option>>
    BY <1>1 DEF Moves
  <2>3. LineInv' /\ HoldInv' /\ MadeInv' /\ VoidInv'
    BY <2>1 DEF LineInv, HoldInv, MadeInv, VoidInv
  <2>4. WriterInv'
    BY <2>1, <2>2 DEF WriterInv
  <2>. QED BY <1>0, <2>3, <2>4
<1>2. ASSUME NEW p \in Prompts, Expires(p)
      PROVE  InputInv'
  <2>0. /\ prompt \in [Prompts -> Prompt] /\ prompt[p] \in Prompt
        /\ gen \in Nat /\ \A q \in Prompts : prompt[q].gen \in Nat
    BY GroupInputAssumption DEF TypeOK, Prompt
  <2>1. UNCHANGED <<line, input, job, gen, made, void, writer, option, budget>>
    BY <1>2 DEF Expires
  <2>2. \A q \in Prompts \ {p} : prompt'[q] = prompt[q]
    BY <1>2, <2>0 DEF Expires
  <2>3. /\ prompt[p].at \in {"live", "taken"}
        /\ prompt'[p].at = IF prompt[p].at = "live" THEN "used" ELSE prompt[p].at
        /\ prompt'[p].gen \in {0, prompt[p].gen}
    <3>1. /\ [prompt[p] EXCEPT !.late = TRUE].at = prompt[p].at
          /\ [prompt[p] EXCEPT !.late = TRUE].gen = prompt[p].gen
      BY <2>0 DEF Prompt
    <3>2. prompt'[p] = IF prompt[p].at = "live" THEN Used ELSE [prompt[p] EXCEPT !.late = TRUE]
      BY <1>2, <2>0 DEF Expires
    <3>3. prompt[p].at \in {"live", "taken"}
      BY <1>2 DEF Expires
    <3>4. CASE prompt[p].at = "live"
      BY <3>2, <3>4, ValueTypes
    <3>5. CASE prompt[p].at = "taken"
      BY <3>1, <3>2, <3>5
    <3>. QED BY <3>3, <3>4, <3>5
  <2>4. \A q \in Prompts : prompt'[q].at = "taken" <=> prompt[q].at = "taken"
    BY <2>2, <2>3
  <2>5. LineInv' /\ WriterInv'
    BY <2>1 DEF LineInv, WriterInv
  <2>6. HoldInv'
    BY <2>1, <2>4 DEF HoldInv, LineInv
  <2>7. MadeInv'
    <3>1. \A q \in Prompts : prompt[q].at = "used" => prompt'[q].at = "used"
      BY <2>2, <2>3
    <3>2. budget.lost \in Nat /\ \A q \in Prompts : made[q] \in Nat
      BY GroupInputAssumption DEF TypeOK
    <3>. QED BY <2>1, <3>1, <3>2 DEF MadeInv
  <2>8. VoidInv'
    BY <2>0, <2>1, <2>2, <2>3 DEF VoidInv, TypeOK
  <2>. QED BY <1>0, <2>5, <2>6, <2>7, <2>8
<1>. QED BY <1>1, <1>2

-----------------------------------------------------------------------------
(* The invariant holds.                                                    *)

LEMMA InputInit ==
  ASSUME Init
  PROVE  InputInv
<1>1. TypeOK
  <2>1. "queued" \in D!States
    BY DEF D!States
  <2>2. /\ line \in [Updates -> D!States] /\ handled \subseteq Updates
        /\ made \in [Prompts -> Nat] /\ void \subseteq Prompts /\ writer \in Updates \cup {0}
    BY <2>1 DEF Init
  <2>3. /\ input \in [Updates -> Input] /\ job \in [Updates -> Job]
        /\ prompt \in [Prompts -> Prompt]
    BY ValueTypes DEF Init
  <2>4. gen \in 0..MaxCancels
        /\ budget \in [faults : 0..MaxFaults, lost : 0..MaxLost, moves : 0..MaxMoves]
    BY GroupInputAssumption DEF Init
  <2>5. {admin, approved, option} \subseteq BOOLEAN
    BY DEF Init
  <2>. QED BY <2>2, <2>3, <2>4, <2>5 DEF TypeOK
<1>2. LineInv
  BY ValueTypes DEF Init, LineInv
<1>3. HoldInv /\ VoidInv
  BY ValueTypes, GroupInputAssumption DEF Init, HoldInv, VoidInv, Unsent
<1>4. MadeInv /\ WriterInv
  BY DEF Init, MadeInv, WriterInv, Unsent
<1>. QED BY <1>1, <1>2, <1>3, <1>4 DEF InputInv

LEMMA InputNext ==
  ASSUME InputInv, [Next]_vars
  PROVE  InputInv'
<1>1. ASSUME NEW u \in Updates, HandlerStep(u)
      PROVE  InputInv'
  BY <1>1, TypeStep, LineStep, HoldStep, MadeStep, VoidStep, WriterStep DEF InputInv
<1>2. CASE UNCHANGED vars
  BY <1>2
     DEF vars, deliveryVars, world, history, InputInv, TypeOK, LineInv, HoldInv, MadeInv, VoidInv,
         WriterInv
<1>. QED BY <1>1, <1>2, StepCases, WorldStep

LEMMA InputInvariant == Spec => []InputInv
<1>. QED BY InputInit, InputNext, PTL DEF Spec

-----------------------------------------------------------------------------
(* Theorems.                                                               *)

\* Every variable keeps its type, for any number of updates, prompts and faults.
THEOREM InputTypeCorrect == Spec => []TypeOK
<1>1. InputInv => TypeOK
  BY DEF InputInv
<1>. QED BY <1>1, InputInvariant, PTL

\* The input of a prompt is saved once, and once more for every commit whose answer was
\* lost at most; and a prompt that is out of Redis is in the hands of a live handler or used.
THEOREM InputOncePerPrompt == Spec => []OncePerPrompt
<1>1. InputInv => OncePerPrompt
  <2>1. ASSUME InputInv, NEW p \in Prompts
        PROVE  made[p] <= 1 + budget.lost
    <3>1. made[p] \in Nat /\ budget.lost \in Nat
      BY <2>1, GroupInputAssumption DEF InputInv, TypeOK
    <3>. QED BY <2>1, <3>1 DEF InputInv, MadeInv
  <2>2. ASSUME InputInv
        PROVE  \A p \in Prompts : prompt[p].at = "taken" =>
                 \E u \in Updates : input[u].prompt = p /\ job[u].holds
    BY <2>2 DEF InputInv, HoldInv
  <2>. QED BY <2>1, <2>2 DEF OncePerPrompt
<1>. QED BY <1>1, InputInvariant, PTL

\* What may be saved for prompts, in one step.
LEMMA OnlySaves ==
  ASSUME InputInv, [Next]_vars, NEW p \in Prompts, made'[p] # made[p]
  PROVE  \E u \in Updates : ReplySaves(u) /\ p = input[u].prompt /\ Saved(p)
<1>. USE DEF InputInv
<1>1. PICK u \in Updates : HandlerStep(u)
  BY StepCases DEF vars, history, Expires, Moves
<1>2. ~UNCHANGED made
  OBVIOUS
<1>3. PICK q \in Prompts : ReplySaves(u) /\ q = input[u].prompt /\ Saved(q)
  BY <1>1, <1>2, PromptCases
<1>4. p = q
  BY <1>3 DEF Saved, TypeOK
<1>. QED BY <1>3, <1>4

\* /cancel holds: nothing is saved for a prompt that was open when it was sent, whatever
\* replies are under way or are run again.
THEOREM InputCancelHolds == Spec => CancelHolds
<1>1. ASSUME InputInv, [Next]_vars, NEW p \in Prompts, made'[p] # made[p]
      PROVE  p \notin void
  <2>1. PICK u \in Updates : ReplySaves(u) /\ p = input[u].prompt
    BY <1>1, OnlySaves
  <2>. QED BY <1>1, <2>1 DEF ReplySaves, InputInv, VoidInv
<1>2. InputInv /\ [Next]_vars =>
        [\A p \in Prompts : made'[p] # made[p] => p \notin void]_vars
  BY <1>1
<1>. QED BY <1>2, InputInvariant, PTL DEF Spec, CancelHolds

\* A chat changes no settings of a group that is not approved when they are committed,
\* however long ago the handler had looked.
THEOREM InputSettingsOfApproved == Spec => SettingsOfApproved
<1>1. ASSUME InputInv, [Next]_vars, NEW p \in Prompts,
             made'[p] # made[p], prompt[p].section = "setting"
      PROVE  approved
  <2>1. PICK u \in Updates : ReplySaves(u) /\ p = input[u].prompt /\ Saved(p)
    BY <1>1, OnlySaves
  <2>2. CASE prompt[p].section = "setting" /\ ~StillApproved /\ UNCHANGED made
    BY <1>1, <2>2
  <2>3. CASE prompt[p].section = "content" \/ StillApproved
    BY <1>1, <2>3 DEF StillApproved
  <2>. QED BY <2>1, <2>2, <2>3 DEF ReplySaves
<1>2. ASSUME InputInv, [Next]_vars, writer' # 0, writer' # writer
      PROVE  approved
  <2>1. CASE Moves
    BY <1>2, <2>1 DEF Moves
  <2>2. ASSUME NEW u \in Updates, HandlerStep(u)
        PROVE  approved
    BY <1>2, <2>2
       DEF HandlerStep, Begins, Settles, Postpones, Answers, Fails, Dies, PressChecks,
           PressOpens, PressSets, StillApproved, ReplyTakes, ReplyChecks, ReplySaves,
           ReplyAsksNext, ReplyRefused, CancelSets, history
  <2>3. ASSUME NEW p \in Prompts, Expires(p)
        PROVE  FALSE
    BY <1>2, <2>3 DEF Expires, history
  <2>. QED BY <1>2, <2>1, <2>2, <2>3, StepCases DEF vars, history
<1>3. InputInv /\ [Next]_vars =>
        [/\ \A p \in Prompts :
              (made'[p] # made[p] /\ prompt[p].section = "setting") => approved
         /\ writer' # 0 /\ writer' # writer => approved]_vars
  BY <1>1, <1>2
<1>. QED BY <1>3, InputInvariant, PTL DEF Spec, SettingsOfApproved

\* A press that is run again leaves the setting as the first run did, and an older press
\* never undoes a newer one.
THEOREM InputPressIsExact == Spec => PressIsExact
<1>1. ASSUME InputInv, [Next]_vars, writer # 0, writer' # 0
      PROVE  (writer' = writer => option' = option) /\ writer' >= writer
  <2>0. writer \in Updates /\ writer \in Nat
    BY <1>1, GroupInputAssumption DEF InputInv, TypeOK
  <2>1. CASE UNCHANGED <<writer, option>>
    BY <2>0, <2>1
  <2>2. ASSUME NEW u \in Updates, PressSets(u), StillApproved
        PROVE  (writer' = writer => option' = option) /\ writer' >= writer
    <3>1. writer' = u /\ option' = input[u].value /\ job[u].at # "idle" /\ u \in Nat
      BY <2>2, GroupInputAssumption DEF PressSets, Target
    <3>2. line[u] = "started"
      BY <1>1, <3>1 DEF InputInv, LineInv
    <3>3. ~(u < writer)
      BY <1>1, <2>2, <3>2 DEF InputInv, WriterInv, Open
    <3>4. u = writer => option = input[u].value
      BY <1>1, <3>2 DEF InputInv, WriterInv, Open
    <3>. QED BY <2>0, <3>1, <3>3, <3>4
  <2>3. CASE Moves
    BY <1>1, <2>1, <2>3 DEF Moves
  <2>4. ASSUME NEW u \in Updates, HandlerStep(u), ~(PressSets(u) /\ StillApproved)
        PROVE  UNCHANGED <<writer, option>>
    BY <2>4
       DEF HandlerStep, Begins, Settles, Postpones, Answers, Fails, Dies, PressChecks,
           PressOpens, PressSets, ReplyTakes, ReplyChecks, ReplySaves,
           ReplyAsksNext, ReplyRefused, CancelSets, history
  <2>5. ASSUME NEW p \in Prompts, Expires(p)
        PROVE  UNCHANGED <<writer, option>>
    BY <2>5 DEF Expires, history
  <2>. QED BY <1>1, <2>1, <2>2, <2>3, <2>4, <2>5, StepCases DEF vars, history
<1>2. InputInv /\ [Next]_vars =>
        [writer # 0 /\ writer' # 0 =>
           /\ writer' = writer => option' = option
           /\ writer' >= writer]_vars
  BY <1>1
<1>. QED BY <1>2, InputInvariant, PTL DEF Spec, PressIsExact

\* Handlers of the chat take nothing of the inbox that it does not promise: every step is
\* one step of Delivery or none, from the state in which all updates are accepted.
THEOREM InputKeepsToDelivery == Spec => [][D!Next]_deliveryVars
<1>1. ASSUME NEW u \in Updates, HandlerStep(u)
      PROVE  D!Next \/ UNCHANGED deliveryVars
  <2>1. CASE Begins(u) \/ Settles(u) \/ Postpones(u) \/ Dies(u)
    BY <2>1 DEF Begins, Settles, Postpones, Dies, D!Next
  <2>2. CASE Answers(u) \/ PressOpens(u) \/ ReplyAsksNext(u)
    BY <2>2 DEF Answers, PressOpens, ReplyAsksNext, Over, D!Next
  <2>3. CASE \/ Fails(u) \/ PressChecks(u) \/ PressSets(u) \/ ReplyTakes(u) \/ ReplyChecks(u)
             \/ ReplySaves(u) \/ ReplyRefused(u) \/ CancelSets(u)
    BY <2>3 DEF Fails, PressChecks, PressSets, ReplyTakes, ReplyChecks, ReplySaves,
                ReplyRefused, CancelSets
  <2>. QED BY <1>1, <2>1, <2>2, <2>3 DEF HandlerStep
<1>2. ASSUME Moves \/ (\E p \in Prompts : Expires(p)) \/ UNCHANGED vars
      PROVE  UNCHANGED deliveryVars
  <2>1. CASE Moves
    BY <2>1 DEF Moves
  <2>2. ASSUME NEW p \in Prompts, Expires(p)
        PROVE  UNCHANGED deliveryVars
    BY <2>2 DEF Expires
  <2>3. CASE UNCHANGED vars
    BY <2>3 DEF vars
  <2>. QED BY <1>2, <2>1, <2>2, <2>3
<1>3. [Next]_vars => [D!Next]_deliveryVars
  BY <1>1, <1>2, StepCases
<1>. QED BY <1>3, PTL DEF Spec
=============================================================================
