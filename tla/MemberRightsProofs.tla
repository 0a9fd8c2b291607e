--------------------------- MODULE MemberRightsProofs ---------------------------
(***************************************************************************)
(* What the workflows of MemberWorkflow leave behind at Telegram and in    *)
(* the rows, for every set of sessions and requests and every bound: that  *)
(* sessions move on, and that no mute and no ban outlives what it was for. *)
(***************************************************************************)
EXTENDS MemberProofs

-----------------------------------------------------------------------------
(* The steps a workflow has before it.                                     *)

\* Every plan takes its steps in this order; a message is deleted before or after.
Place(step) ==
  CASE step \in {"read", "prepare"}                     -> 0
    [] step \in {"begin", "start"}                      -> 1
    [] step \in {"restrict", "restore", "ban", "kickban"} -> 2
    [] step = "markban"                                 -> 3
    [] step = "unban"                                   -> 4
    [] step \in {"complete", "settle", "drop"}          -> 5
    [] OTHER                                            -> 6

Before(x, y) == x = "delete" \/ y = "delete" \/ Place(x) < Place(y)

StepsOf(t) == {t[i] : i \in 1..Len(t)}
InOrder(t) == \A i, j \in 1..Len(t) : i < j => Before(t[i], t[j])

Ahead == StepsOf(holder.todo)

(* Joining two plans joins their steps, and keeps the order if every step  *)
(* of the first comes before every step of the second.                     *)
LEMMA ConcatSteps ==
  ASSUME NEW s \in Seq(Steps), NEW t \in Seq(Steps)
  PROVE  /\ s \o t \in Seq(Steps)
         /\ StepsOf(s \o t) = StepsOf(s) \cup StepsOf(t)
         /\ (/\ InOrder(s) /\ InOrder(t)
             /\ \A x \in StepsOf(s), y \in StepsOf(t) : Before(x, y)) => InOrder(s \o t)
<1> DEFINE m == Len(s)
           n == Len(t)
           u == s \o t
<1>1. /\ u \in Seq(Steps) /\ Len(u) = m + n
      /\ \A i \in 1..(m + n) : u[i] = IF i <= m THEN s[i] ELSE t[i - m]
  BY ConcatProperties
<1>2. m \in Nat /\ n \in Nat
  BY LenProperties
<1> HIDE DEF m, n, u
<1>3. \A i \in 1..m : i \in 1..(m + n) /\ u[i] = s[i]
  BY <1>1, <1>2
<1>4. \A j \in 1..n : m + j \in 1..(m + n) /\ u[m + j] = t[j]
  <2>1. ASSUME NEW j \in 1..n PROVE m + j \in 1..(m + n) /\ ~(m + j <= m) /\ (m + j) - m = j
    BY <1>2
  <2>. QED BY <1>1, <2>1
<1>5. \A i \in 1..(m + n) : \/ i \in 1..m
                            \/ i - m \in 1..n /\ i = m + (i - m)
  BY <1>2
<1>6. StepsOf(s) = {s[i] : i \in 1..m} /\ StepsOf(t) = {t[i] : i \in 1..n}
      /\ StepsOf(u) = {u[i] : i \in 1..(m + n)}
  BY <1>1 DEF StepsOf, m, n
<1>7. StepsOf(u) = StepsOf(s) \cup StepsOf(t)
  <2>1. ASSUME NEW x \in StepsOf(u) PROVE x \in StepsOf(s) \cup StepsOf(t)
    <3>1. PICK i \in 1..(m + n) : x = u[i]
      BY <1>6
    <3>2. CASE i \in 1..m
      BY <1>3, <1>6, <3>1, <3>2
    <3>3. CASE i - m \in 1..n /\ i = m + (i - m)
      <4>1. u[i] = t[i - m]
        BY <1>4, <3>3
      <4>. QED BY <1>6, <3>1, <3>3, <4>1
    <3>. QED BY <1>5, <3>2, <3>3
  <2>2. StepsOf(s) \subseteq StepsOf(u)
    BY <1>3, <1>6
  <2>3. StepsOf(t) \subseteq StepsOf(u)
    BY <1>4, <1>6
  <2>. QED BY <2>1, <2>2, <2>3
<1>8. ASSUME InOrder(s), InOrder(t), \A x \in StepsOf(s), y \in StepsOf(t) : Before(x, y)
      PROVE  InOrder(u)
  <2> SUFFICES ASSUME NEW i \in 1..(m + n), NEW j \in 1..(m + n), i < j
               PROVE  Before(u[i], u[j])
    BY <1>1 DEF InOrder
  <2>1. CASE i \in 1..m /\ j \in 1..m
    BY <1>3, <1>8, <2>1 DEF InOrder, m
  <2>2. CASE i \in 1..m /\ j \notin 1..m
    <3>1. j - m \in 1..n /\ u[j] = t[j - m]
      BY <1>4, <1>5, <2>2
    <3>. QED BY <1>3, <1>6, <1>8, <2>2, <3>1
  <2>3. CASE i \notin 1..m
    <3>1. /\ i - m \in 1..n /\ u[i] = t[i - m]
          /\ j - m \in 1..n /\ u[j] = t[j - m] /\ i - m < j - m
      <4>1. j \notin 1..m /\ i - m < j - m
        BY <1>2, <2>3
      <4>. QED BY <1>4, <1>5, <2>3, <4>1
    <3>. QED BY <1>8, <3>1 DEF InOrder, n
  <2>. QED BY <2>1, <2>2, <2>3
<1>. QED BY <1>1, <1>7, <1>8 DEF u

(* Taking the next step leaves the later ones.                             *)
LEMMA TailSteps ==
  ASSUME NEW t \in Seq(Steps), t # <<>>
  PROVE  /\ StepsOf(t) = {Head(t)} \cup StepsOf(Tail(t))
         /\ InOrder(t) => /\ InOrder(Tail(t))
                          /\ \A y \in StepsOf(Tail(t)) : Before(Head(t), y)
<1> DEFINE n == Len(Tail(t))
           u == Tail(t)
<1>1. /\ u \in Seq(Steps) /\ n = Len(t) - 1
      /\ \A i \in 1..n : u[i] = t[i + 1]
  BY HeadTailProperties
<1>2. Len(t) \in Nat \ {0} /\ n \in Nat
  BY <1>1, EmptySeq, LenProperties
<1>3. Head(t) = t[1]
  OBVIOUS
<1>4. Len(u) = n
  OBVIOUS
<1> HIDE DEF n, u
<1>5. \A i \in 1..Len(t) : i = 1 \/ (i - 1 \in 1..n /\ t[i] = u[i - 1])
  BY <1>1, <1>2
<1>6. \A i \in 1..n : i + 1 \in 1..Len(t) /\ u[i] = t[i + 1] /\ 1 < i + 1
  BY <1>1, <1>2
<1>7. StepsOf(t) = {Head(t)} \cup StepsOf(u)
  <2>1. 1 \in 1..Len(t)
    BY <1>2
  <2>. QED BY <1>3, <1>4, <1>5, <1>6, <2>1 DEF StepsOf
<1>8. ASSUME InOrder(t) PROVE InOrder(u) /\ \A y \in StepsOf(u) : Before(Head(t), y)
  <2>1. ASSUME NEW i \in 1..n, NEW j \in 1..n, i < j PROVE Before(u[i], u[j])
    <3>1. i + 1 < j + 1
      BY <2>1
    <3>. QED BY <1>6, <1>8, <3>1 DEF InOrder
  <2>2. ASSUME NEW j \in 1..n PROVE Before(t[1], u[j])
    <3>1. 1 \in 1..Len(t)
      BY <1>2
    <3>. QED BY <1>6, <1>8, <3>1 DEF InOrder
  <2>. QED BY <1>3, <1>4, <2>1, <2>2 DEF InOrder, StepsOf
<1>. QED BY <1>7, <1>8 DEF u

(* Short plans.                                                            *)
LEMMA ShortPlans ==
  /\ StepsOf(<<>>) = {} /\ InOrder(<<>>)
  /\ \A x : StepsOf(<<x>>) = {x} /\ InOrder(<<x>>)
  /\ StepsOf(<<"begin", "ban", "unban">>) = {"begin", "ban", "unban"}
  /\ InOrder(<<"begin", "ban", "unban">>)
  /\ StepsOf(<<"kickban", "markban", "unban">>) = {"kickban", "markban", "unban"}
  /\ InOrder(<<"kickban", "markban", "unban">>)
<1>1. StepsOf(<<>>) = {} /\ InOrder(<<>>)
  BY DEF StepsOf, InOrder
<1>2. ASSUME NEW x PROVE StepsOf(<<x>>) = {x} /\ InOrder(<<x>>)
  BY DEF StepsOf, InOrder
<1>3. ASSUME NEW a, NEW b, NEW c
      PROVE  /\ StepsOf(<<a, b, c>>) = {a, b, c}
             /\ Before(a, b) /\ Before(a, c) /\ Before(b, c) => InOrder(<<a, b, c>>)
  <2>1. 1..3 = {1, 2, 3}
    OBVIOUS
  <2>2. Len(<<a, b, c>>) = 3
    OBVIOUS
  <2>. QED BY <2>1, <2>2 DEF StepsOf, InOrder
<1>4. /\ Before("begin", "ban") /\ Before("begin", "unban") /\ Before("ban", "unban")
      /\ Before("kickban", "markban") /\ Before("kickban", "unban")
      /\ Before("markban", "unban")
  BY DEF Before, Place
<1>. QED BY <1>1, <1>2, <1>3, <1>4

(* What finishVerification decides to do, and what it will write.          *)
LEMMA FinishPlans ==
  ASSUME NEW plan \in Plans
  PROVE  /\ plan.steps \o <<"settle">> \in Seq(Steps)
         /\ InOrder(plan.steps \o <<"settle">>)
         /\ StepsOf(plan.steps \o <<"settle">>) = StepsOf(plan.steps) \cup {"settle"}
         /\ StepsOf(plan.steps) \subseteq {"begin", "ban", "unban", "restore"}
         /\ \/ plan.outcome = "cancelled"
            \/ holder.status = "completing" /\ plan.outcome \in {"left", "blocked", "verified"}
            \/ /\ holder.status \notin {"completing", "releasing"}
               /\ plan.outcome = "expired"
         /\ \/ /\ plan = [steps |-> CancelledPlan, outcome |-> "cancelled"]
               /\ ~group.approved \/ ~group.verifying \/ holder.status = "releasing"
               /\ StepsOf(CancelledPlan) \subseteq {"restore", "unban"}
               /\ tg.rights = "muted" => "restore" \in StepsOf(CancelledPlan)
               /\ KickDue => "unban" \in StepsOf(CancelledPlan)
            \/ /\ holder.status = "completing"
               /\ \/ plan = [steps |-> <<>>, outcome |-> "left"] /\ ~tg.present
                  \/ /\ plan = [steps |-> <<"ban">>, outcome |-> "blocked"]
                     /\ TRUE \in Listings
                  \/ plan = [steps |-> <<"restore">>, outcome |-> "verified"]
                  \/ /\ plan = [steps |-> <<>>, outcome |-> "verified"]
                     /\ TRUE \in Protections /\ tg.rights = "free"
            \/ /\ holder.status \notin {"completing", "releasing"}
               /\ \/ plan = [steps |-> ExpiredPlan, outcome |-> "expired"]
                  \/ /\ TRUE \in Protections
                     /\ \/ plan = [steps |-> <<"restore">>, outcome |-> "cancelled"]
                        \/ /\ plan = [steps |-> <<>>, outcome |-> "expired"]
                           /\ tg.rights # "muted"
<1>1. /\ "restore" \in Steps /\ "unban" \in Steps /\ "ban" \in Steps /\ "begin" \in Steps
      /\ "settle" \in Steps
  BY DEF Steps
<1>2. ASSUME NEW c, NEW x \in Steps
      PROVE  /\ When(c, x) \in Seq(Steps) /\ InOrder(When(c, x))
             /\ StepsOf(When(c, x)) \subseteq {x}
             /\ c => StepsOf(When(c, x)) = {x}
  BY <1>2, ShortPlans DEF When
<1>3. /\ CancelledPlan \in Seq(Steps) /\ InOrder(CancelledPlan)
      /\ StepsOf(CancelledPlan) \subseteq {"restore", "unban"}
      /\ tg.rights = "muted" => "restore" \in StepsOf(CancelledPlan)
      /\ KickDue => "unban" \in StepsOf(CancelledPlan)
  <2> DEFINE a == When(tg.rights = "muted", "restore")
             b == When(KickDue, "unban")
  <2>1. /\ a \in Seq(Steps) /\ InOrder(a) /\ StepsOf(a) \subseteq {"restore"}
        /\ tg.rights = "muted" => StepsOf(a) = {"restore"}
    BY <1>1, <1>2
  <2>2. /\ b \in Seq(Steps) /\ InOrder(b) /\ StepsOf(b) \subseteq {"unban"}
        /\ KickDue => StepsOf(b) = {"unban"}
    BY <1>1, <1>2
  <2>3. CancelledPlan = a \o b
    BY DEF CancelledPlan
  <2> HIDE DEF a, b
  <2>4. Before("restore", "unban")
    BY DEF Before, Place
  <2>5. \A x \in StepsOf(a), y \in StepsOf(b) : Before(x, y)
    BY <2>1, <2>2, <2>4
  <2>6. InOrder(a \o b) /\ StepsOf(a \o b) = StepsOf(a) \cup StepsOf(b) /\ a \o b \in Seq(Steps)
    BY <2>1, <2>2, <2>5, ConcatSteps
  <2>. QED BY <2>1, <2>2, <2>3, <2>6
<1>4. /\ ExpiredPlan \in Seq(Steps) /\ InOrder(ExpiredPlan)
      /\ StepsOf(ExpiredPlan) \subseteq {"begin", "ban", "unban"}
  <2>1. /\ <<"begin", "ban", "unban">> \in Seq(Steps) /\ <<"unban">> \in Seq(Steps)
        /\ <<"ban">> \in Seq(Steps) /\ <<>> \in Seq(Steps)
    BY <1>1
  <2>2. \/ ExpiredPlan = <<"begin", "ban", "unban">> \/ ExpiredPlan = <<"unban">>
        \/ ExpiredPlan = <<"ban">> \/ ExpiredPlan = <<>>
    BY DEF ExpiredPlan
  <2>. QED BY <2>1, <2>2, ShortPlans
<1>5. \/ /\ plan = [steps |-> CancelledPlan, outcome |-> "cancelled"]
         /\ ~group.approved \/ ~group.verifying \/ holder.status = "releasing"
      \/ /\ holder.status = "completing"
         /\ \/ plan = [steps |-> <<>>, outcome |-> "left"] /\ ~tg.present
            \/ plan = [steps |-> <<"ban">>, outcome |-> "blocked"] /\ TRUE \in Listings
            \/ plan = [steps |-> <<"restore">>, outcome |-> "verified"]
            \/ /\ plan = [steps |-> <<>>, outcome |-> "verified"]
               /\ TRUE \in Protections /\ tg.rights = "free"
      \/ /\ holder.status \notin {"completing", "releasing"}
         /\ \/ plan = [steps |-> ExpiredPlan, outcome |-> "expired"]
            \/ /\ TRUE \in Protections
               /\ \/ plan = [steps |-> <<"restore">>, outcome |-> "cancelled"]
                  \/ plan = [steps |-> <<>>, outcome |-> "expired"] /\ tg.rights # "muted"
  <2>1. CASE ~group.approved \/ ~group.verifying \/ holder.status = "releasing"
    BY <2>1 DEF Plans
  <2>2. CASE /\ ~(~group.approved \/ ~group.verifying \/ holder.status = "releasing")
             /\ holder.status = "completing"
    <3>1. \A black \in Listings : black = TRUE \/ black = FALSE
      BY MemberAssumption
    <3>2. \/ plan = [steps |-> <<>>, outcome |-> "left"] /\ ~tg.present
          \/ \E black \in Listings :
               plan = IF black THEN [steps |-> <<"ban">>, outcome |-> "blocked"]
                      ELSE [steps |-> <<"restore">>, outcome |-> "verified"]
          \/ /\ plan = [steps |-> <<>>, outcome |-> "verified"]
             /\ TRUE \in Protections /\ tg.rights = "free"
      BY <2>2 DEF Plans, AdminPlan
    <3>. QED BY <2>2, <3>1, <3>2
  <2>3. CASE /\ ~(~group.approved \/ ~group.verifying \/ holder.status = "releasing")
             /\ holder.status # "completing"
    <3>1. \A protected \in Protections : protected = TRUE \/ protected = FALSE
      BY MemberAssumption
    <3>2. \E protected \in Protections :
            plan = IF ~protected THEN [steps |-> ExpiredPlan, outcome |-> "expired"]
                   ELSE IF tg.rights = "muted"
                     THEN [steps |-> <<"restore">>, outcome |-> "cancelled"]
                   ELSE [steps |-> <<>>, outcome |-> "expired"]
      BY <2>3 DEF Plans
    <3>. QED BY <2>3, <3>1, <3>2
  <2>. QED BY <2>1, <2>2, <2>3
<1>6. /\ plan.steps \in Seq(Steps) /\ InOrder(plan.steps)
      /\ StepsOf(plan.steps) \subseteq {"begin", "ban", "unban", "restore"}
  <2>0. \E steps, outcome :
          /\ plan = [steps |-> steps, outcome |-> outcome]
          /\ steps \in {CancelledPlan, ExpiredPlan, <<>>, <<"ban">>, <<"restore">>}
    BY <1>5
  <2>1. plan.steps \in {CancelledPlan, ExpiredPlan, <<>>, <<"ban">>, <<"restore">>}
    BY <2>0
  <2>2. /\ <<"ban">> \in Seq(Steps) /\ <<"restore">> \in Seq(Steps) /\ <<>> \in Seq(Steps)
    BY <1>1
  <2>. QED BY <1>3, <1>4, <2>1, <2>2, ShortPlans
<1>7. /\ plan.steps \o <<"settle">> \in Seq(Steps)
      /\ InOrder(plan.steps \o <<"settle">>)
      /\ StepsOf(plan.steps \o <<"settle">>) = StepsOf(plan.steps) \cup {"settle"}
  <2>1. /\ <<"settle">> \in Seq(Steps) /\ StepsOf(<<"settle">>) = {"settle"}
        /\ InOrder(<<"settle">>)
    BY <1>1, ShortPlans
  <2>2. /\ Before("begin", "settle") /\ Before("ban", "settle") /\ Before("unban", "settle")
        /\ Before("restore", "settle")
    BY DEF Before, Place
  <2>3. \A x \in StepsOf(plan.steps), y \in StepsOf(<<"settle">>) : Before(x, y)
    BY <1>6, <2>1, <2>2
  <2>. QED BY <1>6, <2>1, <2>3, ConcatSteps
<1>8. \/ plan.outcome = "cancelled"
      \/ holder.status = "completing" /\ plan.outcome \in {"left", "blocked", "verified"}
      \/ holder.status \notin {"completing", "releasing"} /\ plan.outcome = "expired"
  <2>1. \E steps, outcome :
          /\ plan = [steps |-> steps, outcome |-> outcome]
          /\ \/ outcome = "cancelled"
             \/ holder.status = "completing" /\ outcome \in {"left", "blocked", "verified"}
             \/ holder.status \notin {"completing", "releasing"} /\ outcome = "expired"
    BY <1>5
  <2>. QED BY <2>1
<1>. QED BY <1>3, <1>5, <1>6, <1>7, <1>8

(* The steps of a punishment: unless it was completed before, it is begun, *)
(* carried out and completed, in this order.                               *)
CallSteps(r, kickBanned) ==
  CASE Action[r] \in {"mute", "hold"} -> {"restrict"}
    [] Action[r] = "ban"    -> {"ban"}
    [] Action[r] = "kick"   -> IF kickBanned THEN {"unban"}
                               ELSE {"kickban", "markban", "unban"}
    [] Action[r] = "unmute" -> {"restore"}
    [] Action[r] = "unban"  -> {"unban"}

LEMMA PunishPlans ==
  ASSUME NEW r \in Requests, NEW p
  PROVE  /\ PunishPlan(r, p) \in Seq(Steps)
         /\ InOrder(PunishPlan(r, p))
         /\ StepsOf(PunishPlan(r, p)) \ {"delete"} =
              {"done"} \cup (IF p.acted THEN {}
                             ELSE {"start", "complete"} \cup CallSteps(r, p.kickBanned))
<1> DEFINE deletes == Step(Deletes[r] /\ Action[r] # "ban" /\ ~p.deleted, "delete")
           call == CallsOf(r, p.kickBanned)
           begun == <<"start">> \o call
           act == IF p.acted THEN <<>> ELSE begun \o <<"complete">>
           last == Step(Deletes[r] /\ Action[r] = "ban" /\ ~p.deleted, "delete")
<1>1. ASSUME NEW x \in Steps
      PROVE  <<x>> \in Seq(Steps) /\ StepsOf(<<x>>) = {x} /\ InOrder(<<x>>)
  <2>1. <<x>> \in Seq(Steps)
    OBVIOUS
  <2>. QED BY <2>1, ShortPlans
<1>2. <<>> \in Seq(Steps) /\ StepsOf(<<>>) = {} /\ InOrder(<<>>)
  BY ShortPlans
<1>3. /\ "delete" \in Steps /\ "start" \in Steps /\ "complete" \in Steps /\ "done" \in Steps
      /\ "restrict" \in Steps /\ "ban" \in Steps /\ "unban" \in Steps
      /\ "restore" \in Steps /\ "kickban" \in Steps /\ "markban" \in Steps
  BY DEF Steps
<1>4. /\ deletes \in Seq(Steps) /\ InOrder(deletes) /\ StepsOf(deletes) \subseteq {"delete"}
      /\ last \in Seq(Steps) /\ InOrder(last) /\ StepsOf(last) \subseteq {"delete"}
  BY <1>1, <1>2, <1>3 DEF Step
<1>5. call \in Seq(Steps) /\ InOrder(call) /\ StepsOf(call) = CallSteps(r, p.kickBanned)
  <2>1. Action[r] \in {"mute", "hold", "ban", "kick", "unmute", "unban"}
    BY MemberAssumption DEF Actions, Restricting
  <2>2. <<"kickban", "markban", "unban">> \in Seq(Steps)
    BY <1>3
  <2>. QED BY <1>1, <1>3, <2>1, <2>2, ShortPlans DEF CallsOf, CallSteps
<1>6. CallSteps(r, p.kickBanned) \subseteq
        {"restrict", "ban", "unban", "restore", "kickban", "markban"}
  <2>1. Action[r] \in {"mute", "hold", "ban", "kick", "unmute", "unban"}
    BY MemberAssumption DEF Actions, Restricting
  <2>. QED BY <2>1 DEF CallSteps
<1>7. /\ \A x \in {"restrict", "ban", "unban", "restore", "kickban", "markban"} :
           Before("start", x) /\ Before(x, "complete") /\ Before(x, "done")
      /\ Before("start", "complete") /\ Before("start", "done")
      /\ Before("complete", "done")
      /\ \A x : Before("delete", x) /\ Before(x, "delete")
  BY DEF Before, Place
<1>8. PunishPlan(r, p) = ((deletes \o act) \o last) \o <<"done">>
  BY DEF PunishPlan
<1> HIDE DEF deletes, call, last
<1>15. /\ StepsOf(<<"start">>) = {"start"} /\ StepsOf(<<"complete">>) = {"complete"}
       /\ StepsOf(<<"done">>) = {"done"}
       /\ <<"start">> \in Seq(Steps) /\ InOrder(<<"start">>)
       /\ <<"complete">> \in Seq(Steps) /\ InOrder(<<"complete">>)
       /\ <<"done">> \in Seq(Steps) /\ InOrder(<<"done">>)
  BY <1>1, <1>3
<1>9. /\ begun \in Seq(Steps) /\ InOrder(begun)
      /\ StepsOf(begun) = {"start"} \cup CallSteps(r, p.kickBanned)
  <2>1. \A x \in StepsOf(<<"start">>), y \in StepsOf(call) : Before(x, y)
    BY <1>5, <1>6, <1>7, <1>15
  <2>2. /\ <<"start">> \o call \in Seq(Steps) /\ InOrder(<<"start">> \o call)
        /\ StepsOf(<<"start">> \o call) = StepsOf(<<"start">>) \cup StepsOf(call)
    BY <1>5, <1>15, <2>1, ConcatSteps
  <2>. QED BY <1>5, <1>15, <2>2 DEF begun
<1> HIDE DEF begun
<1>10. /\ act \in Seq(Steps) /\ InOrder(act)
       /\ StepsOf(act) = IF p.acted THEN {}
                         ELSE {"start", "complete"} \cup CallSteps(r, p.kickBanned)
  <2>1. \A x \in StepsOf(begun), y \in StepsOf(<<"complete">>) : Before(x, y)
    BY <1>6, <1>7, <1>9, <1>15
  <2>2. /\ begun \o <<"complete">> \in Seq(Steps) /\ InOrder(begun \o <<"complete">>)
        /\ StepsOf(begun \o <<"complete">>) = StepsOf(begun) \cup {"complete"}
    BY <1>9, <1>15, <2>1, ConcatSteps
  <2>3. CASE p.acted
    BY <1>2, <2>3
  <2>4. CASE ~p.acted
    BY <1>9, <2>2, <2>4
  <2>. QED BY <2>3, <2>4
<1> HIDE DEF act
<1>11. /\ deletes \o act \in Seq(Steps) /\ InOrder(deletes \o act)
       /\ StepsOf(deletes \o act) = StepsOf(deletes) \cup StepsOf(act)
  <2>1. \A x \in StepsOf(deletes), y \in StepsOf(act) : Before(x, y)
    BY <1>4, <1>7
  <2>. QED BY <1>4, <1>10, <2>1, ConcatSteps
<1>12. /\ (deletes \o act) \o last \in Seq(Steps) /\ InOrder((deletes \o act) \o last)
       /\ StepsOf((deletes \o act) \o last) =
            StepsOf(deletes) \cup StepsOf(act) \cup StepsOf(last)
  <2>1. \A x \in StepsOf(deletes \o act), y \in StepsOf(last) : Before(x, y)
    BY <1>4, <1>7
  <2>. QED BY <1>4, <1>11, <2>1, ConcatSteps
<1>13. /\ PunishPlan(r, p) \in Seq(Steps) /\ InOrder(PunishPlan(r, p))
       /\ StepsOf(PunishPlan(r, p)) =
            StepsOf(deletes) \cup StepsOf(act) \cup StepsOf(last) \cup {"done"}
  <2>1. \A x \in StepsOf((deletes \o act) \o last), y \in StepsOf(<<"done">>) : Before(x, y)
    <3>1. \A x \in StepsOf((deletes \o act) \o last) : Before(x, "done")
      BY <1>4, <1>6, <1>7, <1>10, <1>12
    <3>. QED BY <1>15, <3>1
  <2> DEFINE most == (deletes \o act) \o last
  <2>2. /\ most \o <<"done">> \in Seq(Steps) /\ InOrder(most \o <<"done">>)
        /\ StepsOf(most \o <<"done">>) = StepsOf(most) \cup StepsOf(<<"done">>)
    BY <1>12, <1>15, <2>1, ConcatSteps
  <2>. QED BY <1>8, <1>12, <1>15, <2>2
<1>14. "delete" \notin StepsOf(act)
  BY <1>6, <1>10
<1>. QED BY <1>4, <1>10, <1>13, <1>14

-----------------------------------------------------------------------------
(* What a step does to the holder of the lock and to the sessions.         *)

\* The holder has taken its next step and has others left.
Advances ==
  /\ holder.op # "none" /\ Head(holder.todo) \notin {"read", "prepare"}
  /\ holder'.todo = Tail(holder.todo) /\ holder'.todo # <<>>
  /\ holder'.op = holder.op /\ holder'.id = holder.id
  /\ holder'.status = holder.status /\ holder'.outcome = holder.outcome
  /\ holder'.released = holder.released
  /\ holder.acted => holder'.acted
  /\ holder.kick => holder'.kick

\* The step taken was a call, and the call had its effect, or there was no call.
CallTaken ==
  /\ Head(holder.todo) \in EffectSteps => Effect(Head(holder.todo))
  /\ Head(holder.todo) \notin EffectSteps => NoEffect

LEMMA HolderSteps ==
  ASSUME TypeOK, [Next]_vars
  PROVE  \/ UNCHANGED holder
         \/ holder'.op = "none"
         \/ Advances /\ CallTaken
         \/ FinishReads \/ Prepares
         \/ \E s \in Sessions : JoinLocked /\ JoinProceeds /\ holder' = JoinMuting(s)
         \/ \E s \in Sessions : AnsweredRight(s) \/ FinishStarts(s)
         \/ \E r \in Requests : PunishStarts(r) \/ ReleaseStarts(r)
<1>0. holder \in Holder /\ (holder.op # "none" => holder.todo # <<>>)
  BY DEF TypeOK, LockTypeOK
<1>1. ASSUME holder.op # "none", Head(holder.todo) \notin {"read", "prepare"},
             \/ holder' = Advanced(holder)
             \/ holder' = [Advanced(holder) EXCEPT !.acted = TRUE]
             \/ holder' = [Advanced(holder) EXCEPT !.kick = TRUE]
      PROVE  holder'.op = "none" \/ Advances
  <2>1. PICK h : h = Advanced(holder)
    OBVIOUS
  <2>2. /\ h \in Holder
        /\ h.op # "none" => /\ h = [holder EXCEPT !.todo = Tail(holder.todo)]
                            /\ h.todo # <<>>
    BY <1>0, <1>1, <2>1, AdvancedType
  <2>3. /\ holder'.op = h.op /\ holder'.id = h.id /\ holder'.todo = h.todo
        /\ holder'.status = h.status /\ holder'.outcome = h.outcome
        /\ holder'.released = h.released
        /\ h.acted => holder'.acted
        /\ h.kick => holder'.kick
    <3>1. CASE holder' = h
      BY <3>1
    <3>2. CASE holder' = [h EXCEPT !.acted = TRUE]
      BY <2>2, <3>2 DEF Holder
    <3>3. CASE holder' = [h EXCEPT !.kick = TRUE]
      BY <2>2, <3>3 DEF Holder
    <3>. QED BY <1>1, <2>1, <3>1, <3>2, <3>3
  <2>4. h.op # "none" =>
          /\ h.op = holder.op /\ h.id = holder.id /\ h.todo = Tail(holder.todo)
          /\ h.status = holder.status /\ h.outcome = holder.outcome
          /\ h.released = holder.released /\ h.acted = holder.acted /\ h.kick = holder.kick
    BY <1>0, <2>2 DEF Holder
  <2>. QED BY <1>1, <2>2, <2>3, <2>4 DEF Advances
<1>2. Free.op = "none"
  BY DEF Free
<1>3. CASE BeginKick \/ StartsPermission \/ MarksKickBanned \/ CompletesTakeover
  <2>1. CallTaken
    BY <1>3
       DEF BeginKick, StartsPermission, MarksKickBanned, CompletesTakeover, Doing,
           CallTaken, EffectSteps, NoEffect
  <2>. QED
    BY <1>1, <1>2, <1>3, <2>1
       DEF BeginKick, StartsPermission, MarksKickBanned, CompletesTakeover, Doing,
           PunishFails, PunishTooLate
<1>4. CASE DeletesMessage
  <2>1. CallTaken
    BY <1>4 DEF DeletesMessage, Doing, CallTaken, EffectSteps, NoEffect
  <2>. QED
    BY <1>1, <1>2, <1>4, <2>1 DEF DeletesMessage, Doing, PunishFails, PunishRefused
<1>5. CASE PunishDone \/ Settle \/ Drops \/ JoinMutes \/ GivesUp \/ Crash
  BY <1>2, <1>5 DEF PunishDone, Settle, Drops, JoinMutes, GivesUp, Crash, PunishFails
<1>6. ASSUME NEW step \in EffectSteps,
             FinishCalls(step) \/ PunishCalls(step) \/ ReleaseCalls(step)
      PROVE  holder'.op = "none" \/ (Advances /\ CallTaken)
  <2>1. /\ holder.op # "none" /\ Head(holder.todo) = step
        /\ step \notin {"read", "prepare"}
    BY <1>6 DEF FinishCalls, PunishCalls, ReleaseCalls, Doing, EffectSteps
  <2>2. \/ holder' = Free
        \/ /\ Effect(step)
           /\ \/ holder' = Advanced(holder)
              \/ holder' = [Advanced(holder) EXCEPT !.acted = TRUE]
    BY <1>6
       DEF FinishCalls, PunishCalls, ReleaseCalls, PunishFails, PunishRefused, PunishTooLate
  <2>. QED BY <1>1, <1>2, <1>6, <2>1, <2>2 DEF CallTaken
<1>7. ASSUME NEW s \in Sessions, SessionNext(s)
      PROVE  UNCHANGED holder \/ AnsweredRight(s) \/ FinishStarts(s)
  BY <1>7 DEF SessionNext, AnsweredWrong, Lapses
<1>8. ASSUME NEW r \in Requests,
             Requested(r) \/ MuteRunsOut(r) \/ TelegramLifts(r) \/ ReleaseListed(r)
      PROVE  UNCHANGED holder
  BY <1>8 DEF Requested, MuteRunsOut, TelegramLifts, ReleaseListed
<1>9. ASSUME NEW c \in calls, Busy(c) PROVE UNCHANGED holder
  BY <1>9 DEF Busy
<1>10. CASE JoinLocked
  BY <1>10 DEF JoinLocked
<1>11. CASE JoinChecked \/ Left \/ Expires \/ GroupNext \/ Joins \/ Leaves \/ UNCHANGED vars
  BY <1>11
     DEF JoinChecked, Left, Expires, GroupNext, Revoked, Approved, VerificationOff,
         VerificationOn, Joins, Leaves, vars
<1>. QED
  BY <1>3, <1>4, <1>5, <1>6, <1>7, <1>8, <1>9, <1>10, <1>11
     DEF Next, JoinNext, FinishNext, PunishNext, ReleaseNext, OtherNext, RequestNext

\* The group may be revoked, or its verification switched off.
MayRelease == revokes < MaxRevokes \/ "switch" \in Moves

(* Without the lock a session can run out of time or be released, no more. *)
Drifts(a, b) ==
  /\ b.kickStarted = a.kickStarted /\ b.created = a.created
  /\ \/ b.status = a.status
     \/ a.status = "pending" /\ b.status = "expiring"
     \/ a.status \in Live /\ b.status = "releasing" /\ MayRelease

SessionsDrift == \A s \in Sessions : Drifts(ses[s], ses'[s])

LEMMA SessionSteps ==
  ASSUME TypeOK, [Next]_vars
  PROVE  \/ SessionsDrift
         \/ JoinLocked \/ BeginKick \/ Settle \/ CompletesTakeover \/ Drops
         \/ \E s \in Sessions : AnsweredRight(s)
<1>0. ses \in [Sessions -> SessionRow]
  BY DEF TypeOK, RowsTypeOK
<1>1. ASSUME UNCHANGED ses PROVE SessionsDrift
  BY <1>1 DEF SessionsDrift, Drifts
<1>2. \A s \in Sessions : /\ MayRelease => Drifts(ses[s], SessionsTo("releasing", Live, ses[s]))
                          /\ Drifts(ses[s], SessionsTo("expiring", {"pending"}, ses[s]))
                          /\ Drifts(ses[s], ses[s])
  BY <1>0 DEF Drifts, SessionsTo, SessionRow
<1>3. CASE Expires
  BY <1>2, <1>3 DEF Expires, SessionsDrift
<1>4. CASE Revoked \/ VerificationOff
  BY <1>2, <1>4 DEF Revoked, VerificationOff, SessionsDrift, MayRelease
<1>5. ASSUME NEW s \in Sessions, AnsweredWrong(s) \/ Lapses(s) PROVE SessionsDrift
  <2>1. \A t \in Sessions \ {s} : ses'[t] = ses[t]
    BY <1>0, <1>5 DEF AnsweredWrong, Lapses
  <2>2. /\ ses'[s].status = ses[s].status /\ ses'[s].created = ses[s].created
        /\ ses'[s].kickStarted = ses[s].kickStarted
    BY <1>0, <1>5 DEF AnsweredWrong, Lapses, SessionRow
  <2>. QED BY <1>2, <2>1, <2>2 DEF SessionsDrift, Drifts
<1>6. ASSUME NEW s \in Sessions, FinishStarts(s) PROVE SessionsDrift
  BY <1>1, <1>6 DEF FinishStarts
<1>7. ASSUME NEW step \in EffectSteps,
             FinishCalls(step) \/ PunishCalls(step) \/ ReleaseCalls(step)
      PROVE  SessionsDrift
  BY <1>1, <1>7 DEF FinishCalls, PunishCalls, ReleaseCalls
<1>8. ASSUME NEW r \in Requests,
             RequestNext(r) \/ ReleaseListed(r) \/ ReleaseStarts(r)
      PROVE  SessionsDrift
  BY <1>1, <1>8
     DEF RequestNext, Requested, PunishStarts, MuteRunsOut, TelegramLifts, ReleaseListed,
         ReleaseStarts
<1>9. CASE Prepares \/ DeletesMessage \/ StartsPermission \/ MarksKickBanned \/ PunishDone
  BY <1>1, <1>9
     DEF Prepares, DeletesMessage, StartsPermission, MarksKickBanned, PunishDone
<1>10. CASE JoinChecked \/ JoinMutes \/ Left \/ FinishReads \/ Approved \/ VerificationOn
  BY <1>1, <1>10
     DEF JoinChecked, JoinMutes, Left, FinishReads, Approved, VerificationOn
<1>11. CASE OtherNext \/ UNCHANGED vars
  BY <1>1, <1>11 DEF OtherNext, Joins, Leaves, GivesUp, Crash, Busy, vars
<1>. QED
  BY <1>3, <1>4, <1>5, <1>6, <1>7, <1>8, <1>9, <1>10, <1>11
     DEF Next, JoinNext, SessionNext, FinishNext, PunishNext, ReleaseNext, GroupNext

-----------------------------------------------------------------------------
(* Who has the lock knows the session it works for.                        *)

\* What finishVerification may write for a session it read in this status.
Outcomes(status) ==
  CASE status = "completing" -> {"verified", "blocked", "left", "cancelled"}
    [] status = "expiring"   -> {"expired", "cancelled"}
    [] OTHER                 -> {"cancelled"}

\* The steps a punishment takes between its first read and its end.
PunishSteps(r) ==
  {"delete", "start", "complete", "done"} \cup CallSteps(r, TRUE) \cup CallSteps(r, FALSE)

JoinLock ==
  holder.op = "join" => /\ holder.todo = <<"restrict">>
                        /\ ses[holder.id].status \in Active

FinishLock ==
  holder.op = "finish" =>
    /\ holder.status \in {"completing", "expiring", "releasing"}
    /\ ses[holder.id].status \in {holder.status, "releasing"}
    /\ Head(holder.todo) # "read" =>
         /\ Ahead \subseteq {"begin", "ban", "unban", "restore", "settle"}
         /\ holder.outcome \in Outcomes(holder.status)

PunishLock ==
  (holder.op = "punish" /\ Head(holder.todo) # "prepare") =>
    /\ Ahead \subseteq PunishSteps(holder.id)
    /\ Ahead \cap EffectSteps # {} => "start" \in Ahead \/ pun[holder.id].started

ReleaseLock ==
  holder.op = "release" =>
    /\ Ahead \subseteq {Lift(holder.id), "drop"}
    /\ holder.todo = <<"drop">> \/ holder.released

\* The lock is held by a workflow whose remaining steps are in order, and which
\* can only have been overtaken by what needs no lock.
LockInv ==
  /\ holder.op # "none" => InOrder(holder.todo)
  /\ JoinLock /\ FinishLock /\ PunishLock /\ ReleaseLock

(* Taking a step of a plan.                                                *)
LEMMA AheadAdvances ==
  ASSUME TypeOK, InOrder(holder.todo), Advances
  PROVE  /\ Ahead = {Head(holder.todo)} \cup Ahead'
         /\ InOrder(holder'.todo)
         /\ \A y \in Ahead' : Before(Head(holder.todo), y)
         /\ Head(holder'.todo) \in Ahead'
<1> DEFINE t == holder.todo
<1>1. t \in Seq(Steps) /\ t # <<>> /\ holder'.todo = Tail(t) /\ Tail(t) # <<>>
  BY DEF TypeOK, LockTypeOK, Holder, Advances
<1>2. Tail(t) \in Seq(Steps)
  BY <1>1, HeadTailProperties
<1> HIDE DEF t
<1>3. Head(Tail(t)) \in StepsOf(Tail(t))
  BY <1>1, <1>2, TailSteps
<1>4. /\ StepsOf(t) = {Head(t)} \cup StepsOf(Tail(t))
      /\ InOrder(Tail(t)) /\ \A y \in StepsOf(Tail(t)) : Before(Head(t), y)
  BY <1>1, TailSteps DEF t
<1>. QED BY <1>1, <1>3, <1>4 DEF Ahead, t

(* While a session has the lock, the rows of sessions only drift.          *)
LEMMA HeldSessions ==
  ASSUME TypeOK, [Next]_vars, holder.op \in {"join", "finish"}, holder'.op # "none"
  PROVE  \A s \in Sessions :
           /\ ses[s].kickStarted => ses'[s].kickStarted
           /\ \/ ses'[s].status = ses[s].status
              \/ ses[s].status = "pending" /\ ses'[s].status = "expiring"
              \/ ses[s].status \in Live /\ ses'[s].status = "releasing"
<1>0. ses \in [Sessions -> SessionRow]
  BY DEF TypeOK, RowsTypeOK
<1>1. CASE SessionsDrift
  BY <1>1 DEF SessionsDrift, Drifts
<1>2. CASE BeginKick
  <2>1. ses' = [ses EXCEPT ![holder.id].kickStarted =
                  ses[holder.id].kickStarted \/ ses[holder.id].status = "expiring"]
    BY <1>2 DEF BeginKick
  <2>. QED BY <1>0, <2>1 DEF SessionRow
<1>3. ~Settle
  BY DEF Settle, Free
<1>4. ~CompletesTakeover /\ ~Drops
  BY DEF CompletesTakeover, Drops, Doing
<1>5. ~JoinLocked /\ ~(\E s \in Sessions : AnsweredRight(s))
  BY DEF JoinLocked, AnsweredRight, LockFree
<1>. QED BY <1>1, <1>2, <1>3, <1>4, <1>5, SessionSteps

-----------------------------------------------------------------------------
(* What a step does to the requests and to the member's rights.            *)

(* Most steps leave of a request what it did, and what it has to lift; a   *)
(* revocation retires it.                                                  *)
RowDrifts(r, p, q) ==
  /\ q.started = p.started /\ q.acted = p.acted /\ q.kickBanned = p.kickBanned
  /\ q.created = p.created
  /\ p.elapsed => q.elapsed
  /\ \/ q.status = p.status /\ q.release = p.release
     \/ /\ p.status = "pending" /\ q.status = "skipped" /\ revokes < MaxRevokes
        /\ q.release = IF p.started /\ Action[r] \in Restricting THEN "now" ELSE p.release

RowsDrift == \A r \in Requests : RowDrifts(r, pun[r], pun'[r])

LEMMA UpdateDrifts ==
  ASSUME NEW r \in Requests, NEW p \in PunishmentRow
  PROVE  /\ RowDrifts(r, p, p)
         /\ RowDrifts(r, p, Retried(p))
         /\ \A b : RowDrifts(r, p, [p EXCEPT !.deleted = b])
         /\ RowDrifts(r, p, [p EXCEPT !.elapsed = TRUE])
         /\ revokes < MaxRevokes =>
              RowDrifts(r, p, RevokedRow(p, Action[r] \in Restricting))
         /\ p.status # "pending" \/ holder.acted => RowDrifts(r, p, Retried(Rejected(p)))
         /\ p.status # "pending" => RowDrifts(r, p, Retried(Overdue(p)))
         /\ p.status # "pending" =>
              RowDrifts(r, p, [p EXCEPT !.status = IF @ = "pending" THEN "done" ELSE @])
<1> USE DEF RowDrifts, PunishmentRow
<1>1. RowDrifts(r, p, p)
  OBVIOUS
<1>2. RowDrifts(r, p, Retried(p))
  BY DEF Retried
<1>3. \A b : RowDrifts(r, p, [p EXCEPT !.deleted = b])
  OBVIOUS
<1>4. RowDrifts(r, p, [p EXCEPT !.elapsed = TRUE])
  OBVIOUS
<1>5. revokes < MaxRevokes =>
        RowDrifts(r, p, RevokedRow(p, Action[r] \in Restricting))
  BY DEF RevokedRow
<1>6. p.status # "pending" \/ holder.acted => Rejected(p) = p
  BY DEF Rejected
<1>7. p.status # "pending" => Overdue(p) = p
  BY DEF Overdue
<1>8. p.status # "pending" =>
        RowDrifts(r, p, [p EXCEPT !.status = IF @ = "pending" THEN "done" ELSE @])
  OBVIOUS
<1> HIDE DEF RowDrifts, PunishmentRow
<1>. QED BY <1>1, <1>2, <1>3, <1>4, <1>5, <1>6, <1>7, <1>8

(* The punishment fails for good: its mute came too late, or Telegram will *)
(* not have it and nothing was done.  No call has an effect.               *)
RowFails ==
  /\ holder.op = "punish" /\ Head(holder.todo) # "prepare"
  /\ holder' = Free /\ NoEffect /\ UNCHANGED <<ses, group>>
  /\ pun[holder.id].status = "pending"
  /\ \A q \in Requests \ {holder.id} : pun'[q] = pun[q]
  /\ pun'[holder.id].status = "failed"
  /\ pun'[holder.id].kickBanned = pun[holder.id].kickBanned
  /\ pun'[holder.id].created = pun[holder.id].created
  /\ \/ /\ pun'[holder.id].started = pun[holder.id].started
        /\ pun'[holder.id].release = pun[holder.id].release
        /\ pun'[holder.id].elapsed
     \/ /\ ~holder.acted
        /\ ~pun'[holder.id].started
        /\ pun'[holder.id].release = "no"

LEMMA RowFailures ==
  ASSUME TypeOK, holder.op = "punish", Head(holder.todo) # "prepare",
         PunishFails \/ PunishRefused \/ (PunishTooLate /\ PlanOver(holder.id)),
         NoEffect \/ PunishFails, UNCHANGED <<ses, group>>
  PROVE  RowsDrift \/ RowFails
<1> DEFINE r == holder.id
<1>0. /\ pun \in [Requests -> PunishmentRow] /\ r \in Requests
      /\ pun[r] \in PunishmentRow
  BY DEF TypeOK, RowsTypeOK, LockTypeOK
<1> HIDE DEF r
<1>1. \A q \in Requests : RowDrifts(q, pun[q], pun[q])
  BY <1>0, UpdateDrifts
<1>2. ASSUME NEW p, RowDrifts(r, pun[r], p), pun' = [pun EXCEPT ![r] = p]
      PROVE  RowsDrift
  BY <1>0, <1>1, <1>2 DEF RowsDrift
<1>3. CASE PunishFails
  <2>1. pun' = [pun EXCEPT ![r] = Retried(pun[r])]
    BY <1>3 DEF PunishFails, r
  <2>2. RowDrifts(r, pun[r], Retried(pun[r]))
    BY <1>0, UpdateDrifts
  <2>. QED BY <1>2, <2>1, <2>2
<1>4. CASE PunishRefused /\ NoEffect
  <2>1. pun' = [pun EXCEPT ![r] = Retried(Rejected(pun[r]))] /\ holder' = Free
    BY <1>4 DEF PunishRefused, r
  <2>2. CASE pun[r].status # "pending" \/ holder.acted
    BY <1>0, <1>2, <2>1, <2>2, UpdateDrifts
  <2>3. CASE pun[r].status = "pending" /\ ~holder.acted
    <3>1. PICK p : p = Retried(Rejected(pun[r]))
      OBVIOUS
    <3>2. /\ p.status = "failed" /\ ~p.started /\ p.release = "no"
          /\ p.kickBanned = pun[r].kickBanned /\ p.created = pun[r].created
      BY <1>0, <2>3, <3>1 DEF Retried, Rejected, PunishmentRow
    <3>3. pun'[r] = p /\ \A q \in Requests \ {r} : pun'[q] = pun[q]
      BY <1>0, <2>1, <3>1
    <3>. QED BY <1>4, <2>1, <2>3, <3>2, <3>3 DEF RowFails, r
  <2>. QED BY <2>2, <2>3
<1>5. CASE PunishTooLate /\ PlanOver(r) /\ NoEffect
  <2>1. pun' = [pun EXCEPT ![r] = Retried(Overdue(pun[r]))] /\ holder' = Free
    BY <1>5 DEF PunishTooLate, r
  <2>2. CASE pun[r].status # "pending"
    BY <1>0, <1>2, <2>1, <2>2, UpdateDrifts
  <2>3. CASE pun[r].status = "pending"
    <3>1. PICK p : p = Retried(Overdue(pun[r]))
      OBVIOUS
    <3>2. /\ p.status = "failed" /\ p.started = pun[r].started /\ p.release = pun[r].release
          /\ p.elapsed
          /\ p.kickBanned = pun[r].kickBanned /\ p.created = pun[r].created
      BY <1>0, <1>5, <2>3, <3>1 DEF Retried, Overdue, PlanOver, PunishmentRow
    <3>3. pun'[r] = p /\ \A q \in Requests \ {r} : pun'[q] = pun[q]
      BY <1>0, <2>1, <3>1
    <3>. QED BY <1>5, <2>1, <2>3, <3>2, <3>3 DEF RowFails, r
  <2>. QED BY <2>2, <2>3
<1>. QED BY <1>3, <1>4, <1>5 DEF r

\* StartPermission found that the request may begin.
Begins ==
  /\ StartsPermission /\ MayStart(holder.id)
  /\ pun' = [pun EXCEPT ![holder.id].started = TRUE,
                        ![holder.id].release = IF Timed(holder.id) THEN "timed" ELSE @]
  /\ holder' = Advanced(holder)

\* CompleteTakeover found that the request may complete.
Completes ==
  /\ CompletesTakeover /\ MayStart(holder.id)
  /\ ses' = IF Action[holder.id] = "unban" THEN ses
            ELSE [s \in Sessions |-> SessionsTo("cancelled", Active, ses[s])]
  /\ pun' = [q \in Requests |->
       CASE q = holder.id -> [pun[q] EXCEPT !.acted = TRUE]
         [] /\ q # holder.id /\ Source[holder.id] = "manual"
            /\ Earlier(q, holder.id) /\ pun[q].status = "pending"
            -> [pun[q] EXCEPT !.status = "skipped"]
         [] OTHER -> pun[q]]
  /\ holder' = Advanced(holder)

\* PunishmentStep(done) found the request pending.
Ends ==
  /\ PunishDone /\ holder' = Free /\ pun[holder.id].status = "pending"
  /\ pun' = [pun EXCEPT ![holder.id].status = "done"]

LEMMA RowSteps ==
  ASSUME TypeOK, [Next]_vars
  PROVE  \/ RowsDrift \/ RowFails
         \/ Prepares \/ Begins \/ MarksKickBanned \/ Completes \/ Drops \/ Ends
         \/ \E r \in Requests : PunishStarts(r)
<1>0. pun \in [Requests -> PunishmentRow]
  BY DEF TypeOK, RowsTypeOK
<1>1. \A q \in Requests : RowDrifts(q, pun[q], pun[q])
  BY <1>0, UpdateDrifts
<1>2. ASSUME UNCHANGED pun PROVE RowsDrift
  BY <1>1, <1>2 DEF RowsDrift
<1>3. ASSUME NEW r, NEW p, r \in Requests => RowDrifts(r, pun[r], p),
             pun' = [pun EXCEPT ![r] = p]
      PROVE  RowsDrift
  BY <1>0, <1>1, <1>3 DEF RowsDrift
<1>4. CASE StartsPermission
  <2>1. CASE PlanOver(holder.id) /\ ~pun[holder.id].started
    <3>1. PunishTooLate
      BY <1>4, <2>1 DEF StartsPermission
    <3>. QED
      BY <1>4, <2>1, <3>1, RowFailures DEF StartsPermission, Doing, NoEffect
  <2>2. CASE ~(PlanOver(holder.id) /\ ~pun[holder.id].started)
    <3>1. CASE ~MayStart(holder.id)
      <4>1. PunishFails
        BY <1>4, <2>2, <3>1 DEF StartsPermission
      <4>. QED BY <1>4, <4>1, RowFailures DEF StartsPermission, Doing, NoEffect
    <3>2. CASE MayStart(holder.id)
      BY <1>4, <2>2, <3>2 DEF StartsPermission, Begins
    <3>. QED BY <3>1, <3>2
  <2>. QED BY <2>1, <2>2
<1>5. CASE CompletesTakeover
  <2>1. CASE ~MayStart(holder.id)
    <3>1. PunishFails /\ UNCHANGED ses
      BY <1>5, <2>1 DEF CompletesTakeover
    <3>. QED BY <1>5, <3>1, RowFailures DEF CompletesTakeover, Doing, NoEffect
  <2>2. CASE MayStart(holder.id)
    BY <1>5, <2>2 DEF CompletesTakeover, Completes
  <2>. QED BY <2>1, <2>2
<1>6. CASE DeletesMessage
  <2>1. PICK r, b : r = holder.id /\ b = (pun[r].deleted \/ pun[r].status = "pending")
    OBVIOUS
  <2>2. CASE pun' = [pun EXCEPT ![r] = [pun[r] EXCEPT !.deleted = b]]
    <3>1. r \in Requests => RowDrifts(r, pun[r], [pun[r] EXCEPT !.deleted = b])
      BY <1>0, UpdateDrifts
    <3>. QED BY <1>3, <2>2, <3>1
  <2>3. CASE PunishRefused \/ PunishFails
    BY <1>6, <2>3, RowFailures DEF DeletesMessage, Doing, NoEffect
  <2>. QED BY <1>6, <2>1, <2>2, <2>3 DEF DeletesMessage
<1>7. ASSUME NEW step \in EffectSteps, PunishCalls(step)
      PROVE  RowsDrift \/ RowFails
  <2>1. /\ holder.op = "punish" /\ Head(holder.todo) # "prepare" /\ UNCHANGED <<ses, group>>
    BY <1>7 DEF PunishCalls, Doing, EffectSteps
  <2>2. CASE step = "restrict" /\ PlanOver(holder.id)
    <3>1. PunishTooLate /\ NoEffect
      BY <1>7, <2>2 DEF PunishCalls
    <3>. QED BY <2>1, <2>2, <3>1, RowFailures
  <2>3. CASE ~(step = "restrict" /\ PlanOver(holder.id))
    <3>1. \/ UNCHANGED pun
          \/ NoEffect /\ PunishRefused
          \/ PunishFails
      BY <1>7, <2>3 DEF PunishCalls, Refused
    <3>. QED BY <1>2, <2>1, <3>1, RowFailures
  <2>. QED BY <2>2, <2>3
<1>8. CASE Revoked
  <2>1. \A r \in Requests : pun'[r] = RevokedRow(pun[r], Action[r] \in Restricting)
    BY <1>8 DEF Revoked
  <2>2. \A r \in Requests :
          RowDrifts(r, pun[r], RevokedRow(pun[r], Action[r] \in Restricting))
    BY <1>0, <1>8, UpdateDrifts DEF Revoked
  <2>. QED BY <2>1, <2>2 DEF RowsDrift
<1>9. ASSUME NEW r \in Requests, MuteRunsOut(r) PROVE RowsDrift
  <2>1. pun' = [pun EXCEPT ![r] = [pun[r] EXCEPT !.elapsed = TRUE]]
    BY <1>9 DEF MuteRunsOut
  <2>2. RowDrifts(r, pun[r], [pun[r] EXCEPT !.elapsed = TRUE])
    BY <1>0, UpdateDrifts
  <2>. QED BY <1>3, <2>1, <2>2
<1>10. CASE GivesUp
  <2>1. CASE holder.op = "punish" /\ ~Doing("punish", "prepare")
    <3>1. PunishFails /\ UNCHANGED <<ses, group>>
      BY <1>10, <2>1 DEF GivesUp
    <3>. QED BY <2>1, <3>1, RowFailures DEF Doing
  <2>2. CASE ~(holder.op = "punish" /\ ~Doing("punish", "prepare"))
    BY <1>2, <1>10, <2>2 DEF GivesUp
  <2>. QED BY <2>1, <2>2
<1>11. ASSUME NEW step \in EffectSteps, FinishCalls(step) \/ ReleaseCalls(step)
       PROVE  RowsDrift
  BY <1>2, <1>11 DEF FinishCalls, ReleaseCalls
<1>12. CASE JoinNext \/ Expires \/ FinishReads \/ BeginKick \/ Settle
  BY <1>2, <1>12
     DEF JoinNext, JoinChecked, JoinLocked, JoinMutes, Left, Expires, FinishReads,
         BeginKick, Settle
<1>13. CASE \/ Approved \/ VerificationOff \/ VerificationOn \/ Joins \/ Leaves \/ Crash
            \/ UNCHANGED vars
  BY <1>2, <1>13
     DEF Approved, VerificationOff, VerificationOn, Joins, Leaves, Crash, vars
<1>14. ASSUME NEW s \in Sessions, SessionNext(s) PROVE RowsDrift
  BY <1>2, <1>14 DEF SessionNext, AnsweredRight, AnsweredWrong, Lapses, FinishStarts
<1>15. ASSUME NEW r \in Requests,
              Requested(r) \/ TelegramLifts(r) \/ ReleaseListed(r) \/ ReleaseStarts(r)
       PROVE  RowsDrift
  BY <1>2, <1>15 DEF Requested, TelegramLifts, ReleaseListed, ReleaseStarts
<1>16. ASSUME NEW c \in calls, Busy(c) PROVE RowsDrift
  BY <1>2, <1>16 DEF Busy
<1>17. CASE PunishDone
  <2>1. PICK r : r = holder.id
    OBVIOUS
  <2>2. r \in Requests
    BY <1>17, <2>1 DEF TypeOK, LockTypeOK, PunishDone, Doing
  <2>3. CASE PunishFails
    BY <1>17, <2>3, RowFailures DEF PunishDone, Doing, NoEffect
  <2>4. CASE ~PunishFails /\ pun[r].status = "pending"
    <3>1. pun' = [pun EXCEPT ![r].status = "done"]
      BY <1>17, <2>1, <2>4 DEF PunishDone
    <3>. QED BY <1>17, <2>1, <2>4, <3>1 DEF PunishDone, Ends
  <2>5. CASE ~PunishFails /\ pun[r].status # "pending"
    <3>1. PICK p : p = [pun[r] EXCEPT !.status = IF @ = "pending" THEN "done" ELSE @]
      OBVIOUS
    <3>2. pun' = [pun EXCEPT ![r] = p]
      BY <1>17, <2>1, <2>5, <3>1 DEF PunishDone
    <3>3. RowDrifts(r, pun[r], p)
      BY <1>0, <2>2, <2>5, <3>1, UpdateDrifts
    <3>. QED BY <1>3, <3>2, <3>3
  <2>. QED BY <2>3, <2>4, <2>5
<1>. QED
  BY <1>4, <1>5, <1>6, <1>7, <1>8, <1>9, <1>10, <1>11, <1>12, <1>13, <1>14, <1>15,
     <1>16, <1>17
     DEF Next, FinishNext, PunishNext, ReleaseNext, GroupNext, OtherNext, RequestNext

\* The holder goes on or returns; a punishment that goes on after a call knows that
\* something was done.
Returns ==
  \/ holder'.op = "none"
  \/ holder'.op = holder.op /\ (holder.op = "punish" => holder'.acted)

\* Nothing touches the member's rights; the member may come or go.
RightsRest ==
  /\ tg'.rights = tg.rights /\ cause' = cause
  /\ tg'.present => tg.present \/ tg.rights # "banned"

\* The holder of the lock, or Telegram at the end of a mute, sets the member free.
RightsFreed ==
  /\ tg'.rights = "free" /\ cause' = Nobody
  /\ RowsDrift /\ UNCHANGED <<ses, group>>
  /\ \/ holder.op # "none" /\ Head(holder.todo) \in {"restore", "unban"}
     \/ tg.rights = "muted" /\ cause.kind = "request" /\ UNCHANGED <<holder, pun>>

\* A call of the holder mutes or bans the member.
RightsTaken ==
  /\ holder.op \in {"join", "finish", "punish"} /\ cause' = Owner
  /\ Returns
  /\ RowsDrift /\ UNCHANGED <<ses, group>>
  /\ \/ Head(holder.todo) = "restrict" /\ tg' = [tg EXCEPT !.rights = "muted"]
     \/ /\ Head(holder.todo) \in {"ban", "kickban"}
        /\ tg' = [rights |-> "banned", present |-> FALSE]

LEMMA RightsSteps ==
  ASSUME TypeOK, [Next]_vars
  PROVE  RightsRest \/ RightsFreed \/ RightsTaken
<1>0. /\ tg \in [rights : {"free", "muted", "banned"}, present : BOOLEAN]
      /\ pun \in [Requests -> PunishmentRow]
  BY DEF TypeOK, MemberTypeOK, RowsTypeOK
<1>1. ASSUME UNCHANGED <<tg, cause>> PROVE RightsRest
  BY <1>0, <1>1 DEF RightsRest
<1>2. ASSUME UNCHANGED pun PROVE RowsDrift
  BY <1>0, <1>2, UpdateDrifts DEF RowsDrift
<1>3. ASSUME NEW step \in EffectSteps, holder.op # "none", Head(holder.todo) = step,
             step \in {"restrict", "ban", "kickban"} => holder.op # "release",
             Effect(step), RowsDrift, Returns, UNCHANGED <<ses, group>>
      PROVE  RightsRest \/ RightsFreed \/ RightsTaken
  <2>1. holder.op \in {"join", "finish", "punish", "release"}
    BY <1>3 DEF TypeOK, LockTypeOK, Holder
  <2>2. CASE step = "restrict"
    BY <1>3, <2>1, <2>2 DEF Effect, Restricted, RightsTaken
  <2>3. CASE step \in {"ban", "kickban"}
    BY <1>3, <2>1, <2>3 DEF Effect, Banned, RightsTaken
  <2>4. CASE step = "restore"
    BY <1>0, <1>3, <2>4 DEF Effect, Restored, RightsFreed
  <2>5. CASE step = "unban"
    <3>1. CASE tg.rights = "banned"
      BY <1>0, <1>3, <2>5, <3>1 DEF Effect, Unbanned, Restored, RightsFreed
    <3>2. CASE tg.rights # "banned"
      <4>1. UNCHANGED <<tg, cause>>
        BY <1>3, <2>5, <3>2 DEF Effect, Unbanned
      <4>. QED BY <1>1, <4>1
    <3>. QED BY <3>1, <3>2
  <2>. QED BY <1>3, <2>2, <2>3, <2>4, <2>5 DEF EffectSteps
<1>15. ASSUME holder.op # "none"
       PROVE  /\ Advanced(holder).op \in {"none", holder.op}
              /\ [Advanced(holder) EXCEPT !.acted = TRUE].op \in {"none", holder.op}
              /\ [Advanced(holder) EXCEPT !.acted = TRUE].acted
  <2>1. PICK h : h = Advanced(holder)
    OBVIOUS
  <2>2. h \in Holder /\ (h.op # "none" => h = [holder EXCEPT !.todo = Tail(holder.todo)])
    BY <1>15, <2>1, AdvancedType DEF TypeOK, LockTypeOK
  <2>3. h.op \in {"none", holder.op}
    BY <2>2 DEF TypeOK, LockTypeOK, Holder
  <2>4. [h EXCEPT !.acted = TRUE].op = h.op /\ [h EXCEPT !.acted = TRUE].acted
    BY <2>2 DEF Holder
  <2>. QED BY <2>1, <2>3, <2>4
<1>4. CASE JoinMutes
  <2>1. CASE NoEffect
    BY <1>1, <2>1 DEF NoEffect
  <2>2. CASE ~NoEffect
    <3>1. tg' = [tg EXCEPT !.rights = "muted"] /\ cause' = Owner
      BY <1>4, <2>2 DEF JoinMutes, Refused, Lost, Effect, Restricted
    <3>2. Returns
      BY <1>4 DEF JoinMutes, Returns, Free
    <3>. QED BY <1>2, <1>4, <3>1, <3>2 DEF JoinMutes, Doing, RightsTaken
  <2>. QED BY <2>1, <2>2
<1>5. ASSUME NEW step \in EffectSteps, FinishCalls(step) \/ ReleaseCalls(step)
      PROVE  RightsRest \/ RightsFreed \/ RightsTaken
  <2>1. Effect(step) \/ NoEffect
    BY <1>5 DEF FinishCalls, ReleaseCalls, Refused, Lost
  <2>2. /\ holder.op # "none" /\ Head(holder.todo) = step
        /\ step \in {"restrict", "ban", "kickban"} => holder.op # "release"
        /\ UNCHANGED <<pun, ses, group>>
    BY <1>5 DEF FinishCalls, ReleaseCalls, Doing
  <2>3. Returns
    BY <1>5, <1>15, <2>2 DEF FinishCalls, ReleaseCalls, Doing, Returns, Free
  <2>. QED BY <1>1, <1>2, <1>3, <2>1, <2>2, <2>3 DEF NoEffect
<1>6. ASSUME NEW step \in EffectSteps, PunishCalls(step)
      PROVE  RightsRest \/ RightsFreed \/ RightsTaken
  <2>1. CASE NoEffect
    BY <1>1, <2>1 DEF NoEffect
  <2>2. CASE ~NoEffect
    <3>1. Effect(step) /\ (UNCHANGED pun \/ PunishFails)
      BY <1>6, <2>2 DEF PunishCalls, Refused, Lost
    <3>2. /\ holder.op = "punish" /\ Head(holder.todo) = step
          /\ UNCHANGED <<ses, group>>
      BY <1>6 DEF PunishCalls, Doing
    <3>3. ASSUME PunishFails PROVE RowsDrift
      <4>1. ~RowFails
        BY <2>2 DEF RowFails
      <4>2. Head(holder.todo) # "prepare"
        BY <3>2 DEF EffectSteps
      <4>. QED BY <3>2, <3>3, <4>1, <4>2, RowFailures
    <3>4. Returns
      <4>1. holder' = Free \/ holder' = [Advanced(holder) EXCEPT !.acted = TRUE]
        BY <1>6, <2>2 DEF PunishCalls, Refused, Lost, PunishFails
      <4>2. PICK h : h = [Advanced(holder) EXCEPT !.acted = TRUE]
        OBVIOUS
      <4>3. h.op \in {"none", holder.op} /\ h.acted
        BY <1>15, <3>2, <4>2
      <4>4. CASE holder' = Free
        BY <4>4 DEF Returns, Free
      <4>5. CASE holder' = h
        BY <4>3, <4>5 DEF Returns
      <4>. QED BY <4>1, <4>2, <4>4, <4>5
    <3>. QED BY <1>2, <1>3, <3>1, <3>2, <3>3, <3>4
  <2>. QED BY <2>1, <2>2
<1>7. ASSUME NEW r \in Requests, TelegramLifts(r) PROVE RightsFreed
  BY <1>0, <1>2, <1>7 DEF TelegramLifts, Restored, RightsFreed
<1>8. CASE Joins \/ Leaves
  BY <1>0, <1>8 DEF Joins, Leaves, RightsRest
<1>9. CASE \/ JoinChecked \/ JoinLocked \/ Left \/ Expires \/ FinishReads \/ BeginKick
           \/ Settle \/ Drops \/ GroupNext
  BY <1>1, <1>9
     DEF JoinChecked, JoinLocked, Left, Expires, FinishReads, BeginKick, Settle, Drops,
         GroupNext, Revoked, Approved, VerificationOff, VerificationOn
<1>10. CASE \/ Prepares \/ DeletesMessage \/ StartsPermission \/ MarksKickBanned
            \/ CompletesTakeover \/ PunishDone
  BY <1>1, <1>10
     DEF Prepares, DeletesMessage, StartsPermission, MarksKickBanned, CompletesTakeover,
         PunishDone
<1>11. ASSUME NEW s \in Sessions, SessionNext(s) PROVE RightsRest
  BY <1>1, <1>11 DEF SessionNext, AnsweredRight, AnsweredWrong, Lapses, FinishStarts
<1>12. ASSUME NEW r \in Requests,
              \/ Requested(r) \/ PunishStarts(r) \/ MuteRunsOut(r)
              \/ ReleaseListed(r) \/ ReleaseStarts(r)
       PROVE  RightsRest
  BY <1>1, <1>12 DEF Requested, PunishStarts, MuteRunsOut, ReleaseListed, ReleaseStarts
<1>13. CASE GivesUp \/ Crash \/ UNCHANGED vars
  BY <1>1, <1>13 DEF GivesUp, Crash, vars
<1>14. ASSUME NEW c \in calls, Busy(c) PROVE RightsRest
  BY <1>1, <1>14 DEF Busy
<1>. QED
  BY <1>4, <1>5, <1>6, <1>7, <1>8, <1>9, <1>10, <1>11, <1>12, <1>13, <1>14
     DEF Next, JoinNext, FinishNext, PunishNext, ReleaseNext, OtherNext, RequestNext

(* The preflight retires the request or plans what is left to do for it.   *)
LEMMA PreparesRow ==
  ASSUME TypeOK, Prepares
  PROVE  LET r == holder.id IN
         /\ r \in Requests /\ holder.op = "punish"
         /\ \A q \in Requests \ {r} : pun'[q] = pun[q]
         /\ pun'[r].started = pun[r].started /\ pun'[r].acted = pun[r].acted
         /\ pun'[r].release = pun[r].release /\ pun'[r].elapsed = pun[r].elapsed
         /\ pun'[r].kickBanned = pun[r].kickBanned /\ pun'[r].created = pun[r].created
         /\ \/ pun'[r].status = pun[r].status
            \/ /\ pun[r].status = "pending" /\ pun'[r].status = "skipped"
               /\ Superseded(r) \/ (TRUE \in Protections /\ Action[r] \in Restricting)
         /\ \/ holder' = Free
            \/ /\ pun'[r].status = "pending"
               /\ holder'.op = "punish" /\ holder'.id = r
               /\ holder'.todo = PunishPlan(r, pun'[r])
               /\ ~holder'.acted => ~pun'[r].acted /\ ~pun'[r].started
<1>1. PICK r : r = holder.id
  OBVIOUS
<1>2. PICK p : p = IF pun[r].row THEN pun[r]
                   ELSE [pun[r] EXCEPT !.row = TRUE, !.version = group.epoch]
  OBVIOUS
<1>3. /\ pun \in [Requests -> PunishmentRow] /\ holder \in Holder /\ group.epoch \in Nat
      /\ r \in Requests /\ holder.op = "punish"
  BY <1>1 DEF TypeOK, MemberTypeOK, RowsTypeOK, LockTypeOK, Prepares, Doing
<1>4. /\ p \in PunishmentRow
      /\ p.started = pun[r].started /\ p.acted = pun[r].acted
      /\ p.release = pun[r].release /\ p.elapsed = pun[r].elapsed
      /\ p.kickBanned = pun[r].kickBanned /\ p.created = pun[r].created
      /\ p.status = pun[r].status
  <2>1. CASE pun[r].row
    BY <1>2, <1>3, <2>1
  <2>2. CASE ~pun[r].row
    <3>1. p = [pun[r] EXCEPT !.row = TRUE, !.version = group.epoch]
      BY <1>2, <2>2
    <3>. QED BY <1>3, <3>1 DEF PunishmentRow
  <2>. QED BY <2>1, <2>2
<1>5. \/ /\ p.status # "pending" /\ holder' = Free /\ pun' = [pun EXCEPT ![r] = p]
      \/ /\ p.status = "pending"
         /\ Superseded(r) \/ (TRUE \in Protections /\ Action[r] \in Restricting)
         /\ pun' = [pun EXCEPT ![r] = [p EXCEPT !.status = "skipped"]]
         /\ holder' = Free
      \/ /\ p.status = "pending"
         /\ pun' = [pun EXCEPT ![r] = p]
         /\ holder' = [holder EXCEPT !.todo = PunishPlan(r, p),
                                     !.acted = p.acted \/ p.deleted \/ p.started]
  BY <1>1, <1>2 DEF Prepares
<1>6. \A q \in Requests \ {r} : pun'[q] = pun[q]
  BY <1>3, <1>5
<1>7. CASE holder' = Free /\ pun' = [pun EXCEPT ![r] = p]
  BY <1>1, <1>3, <1>4, <1>6, <1>7
<1>8. CASE /\ p.status = "pending"
           /\ Superseded(r) \/ (TRUE \in Protections /\ Action[r] \in Restricting)
           /\ pun' = [pun EXCEPT ![r] = [p EXCEPT !.status = "skipped"]]
           /\ holder' = Free
  <2>1. PICK u : u = [p EXCEPT !.status = "skipped"]
    OBVIOUS
  <2>2. pun'[r] = u
    BY <1>3, <1>8, <2>1
  <2>3. /\ u.started = pun[r].started /\ u.acted = pun[r].acted
        /\ u.release = pun[r].release /\ u.elapsed = pun[r].elapsed
        /\ u.kickBanned = pun[r].kickBanned /\ u.created = pun[r].created
        /\ u.status = "skipped"
    BY <1>4, <2>1 DEF PunishmentRow
  <2>. QED BY <1>1, <1>3, <1>4, <1>6, <1>8, <2>2, <2>3
<1>9. CASE /\ p.status = "pending"
           /\ pun' = [pun EXCEPT ![r] = p]
           /\ holder' = [holder EXCEPT !.todo = PunishPlan(r, p),
                                       !.acted = p.acted \/ p.deleted \/ p.started]
  <2>1. pun'[r] = p
    BY <1>3, <1>9
  <2>2. PICK todo, acted : /\ holder' = [holder EXCEPT !.todo = todo, !.acted = acted]
                           /\ todo = PunishPlan(r, p)
                           /\ acted = (p.acted \/ p.deleted \/ p.started)
    BY <1>9
  <2>3. /\ holder'.op = "punish" /\ holder'.id = r /\ holder'.todo = todo
        /\ holder'.acted = acted
    BY <1>1, <1>3, <2>2 DEF Holder
  <2>4. ~holder'.acted => ~p.acted /\ ~p.started
    BY <2>2, <2>3
  <2>. QED BY <1>1, <1>3, <1>4, <1>6, <1>9, <2>1, <2>2, <2>3, <2>4
<1>. QED BY <1>5, <1>7, <1>8, <1>9

(* What was begun stays begun, unless the request is refused with nothing  *)
(* done.                                                                   *)
LEMMA StartedKept ==
  ASSUME TypeOK, [Next]_vars, ~RowFails
  PROVE  \A r \in Requests : pun[r].started => pun'[r].started
<1>0. /\ pun \in [Requests -> PunishmentRow]
      /\ holder.op = "punish" => holder.id \in Requests
  BY DEF TypeOK, RowsTypeOK, LockTypeOK
<1>1. CASE RowsDrift
  BY <1>1 DEF RowsDrift, RowDrifts
<1>2. CASE Prepares
  <2>1. PICK r : r = holder.id
    OBVIOUS
  <2>2. pun'[r].started = pun[r].started /\ \A q \in Requests \ {r} : pun'[q] = pun[q]
    BY <1>2, <2>1, PreparesRow
  <2>. QED BY <2>2
<1>3. CASE Begins
  BY <1>0, <1>3 DEF Begins, PunishmentRow
<1>4. CASE MarksKickBanned
  BY <1>0, <1>4 DEF MarksKickBanned, PunishmentRow
<1>5. CASE Completes
  BY <1>0, <1>5 DEF Completes, PunishmentRow
<1>6. CASE Drops
  BY <1>0, <1>6 DEF Drops, PunishmentRow
<1>7. CASE Ends
  BY <1>0, <1>7 DEF Ends, PunishmentRow
<1>8. ASSUME NEW r \in Requests, PunishStarts(r)
      PROVE  \A q \in Requests : pun[q].started => pun'[q].started
  BY <1>0, <1>8 DEF PunishStarts, PunishmentRow
<1>. QED BY <1>1, <1>2, <1>3, <1>4, <1>5, <1>6, <1>7, <1>8, RowSteps

(* Each step of a plan is taken by its own action.                         *)
LEMMA AdvancesBy ==
  ASSUME TypeOK, [Next]_vars, Advances
  PROVE  /\ Head(holder.todo) = "begin"    => BeginKick
         /\ Head(holder.todo) = "start"    => Begins
         /\ Head(holder.todo) = "markban"  => MarksKickBanned
         /\ Head(holder.todo) = "complete" => Completes
<1>0. /\ holder.op # "none" /\ Head(holder.todo) \notin {"read", "prepare"}
      /\ holder'.todo = Tail(holder.todo) /\ holder'.todo # <<>>
  BY DEF Advances
<1>1. ~UNCHANGED holder
  <2>1. holder.todo \in Seq(Steps) /\ holder.todo # <<>>
    BY <1>0 DEF TypeOK, LockTypeOK, Holder
  <2>2. /\ Len(Tail(holder.todo)) = Len(holder.todo) - 1
        /\ Len(holder.todo) \in Nat
    BY <2>1, HeadTailProperties
  <2>3. PICK u : u = Tail(holder.todo)
    OBVIOUS
  <2>4. Len(u) # Len(holder.todo)
    BY <2>2, <2>3
  <2>. QED BY <1>0, <2>3, <2>4
<1>2. holder' # Free
  <2>1. Free.todo = <<>>
    BY DEF Free
  <2>. QED BY <1>0, <2>1
<1>3. ~PunishFails /\ ~PunishRefused /\ ~PunishTooLate
  BY <1>2 DEF PunishFails, PunishRefused, PunishTooLate
<1>4. StartsPermission => Begins
  BY <1>3 DEF StartsPermission, Begins
<1>5. CompletesTakeover => Completes
  BY <1>3 DEF CompletesTakeover, Completes
<1>6. ASSUME BeginKick \/ Begins \/ MarksKickBanned \/ Completes
      PROVE  \/ BeginKick /\ Head(holder.todo) = "begin"
             \/ Begins /\ Head(holder.todo) = "start"
             \/ MarksKickBanned /\ Head(holder.todo) = "markban"
             \/ Completes /\ Head(holder.todo) = "complete"
  BY <1>6
     DEF BeginKick, Begins, StartsPermission, MarksKickBanned, Completes,
         CompletesTakeover, Doing
<1>7. CASE DeletesMessage
  BY <1>7 DEF DeletesMessage, Doing
<1>8. ASSUME NEW step \in EffectSteps,
             FinishCalls(step) \/ PunishCalls(step) \/ ReleaseCalls(step)
      PROVE  Head(holder.todo) \in EffectSteps
  BY <1>8 DEF FinishCalls, PunishCalls, ReleaseCalls, Doing
<1>9. ~PunishDone /\ ~Settle /\ ~Drops /\ ~JoinMutes /\ ~GivesUp /\ ~Crash
  BY <1>2, <1>3 DEF PunishDone, Settle, Drops, JoinMutes, GivesUp, Crash
<1>10. ~FinishReads /\ ~Prepares
  BY <1>0 DEF FinishReads, Prepares, Doing
<1>11. ASSUME NEW s \in Sessions PROVE ~SessionNext(s)
  BY <1>0, <1>1 DEF SessionNext, AnsweredRight, AnsweredWrong, Lapses, FinishStarts, LockFree
<1>12. ASSUME NEW r \in Requests
       PROVE  ~RequestNext(r) /\ ~ReleaseListed(r) /\ ~ReleaseStarts(r)
  BY <1>0, <1>1
     DEF RequestNext, Requested, PunishStarts, MuteRunsOut, TelegramLifts, ReleaseListed,
         ReleaseStarts, LockFree
<1>13. ASSUME NEW c \in calls PROVE ~Busy(c)
  BY <1>1 DEF Busy
<1>14. ~JoinLocked
  BY <1>0 DEF JoinLocked, LockFree
<1>15. /\ ~JoinChecked /\ ~Left /\ ~Expires /\ ~GroupNext /\ ~Joins /\ ~Leaves
       /\ ~UNCHANGED vars
  BY <1>1
     DEF JoinChecked, Left, Expires, GroupNext, Revoked, Approved, VerificationOff,
         VerificationOn, Joins, Leaves, vars
<1>16. \/ BeginKick \/ StartsPermission \/ MarksKickBanned \/ CompletesTakeover
       \/ DeletesMessage
       \/ \E step \in EffectSteps :
            FinishCalls(step) \/ PunishCalls(step) \/ ReleaseCalls(step)
  BY <1>9, <1>10, <1>11, <1>12, <1>13, <1>14, <1>15
     DEF Next, JoinNext, FinishNext, PunishNext, ReleaseNext, OtherNext
<1>. QED BY <1>4, <1>5, <1>6, <1>7, <1>8, <1>16 DEF EffectSteps

(* What sweepPermissionReleases decides to do.                             *)
LEMMA ReleasePlans ==
  ASSUME NEW r \in Requests, ReleaseStarts(r)
  PROVE  /\ holder'.op = "release" /\ holder'.id = r
         /\ InOrder(holder'.todo)
         /\ \/ Ahead' = {Lift(r), "drop"} /\ holder'.released
            \/ Ahead' = {"drop"} /\ holder'.todo = <<"drop">> /\ ~holder'.released
<1>1. PICK todo, released :
        /\ holder' = [Free EXCEPT !.op = "release", !.id = r, !.todo = todo,
                                  !.released = released]
        /\ todo = Step(~NewerWork(r), Lift(r)) \o <<"drop">>
        /\ released = ~NewerWork(r)
  BY DEF ReleaseStarts
<1>2. /\ holder'.op = "release" /\ holder'.id = r /\ holder'.todo = todo
      /\ holder'.released = released
  BY <1>1 DEF Free
<1>3. /\ Lift(r) \in {"restore", "unban"} /\ "restore" \in Steps /\ "unban" \in Steps
      /\ "drop" \in Steps
  BY DEF Lift, Steps
<1>4. CASE NewerWork(r)
  <2>1. todo = <<>> \o <<"drop">> /\ ~released
    BY <1>1, <1>4 DEF Step
  <2>2. <<>> \o <<"drop">> = <<"drop">>
    OBVIOUS
  <2>3. InOrder(todo) /\ StepsOf(todo) = {"drop"}
    BY <2>1, <2>2, ShortPlans
  <2>. QED BY <1>2, <2>1, <2>2, <2>3 DEF Ahead
<1>5. CASE ~NewerWork(r)
  <2>1. PICK x \in {"restore", "unban"} : x = Lift(r)
    BY <1>3
  <2>2. todo = <<x>> \o <<"drop">>
    BY <1>1, <1>5, <2>1 DEF Step
  <2>3. <<x>> \in Seq(Steps) /\ <<"drop">> \in Seq(Steps)
    BY <1>3
  <2>4. /\ InOrder(<<x>>) /\ StepsOf(<<x>>) = {x}
        /\ InOrder(<<"drop">>) /\ StepsOf(<<"drop">>) = {"drop"}
    BY ShortPlans
  <2>5. Before("restore", "drop") /\ Before("unban", "drop")
    BY DEF Before, Place
  <2>6. \A y \in StepsOf(<<x>>), z \in StepsOf(<<"drop">>) : Before(y, z)
    BY <2>4, <2>5
  <2>7. InOrder(<<x>> \o <<"drop">>) /\ StepsOf(<<x>> \o <<"drop">>) = {x, "drop"}
    <3>1. /\ InOrder(<<x>> \o <<"drop">>)
          /\ StepsOf(<<x>> \o <<"drop">>) = StepsOf(<<x>>) \cup StepsOf(<<"drop">>)
      BY <2>3, <2>4, <2>6, ConcatSteps
    <3>. QED BY <2>4, <3>1
  <2>8. InOrder(todo) /\ StepsOf(todo) = {Lift(r), "drop"} /\ released
    BY <1>1, <1>5, <2>1, <2>2, <2>7
  <2>. QED BY <1>2, <2>8 DEF Ahead
<1>. QED BY <1>4, <1>5

(* The lock invariant is kept, one kind of workflow at a time.             *)
LEMMA LockInvStep ==
  ASSUME TypeOK, LockInv, [Next]_vars
  PROVE  LockInv'
<1> SUFFICES ASSUME holder'.op # "none"
             PROVE  LockInv'
  BY DEF LockInv, JoinLock, FinishLock, PunishLock, ReleaseLock
<1>0. /\ holder \in Holder /\ pun \in [Requests -> PunishmentRow]
      /\ ses \in [Sessions -> SessionRow]
      /\ holder.op \in {"join", "finish"} => holder.id \in Sessions
      /\ holder.op \in {"punish", "release"} => holder.id \in Requests
  BY DEF TypeOK, RowsTypeOK, LockTypeOK
<1>1. \A r \in Requests : pun[r].started => pun'[r].started
  BY StartedKept DEF RowFails, Free
<1>2. CASE UNCHANGED holder
  <2>1. Ahead' = Ahead
    BY <1>2 DEF Ahead
  <2>2. JoinLock'
    BY <1>0, <1>2, HeldSessions DEF LockInv, JoinLock, Active, Live
  <2>3. FinishLock'
    <3> SUFFICES ASSUME holder.op = "finish"
                 PROVE  ses'[holder.id].status \in {holder.status, "releasing"}
      BY <1>2, <2>1 DEF FinishLock, LockInv
    <3>. QED BY <1>0, <1>2, HeldSessions DEF LockInv, FinishLock
  <2>4. PunishLock' /\ ReleaseLock'
    BY <1>0, <1>1, <1>2, <2>1 DEF LockInv, PunishLock, ReleaseLock
  <2>. QED BY <1>2, <2>2, <2>3, <2>4 DEF LockInv
<1>3. CASE Advances
  <2>0. /\ holder.op # "none" /\ holder'.op = holder.op /\ holder'.id = holder.id
        /\ holder'.status = holder.status /\ holder'.outcome = holder.outcome
        /\ holder'.released = holder.released
        /\ Head(holder.todo) \notin {"read", "prepare"}
        /\ holder'.todo # <<>>
    BY <1>3 DEF Advances
  <2>1. /\ Ahead = {Head(holder.todo)} \cup Ahead'
        /\ InOrder(holder'.todo)
        /\ \A y \in Ahead' : Before(Head(holder.todo), y)
        /\ Head(holder'.todo) \in Ahead'
    BY <1>3, <2>0, AheadAdvances DEF LockInv
  <2>2. holder.op # "join"
    <3>1. Tail(<<"restrict">>) = <<>>
      OBVIOUS
    <3>. QED BY <1>3, <3>1 DEF Advances, LockInv, JoinLock
  <2>3. FinishLock'
    <3> SUFFICES ASSUME holder.op = "finish"
                 PROVE  FinishLock'
      BY <2>0 DEF FinishLock
    <3>1. ses'[holder.id].status \in {holder.status, "releasing"}
      BY <1>0, HeldSessions DEF LockInv, FinishLock
    <3>. QED BY <2>0, <2>1, <3>1 DEF LockInv, FinishLock
  <2>4. PunishLock'
    <3> SUFFICES ASSUME holder.op = "punish"
                 PROVE  PunishLock'
      BY <2>0 DEF PunishLock
    <3>1. Ahead' \subseteq PunishSteps(holder.id)
      BY <2>0, <2>1 DEF LockInv, PunishLock
    <3>2. ASSUME Ahead' \cap EffectSteps # {}
          PROVE  "start" \in Ahead' \/ pun'[holder.id].started
      <4>1. "start" \in Ahead \/ pun[holder.id].started
        BY <2>0, <2>1, <3>2 DEF LockInv, PunishLock
      <4>2. CASE Head(holder.todo) = "start"
        <5>1. Begins
          BY <1>3, <4>2, AdvancesBy
        <5>. QED BY <1>0, <5>1 DEF Begins, PunishmentRow
      <4>3. CASE Head(holder.todo) # "start"
        BY <1>0, <1>1, <2>1, <4>1, <4>3
      <4>. QED BY <4>2, <4>3
    <3>. QED BY <2>0, <3>1, <3>2 DEF PunishLock
  <2>5. ReleaseLock'
    <3> SUFFICES ASSUME holder.op = "release"
                 PROVE  ReleaseLock'
      BY <2>0 DEF ReleaseLock
    <3>1. Ahead' \subseteq {Lift(holder.id), "drop"}
      BY <2>0, <2>1 DEF LockInv, ReleaseLock
    <3>2. holder.todo # <<"drop">>
      <4>1. Tail(<<"drop">>) = <<>>
        OBVIOUS
      <4>. QED BY <1>3, <4>1 DEF Advances
    <3>. QED BY <2>0, <3>1, <3>2 DEF LockInv, ReleaseLock, Lift
  <2>. QED BY <2>0, <2>1, <2>2, <2>3, <2>4, <2>5 DEF LockInv, JoinLock
<1>4. CASE FinishReads
  <2>0. holder' # Free
    BY DEF Free
  <2>1. PICK plan \in Plans :
          holder' = [holder EXCEPT !.todo = plan.steps \o <<"settle">>,
                                   !.outcome = plan.outcome]
    BY <1>4, <2>0 DEF FinishReads
  <2>2. PICK todo, outcome :
          /\ todo = plan.steps \o <<"settle">> /\ outcome = plan.outcome
          /\ holder' = [holder EXCEPT !.todo = todo, !.outcome = outcome]
    BY <2>1
  <2>3. /\ holder'.op = "finish" /\ holder'.todo = todo /\ holder'.id = holder.id
        /\ holder'.outcome = outcome /\ holder'.status = holder.status
        /\ holder.op = "finish" /\ UNCHANGED ses
    BY <1>0, <1>4, <2>2 DEF FinishReads, Doing, Holder
  <2>4. /\ InOrder(todo)
        /\ StepsOf(todo) \subseteq {"begin", "ban", "unban", "restore", "settle"}
    <3>1. /\ InOrder(plan.steps \o <<"settle">>)
          /\ StepsOf(plan.steps \o <<"settle">>) = StepsOf(plan.steps) \cup {"settle"}
          /\ StepsOf(plan.steps) \subseteq {"begin", "ban", "unban", "restore"}
      BY FinishPlans
    <3>2. InOrder(todo) /\ StepsOf(todo) = StepsOf(plan.steps) \cup {"settle"}
      BY <2>2, <3>1
    <3>. QED BY <3>1, <3>2
  <2>5. outcome \in Outcomes(holder.status)
    <3>1. \/ outcome = "cancelled"
          \/ holder.status = "completing" /\ outcome \in {"left", "blocked", "verified"}
          \/ holder.status \notin {"completing", "releasing"} /\ outcome = "expired"
      BY <2>2, FinishPlans
    <3>2. holder.status \in {"completing", "expiring", "releasing"}
      BY <2>3 DEF LockInv, FinishLock
    <3>. QED BY <3>1, <3>2 DEF Outcomes
  <2>6. FinishLock'
    BY <2>3, <2>4, <2>5 DEF LockInv, FinishLock, Ahead
  <2>. QED BY <2>3, <2>4, <2>6 DEF LockInv, JoinLock, PunishLock, ReleaseLock
<1>5. CASE Prepares
  <2>1. PICK r : r = holder.id
    OBVIOUS
  <2>2. /\ r \in Requests
        /\ holder'.op = "punish" /\ holder'.id = r
        /\ holder'.todo = PunishPlan(r, pun'[r])
        /\ ~holder'.acted => ~pun'[r].acted
    BY <1>5, <2>1, PreparesRow DEF Free
  <2>3. PICK p : p = pun'[r]
    OBVIOUS
  <2>4. /\ InOrder(PunishPlan(r, p))
        /\ StepsOf(PunishPlan(r, p)) \ {"delete"} =
             {"done"} \cup (IF p.acted THEN {}
                            ELSE {"start", "complete"} \cup CallSteps(r, p.kickBanned))
    BY <2>2, PunishPlans
  <2>5. Ahead' = StepsOf(PunishPlan(r, p)) /\ InOrder(holder'.todo)
    BY <2>2, <2>3, <2>4 DEF Ahead
  <2>6. CallSteps(r, p.kickBanned) \subseteq CallSteps(r, TRUE) \cup CallSteps(r, FALSE)
    <3>1. CASE Action[r] = "kick"
      BY <3>1 DEF CallSteps
    <3>2. CASE Action[r] # "kick"
      BY <2>2, <3>2, MemberAssumption DEF CallSteps, Actions, Restricting
    <3>. QED BY <3>1, <3>2
  <2>7. Ahead' \subseteq PunishSteps(r)
    BY <2>4, <2>5, <2>6 DEF PunishSteps
  <2>8. Ahead' \cap EffectSteps # {} => "start" \in Ahead'
    BY <2>4, <2>5 DEF EffectSteps
  <2>9. PunishLock'
    BY <2>2, <2>7, <2>8 DEF PunishLock
  <2>. QED BY <2>2, <2>5, <2>9 DEF LockInv, JoinLock, FinishLock, ReleaseLock
<1>6. ASSUME NEW s0 \in Sessions, JoinLocked, JoinProceeds, holder' = JoinMuting(s0)
      PROVE  LockInv'
  <2>1. PICK s \in Sessions : holder' = JoinMuting(s) /\ ses'[s].status = "pending"
    <3>1. CASE \E s \in Sessions :
                 /\ ses' = [ses EXCEPT ![s] =
                              [NoSession EXCEPT !.status = "pending", !.created = clock]]
                 /\ holder' = JoinMuting(s)
      BY <1>0, <3>1 DEF NoSession
    <3>2. CASE \E s \in Sessions :
                 /\ ses[s].status = "pending" /\ holder' = JoinMuting(s) /\ UNCHANGED ses
      BY <3>2
    <3>3. ~UNCHANGED holder
      BY <1>6 DEF JoinLocked, LockFree
    <3>. QED BY <1>6, <3>1, <3>2, <3>3 DEF JoinLocked
  <2>2. holder'.op = "join" /\ holder'.todo = <<"restrict">> /\ holder'.id = s
    BY <2>1 DEF JoinMuting, Free
  <2>3. InOrder(<<"restrict">>)
    BY ShortPlans
  <2>. QED BY <2>1, <2>2, <2>3
           DEF LockInv, JoinLock, FinishLock, PunishLock, ReleaseLock, Active, Live
<1>7. ASSUME NEW s \in Sessions, AnsweredRight(s) \/ FinishStarts(s)
      PROVE  LockInv'
  <2>1. PICK status : holder' = Finishing(s, status) /\ ses'[s].status = status
                      /\ status \in {"completing", "expiring", "releasing"}
    <3>1. CASE AnsweredRight(s)
      <4>1. ses' = [ses EXCEPT ![s].status = "completing"]
        BY <3>1 DEF AnsweredRight
      <4>2. ses'[s].status = "completing"
        BY <1>0, <4>1 DEF SessionRow
      <4>. QED BY <3>1, <4>2 DEF AnsweredRight
    <3>2. CASE FinishStarts(s)
      BY <3>2 DEF FinishStarts, Active, Live
    <3>. QED BY <1>7, <3>1, <3>2
  <2>2. /\ holder'.op = "finish" /\ holder'.todo = <<"read">> /\ holder'.id = s
        /\ holder'.status = status
    BY <2>1 DEF Finishing, Free
  <2>3. InOrder(<<"read">>) /\ Head(<<"read">>) = "read"
    BY ShortPlans
  <2>. QED BY <2>1, <2>2, <2>3 DEF LockInv, JoinLock, FinishLock, PunishLock, ReleaseLock
<1>8. ASSUME NEW r \in Requests, PunishStarts(r) PROVE LockInv'
  <2>1. holder'.op = "punish" /\ holder'.todo = <<"prepare">>
    BY <1>8 DEF PunishStarts, Free
  <2>2. InOrder(<<"prepare">>) /\ Head(<<"prepare">>) = "prepare"
    BY ShortPlans
  <2>. QED BY <2>1, <2>2 DEF LockInv, JoinLock, FinishLock, PunishLock, ReleaseLock
<1>9. ASSUME NEW r \in Requests, ReleaseStarts(r) PROVE LockInv'
  <2>1. /\ holder'.op = "release" /\ holder'.id = r
        /\ InOrder(holder'.todo)
        /\ \/ Ahead' = {Lift(r), "drop"} /\ holder'.released
           \/ Ahead' = {"drop"} /\ holder'.todo = <<"drop">>
    BY <1>9, ReleasePlans
  <2>. QED BY <2>1 DEF LockInv, JoinLock, FinishLock, PunishLock, ReleaseLock
<1>. QED
  BY <1>2, <1>3, <1>4, <1>5, <1>6, <1>7, <1>8, <1>9, HolderSteps

(* Whoever has the lock has a plan of the code before it, less the steps   *)
(* that are done, and its rows are where that plan left them, although     *)
(* revocations and settings do not wait for the lock.                      *)
THEOREM LockInvHolds == Spec => [](TypeOK /\ LockInv)
<1>1. Init => LockInv
  BY DEF Init, Free, LockInv, JoinLock, FinishLock, PunishLock, ReleaseLock
<1>2. TypeOK /\ LockInv /\ [Next]_vars => LockInv'
  BY LockInvStep
<1>. QED BY <1>1, <1>2, MemberTypeCorrect, PTL DEF Spec

-----------------------------------------------------------------------------
(* Sessions.                                                               *)

(* Sessions only move forward: what is over stays over, only an answered   *)
(* session is verified, blocked or left, and a released one can only be    *)
(* cancelled, whatever finishVerification had decided before the release:  *)
(* the update of FinishVerification names the status that was read.        *)
THEOREM SessionsMoveForward == Spec => SessionsMoveOn
<1> DEFINE Forward ==
      \A s \in Sessions :
        /\ ses[s].status \in Terminal => ses'[s].status = ses[s].status
        /\ ses'[s].status \in {"verified", "blocked", "left"} =>
             ses[s].status = ses'[s].status \/ ses[s].status = "completing"
        /\ ses[s].status = "releasing" => ses'[s].status \in {"releasing", "cancelled"}
<1>1. TypeOK /\ LockInv /\ [Next]_vars => Forward
  <2> SUFFICES ASSUME TypeOK, LockInv, [Next]_vars PROVE Forward
    OBVIOUS
  <2>0. /\ ses \in [Sessions -> SessionRow] /\ holder \in Holder
        /\ holder.op \in {"join", "finish"} => holder.id \in Sessions
    BY DEF TypeOK, RowsTypeOK, LockTypeOK
  <2>1. \A s \in Sessions : /\ ses[s].status \in Live => ses[s].status \notin Terminal
                            /\ ses[s].status # "none" => ses[s].status \in Active \cup Terminal
    BY <2>0 DEF SessionRow, Live, Terminal
  <2>2. CASE SessionsDrift
    BY <2>2 DEF SessionsDrift, Drifts, Live, Terminal
  <2>3. CASE JoinLocked
    <3>1. \/ UNCHANGED ses
          \/ \E s \in Sessions :
               /\ ses[s].status = "none"
               /\ ses' = [ses EXCEPT ![s] =
                            [NoSession EXCEPT !.status = "pending", !.created = clock]]
      BY <2>3 DEF JoinLocked, Fresh
    <3>2. CASE UNCHANGED ses
      BY <3>2 DEF Terminal
    <3>3. ASSUME NEW s \in Sessions, ses[s].status = "none",
                 ses' = [ses EXCEPT ![s] =
                           [NoSession EXCEPT !.status = "pending", !.created = clock]]
          PROVE  Forward
      <4>1. ses'[s].status = "pending" /\ \A t \in Sessions \ {s} : ses'[t] = ses[t]
        BY <2>0, <3>3 DEF NoSession
      <4>. QED BY <3>3, <4>1 DEF Terminal
    <3>. QED BY <3>1, <3>2, <3>3
  <2>4. CASE BeginKick
    <3>1. ses' = [ses EXCEPT ![holder.id].kickStarted =
                    ses[holder.id].kickStarted \/ ses[holder.id].status = "expiring"]
      BY <2>4 DEF BeginKick
    <3>2. \A s \in Sessions : ses'[s].status = ses[s].status
      BY <2>0, <3>1 DEF SessionRow
    <3>. QED BY <3>2 DEF Terminal
  <2>5. CASE Settle
    <3>1. CASE UNCHANGED ses
      BY <3>1 DEF Terminal
    <3>2. CASE ~UNCHANGED ses
      <4>1. PICK s : s = holder.id
        OBVIOUS
      <4>2. /\ s \in Sessions /\ ses[s].status = holder.status
            /\ ses' = [ses EXCEPT ![s].status = holder.outcome]
        BY <2>0, <2>5, <3>2, <4>1 DEF Settle, Settles, Doing
      <4>3. /\ holder.status \in {"completing", "expiring", "releasing"}
            /\ holder.outcome \in Outcomes(holder.status)
        BY <2>5 DEF Settle, Doing, LockInv, FinishLock
      <4>4. /\ ses'[s].status = holder.outcome
            /\ \A t \in Sessions \ {s} : ses'[t] = ses[t]
        BY <2>0, <4>2 DEF SessionRow
      <4>. QED BY <4>2, <4>3, <4>4 DEF Outcomes, Terminal
    <3>. QED BY <3>1, <3>2
  <2>6. CASE CompletesTakeover \/ Drops
    <3>1. \A s \in Sessions : \/ ses'[s] = ses[s]
                              \/ ses'[s] = SessionsTo("cancelled", Active, ses[s])
      BY <2>6 DEF CompletesTakeover, Drops
    <3>2. \A s \in Sessions :
            SessionsTo("cancelled", Active, ses[s]).status =
              IF ses[s].status \in Active THEN "cancelled" ELSE ses[s].status
      BY <2>0 DEF SessionsTo, SessionRow
    <3>. QED BY <3>1, <3>2 DEF Terminal, Active, Live
  <2>7. ASSUME NEW s \in Sessions, AnsweredRight(s) PROVE Forward
    <3>1. /\ ses[s].status = "pending" /\ ses'[s].status = "completing"
          /\ \A t \in Sessions \ {s} : ses'[t] = ses[t]
      BY <2>0, <2>7 DEF AnsweredRight, SessionRow
    <3>. QED BY <3>1 DEF Terminal
  <2>. QED BY <2>2, <2>3, <2>4, <2>5, <2>6, <2>7, SessionSteps
<1>2. Forward => [Forward]_vars
  OBVIOUS
<1>. QED BY <1>1, LockInvHolds, PTL DEF Spec, SessionsMoveOn

-----------------------------------------------------------------------------
(* Failed requests.                                                        *)

\* The member's rights are the ones request r set last.
InForce(r) == tg.rights # "free" /\ ByRequest(r)

(* Rights in force were set by a request that was begun; whoever carries a *)
(* request out and has done nothing finds nothing of it in force; what     *)
(* fails for good ran out of time or gives up being begun.                 *)
ForceInv ==
  /\ \A r \in Requests : InForce(r) => pun[r].started
  /\ (holder.op = "punish" /\ Head(holder.todo) # "prepare" /\ ~holder.acted) =>
       ~InForce(holder.id)
  /\ \A r \in Requests : pun[r].status = "failed" => pun[r].elapsed \/ ~pun[r].started

(* A punishment that calls Telegram to restrict or ban was begun.          *)
LEMMA CallsAreBegun ==
  ASSUME TypeOK, LockInv, holder.op = "punish", Head(holder.todo) \in EffectSteps
  PROVE  pun[holder.id].started
<1>1. holder.todo \in Seq(Steps) /\ holder.todo # <<>>
  BY DEF TypeOK, LockTypeOK, Holder
<1>2. /\ Ahead = {Head(holder.todo)} \cup StepsOf(Tail(holder.todo))
      /\ \A y \in StepsOf(Tail(holder.todo)) : Before(Head(holder.todo), y)
  BY <1>1, TailSteps DEF Ahead, LockInv
<1>3. \A x \in EffectSteps : x # "start" /\ ~Before(x, "start") /\ x # "prepare"
  BY DEF EffectSteps, Before, Place
<1>4. "start" \notin Ahead
  BY <1>2, <1>3
<1>. QED BY <1>2, <1>3, <1>4 DEF LockInv, PunishLock

LEMMA ForceStep ==
  ASSUME TypeOK, LockInv, ForceInv, [Next]_vars
  PROVE  ForceInv'
<1>0. /\ pun \in [Requests -> PunishmentRow]
      /\ holder.op \in {"punish", "release"} => holder.id \in Requests
  BY DEF TypeOK, RowsTypeOK, LockTypeOK
<1>2. \A r \in Requests : InForce(r)' => pun'[r].started
  <2>1. CASE RightsTaken
    <3>1. Head(holder.todo) \in EffectSteps
      BY <2>1 DEF RightsTaken, EffectSteps
    <3>2. \A r \in Requests : ByRequest(r)' => holder.op = "punish" /\ holder.id = r
      BY <2>1 DEF RightsTaken, ByRequest, Owner
    <3>. QED
      BY <2>1, <3>1, <3>2, CallsAreBegun DEF RightsTaken, RowsDrift, RowDrifts, InForce
  <2>2. CASE RightsFreed
    BY <2>2 DEF RightsFreed, InForce
  <2>3. CASE RightsRest
    <3>1. \A r \in Requests : InForce(r)' => InForce(r)
      BY <2>3 DEF RightsRest, InForce, ByRequest
    <3>2. CASE RowFails
      BY <3>1, <3>2 DEF RowFails, ForceInv
    <3>3. CASE ~RowFails
      BY <3>1, <3>3, StartedKept DEF ForceInv
    <3>. QED BY <3>2, <3>3
  <2>. QED BY <2>1, <2>2, <2>3, RightsSteps
<1>3. (holder'.op = "punish" /\ Head(holder'.todo) # "prepare" /\ ~holder'.acted) =>
        ~InForce(holder.id)'
  <2> SUFFICES ASSUME holder'.op = "punish", Head(holder'.todo) # "prepare", ~holder'.acted
               PROVE  ~InForce(holder.id)'
    OBVIOUS
  <2>1. ~RightsTaken
    BY DEF RightsTaken, Returns
  <2>2. InForce(holder.id)' => tg.rights # "free" /\ ByRequest(holder'.id)
    BY <2>1, RightsSteps DEF RightsRest, RightsFreed, InForce, ByRequest
  <2>3. CASE UNCHANGED holder \/ Advances
    BY <2>2, <2>3 DEF Advances, ForceInv, InForce
  <2>4. CASE Prepares
    <3>1. PICK r : r = holder.id
      OBVIOUS
    <3>2. /\ r \in Requests /\ holder'.id = r
          /\ ~pun'[r].started /\ pun'[r].started = pun[r].started
      BY <2>4, <3>1, PreparesRow DEF Free
    <3>. QED BY <2>2, <3>2 DEF ForceInv, InForce
  <2>5. ~FinishReads
    <3> SUFFICES ASSUME FinishReads PROVE FALSE
      OBVIOUS
    <3>1. holder' # Free
      BY DEF Free
    <3>2. PICK todo, outcome : holder' = [holder EXCEPT !.todo = todo, !.outcome = outcome]
      BY <3>1 DEF FinishReads
    <3>. QED BY <3>2 DEF FinishReads, Doing, TypeOK, LockTypeOK, Holder
  <2>6. \A s \in Sessions : holder' # JoinMuting(s) /\ ~AnsweredRight(s) /\ ~FinishStarts(s)
    BY DEF JoinMuting, AnsweredRight, FinishStarts, Finishing, Free
  <2>7. ASSUME NEW r \in Requests PROVE ~PunishStarts(r) /\ ~ReleaseStarts(r)
    <3>1. PunishStarts(r) => holder'.todo = <<"prepare">>
      BY DEF PunishStarts, Free
    <3>2. ReleaseStarts(r) => holder'.op = "release"
      BY DEF ReleaseStarts, Free
    <3>3. Head(<<"prepare">>) = "prepare"
      OBVIOUS
    <3>. QED BY <3>1, <3>2, <3>3
  <2>. QED BY <2>3, <2>4, <2>5, <2>6, <2>7, HolderSteps
<1>4. \A r \in Requests : pun'[r].status = "failed" => pun'[r].elapsed \/ ~pun'[r].started
  <2>1. CASE RowsDrift
    BY <2>1 DEF RowsDrift, RowDrifts, ForceInv
  <2>2. CASE RowFails
    BY <2>2 DEF RowFails, ForceInv
  <2>3. CASE Prepares
    <3>1. PICK r : r = holder.id
      OBVIOUS
    <3>2. /\ r \in Requests /\ \A q \in Requests \ {r} : pun'[q] = pun[q]
          /\ pun'[r].started = pun[r].started /\ pun'[r].elapsed = pun[r].elapsed
          /\ pun'[r].status \in {pun[r].status, "skipped"}
      BY <2>3, <3>1, PreparesRow
    <3>. QED BY <3>2 DEF ForceInv
  <2>4. CASE Begins \/ Ends
    <3>1. PICK r : r = holder.id
      OBVIOUS
    <3>2. /\ r \in Requests /\ \A q \in Requests \ {r} : pun'[q] = pun[q]
          /\ pun'[r].status \in {"pending", "done"}
      BY <1>0, <2>4, <3>1
         DEF Begins, StartsPermission, MayStart, Ends, PunishDone, Doing, PunishmentRow
    <3>. QED BY <3>2 DEF ForceInv
  <2>5. CASE MarksKickBanned \/ Drops
    <3>1. \A r \in Requests :
            /\ pun'[r].started = pun[r].started /\ pun'[r].elapsed = pun[r].elapsed
            /\ pun'[r].status = pun[r].status
      BY <1>0, <2>5 DEF MarksKickBanned, Drops, PunishmentRow
    <3>. QED BY <3>1 DEF ForceInv
  <2>6. CASE Completes
    <3>1. \A r \in Requests :
            /\ pun'[r].started = pun[r].started /\ pun'[r].elapsed = pun[r].elapsed
            /\ pun'[r].status \in {pun[r].status, "skipped"}
      BY <1>0, <2>6 DEF Completes, PunishmentRow
    <3>. QED BY <3>1 DEF ForceInv
  <2>7. ASSUME NEW q \in Requests, PunishStarts(q)
        PROVE  \A r \in Requests :
                 pun'[r].status = "failed" => pun'[r].elapsed \/ ~pun'[r].started
    <3>1. \A r \in Requests : pun'[r] = pun[r] \/ pun'[r].status = "pending"
      BY <1>0, <2>7 DEF PunishStarts, PunishmentRow
    <3>. QED BY <3>1 DEF ForceInv
  <2>. QED BY <2>1, <2>2, <2>3, <2>4, <2>5, <2>6, <2>7, RowSteps
<1>. QED BY <1>2, <1>3, <1>4 DEF ForceInv

(* A request that fails for good leaves nothing in force at Telegram,      *)
(* unless a release is due for it or its timed mute ends on its own:       *)
(* RejectPunishment is called only when nothing can have been done.        *)
THEOREM FailuresLeaveNothing == Spec => []FailedLeavesNothing
<1>1. Init => ForceInv
  BY DEF Init, ForceInv, InForce, Free, NoPunishment
<1>2. TypeOK /\ LockInv /\ ForceInv /\ [Next]_vars => ForceInv'
  BY ForceStep
<1>3. ForceInv => FailedLeavesNothing
  BY DEF ForceInv, InForce, FailedLeavesNothing
<1>. QED BY <1>1, <1>2, <1>3, LockInvHolds, PTL DEF Spec

-----------------------------------------------------------------------------
(* A punishment that takes a session over.                                 *)

\* The member's rights are the ones a session set last.
SetBySession == tg.rights # "free" /\ cause.kind = "session"

\* The calls after which nothing a session did to the member is in force.
Erasing == {"restrict", "restore", "ban", "kickban"}

(* Before the sessions of the member are cancelled for a request, a call   *)
(* of the request has overwritten what they had done; a kick that already  *)
(* banned the member has done so too, and remembers it.                    *)
TakeoverInv ==
  /\ \A r \in Requests : pun[r].status = "none" => ~pun[r].kickBanned
  /\ holder.op = "punish" => pun[holder.id].status # "none"
  /\ \A r \in Requests :
       pun[r].kickBanned /\ pun[r].status = "pending" => Action[r] = "kick" /\ ~SetBySession
  /\ (holder.op = "punish" /\ Head(holder.todo) # "prepare") =>
       /\ "markban" \in Ahead => "kickban" \in Ahead \/ ~SetBySession
       /\ (/\ "complete" \in Ahead /\ pun[holder.id].status = "pending"
           /\ Action[holder.id] # "unban") =>
            ~SetBySession \/ Ahead \cap Erasing # {}

(* Only their own workflow opens a request and marks its ban.              *)
LEMMA RowsGoOn ==
  ASSUME TypeOK, [Next]_vars
  PROVE  /\ \A r \in Requests :
              /\ pun'[r].status = "none" => pun[r].status = "none"
              /\ pun'[r].kickBanned =>
                   pun[r].kickBanned \/ (MarksKickBanned /\ holder.id = r)
         /\ \/ \A r \in Requests : pun'[r].status = "pending" => pun[r].status = "pending"
            \/ \E q \in Requests :
                 /\ PunishStarts(q)
                 /\ \A r \in Requests :
                      pun'[r].status = "pending" => pun[r].status = "pending" \/ r = q
<1>0. /\ pun \in [Requests -> PunishmentRow]
      /\ holder.op \in {"punish", "release"} => holder.id \in Requests
  BY DEF TypeOK, RowsTypeOK, LockTypeOK
<1>1. CASE RowsDrift
  BY <1>1 DEF RowsDrift, RowDrifts
<1>2. CASE RowFails
  BY <1>2 DEF RowFails
<1>3. CASE Prepares
  <2>1. PICK r : r = holder.id
    OBVIOUS
  <2>2. /\ r \in Requests /\ \A q \in Requests \ {r} : pun'[q] = pun[q]
        /\ pun'[r].kickBanned = pun[r].kickBanned
        /\ \/ pun'[r].status = pun[r].status
           \/ pun'[r].status = "skipped"
    BY <1>3, <2>1, PreparesRow
  <2>. QED BY <2>2
<1>4. CASE Begins \/ Drops
  <2>1. \A r \in Requests : /\ pun'[r].status = pun[r].status
                            /\ pun'[r].kickBanned = pun[r].kickBanned
    BY <1>0, <1>4 DEF Begins, Drops, PunishmentRow
  <2>. QED BY <2>1
<1>5. CASE Ends
  <2>1. \A r \in Requests : /\ pun'[r].status \in {pun[r].status, "done"}
                            /\ pun'[r].kickBanned = pun[r].kickBanned
    BY <1>0, <1>5 DEF Ends, PunishmentRow
  <2>. QED BY <2>1
<1>6. CASE MarksKickBanned
  <2>1. \A r \in Requests : /\ pun'[r].status = pun[r].status
                            /\ r # holder.id => pun'[r] = pun[r]
    BY <1>0, <1>6 DEF MarksKickBanned, PunishmentRow
  <2>. QED BY <1>6, <2>1
<1>7. CASE Completes
  <2>1. \A r \in Requests : /\ pun'[r].status \in {pun[r].status, "skipped"}
                            /\ pun'[r].kickBanned = pun[r].kickBanned
    BY <1>0, <1>7 DEF Completes, PunishmentRow
  <2>. QED BY <2>1
<1>8. ASSUME NEW q \in Requests, PunishStarts(q)
      PROVE  \A r \in Requests : /\ pun'[r].status = "none" => pun[r].status = "none"
                                 /\ pun'[r].kickBanned = pun[r].kickBanned
                                 /\ r # q => pun'[r] = pun[r]
  BY <1>0, <1>8 DEF PunishStarts, PunishmentRow
<1>. QED BY <1>1, <1>2, <1>3, <1>4, <1>5, <1>6, <1>7, <1>8, RowSteps

(* Only a session's workflow sets rights for a session.                    *)
LEMMA SessionRights ==
  ASSUME TypeOK, [Next]_vars, SetBySession'
  PROVE  SetBySession \/ (RightsTaken /\ holder.op \in {"join", "finish"})
<1>1. CASE RightsRest
  BY <1>1 DEF RightsRest, SetBySession
<1>2. CASE RightsFreed
  BY <1>2 DEF RightsFreed, SetBySession
<1>3. CASE RightsTaken
  BY <1>3 DEF RightsTaken, SetBySession, Owner
<1>. QED BY <1>1, <1>2, <1>3, RightsSteps

(* A call of a punishment or of a release overwrites what a session did.   *)
LEMMA ErasingCalls ==
  ASSUME TypeOK, CallTaken, holder.op \notin {"join", "finish"},
         Head(holder.todo) \in Erasing
  PROVE  ~SetBySession'
<1>1. tg \in [rights : {"free", "muted", "banned"}, present : BOOLEAN]
  BY DEF TypeOK, MemberTypeOK
<1>2. Effect(Head(holder.todo))
  BY DEF CallTaken, Erasing, EffectSteps
<1>3. Owner.kind = "request"
  BY DEF Owner
<1>. QED BY <1>1, <1>2, <1>3
         DEF Effect, Restricted, Restored, Banned, Erasing, SetBySession

(* The next step is ahead, and before all others.                          *)
LEMMA HeadAhead ==
  ASSUME TypeOK, LockInv, holder.op # "none"
  PROVE  /\ Head(holder.todo) \in Ahead
         /\ \A y \in Ahead : y = Head(holder.todo) \/ Before(Head(holder.todo), y)
<1>1. holder.todo \in Seq(Steps) /\ holder.todo # <<>>
  BY DEF TypeOK, LockTypeOK, Holder
<1>2. /\ Ahead = {Head(holder.todo)} \cup StepsOf(Tail(holder.todo))
      /\ \A y \in StepsOf(Tail(holder.todo)) : Before(Head(holder.todo), y)
  BY <1>1, TailSteps DEF Ahead, LockInv
<1>. QED BY <1>2

(* How a punishment comes to hold the lock.                                *)
LEMMA PunishHolder ==
  ASSUME TypeOK, [Next]_vars, holder'.op = "punish"
  PROVE  \/ /\ holder.op = "punish" /\ holder'.id = holder.id
            /\ UNCHANGED holder \/ (Advances /\ CallTaken) \/ Prepares
         \/ \E r \in Requests :
              PunishStarts(r) /\ holder'.id = r /\ Head(holder'.todo) = "prepare"
<1>1. CASE UNCHANGED holder \/ (Advances /\ CallTaken)
  BY <1>1 DEF Advances
<1>2. CASE Prepares
  BY <1>2, PreparesRow DEF Free
<1>3. ~FinishReads
  <2> SUFFICES ASSUME FinishReads PROVE FALSE
    OBVIOUS
  <2>1. holder' # Free
    BY DEF Free
  <2>2. PICK todo, outcome : holder' = [holder EXCEPT !.todo = todo, !.outcome = outcome]
    BY <2>1 DEF FinishReads
  <2>. QED BY <2>2 DEF FinishReads, Doing, TypeOK, LockTypeOK, Holder
<1>4. \A s \in Sessions : holder' # JoinMuting(s) /\ ~AnsweredRight(s) /\ ~FinishStarts(s)
  BY DEF JoinMuting, AnsweredRight, FinishStarts, Finishing, Free
<1>5. ASSUME NEW r \in Requests, PunishStarts(r)
      PROVE  holder'.id = r /\ Head(holder'.todo) = "prepare"
  <2>1. holder'.todo = <<"prepare">> /\ holder'.id = r
    BY <1>5 DEF PunishStarts, Free
  <2>2. Head(<<"prepare">>) = "prepare"
    OBVIOUS
  <2>. QED BY <2>1, <2>2
<1>6. \A r \in Requests : ~ReleaseStarts(r)
  BY DEF ReleaseStarts, Free
<1>. QED BY <1>1, <1>2, <1>3, <1>4, <1>5, <1>6, HolderSteps

LEMMA TakeoverStep ==
  ASSUME TypeOK, LockInv, VerificationWaits, TakeoverInv, [Next]_vars
  PROVE  TakeoverInv'
<1>0. /\ pun \in [Requests -> PunishmentRow]
      /\ holder.op \in {"punish", "release"} => holder.id \in Requests
  BY DEF TypeOK, RowsTypeOK, LockTypeOK
<1>1. \A r \in Requests : pun'[r].status = "none" => ~pun'[r].kickBanned
  BY RowsGoOn DEF TakeoverInv, MarksKickBanned, Doing
<1>2. holder'.op = "punish" => pun'[holder'.id].status # "none"
  <2> SUFFICES ASSUME holder'.op = "punish" PROVE pun'[holder'.id].status # "none"
    OBVIOUS
  <2>1. CASE holder.op = "punish" /\ holder'.id = holder.id
    BY <1>0, <2>1, RowsGoOn DEF TakeoverInv
  <2>2. ASSUME NEW r \in Requests, PunishStarts(r), holder'.id = r
        PROVE  pun'[r].status # "none"
    BY <1>0, <2>2 DEF PunishStarts, PunishmentRow
  <2>. QED BY <2>1, <2>2, PunishHolder
<1>3. ASSUME NEW r \in Requests, pun'[r].kickBanned, pun'[r].status = "pending"
      PROVE  Action[r] = "kick" /\ ~SetBySession'
  <2>1. CASE MarksKickBanned /\ holder.id = r
    <3>1. /\ holder.op = "punish" /\ Head(holder.todo) = "markban"
          /\ UNCHANGED <<tg, cause>>
      BY <2>1 DEF MarksKickBanned, Doing
    <3>2. "markban" \in Ahead /\ "kickban" \notin Ahead
      <4>1. ~Before("markban", "kickban")
        BY DEF Before, Place
      <4>. QED BY <3>1, <4>1, HeadAhead
    <3>3. Action[r] = "kick"
      BY <2>1, <3>1, <3>2, MemberAssumption
         DEF LockInv, PunishLock, PunishSteps, CallSteps, Actions, Restricting
    <3>. QED BY <3>1, <3>2, <3>3 DEF TakeoverInv, SetBySession
  <2>2. CASE pun[r].kickBanned /\ pun[r].status = "pending"
    <3>1. Action[r] = "kick" /\ ~SetBySession
      BY <2>2 DEF TakeoverInv
    <3>2. TakenOver
      BY <2>2, <3>1 DEF TakenOver
    <3>3. ~(RightsTaken /\ holder.op \in {"join", "finish"})
      BY <3>2 DEF RightsTaken, VerificationWaits
    <3>. QED BY <3>1, <3>3, SessionRights
  <2>3. CASE ~MarksKickBanned \/ holder.id # r
    <3>1. pun[r].kickBanned
      BY <1>3, <2>3, RowsGoOn
    <3>2. pun[r].status # "none"
      BY <3>1 DEF TakeoverInv
    <3>3. ~PunishStarts(r) \/ pun'[r] = pun[r]
      BY <3>2 DEF PunishStarts
    <3>. QED BY <1>3, <2>2, <3>1, <3>3, RowsGoOn
  <2>. QED BY <2>1, <2>3
<1>4. ASSUME holder'.op = "punish", Head(holder'.todo) # "prepare"
      PROVE  /\ "markban" \in Ahead' => "kickban" \in Ahead' \/ ~SetBySession'
             /\ (/\ "complete" \in Ahead' /\ pun'[holder'.id].status = "pending"
                 /\ Action[holder'.id] # "unban") =>
                  ~SetBySession' \/ Ahead' \cap Erasing # {}
  <2>1. /\ holder.op = "punish" /\ holder'.id = holder.id
        /\ UNCHANGED holder \/ (Advances /\ CallTaken) \/ Prepares
    BY <1>4, PunishHolder
  <2>2. SetBySession' => SetBySession
    BY <2>1, SessionRights
  <2>3. pun'[holder.id].status = "pending" => pun[holder.id].status = "pending"
    BY <1>0, <2>1, RowsGoOn DEF PunishStarts, LockFree
  <2>4. CASE UNCHANGED holder
    <3>1. Ahead' = Ahead
      BY <2>4 DEF Ahead
    <3>. QED BY <1>4, <2>1, <2>2, <2>3, <2>4, <3>1 DEF TakeoverInv
  <2>5. CASE Advances /\ CallTaken
    <3>1. Ahead = {Head(holder.todo)} \cup Ahead'
      BY <2>1, <2>5, AheadAdvances DEF LockInv
    <3>2. Head(holder.todo) # "prepare"
      BY <2>5 DEF Advances
    <3>3. Head(holder.todo) \in Erasing => ~SetBySession'
      BY <2>1, <2>5, ErasingCalls
    <3>4. "kickban" \in Erasing
      BY DEF Erasing
    <3>. QED BY <2>1, <2>2, <2>3, <3>1, <3>2, <3>3, <3>4 DEF TakeoverInv
  <2>6. CASE Prepares
    <3>1. PICK r : r = holder.id
      OBVIOUS
    <3>2. PICK p : p = pun'[r]
      OBVIOUS
    <3>3. /\ r \in Requests /\ holder'.todo = PunishPlan(r, p) /\ p.status = "pending"
          /\ p.kickBanned = pun[r].kickBanned /\ holder'.id = r
          /\ pun'[r].status = pun[r].status
      <4>1. /\ r \in Requests /\ holder'.todo = PunishPlan(r, pun'[r])
            /\ pun'[r].status = "pending" /\ holder'.id = r
        BY <1>4, <2>6, <3>1, PreparesRow DEF Free
      <4>2. /\ pun'[r].kickBanned = pun[r].kickBanned
            /\ \/ pun'[r].status = pun[r].status
               \/ pun'[r].status = "skipped"
        BY <2>6, <3>1, PreparesRow
      <4>. QED BY <3>2, <4>1, <4>2
    <3>4. StepsOf(PunishPlan(r, p)) \ {"delete"} =
            {"done"} \cup (IF p.acted THEN {}
                           ELSE {"start", "complete"} \cup CallSteps(r, p.kickBanned))
      BY <3>3, PunishPlans
    <3>5. Ahead' = StepsOf(PunishPlan(r, p))
      BY <3>3 DEF Ahead
    <3>6. p.kickBanned => Action[r] = "kick" /\ ~SetBySession'
      BY <1>3, <3>2, <3>3
    <3>7. CASE p.acted
      BY <3>4, <3>5, <3>7
    <3>8. CASE ~p.acted
      <4>1. /\ "markban" \in Ahead' => "markban" \in CallSteps(r, p.kickBanned)
            /\ CallSteps(r, p.kickBanned) \subseteq Ahead'
        <5>1. "markban" \notin {"delete", "done", "start", "complete"}
          OBVIOUS
        <5>. QED BY <3>4, <3>5, <3>8, <5>1
      <4>2. "markban" \in CallSteps(r, p.kickBanned) => "kickban" \in CallSteps(r, p.kickBanned)
        BY <3>3, MemberAssumption DEF CallSteps, Actions, Restricting
      <4>3. \/ Action[r] = "unban" \/ p.kickBanned
            \/ CallSteps(r, p.kickBanned) \cap Erasing # {}
        BY <3>3, MemberAssumption DEF CallSteps, Actions, Restricting, Erasing
      <4>. QED BY <3>3, <3>6, <4>1, <4>2, <4>3
    <3>. QED BY <3>7, <3>8
  <2>. QED BY <2>1, <2>4, <2>5, <2>6
<1>. QED BY <1>1, <1>2, <1>3, <1>4 DEF TakeoverInv

(* When the sessions are cancelled for a request, nothing they did is in   *)
(* force any more.                                                         *)
LEMMA TakeoverClean ==
  ASSUME TypeOK, LockInv, TakeoverInv, Completes
  PROVE  \/ UNCHANGED ses
         \/ ~SetBySession'
<1>1. /\ holder.op = "punish" /\ Head(holder.todo) = "complete"
      /\ pun[holder.id].status = "pending" /\ UNCHANGED <<tg, cause>>
  BY DEF Completes, CompletesTakeover, MayStart, Doing
<1>2. CASE Action[holder.id] = "unban"
  BY <1>2 DEF Completes
<1>3. CASE Action[holder.id] # "unban"
  <2>1. \A x \in Erasing : x # "complete" /\ ~Before("complete", x)
    BY DEF Erasing, Before, Place
  <2>2. "complete" \in Ahead /\ Ahead \cap Erasing = {}
    BY <1>1, <2>1, HeadAhead
  <2>. QED BY <1>1, <1>3, <2>2 DEF TakeoverInv, SetBySession
<1>. QED BY <1>2, <1>3

-----------------------------------------------------------------------------
(* Mutes of sessions.                                                      *)

\* Whatever is due to be lifted is a mute: no revocation, or none that finds a ban
\* or a kick begun.  (Lifting a ban, sweepPermissionReleases ends the sessions of
\* the member as well, and leaves the member as silenced as they had.)
OnlyMutesAreLifted ==
  MaxRevokes = 0 \/ \A r \in Requests : Action[r] \notin {"ban", "kick"}

(* A session that is to end without having failed gives the member the     *)
(* right to speak back before its end is written, or bans.                 *)
FinishMuteInv ==
  (/\ holder.op = "finish" /\ Head(holder.todo) # "read"
   /\ holder.outcome \in {"verified", "cancelled", "blocked"}) =>
     tg.rights # "muted" \/ Ahead \cap {"restore", "ban"} # {}

(* A release that was carried out has restored the member.                 *)
ReleaseInv ==
  /\ \A r \in Requests : pun[r].release # "no" => Action[r] \in {"mute", "hold"}
  /\ \A c \in calls : c.op = "release" => Action[c.id] \in {"mute", "hold"}
  /\ holder.op = "release" =>
       /\ Action[holder.id] \in {"mute", "hold"}
       /\ holder.released => ~SetBySession \/ "restore" \in Ahead

LEMMA FinishMuteStep ==
  ASSUME TypeOK, LockInv, FinishMuteInv, [Next]_vars
  PROVE  FinishMuteInv'
<1> SUFFICES ASSUME holder'.op = "finish", Head(holder'.todo) # "read",
                    holder'.outcome \in {"verified", "cancelled", "blocked"},
                    tg'.rights = "muted"
             PROVE  Ahead' \cap {"restore", "ban"} # {}
  BY DEF FinishMuteInv
<1>0. /\ holder \in Holder
      /\ tg \in [rights : {"free", "muted", "banned"}, present : BOOLEAN]
  BY DEF TypeOK, MemberTypeOK, LockTypeOK
<1>1. CASE /\ UNCHANGED holder \/ (Advances /\ CallTaken)
  <2>1. /\ holder.op = "finish" /\ Head(holder.todo) # "read"
        /\ holder'.outcome = holder.outcome
    BY <1>1 DEF Advances
  <2>2. /\ Ahead \subseteq {"begin", "ban", "unban", "restore", "settle"}
        /\ Head(holder.todo) \in Ahead
    BY <2>1, HeadAhead DEF LockInv, FinishLock
  <2>3. tg.rights = "muted"
    BY <2>2, RightsSteps DEF RightsRest, RightsFreed, RightsTaken
  <2>4. Ahead \cap {"restore", "ban"} # {}
    BY <2>1, <2>3 DEF FinishMuteInv
  <2>5. CASE UNCHANGED holder
    BY <2>4, <2>5 DEF Ahead
  <2>6. CASE Advances /\ CallTaken
    <3>1. Ahead = {Head(holder.todo)} \cup Ahead'
      BY <2>1, <2>6, AheadAdvances DEF LockInv
    <3>2. Head(holder.todo) \notin {"restore", "ban"}
      <4>1. ~Effect("restore") /\ ~Effect("ban")
        BY <1>0 DEF Effect, Restored, Banned
      <4>. QED BY <2>6, <4>1 DEF CallTaken, EffectSteps
    <3>. QED BY <2>4, <3>1, <3>2
  <2>. QED BY <1>1, <2>5, <2>6
<1>2. CASE FinishReads
  <2>0. holder' # Free
    BY DEF Free
  <2>1. PICK plan \in Plans :
          holder' = [holder EXCEPT !.todo = plan.steps \o <<"settle">>,
                                   !.outcome = plan.outcome]
    BY <1>2, <2>0 DEF FinishReads
  <2>2. PICK todo, outcome :
          /\ todo = plan.steps \o <<"settle">> /\ outcome = plan.outcome
          /\ holder' = [holder EXCEPT !.todo = todo, !.outcome = outcome]
    BY <2>1
  <2>3. /\ holder'.todo = todo /\ holder'.outcome = outcome
        /\ tg.rights = "muted"
    <3>1. holder'.todo = todo /\ holder'.outcome = outcome
      BY <1>0, <2>2 DEF Holder
    <3>2. UNCHANGED tg
      BY <1>2 DEF FinishReads
    <3>. QED BY <3>1, <3>2
  <2>4. StepsOf(todo) = StepsOf(plan.steps) \cup {"settle"}
    <3>1. StepsOf(plan.steps \o <<"settle">>) = StepsOf(plan.steps) \cup {"settle"}
      BY FinishPlans
    <3>. QED BY <2>2, <3>1
  <2>5. StepsOf(plan.steps) \cap {"restore", "ban"} # {}
    <3>1. plan.outcome \in {"verified", "cancelled", "blocked"}
      BY <2>2, <2>3
    <3>2. \/ /\ plan.steps = CancelledPlan
             /\ tg.rights = "muted" => "restore" \in StepsOf(CancelledPlan)
          \/ plan.steps = <<"ban">>
          \/ plan.steps = <<"restore">>
      <4>1. \E steps, outcome2 :
              /\ plan = [steps |-> steps, outcome |-> outcome2]
              /\ \/ /\ steps = CancelledPlan
                    /\ tg.rights = "muted" => "restore" \in StepsOf(CancelledPlan)
                 \/ steps = <<"ban">>
                 \/ steps = <<"restore">>
                 \/ outcome2 \in {"left", "expired"}
        BY <2>3, FinishPlans
      <4>. QED BY <3>1, <4>1
    <3>. QED BY <2>3, <3>2, ShortPlans
  <2>. QED BY <2>3, <2>4, <2>5 DEF Ahead
<1>3. ~Prepares
  <2>1. Prepares => holder' = Free \/ holder'.op = "punish"
    BY PreparesRow
  <2>. QED BY <2>1 DEF Free
<1>4. \A s \in Sessions : holder' # JoinMuting(s)
  BY DEF JoinMuting, Free
<1>5. ASSUME NEW s \in Sessions, AnsweredRight(s) \/ FinishStarts(s) PROVE FALSE
  <2>1. holder'.todo = <<"read">>
    BY <1>5 DEF AnsweredRight, FinishStarts, Finishing, Free
  <2>2. Head(<<"read">>) = "read"
    OBVIOUS
  <2>. QED BY <2>1, <2>2
<1>6. \A r \in Requests : ~PunishStarts(r) /\ ~ReleaseStarts(r)
  BY DEF PunishStarts, ReleaseStarts, Free
<1>. QED BY <1>1, <1>2, <1>3, <1>4, <1>5, <1>6, HolderSteps

(* A release is asked for only while it is due.                            *)
LEMMA ReleaseCallsDue ==
  ASSUME TypeOK, [Next]_vars, NEW c \in calls', c.op = "release"
  PROVE  c \in calls \/ (c.id \in Requests /\ DueRelease(c.id))
<1>1. ASSUME NEW r \in Requests, Requested(r) \/ ReleaseListed(r)
      PROVE  c \in calls \/ (c.id \in Requests /\ DueRelease(c.id))
  BY <1>1 DEF Requested, ReleaseListed, PunishCall, ReleaseCall
<1>2. CASE JoinChecked
  BY <1>2 DEF JoinChecked, JoinCall
<1>3. CASE \/ JoinLocked \/ JoinMutes \/ Left \/ Expires \/ FinishReads \/ BeginKick \/ Settle
           \/ Drops \/ GroupNext \/ Joins \/ Leaves \/ GivesUp \/ Crash \/ UNCHANGED vars
  BY <1>3
     DEF JoinLocked, JoinMutes, Left, Expires, FinishReads, BeginKick, Settle, Drops,
         GroupNext, Revoked, Approved, VerificationOff, VerificationOn, Joins, Leaves,
         GivesUp, Crash, vars
<1>4. CASE \/ Prepares \/ DeletesMessage \/ StartsPermission \/ MarksKickBanned
           \/ CompletesTakeover \/ PunishDone
  BY <1>4
     DEF Prepares, DeletesMessage, StartsPermission, MarksKickBanned, CompletesTakeover,
         PunishDone
<1>5. ASSUME NEW step \in EffectSteps,
             FinishCalls(step) \/ PunishCalls(step) \/ ReleaseCalls(step)
      PROVE  c \in calls
  BY <1>5 DEF FinishCalls, PunishCalls, ReleaseCalls
<1>6. ASSUME NEW s \in Sessions, SessionNext(s) PROVE c \in calls
  BY <1>6 DEF SessionNext, AnsweredRight, AnsweredWrong, Lapses, FinishStarts
<1>7. ASSUME NEW r \in Requests,
             PunishStarts(r) \/ MuteRunsOut(r) \/ TelegramLifts(r) \/ ReleaseStarts(r)
      PROVE  c \in calls
  BY <1>7 DEF PunishStarts, MuteRunsOut, TelegramLifts, ReleaseStarts
<1>8. ASSUME NEW d \in calls, Busy(d) PROVE c \in calls
  BY <1>8 DEF Busy
<1>. QED
  BY <1>1, <1>2, <1>3, <1>4, <1>5, <1>6, <1>7, <1>8
     DEF Next, JoinNext, FinishNext, PunishNext, ReleaseNext, OtherNext, RequestNext

(* What there is to lift: a timed mute, or what a revocation found begun.  *)
LEMMA ReleaseRows ==
  ASSUME TypeOK, [Next]_vars, NEW r \in Requests, pun'[r].release # "no"
  PROVE  \/ pun[r].release # "no"
         \/ Action[r] = "mute"
         \/ revokes < MaxRevokes /\ pun[r].started /\ Action[r] \in Restricting
<1>0. /\ pun \in [Requests -> PunishmentRow]
      /\ holder.op \in {"punish", "release"} => holder.id \in Requests
  BY DEF TypeOK, RowsTypeOK, LockTypeOK
<1>1. CASE RowsDrift
  BY <1>1 DEF RowsDrift, RowDrifts
<1>2. CASE RowFails
  BY <1>2 DEF RowFails
<1>3. CASE Prepares
  <2>1. PICK q : q = holder.id
    OBVIOUS
  <2>2. /\ \A x \in Requests \ {q} : pun'[x] = pun[x]
        /\ pun'[q].release = pun[q].release
    BY <1>3, <2>1, PreparesRow
  <2>. QED BY <2>2
<1>4. CASE Begins
  <2>1. /\ r # holder.id => pun'[r] = pun[r]
        /\ r = holder.id => pun'[r].release = IF Timed(r) THEN "timed" ELSE pun[r].release
    BY <1>0, <1>4 DEF Begins, PunishmentRow
  <2>. QED BY <2>1 DEF Timed
<1>5. CASE MarksKickBanned \/ Ends \/ Completes
  <2>1. pun'[r].release = pun[r].release
    BY <1>0, <1>5 DEF MarksKickBanned, Ends, Completes, PunishmentRow
  <2>. QED BY <2>1
<1>6. CASE Drops
  BY <1>0, <1>6 DEF Drops, PunishmentRow
<1>7. ASSUME NEW q \in Requests, PunishStarts(q) PROVE pun'[r].release = pun[r].release
  BY <1>0, <1>7 DEF PunishStarts, PunishmentRow
<1>. QED BY <1>1, <1>2, <1>3, <1>4, <1>5, <1>6, <1>7, RowSteps

(* How a release comes to hold the lock.                                   *)
LEMMA ReleaseHolder ==
  ASSUME TypeOK, [Next]_vars, holder'.op = "release"
  PROVE  \/ /\ holder.op = "release" /\ holder'.id = holder.id
            /\ holder'.released = holder.released
            /\ UNCHANGED holder \/ (Advances /\ CallTaken)
         \/ \E r \in Requests : ReleaseStarts(r)
<1>1. CASE UNCHANGED holder \/ (Advances /\ CallTaken)
  BY <1>1 DEF Advances
<1>2. ~Prepares
  <2>1. Prepares => holder' = Free \/ holder'.op = "punish"
    BY PreparesRow
  <2>. QED BY <2>1 DEF Free
<1>3. ~FinishReads
  <2> SUFFICES ASSUME FinishReads PROVE FALSE
    OBVIOUS
  <2>1. holder' # Free
    BY DEF Free
  <2>2. PICK todo, outcome : holder' = [holder EXCEPT !.todo = todo, !.outcome = outcome]
    BY <2>1 DEF FinishReads
  <2>. QED BY <2>2 DEF FinishReads, Doing, TypeOK, LockTypeOK, Holder
<1>4. \A s \in Sessions : holder' # JoinMuting(s) /\ ~AnsweredRight(s) /\ ~FinishStarts(s)
  BY DEF JoinMuting, AnsweredRight, FinishStarts, Finishing, Free
<1>5. \A r \in Requests : ~PunishStarts(r)
  BY DEF PunishStarts, Free
<1>. QED BY <1>1, <1>2, <1>3, <1>4, <1>5, HolderSteps

LEMMA ReleaseStep ==
  ASSUME TypeOK, LockInv, OnlyMutesAreLifted, ReleaseInv, [Next]_vars
  PROVE  ReleaseInv'
<1>1. \A r \in Requests : pun'[r].release # "no" => Action[r] \in {"mute", "hold"}
  <2>1. ~(MaxRevokes = 0 /\ revokes < MaxRevokes)
    BY MemberAssumption DEF TypeOK, BoundsOK
  <2>. QED BY <2>1, ReleaseRows DEF OnlyMutesAreLifted, ReleaseInv, Restricting
<1>2. \A c \in calls' : c.op = "release" => Action[c.id] \in {"mute", "hold"}
  BY ReleaseCallsDue DEF ReleaseInv, DueRelease
<1>3. ASSUME holder'.op = "release"
      PROVE  /\ Action[holder'.id] \in {"mute", "hold"}
             /\ holder'.released => ~SetBySession' \/ "restore" \in Ahead'
  <2>1. CASE /\ holder.op = "release" /\ holder'.id = holder.id
             /\ holder'.released = holder.released
             /\ UNCHANGED holder \/ (Advances /\ CallTaken)
    <3>1. SetBySession' => SetBySession
      BY <2>1, SessionRights
    <3>2. CASE UNCHANGED holder
      BY <2>1, <3>1, <3>2 DEF ReleaseInv, Ahead
    <3>3. CASE Advances /\ CallTaken
      <4>1. Ahead = {Head(holder.todo)} \cup Ahead'
        BY <2>1, <3>3, AheadAdvances DEF LockInv
      <4>2. Head(holder.todo) = "restore" => ~SetBySession'
        BY <2>1, <3>3, ErasingCalls DEF Erasing
      <4>. QED BY <2>1, <3>1, <4>1, <4>2 DEF ReleaseInv
    <3>. QED BY <2>1, <3>2, <3>3
  <2>2. ASSUME NEW r \in Requests, ReleaseStarts(r)
        PROVE  /\ Action[holder'.id] \in {"mute", "hold"}
               /\ holder'.released => ~SetBySession' \/ "restore" \in Ahead'
    <3>1. Action[r] \in {"mute", "hold"}
      BY <2>2 DEF ReleaseStarts, ReleaseInv, ReleaseCall
    <3>2. /\ holder'.id = r
          /\ Ahead' = {Lift(r), "drop"} \/ ~holder'.released
      BY <2>2, ReleasePlans
    <3>. QED BY <3>1, <3>2 DEF Lift
  <2>. QED BY <1>3, <2>1, <2>2, ReleaseHolder
<1>. QED BY <1>1, <1>2, <1>3 DEF ReleaseInv

LEMMA OrphanMuteStep ==
  ASSUME TypeOK, LockInv, TakeoverInv, FinishMuteInv, ReleaseInv, NoOrphanMute, [Next]_vars
  PROVE  NoOrphanMute'
<1> SUFFICES ASSUME NEW s \in Sessions, tg'.rights = "muted", BySession(s)',
                    ses'[s].status \in {"verified", "cancelled", "blocked"}
             PROVE  FALSE
  BY DEF NoOrphanMute
<1>0. /\ ses \in [Sessions -> SessionRow]
      /\ tg \in [rights : {"free", "muted", "banned"}, present : BOOLEAN]
      /\ holder.op \in {"join", "finish", "punish"} => holder.op # "none"
  BY DEF TypeOK, RowsTypeOK, MemberTypeOK
<1>1. CASE RightsTaken
  <2>1. /\ Head(holder.todo) = "restrict" /\ UNCHANGED ses
        /\ holder.op \in {"join", "finish"} /\ holder.id = s
    BY <1>1 DEF RightsTaken, BySession, Owner
  <2>2. holder.op # "finish"
    BY <2>1, HeadAhead DEF LockInv, FinishLock
  <2>3. ses[s].status \in Active
    BY <2>1, <2>2 DEF LockInv, JoinLock
  <2>. QED BY <2>1, <2>3 DEF Active, Live
<1>2. ~RightsFreed
  BY DEF RightsFreed
<1>3. CASE RightsRest
  <2>1. tg.rights = "muted" /\ BySession(s) /\ SetBySession
    BY <1>3 DEF RightsRest, BySession, SetBySession
  <2>2. ses[s].status \notin {"verified", "cancelled", "blocked"}
    BY <2>1 DEF NoOrphanMute
  <2>3. ~SessionsDrift
    BY <2>2 DEF SessionsDrift, Drifts
  <2>4. ~JoinLocked
    <3> SUFFICES ASSUME JoinLocked PROVE FALSE
      OBVIOUS
    <3>1. \/ UNCHANGED ses
          \/ \E t \in Sessions :
               ses' = [ses EXCEPT ![t] =
                         [NoSession EXCEPT !.status = "pending", !.created = clock]]
      BY DEF JoinLocked
    <3>. QED BY <1>0, <2>2, <3>1 DEF NoSession
  <2>5. ~BeginKick
    <3> SUFFICES ASSUME BeginKick PROVE FALSE
      OBVIOUS
    <3>1. ses' = [ses EXCEPT ![holder.id].kickStarted =
                    ses[holder.id].kickStarted \/ ses[holder.id].status = "expiring"]
      BY DEF BeginKick
    <3>2. ses'[s].status = ses[s].status
      BY <1>0, <3>1 DEF SessionRow
    <3>. QED BY <2>2, <3>2
  <2>6. ~Settle
    <3> SUFFICES ASSUME Settle PROVE FALSE
      OBVIOUS
    <3>1. \/ UNCHANGED ses
          \/ ses' = [ses EXCEPT ![holder.id].status = holder.outcome]
      BY DEF Settle
    <3>2. ses'[s].status = holder.outcome
      BY <1>0, <2>2, <3>1 DEF SessionRow
    <3>3. holder.op = "finish" /\ Head(holder.todo) = "settle"
      BY DEF Settle, Doing
    <3>4. Ahead \cap {"restore", "ban"} = {}
      <4>1. ~Before("settle", "restore") /\ ~Before("settle", "ban")
        BY DEF Before, Place
      <4>. QED BY <3>3, <4>1, HeadAhead
    <3>. QED BY <2>1, <3>2, <3>3, <3>4 DEF FinishMuteInv
  <2>7. ~CompletesTakeover
    <3> SUFFICES ASSUME CompletesTakeover PROVE FALSE
      OBVIOUS
    <3>1. UNCHANGED ses \/ Completes
      BY DEF CompletesTakeover, Completes
    <3>2. UNCHANGED <<tg, cause>>
      BY DEF CompletesTakeover
    <3>. QED BY <2>1, <2>2, <3>1, <3>2, TakeoverClean DEF SetBySession
  <2>8. ~Drops
    <3> SUFFICES ASSUME Drops PROVE FALSE
      OBVIOUS
    <3>1. holder.op = "release" /\ Head(holder.todo) = "drop"
      BY DEF Drops, Doing
    <3>2. "restore" \notin Ahead
      <4>1. ~Before("drop", "restore")
        BY DEF Before, Place
      <4>. QED BY <3>1, <4>1, HeadAhead
    <3>3. ~holder.released
      BY <2>1, <3>1, <3>2 DEF ReleaseInv
    <3>4. ses'[s] = ses[s]
      BY <3>3 DEF Drops
    <3>. QED BY <2>2, <3>4
  <2>9. \A t \in Sessions : ~AnsweredRight(t)
    <3>1. ASSUME NEW t \in Sessions, AnsweredRight(t) PROVE FALSE
      <4>1. ses' = [ses EXCEPT ![t].status = "completing"]
        BY <3>1 DEF AnsweredRight
      <4>. QED BY <1>0, <2>2, <4>1 DEF SessionRow
    <3>. QED BY <3>1
  <2>. QED BY <2>3, <2>4, <2>5, <2>6, <2>7, <2>8, <2>9, SessionSteps
<1>. QED BY <1>1, <1>2, <1>3, RightsSteps

(* What a session did is overwritten before a request takes it over:       *)
(* CompleteTakeover cancels sessions only after the call to Telegram.      *)
THEOREM TakeoverHolds == Spec => [](TypeOK /\ LockInv /\ TakeoverInv)
<1>1. Init => TakeoverInv
  BY DEF Init, TakeoverInv, Free, NoPunishment
<1>2. TypeOK /\ LockInv /\ VerificationWaits /\ TakeoverInv /\ [Next]_vars => TakeoverInv'
  BY TakeoverStep
<1>. QED BY <1>1, <1>2, LockInvHolds, VerificationGivesWay, PTL DEF Spec

(* No session that was passed, cancelled or blocked leaves the member      *)
(* muted, as long as no revocation finds a ban or a kick begun.            *)
THEOREM NoMuteIsOrphaned ==
  ASSUME OnlyMutesAreLifted
  PROVE  Spec => []NoOrphanMute
<1>1. Init => FinishMuteInv /\ ReleaseInv /\ NoOrphanMute
  BY DEF Init, FinishMuteInv, ReleaseInv, NoOrphanMute, Free, NoPunishment
<1>2. /\ TypeOK /\ LockInv /\ TakeoverInv /\ FinishMuteInv /\ ReleaseInv /\ NoOrphanMute
      /\ [Next]_vars
      => (FinishMuteInv /\ ReleaseInv /\ NoOrphanMute)'
  BY FinishMuteStep, ReleaseStep, OrphanMuteStep
<1>. QED BY <1>1, <1>2, TakeoverHolds, PTL DEF Spec

-----------------------------------------------------------------------------
(* Kicks of sessions.                                                      *)

\* The member is banned for session s, which kicks those who fail it.
KickBan(s) == tg.rights = "banned" /\ BySession(s) /\ FailAction[s] = "kick"

(* The ban half of a kick is remembered before it is made, by the session  *)
(* row and by whoever reads it, and its holder lifts it before it writes   *)
(* the end of the session.                                                 *)
KickInv ==
  /\ ~(tg.present /\ tg.rights = "banned")
  /\ \A s \in Sessions : KickBan(s) =>
       /\ ses[s].status \notin {"none", "pending", "expired"}
       /\ ses[s].status = "expiring" => ses[s].kickStarted
  /\ holder.op = "finish" =>
       /\ KickBan(holder.id) =>
            IF Head(holder.todo) = "read" THEN holder.status = "expiring" => holder.kick
            ELSE holder.outcome = "expired" => "unban" \in Ahead
       /\ (Head(holder.todo) # "read" /\ "ban" \in Ahead) =>
            /\ holder.outcome \in {"blocked", "expired"}
            /\ (holder.outcome = "expired" /\ FailAction[holder.id] = "kick") =>
                 /\ "unban" \in Ahead
                 /\ \/ "begin" \in Ahead
                    \/ ses[holder.id].status = "expiring" => ses[holder.id].kickStarted

(* How finishVerification comes to hold the lock.                          *)
LEMMA FinishHolder ==
  ASSUME TypeOK, [Next]_vars, holder'.op = "finish"
  PROVE  \/ /\ holder.op = "finish" /\ holder'.id = holder.id
            /\ holder'.status = holder.status /\ holder'.outcome = holder.outcome
            /\ UNCHANGED holder \/ (Advances /\ CallTaken)
         \/ /\ FinishReads /\ holder.op = "finish" /\ holder'.id = holder.id
            /\ holder'.status = holder.status
            /\ \E plan \in Plans : /\ holder'.todo = plan.steps \o <<"settle">>
                                   /\ holder'.outcome = plan.outcome
         \/ \E s \in Sessions :
              /\ AnsweredRight(s) \/ FinishStarts(s)
              /\ holder'.id = s /\ Head(holder'.todo) = "read"
              /\ holder'.kick = ses[s].kickStarted
              /\ holder'.status \in {"completing", ses[s].status}
<1>1. CASE UNCHANGED holder \/ (Advances /\ CallTaken)
  BY <1>1 DEF Advances
<1>2. CASE FinishReads
  <2>0. holder' # Free
    BY DEF Free
  <2>1. PICK plan \in Plans :
          holder' = [holder EXCEPT !.todo = plan.steps \o <<"settle">>,
                                   !.outcome = plan.outcome]
    BY <1>2, <2>0 DEF FinishReads
  <2>2. PICK todo, outcome :
          /\ todo = plan.steps \o <<"settle">> /\ outcome = plan.outcome
          /\ holder' = [holder EXCEPT !.todo = todo, !.outcome = outcome]
    BY <2>1
  <2>3. /\ holder'.todo = todo /\ holder'.outcome = outcome
        /\ holder'.id = holder.id /\ holder'.status = holder.status
    BY <2>2 DEF TypeOK, LockTypeOK, Holder
  <2>. QED BY <1>2, <2>2, <2>3 DEF FinishReads, Doing
<1>3. ASSUME NEW s \in Sessions, AnsweredRight(s) \/ FinishStarts(s)
      PROVE  /\ holder'.id = s /\ Head(holder'.todo) = "read"
             /\ holder'.kick = ses[s].kickStarted
             /\ holder'.status \in {"completing", ses[s].status}
  <2>1. PICK status \in {"completing", ses[s].status} : holder' = Finishing(s, status)
    BY <1>3 DEF AnsweredRight, FinishStarts
  <2>2. /\ holder'.id = s /\ holder'.todo = <<"read">>
        /\ holder'.kick = ses[s].kickStarted /\ holder'.status = status
    BY <2>1 DEF Finishing, Free
  <2>3. Head(<<"read">>) = "read"
    OBVIOUS
  <2>. QED BY <2>2, <2>3
<1>4. ~Prepares
  <2>1. Prepares => holder' = Free \/ holder'.op = "punish"
    BY PreparesRow
  <2>. QED BY <2>1 DEF Free
<1>5. \A s \in Sessions : holder' # JoinMuting(s)
  BY DEF JoinMuting, Free
<1>6. \A r \in Requests : ~PunishStarts(r) /\ ~ReleaseStarts(r)
  BY DEF PunishStarts, ReleaseStarts, Free
<1>. QED BY <1>1, <1>2, <1>3, <1>4, <1>5, <1>6, HolderSteps

(* The plan for a session that ran out.                                    *)
LEMMA ExpiredPlans ==
  /\ (FailAction[holder.id] = "kick" /\ "ban" \in StepsOf(ExpiredPlan)) =>
       "unban" \in StepsOf(ExpiredPlan) /\ "begin" \in StepsOf(ExpiredPlan)
  /\ (~tg.present /\ KickDue) => "unban" \in StepsOf(ExpiredPlan)
<1>1. CASE FailsBy("kick") /\ tg.present
  <2>1. ExpiredPlan = <<"begin", "ban", "unban">>
    BY <1>1 DEF ExpiredPlan, FailsBy
  <2>. QED BY <1>1, <2>1, ShortPlans
<1>2. CASE ~tg.present /\ KickDue
  <2>1. ExpiredPlan = <<"unban">>
    BY <1>2 DEF ExpiredPlan
  <2>. QED BY <2>1, ShortPlans
<1>3. CASE ~(FailsBy("kick") /\ tg.present) /\ ~(~tg.present /\ KickDue)
  <2>1. CASE FailsBy("kick")
    <3>1. ExpiredPlan = <<>>
      BY <1>3, <2>1 DEF ExpiredPlan, FailsBy
    <3>. QED BY <1>3, <3>1, ShortPlans
  <2>2. CASE ~FailsBy("kick")
    BY <1>3, <2>2 DEF FailsBy
  <2>. QED BY <2>1, <2>2
<1>. QED BY <1>1, <1>2, <1>3

(* A ban set for a session that kicks: its holder is about to lift it.     *)
LEMMA KickCalls ==
  ASSUME TypeOK, LockInv, KickInv, RightsTaken, NEW s \in Sessions, KickBan(s)'
  PROVE  /\ holder.op = "finish" /\ holder.id = s /\ Head(holder.todo) = "ban"
         /\ UNCHANGED ses /\ "ban" \in Ahead /\ "begin" \notin Ahead
         /\ holder.outcome = "expired" => "unban" \in Ahead
         /\ ses[s].status \notin {"none", "pending", "expired"}
         /\ ses[s].status = "expiring" => ses[s].kickStarted
<1>1. /\ holder.op \in {"join", "finish"} /\ holder.id = s /\ UNCHANGED ses
      /\ Head(holder.todo) \in {"ban", "kickban"}
  <2>1. tg \in [rights : {"free", "muted", "banned"}, present : BOOLEAN]
    BY DEF TypeOK, MemberTypeOK
  <2>. QED BY <2>1 DEF RightsTaken, KickBan, BySession, Owner
<1>2. holder.op = "finish"
  <2>1. Head(<<"restrict">>) = "restrict"
    OBVIOUS
  <2>. QED BY <1>1, <2>1 DEF LockInv, JoinLock
<1>3. /\ Head(holder.todo) = "ban" /\ "ban" \in Ahead /\ "begin" \notin Ahead
      /\ holder.status \in {"completing", "expiring", "releasing"}
      /\ holder.outcome \in Outcomes(holder.status)
      /\ ses[s].status \in {holder.status, "releasing"}
  <2>1. ~Before("ban", "begin")
    BY DEF Before, Place
  <2>. QED BY <1>1, <1>2, <2>1, HeadAhead DEF LockInv, FinishLock
<1>4. FailAction[s] = "kick"
  BY DEF KickBan
<1>5. ses[s].status = "expiring" => holder.outcome = "expired"
  BY <1>2, <1>3 DEF KickInv, Outcomes
<1>. QED BY <1>1, <1>2, <1>3, <1>4, <1>5 DEF KickInv

LEMMA KickSessionsStep ==
  ASSUME TypeOK, LockInv, KickInv, [Next]_vars, NEW s \in Sessions, KickBan(s)'
  PROVE  /\ ses'[s].status \notin {"none", "pending", "expired"}
         /\ ses'[s].status = "expiring" => ses'[s].kickStarted
<1>0. ses \in [Sessions -> SessionRow]
  BY DEF TypeOK, RowsTypeOK
<1>1. CASE RightsTaken
  BY <1>1, KickCalls
<1>2. ~RightsFreed
  BY DEF RightsFreed, KickBan
<1>3. CASE RightsRest
  <2>1. /\ KickBan(s)
        /\ ses[s].status \notin {"none", "pending", "expired"}
        /\ ses[s].status = "expiring" => ses[s].kickStarted
    <3>1. KickBan(s)
      BY <1>3 DEF RightsRest, KickBan, BySession
    <3>. QED BY <3>1 DEF KickInv
  <2>2. CASE SessionsDrift
    BY <2>1, <2>2 DEF SessionsDrift, Drifts
  <2>3. CASE JoinLocked
    <3>1. \/ UNCHANGED ses
          \/ \E t \in Sessions :
               /\ ses[t].status = "none"
               /\ ses' = [ses EXCEPT ![t] =
                            [NoSession EXCEPT !.status = "pending", !.created = clock]]
      BY <2>3 DEF JoinLocked, Fresh
    <3>2. ses'[s] = ses[s]
      BY <1>0, <2>1, <3>1
    <3>. QED BY <2>1, <3>2
  <2>4. CASE BeginKick
    <3>1. ses' = [ses EXCEPT ![holder.id].kickStarted =
                    ses[holder.id].kickStarted \/ ses[holder.id].status = "expiring"]
      BY <2>4 DEF BeginKick
    <3>2. ses'[s].status = ses[s].status /\ (ses[s].kickStarted => ses'[s].kickStarted)
      BY <1>0, <3>1 DEF SessionRow
    <3>. QED BY <2>1, <3>2
  <2>5. CASE Settle
    <3>1. \/ UNCHANGED ses
          \/ ses' = [ses EXCEPT ![holder.id].status = holder.outcome]
      BY <2>5 DEF Settle
    <3>2. CASE ses'[s] = ses[s]
      BY <2>1, <3>2
    <3>3. CASE ses'[s] # ses[s]
      <4>1. holder.id = s /\ ses'[s].status = holder.outcome
        BY <1>0, <3>1, <3>3 DEF SessionRow
      <4>2. holder.op = "finish" /\ Head(holder.todo) = "settle"
        BY <2>5 DEF Settle, Doing
      <4>3. "unban" \notin Ahead
        <5>1. ~Before("settle", "unban")
          BY DEF Before, Place
        <5>. QED BY <4>2, <5>1, HeadAhead
      <4>4. holder.outcome # "expired"
        BY <2>1, <4>1, <4>2, <4>3 DEF KickInv
      <4>5. holder.outcome \in {"verified", "blocked", "left", "cancelled", "expired"}
        BY <4>2 DEF LockInv, FinishLock, Outcomes
      <4>. QED BY <4>1, <4>4, <4>5
    <3>. QED BY <3>2, <3>3
  <2>6. CASE CompletesTakeover \/ Drops
    <3>1. \/ ses'[s] = ses[s]
          \/ ses'[s] = SessionsTo("cancelled", Active, ses[s])
      BY <2>6 DEF CompletesTakeover, Drops
    <3>2. /\ SessionsTo("cancelled", Active, ses[s]).status =
               IF ses[s].status \in Active THEN "cancelled" ELSE ses[s].status
          /\ SessionsTo("cancelled", Active, ses[s]).kickStarted = ses[s].kickStarted
      BY <1>0 DEF SessionsTo, SessionRow
    <3>. QED BY <2>1, <3>1, <3>2
  <2>7. ASSUME NEW t \in Sessions, AnsweredRight(t)
        PROVE  ses'[s] = ses[s] \/ ses'[s].status = "completing"
    BY <1>0, <2>7 DEF AnsweredRight, SessionRow
  <2>. QED BY <2>1, <2>2, <2>3, <2>4, <2>5, <2>6, <2>7, SessionSteps
<1>. QED BY <1>1, <1>2, <1>3, RightsSteps

LEMMA KickHolderStep ==
  ASSUME TypeOK, LockInv, KickInv, [Next]_vars, TRUE \notin Protections,
         holder'.op = "finish"
  PROVE  /\ KickBan(holder.id)' =>
              IF Head(holder'.todo) = "read" THEN holder'.status = "expiring" => holder'.kick
              ELSE holder'.outcome = "expired" => "unban" \in Ahead'
         /\ (Head(holder'.todo) # "read" /\ "ban" \in Ahead') =>
              /\ holder'.outcome \in {"blocked", "expired"}
              /\ (holder'.outcome = "expired" /\ FailAction[holder'.id] = "kick") =>
                   /\ "unban" \in Ahead'
                   /\ \/ "begin" \in Ahead'
                      \/ ses'[holder'.id].status = "expiring" => ses'[holder'.id].kickStarted
<1>0. /\ ses \in [Sessions -> SessionRow] /\ holder \in Holder
      /\ holder.op = "finish" => holder.id \in Sessions
  BY DEF TypeOK, RowsTypeOK, LockTypeOK
<1>1. CASE /\ holder.op = "finish" /\ holder'.id = holder.id
           /\ holder'.status = holder.status /\ holder'.outcome = holder.outcome
           /\ UNCHANGED holder \/ (Advances /\ CallTaken)
  <2>1. PICK s \in Sessions : s = holder.id
    BY <1>0, <1>1
  <2>2. /\ Ahead' \subseteq Ahead
        /\ \A x \in Ahead : x = Head(holder.todo) \/ x \in Ahead'
        /\ Advances => Head(holder.todo) \notin Ahead' /\ Head(holder'.todo) \in Ahead'
    <3>1. CASE UNCHANGED holder
      <4>1. ~Advances
        <5>1. holder.todo \in Seq(Steps) /\ holder.todo # <<>>
          BY <1>0, <1>1 DEF TypeOK, LockTypeOK, Holder
        <5>2. Len(Tail(holder.todo)) = Len(holder.todo) - 1 /\ Len(holder.todo) \in Nat
          BY <5>1, HeadTailProperties
        <5>3. PICK u : u = Tail(holder.todo)
          OBVIOUS
        <5>4. Len(u) # Len(holder.todo)
          BY <5>2, <5>3
        <5>. QED BY <3>1, <5>3, <5>4 DEF Advances
      <4>. QED BY <3>1, <4>1 DEF Ahead
    <3>2. CASE Advances
      <4>1. /\ Ahead = {Head(holder.todo)} \cup Ahead'
            /\ \A y \in Ahead' : Before(Head(holder.todo), y)
            /\ Head(holder'.todo) \in Ahead'
        BY <1>1, <3>2, AheadAdvances DEF LockInv
      <4>2. Head(holder.todo) \in {"begin", "ban", "unban", "restore", "settle"}
        BY <1>1, <3>2, HeadAhead DEF LockInv, FinishLock, Advances
      <4>3. ~Before(Head(holder.todo), Head(holder.todo))
        BY <4>2 DEF Before, Place
      <4>. QED BY <4>1, <4>3
    <3>. QED BY <1>1, <3>1, <3>2
  <2>3. /\ ses[s].kickStarted => ses'[s].kickStarted
        /\ ses'[s].status = "expiring" => ses[s].status = "expiring"
    <3>1. ses[s].status # "pending"
      BY <1>1, <2>1 DEF LockInv, FinishLock
    <3>. QED BY <1>1, <3>1, HeldSessions
  <2>4. ASSUME KickBan(s)'
        PROVE  IF Head(holder'.todo) = "read" THEN holder'.status = "expiring" => holder'.kick
               ELSE holder'.outcome = "expired" => "unban" \in Ahead'
    <3>1. CASE RightsTaken
      <4>1. Head(holder.todo) = "ban" /\ (holder.outcome = "expired" => "unban" \in Ahead)
        BY <2>4, <3>1, KickCalls
      <4>2. holder.outcome = "expired" => "unban" \in Ahead'
        BY <2>2, <4>1
      <4>3. Head(holder'.todo) # "read"
        <5>1. "read" \notin Ahead
          BY <1>1, <4>1 DEF LockInv, FinishLock
        <5>. QED BY <1>1, <2>2, <4>1, <5>1
      <4>. QED BY <1>1, <4>2, <4>3
    <3>2. CASE RightsRest
      <4>1. KickBan(s)
        BY <2>4, <3>2 DEF RightsRest, KickBan, BySession
      <4>2. CASE UNCHANGED holder
        BY <1>1, <2>1, <4>1, <4>2 DEF KickInv, Ahead
      <4>3. CASE Advances /\ CallTaken
        <5>1. Head(holder.todo) # "read" /\ (holder.outcome = "expired" => "unban" \in Ahead)
          BY <1>1, <2>1, <4>1, <4>3 DEF KickInv, Advances
        <5>2. Head(holder.todo) # "unban"
          <6> SUFFICES ASSUME Head(holder.todo) = "unban" PROVE FALSE
            OBVIOUS
          <6>1. Effect("unban")
            BY <4>3 DEF CallTaken, EffectSteps
          <6>2. tg'.rights = "free"
            BY <4>1, <6>1 DEF Effect, Unbanned, Restored, KickBan, TypeOK, MemberTypeOK
          <6>. QED BY <2>4, <6>2 DEF KickBan
        <5>3. Head(holder'.todo) # "read"
          <6>1. "read" \notin Ahead
            BY <1>1, <5>1 DEF LockInv, FinishLock
          <6>. QED BY <2>2, <4>3, <6>1
        <5>. QED BY <1>1, <2>2, <5>1, <5>2, <5>3
      <4>. QED BY <1>1, <4>2, <4>3
    <3>. QED BY <2>4, <3>1, <3>2, RightsSteps DEF RightsFreed, KickBan
  <2>5. ASSUME Head(holder'.todo) # "read", "ban" \in Ahead'
        PROVE  /\ holder'.outcome \in {"blocked", "expired"}
               /\ (holder'.outcome = "expired" /\ FailAction[s] = "kick") =>
                    /\ "unban" \in Ahead'
                    /\ \/ "begin" \in Ahead'
                       \/ ses'[s].status = "expiring" => ses'[s].kickStarted
    <3>1. "ban" \in Ahead /\ Head(holder.todo) # "read"
      BY <1>1, <2>2, <2>5 DEF Advances
    <3>2. /\ holder.outcome \in {"blocked", "expired"}
          /\ (holder.outcome = "expired" /\ FailAction[s] = "kick") =>
               /\ "unban" \in Ahead
               /\ \/ "begin" \in Ahead
                  \/ ses[s].status = "expiring" => ses[s].kickStarted
      BY <1>1, <2>1, <3>1 DEF KickInv
    <3>3. "unban" \in Ahead => "unban" \in Ahead'
      <4>1. ~Before("unban", "ban")
        BY DEF Before, Place
      <4>. QED BY <1>1, <2>2, <3>1, <4>1, HeadAhead
    <3>4. "begin" \in Ahead =>
            \/ "begin" \in Ahead'
            \/ ses'[s].status = "expiring" => ses'[s].kickStarted
      <4>1. CASE Head(holder.todo) = "begin" /\ Advances
        <5>1. BeginKick
          BY <4>1, AdvancesBy
        <5>2. ses' = [ses EXCEPT ![s].kickStarted =
                        ses[s].kickStarted \/ ses[s].status = "expiring"]
          BY <2>1, <5>1 DEF BeginKick
        <5>. QED BY <1>0, <2>3, <5>2 DEF SessionRow
      <4>2. CASE UNCHANGED holder
        BY <4>2 DEF Ahead
      <4>. QED BY <1>1, <2>2, <4>1, <4>2
    <3>. QED BY <1>1, <2>3, <3>2, <3>3, <3>4
  <2>. QED BY <1>1, <2>1, <2>4, <2>5
<1>2. ASSUME FinishReads, holder.op = "finish", holder'.id = holder.id,
             holder'.status = holder.status,
             NEW plan \in Plans, holder'.todo = plan.steps \o <<"settle">>,
             holder'.outcome = plan.outcome
      PROVE  /\ (KickBan(holder.id)' /\ plan.outcome = "expired") => "unban" \in Ahead'
             /\ "ban" \in Ahead' =>
                  /\ plan.outcome \in {"blocked", "expired"}
                  /\ (plan.outcome = "expired" /\ FailAction[holder.id] = "kick") =>
                       "unban" \in Ahead' /\ "begin" \in Ahead'
             /\ Head(holder'.todo) # "read"
  <2>1. Ahead' = StepsOf(plan.steps) \cup {"settle"}
    <3>1. StepsOf(plan.steps \o <<"settle">>) = StepsOf(plan.steps) \cup {"settle"}
      BY FinishPlans
    <3>. QED BY <1>2, <3>1 DEF Ahead
  <2>2. \/ /\ plan.steps = CancelledPlan /\ plan.outcome = "cancelled"
           /\ StepsOf(CancelledPlan) \subseteq {"restore", "unban"}
        \/ /\ plan.outcome \in {"left", "blocked", "verified"}
           /\ StepsOf(plan.steps) \subseteq {"ban", "restore"}
           /\ "ban" \in StepsOf(plan.steps) => plan.outcome = "blocked"
        \/ /\ holder.status \notin {"completing", "releasing"}
           /\ plan.steps = ExpiredPlan /\ plan.outcome = "expired"
    <3>1. \/ /\ plan = [steps |-> CancelledPlan, outcome |-> "cancelled"]
             /\ StepsOf(CancelledPlan) \subseteq {"restore", "unban"}
          \/ plan = [steps |-> <<>>, outcome |-> "left"]
          \/ plan = [steps |-> <<"ban">>, outcome |-> "blocked"]
          \/ plan = [steps |-> <<"restore">>, outcome |-> "verified"]
          \/ /\ holder.status \notin {"completing", "releasing"}
             /\ plan = [steps |-> ExpiredPlan, outcome |-> "expired"]
      BY FinishPlans
    <3>2. \/ /\ plan.steps = CancelledPlan /\ plan.outcome = "cancelled"
             /\ StepsOf(CancelledPlan) \subseteq {"restore", "unban"}
          \/ plan.steps = <<>> /\ plan.outcome = "left"
          \/ plan.steps = <<"ban">> /\ plan.outcome = "blocked"
          \/ plan.steps = <<"restore">> /\ plan.outcome = "verified"
          \/ /\ holder.status \notin {"completing", "releasing"}
             /\ plan.steps = ExpiredPlan /\ plan.outcome = "expired"
      BY <3>1
    <3>3. /\ plan.steps = <<>> => StepsOf(plan.steps) = {}
          /\ plan.steps = <<"ban">> => StepsOf(plan.steps) = {"ban"}
          /\ plan.steps = <<"restore">> => StepsOf(plan.steps) = {"restore"}
      BY ShortPlans
    <3>. QED BY <3>2, <3>3
  <2>3. ASSUME KickBan(holder.id)', plan.outcome = "expired"
        PROVE  "unban" \in Ahead'
    <3>1. Head(holder.todo) = "read" /\ UNCHANGED <<tg, cause>>
      BY <1>2 DEF FinishReads, Doing
    <3>2. KickBan(holder.id)
      BY <1>2, <2>3, <3>1 DEF KickBan, BySession
    <3>3. plan.steps = ExpiredPlan /\ holder.status = "expiring"
      BY <1>2, <2>2, <2>3 DEF LockInv, FinishLock
    <3>4. ~tg.present /\ KickDue
      BY <1>2, <3>1, <3>2, <3>3 DEF KickInv, KickBan, KickDue, FailsBy
    <3>. QED BY <2>1, <3>3, <3>4, ExpiredPlans
  <2>4. ASSUME "ban" \in Ahead'
        PROVE  /\ plan.outcome \in {"blocked", "expired"}
               /\ (plan.outcome = "expired" /\ FailAction[holder.id] = "kick") =>
                    "unban" \in Ahead' /\ "begin" \in Ahead'
    BY <2>1, <2>2, <2>4, ExpiredPlans
  <2>5. Head(holder'.todo) # "read"
    <3>1. /\ holder'.todo \in Seq(Steps)
          /\ StepsOf(holder'.todo) \subseteq {"begin", "ban", "unban", "restore", "settle"}
      <4>1. /\ plan.steps \o <<"settle">> \in Seq(Steps)
            /\ StepsOf(plan.steps \o <<"settle">>) = StepsOf(plan.steps) \cup {"settle"}
            /\ StepsOf(plan.steps) \subseteq {"begin", "ban", "unban", "restore"}
        BY FinishPlans
      <4>. QED BY <1>2, <4>1
    <3>2. holder'.todo # <<>>
      BY <2>1, ShortPlans DEF Ahead
    <3>3. Head(holder'.todo) \in StepsOf(holder'.todo)
      BY <3>1, <3>2, TailSteps
    <3>. QED BY <3>1, <3>3
  <2>. QED BY <2>3, <2>4, <2>5
<1>3. ASSUME NEW s \in Sessions, AnsweredRight(s) \/ FinishStarts(s), holder'.id = s,
             Head(holder'.todo) = "read", holder'.kick = ses[s].kickStarted,
             holder'.status \in {"completing", ses[s].status}
      PROVE  (KickBan(s)' /\ holder'.status = "expiring") => holder'.kick
  <2>1. UNCHANGED <<tg, cause>>
    BY <1>3 DEF AnsweredRight, FinishStarts
  <2>. QED BY <1>3, <2>1 DEF KickInv, KickBan, BySession
<1>. QED BY <1>1, <1>2, <1>3, FinishHolder

LEMMA KickStep ==
  ASSUME TypeOK, LockInv, KickInv, [Next]_vars, TRUE \notin Protections
  PROVE  KickInv'
<1>1. ~(tg'.present /\ tg'.rights = "banned")
  <2>1. tg \in [rights : {"free", "muted", "banned"}, present : BOOLEAN]
    BY DEF TypeOK, MemberTypeOK
  <2>. QED BY <2>1, RightsSteps DEF RightsRest, RightsFreed, RightsTaken, KickInv
<1>. QED BY <1>1, KickSessionsStep, KickHolderStep DEF KickInv

(* A kick is never left half done: no session that ran out with "kick" is  *)
(* over while its ban is in force.  (A member who is protected from then   *)
(* on is left as it is by finishVerification, banned or not.)              *)
THEOREM KicksAreLifted ==
  ASSUME TRUE \notin Protections
  PROVE  Spec => []KickIsLifted
<1>1. Init => KickInv
  BY DEF Init, KickInv, KickBan, Free
<1>2. TypeOK /\ LockInv /\ KickInv /\ [Next]_vars => KickInv'
  BY KickStep
<1>3. KickInv => KickIsLifted
  BY DEF KickInv, KickBan, KickIsLifted
<1>. QED BY <1>1, <1>2, <1>3, LockInvHolds, PTL DEF Spec

-----------------------------------------------------------------------------
(* Duties to lift what a request did.                                      *)

\* What is in force for a request is what the request asks for.
RightsMatch ==
  \A r \in Requests :
    InForce(r) => /\ Action[r] \in Restricting
                  /\ tg.rights = IF Action[r] \in {"mute", "hold"} THEN "muted" ELSE "banned"

\* Who has lifted the rights of a request finds nothing of it in force.
LiftInv ==
  (holder.op = "release" /\ holder.released /\ Lift(holder.id) \notin Ahead) =>
    ~InForce(holder.id)

\* Only the request's own workflow sets rights for it.
LEMMA RequestRights ==
  ASSUME TypeOK, [Next]_vars, NEW r \in Requests, InForce(r)'
  PROVE  \/ InForce(r) /\ RightsRest
         \/ RightsTaken /\ holder.op = "punish" /\ holder.id = r
<1>1. CASE RightsRest
  BY <1>1 DEF RightsRest, InForce, ByRequest
<1>2. ~RightsFreed
  BY DEF RightsFreed, InForce
<1>3. CASE RightsTaken
  BY <1>3 DEF RightsTaken, InForce, ByRequest, Owner
<1>. QED BY <1>1, <1>2, <1>3, RightsSteps

LEMMA LiftStep ==
  ASSUME TypeOK, LockInv, RightsMatch, LiftInv, [Next]_vars
  PROVE  RightsMatch' /\ LiftInv'
<1>0. tg \in [rights : {"free", "muted", "banned"}, present : BOOLEAN]
  BY DEF TypeOK, MemberTypeOK
<1>1. ASSUME NEW r \in Requests, InForce(r)'
      PROVE  /\ Action[r] \in Restricting
             /\ tg'.rights = IF Action[r] \in {"mute", "hold"} THEN "muted" ELSE "banned"
  <2>1. CASE InForce(r) /\ RightsRest
    BY <2>1 DEF RightsMatch, RightsRest
  <2>2. CASE RightsTaken /\ holder.op = "punish" /\ holder.id = r
    <3>1. \/ Head(holder.todo) = "restrict" /\ tg'.rights = "muted"
          \/ Head(holder.todo) \in {"ban", "kickban"} /\ tg'.rights = "banned"
      BY <1>0, <2>2 DEF RightsTaken
    <3>2. Head(holder.todo) \in PunishSteps(r)
      BY <2>2, <3>1, HeadAhead DEF LockInv, PunishLock
    <3>. QED BY <3>1, <3>2, MemberAssumption DEF PunishSteps, CallSteps, Actions, Restricting
  <2>. QED BY <1>1, <2>1, <2>2, RequestRights
<1>2. ASSUME holder'.op = "release", holder'.released, Lift(holder'.id) \notin Ahead'
      PROVE  ~InForce(holder.id)'
  <2>1. CASE /\ holder.op = "release" /\ holder'.id = holder.id
             /\ holder'.released = holder.released
             /\ UNCHANGED holder \/ (Advances /\ CallTaken)
    <3>1. PICK r \in Requests : r = holder.id
      BY <2>1 DEF TypeOK, LockTypeOK
    <3>2. InForce(holder.id)' => InForce(r) /\ tg'.rights # "free"
      <4>1. InForce(holder.id)' => InForce(r)'
        BY <2>1, <3>1 DEF InForce, ByRequest
      <4>. QED BY <2>1, <4>1, RequestRights DEF InForce
    <3>3. CASE Lift(holder.id) \notin Ahead
      BY <2>1, <1>2, <3>1, <3>2, <3>3 DEF LiftInv
    <3>4. CASE Lift(holder.id) \in Ahead
      <4>1. ~UNCHANGED holder
        BY <1>2, <3>4 DEF Ahead
      <4>2. Ahead = {Head(holder.todo)} \cup Ahead'
        BY <2>1, <4>1, AheadAdvances DEF LockInv
      <4>3. Effect(Lift(holder.id)) /\ Head(holder.todo) = Lift(holder.id)
        BY <1>2, <2>1, <3>4, <4>1, <4>2 DEF CallTaken, EffectSteps, Lift
      <4>4. CASE Lift(holder.id) = "restore"
        <5>1. Effect("restore")
          BY <4>3, <4>4
        <5>2. tg'.rights = "free"
          BY <1>0, <5>1 DEF Effect, Restored
        <5>. QED BY <3>2, <5>2
      <4>5. CASE Lift(holder.id) = "unban"
        <5>1. Effect("unban") /\ Action[holder.id] \notin {"mute", "hold"}
          BY <4>3, <4>5 DEF Lift
        <5>2. InForce(r) => tg.rights = "banned"
          BY <3>1, <5>1 DEF RightsMatch
        <5>3. tg.rights = "banned" => tg'.rights = "free"
          BY <1>0, <5>1 DEF Effect, Unbanned, Restored
        <5>. QED BY <3>2, <5>2, <5>3
      <4>. QED BY <4>4, <4>5 DEF Lift
    <3>. QED BY <3>3, <3>4
  <2>2. ASSUME NEW r \in Requests, ReleaseStarts(r) PROVE FALSE
    <3>1. holder'.id = r /\ Ahead' = {Lift(r), "drop"}
      BY <1>2, <2>2, ReleasePlans
    <3>. QED BY <1>2, <3>1
  <2>. QED BY <1>2, <2>1, <2>2, ReleaseHolder
<1>. QED BY <1>1, <1>2 DEF RightsMatch, LiftInv

\* A duty to lift ends when nothing of the request is in force, or the holder of the
\* lock found newer work on the member.
DutyKept(r) ==
  (pun[r].release # "no" /\ pun'[r].release = "no") =>
    \/ ~InForce(r)'
    \/ holder.op = "release" /\ holder.id = r /\ ~holder.released

DutiesKept == [][\A r \in Requests : DutyKept(r)]_vars

LEMMA DutyStep ==
  ASSUME TypeOK, LockInv, LiftInv, ForceInv, [Next]_vars, NEW r \in Requests
  PROVE  DutyKept(r)
<1> SUFFICES ASSUME pun[r].release # "no", pun'[r].release = "no", InForce(r)'
             PROVE  holder.op = "release" /\ holder.id = r /\ ~holder.released
  BY DEF DutyKept
<1>0. /\ pun \in [Requests -> PunishmentRow]
      /\ holder.op \in {"punish", "release"} => holder.id \in Requests
  BY DEF TypeOK, RowsTypeOK, LockTypeOK
<1>1. ~RowsDrift
  <2> SUFFICES ASSUME RowsDrift PROVE FALSE
    OBVIOUS
  <2>1. RowDrifts(r, pun[r], pun'[r])
    BY DEF RowsDrift
  <2>. QED BY <2>1 DEF RowDrifts
<1>2. ~RowFails
  <2> SUFFICES ASSUME RowFails PROVE FALSE
    OBVIOUS
  <2>1. r = holder.id /\ ~holder.acted
    BY DEF RowFails
  <2>2. ~InForce(r)
    BY <2>1 DEF RowFails, ForceInv
  <2>3. UNCHANGED <<tg, cause>>
    BY DEF RowFails, NoEffect
  <2>. QED BY <2>2, <2>3 DEF InForce, ByRequest
<1>3. ~Prepares
  <2> SUFFICES ASSUME Prepares PROVE FALSE
    OBVIOUS
  <2>1. PICK q : q = holder.id
    OBVIOUS
  <2>2. /\ \A x \in Requests \ {q} : pun'[x] = pun[x]
        /\ pun'[q].release = pun[q].release
    BY <2>1, PreparesRow
  <2>. QED BY <2>2
<1>4. ~Begins
  <2> SUFFICES ASSUME Begins PROVE FALSE
    OBVIOUS
  <2>1. pun'[r].release \in {"timed", pun[r].release}
    BY <1>0 DEF Begins, PunishmentRow
  <2>. QED BY <2>1
<1>5. ~MarksKickBanned /\ ~Ends /\ ~Completes
  <2>1. MarksKickBanned \/ Ends \/ Completes => pun'[r].release = pun[r].release
    BY <1>0 DEF MarksKickBanned, Ends, Completes, PunishmentRow
  <2>. QED BY <2>1
<1>6. \A q \in Requests : ~PunishStarts(q)
  <2>1. ASSUME NEW q \in Requests, PunishStarts(q)
        PROVE  pun'[r].release = pun[r].release
    BY <1>0, <2>1 DEF PunishStarts, PunishmentRow
  <2>. QED BY <2>1
<1>7. Drops
  BY <1>1, <1>2, <1>3, <1>4, <1>5, <1>6, RowSteps
<1>8. /\ holder.op = "release" /\ Head(holder.todo) = "drop" /\ holder.id = r
      /\ UNCHANGED <<tg, cause>>
  BY <1>0, <1>7 DEF Drops, Doing, PunishmentRow
<1>9. Lift(r) \notin Ahead
  <2>1. ~Before("drop", "restore") /\ ~Before("drop", "unban")
    BY DEF Before, Place
  <2>. QED BY <1>8, <2>1, HeadAhead DEF Lift
<1>10. InForce(r)
  BY <1>8 DEF InForce, ByRequest
<1>. QED BY <1>8, <1>9, <1>10 DEF LiftInv

DutyInv == RightsMatch /\ LiftInv /\ ForceInv

(* Rights that a request has set are those of its action, the request was  *)
(* begun (StartPermission comes before the call), and a release that has   *)
(* made its call leaves nothing of it in force (sweepPermissionReleases).  *)
THEOREM DutyInvHolds == Spec => [](TypeOK /\ LockInv /\ DutyInv)
<1>1. Init => DutyInv
  BY DEF Init, DutyInv, RightsMatch, LiftInv, ForceInv, InForce, Free, NoPunishment
<1>2. TypeOK /\ LockInv /\ DutyInv /\ [Next]_vars => DutyInv'
  BY LiftStep, ForceStep DEF DutyInv
<1>. QED BY <1>1, <1>2, LockInvHolds, PTL DEF Spec

(* Nothing drops the duty to lift a mute or a ban: not a refused call, a   *)
(* lost answer, a crash or another workflow of the member, only its own    *)
(* release after the call that lifts it, or after it saw newer work.       *)
THEOREM DutiesAreKept == Spec => DutiesKept
<1> DEFINE AllKept == \A r \in Requests : DutyKept(r)
<1>1. TypeOK /\ LockInv /\ DutyInv /\ [Next]_vars => [AllKept]_vars
  BY DutyStep DEF DutyInv
<1>. QED BY <1>1, DutyInvHolds, PTL DEF Spec, DutiesKept

-----------------------------------------------------------------------------
(* What a revocation finds begun.                                          *)

\* One request for a member who is not verified and never protected: nothing else
\* sets rights, and nothing is newer.
Alone ==
  /\ Sessions = {} /\ TRUE \notin Protections
  /\ \A q, r \in Requests : q = r

(* A retired request that has something in force, or is about to do it, is *)
(* to be lifted; whoever lifts it finds nothing newer.                     *)
RevokedInv ==
  /\ \A r \in Requests :
       (pun[r].status = "skipped" /\ ~pun[r].acted /\ InForce(r)) => pun[r].release # "no"
  /\ (/\ holder.op = "punish" /\ Head(holder.todo) # "prepare"
      /\ pun[holder.id].status = "skipped" /\ pun[holder.id].started
      /\ Action[holder.id] \in Restricting) => pun[holder.id].release # "no"
  /\ holder.op = "release" => holder.released

(* Only a revocation retires a request that stands alone.                  *)
LEMMA OnlyRevoked ==
  ASSUME TypeOK, [Next]_vars, Alone, NEW r \in Requests, pun'[r].status = "skipped"
  PROVE  /\ pun[r].acted => pun'[r].acted
         /\ \/ pun[r].status = "skipped"
            \/ /\ pun[r].status = "pending" /\ pun'[r].started = pun[r].started
               /\ (pun[r].started /\ Action[r] \in Restricting) => pun'[r].release = "now"
<1>0. /\ pun \in [Requests -> PunishmentRow]
      /\ holder.op \in {"punish", "release"} => holder.id = r
  BY DEF TypeOK, RowsTypeOK, LockTypeOK, Alone
<1>1. CASE RowsDrift
  <2>1. RowDrifts(r, pun[r], pun'[r])
    BY <1>1 DEF RowsDrift
  <2>. QED BY <2>1 DEF RowDrifts
<1>2. ~RowFails
  BY <1>0 DEF RowFails
<1>3. CASE Prepares
  <2>1. /\ holder.id = r /\ pun'[r].acted = pun[r].acted
        /\ \/ pun'[r].status = pun[r].status
           \/ Superseded(r) \/ (TRUE \in Protections /\ Action[r] \in Restricting)
    <3>1. PICK q : q = holder.id
      OBVIOUS
    <3>2. /\ q \in Requests /\ holder.op = "punish" /\ pun'[q].acted = pun[q].acted
          /\ \/ pun'[q].status = pun[q].status
             \/ Superseded(q) \/ (TRUE \in Protections /\ Action[q] \in Restricting)
      BY <1>3, <3>1, PreparesRow
    <3>. QED BY <1>0, <3>1, <3>2
  <2>2. ~Superseded(r)
    <3>1. pun[r].created \in Nat /\ \A q \in Requests : q = r
      BY <1>0 DEF PunishmentRow, Alone
    <3>. QED BY <3>1 DEF Superseded, NewerManual, Earlier
  <2>. QED BY <2>1, <2>2 DEF Alone
<1>4. CASE Begins \/ Completes
  <2>1. holder.id = r /\ pun[r].status = "pending"
    BY <1>0, <1>4 DEF Begins, StartsPermission, Completes, CompletesTakeover, Doing, MayStart
  <2>2. pun'[r].status = "pending"
    BY <1>0, <1>4, <2>1 DEF Begins, Completes, PunishmentRow
  <2>. QED BY <2>2
<1>5. CASE MarksKickBanned \/ Drops
  <2>1. pun'[r].status = pun[r].status /\ pun'[r].acted = pun[r].acted
    BY <1>0, <1>5 DEF MarksKickBanned, Drops, PunishmentRow
  <2>. QED BY <2>1
<1>6. ~Ends
  <2>1. Ends => pun'[r].status = "done"
    BY <1>0 DEF Ends, PunishDone, Doing, PunishmentRow
  <2>. QED BY <2>1
<1>7. ASSUME NEW q \in Requests, PunishStarts(q)
      PROVE  pun'[r] = pun[r] \/ pun'[r].status = "pending"
  BY <1>0, <1>7 DEF PunishStarts, PunishmentRow
<1>. QED BY <1>1, <1>2, <1>3, <1>4, <1>5, <1>6, <1>7, RowSteps

LEMMA RevokedStep ==
  ASSUME TypeOK, LockInv, DutyInv, RevokedInv, Alone, [Next]_vars
  PROVE  RevokedInv'
<1>0. /\ pun \in [Requests -> PunishmentRow]
      /\ holder.op \in {"punish", "release"} => holder.id \in Requests
  BY DEF TypeOK, RowsTypeOK, LockTypeOK
<1>1. ASSUME NEW r \in Requests, pun'[r].status = "skipped", ~pun'[r].acted, InForce(r)'
      PROVE  pun'[r].release # "no"
  <2>1. Action[r] \in Restricting
    <3>1. RightsMatch'
      BY LiftStep DEF DutyInv
    <3>. QED BY <1>1, <3>1 DEF RightsMatch
  <2>2. pun[r].started
    <3>1. CASE InForce(r)
      BY <3>1 DEF DutyInv, ForceInv
    <3>2. CASE RightsTaken /\ holder.op = "punish" /\ holder.id = r
      <4>1. Head(holder.todo) \in EffectSteps
        BY <3>2 DEF RightsTaken, EffectSteps
      <4>. QED BY <3>2, <4>1, CallsAreBegun
    <3>. QED BY <1>1, <3>1, <3>2, RequestRights
  <2>3. CASE pun[r].status # "skipped"
    BY <1>1, <2>1, <2>2, <2>3, OnlyRevoked
  <2>4. CASE pun[r].status = "skipped"
    <3>1. pun[r].release # "no"
      <4>1. CASE InForce(r)
        BY <1>1, <2>4, <4>1, OnlyRevoked DEF RevokedInv
      <4>2. CASE RightsTaken /\ holder.op = "punish" /\ holder.id = r
        <5>1. Head(holder.todo) # "prepare"
          BY <4>2 DEF RightsTaken
        <5>. QED BY <2>1, <2>2, <2>4, <4>2, <5>1 DEF RevokedInv
      <4>. QED BY <1>1, <4>1, <4>2, RequestRights
    <3>2. DutyKept(r)
      BY DutyStep DEF DutyInv
    <3>. QED BY <1>1, <3>1, <3>2 DEF DutyKept, RevokedInv
  <2>. QED BY <2>3, <2>4
<1>2. ASSUME holder'.op = "punish", Head(holder'.todo) # "prepare",
             pun'[holder'.id].status = "skipped", pun'[holder'.id].started,
             Action[holder'.id] \in Restricting
      PROVE  pun'[holder'.id].release # "no"
  <2>1. /\ holder.op = "punish" /\ holder'.id = holder.id
        /\ UNCHANGED holder \/ (Advances /\ CallTaken) \/ Prepares
    BY <1>2, PunishHolder
  <2>2. PICK r \in Requests : r = holder.id
    BY <1>0, <2>1
  <2>3. ~Prepares
    <3> SUFFICES ASSUME Prepares PROVE FALSE
      OBVIOUS
    <3>1. holder' = Free \/ pun'[r].status = "pending"
      BY <2>2, PreparesRow
    <3>. QED BY <1>2, <2>1, <2>2, <3>1 DEF Free
  <2>4. Head(holder.todo) # "prepare"
    BY <1>2, <2>1, <2>3 DEF Advances
  <2>5. CASE pun[r].status # "skipped"
    BY <1>2, <2>1, <2>2, <2>5, OnlyRevoked
  <2>6. CASE pun[r].status = "skipped"
    <3>1. ~RowFails /\ ~Drops /\ ~Ends /\ (\A q \in Requests : ~PunishStarts(q))
      BY <1>2, <2>1 DEF RowFails, Drops, Ends, PunishStarts, LockFree, Doing, Free
    <3>2. ~Begins /\ ~Completes
      BY <2>2, <2>6 DEF Begins, Completes, MayStart
    <3>3. pun'[r].started = pun[r].started /\ pun'[r].release = pun[r].release
      <4>1. CASE RowsDrift
        <5>1. RowDrifts(r, pun[r], pun'[r])
          BY <4>1 DEF RowsDrift
        <5>. QED BY <2>6, <5>1 DEF RowDrifts
      <4>2. CASE MarksKickBanned
        BY <1>0, <4>2 DEF MarksKickBanned, PunishmentRow
      <4>. QED BY <2>3, <3>1, <3>2, <4>1, <4>2, RowSteps
    <3>. QED BY <1>2, <2>1, <2>2, <2>4, <2>6, <3>3 DEF RevokedInv
  <2>. QED BY <2>5, <2>6
<1>3. ASSUME holder'.op = "release" PROVE holder'.released
  <2>1. ASSUME NEW r \in Requests, ReleaseStarts(r) PROVE holder'.released
    <3>1. ~NewerWork(r)
      <4>1. pun[r].created \in Nat /\ \A q \in Requests : q = r
        BY <1>0 DEF PunishmentRow, Alone
      <4>. QED BY <4>1 DEF NewerWork, Earlier, Alone
    <3>. QED BY <2>1, <3>1 DEF ReleaseStarts, Free
  <2>. QED BY <1>3, <2>1, ReleaseHolder DEF RevokedInv
<1>. QED BY <1>1, <1>2, <1>3 DEF RevokedInv

(* Whatever a revocation finds begun is lifted in the end, or still to be, *)
(* whatever fails and however often the group is revoked: for a request    *)
(* that has the member to itself.  (Beside others its release may give way *)
(* to newer work that is itself retired.)                                  *)
THEOREM RevocationsLift ==
  ASSUME Alone
  PROVE  Spec => []RevokedIsLifted
<1>1. Init => RevokedInv
  BY DEF Init, RevokedInv, InForce, Free, NoPunishment
<1>2. TypeOK /\ LockInv /\ DutyInv /\ RevokedInv /\ [Next]_vars => RevokedInv'
  BY RevokedStep
<1>3. RevokedInv => RevokedIsLifted
  BY DEF RevokedInv, InForce, RevokedIsLifted
<1>. QED BY <1>1, <1>2, <1>3, DutyInvHolds, PTL DEF Spec

-----------------------------------------------------------------------------
(* Bans of sessions in a group that is left alone.                         *)

\* The group is neither revoked nor is its verification switched off, and nobody is
\* protected or on the blacklist.
LeftAlone ==
  MaxRevokes = 0 /\ "switch" \notin Moves /\ TRUE \notin Protections /\ TRUE \notin Listings

(* A session bans only because it ran out, and does not end in another way *)
(* while its ban is in force.                                              *)
BanInv ==
  /\ group.approved /\ group.verifying
  /\ \A s \in Sessions : ses[s].status # "releasing"
  /\ \A s \in Sessions : (tg.rights = "banned" /\ BySession(s)) =>
       /\ FailAction[s] # "mute"
       /\ ses[s].status = "expiring" \/ (ses[s].status = "expired" /\ FailAction[s] = "ban")
  /\ (holder.op = "finish" /\ Head(holder.todo) # "read") =>
       /\ holder.outcome # "cancelled"
       /\ "ban" \in Ahead =>
            holder.outcome = "expired" /\ FailAction[holder.id] # "mute"

LEMMA BanSessionsStep ==
  ASSUME TypeOK, LockInv, TakeoverInv, ReleaseInv, KickInv, BanInv, [Next]_vars,
         LeftAlone, NEW s \in Sessions
  PROVE  /\ ses'[s].status # "releasing"
         /\ (tg'.rights = "banned" /\ BySession(s)') =>
              /\ FailAction[s] # "mute"
              /\ \/ ses'[s].status = "expiring"
                 \/ ses'[s].status = "expired" /\ FailAction[s] = "ban"
<1>0. /\ ses \in [Sessions -> SessionRow]
      /\ tg \in [rights : {"free", "muted", "banned"}, present : BOOLEAN]
      /\ FailAction[s] \in {"mute", "ban", "kick"}
      /\ holder.op = "finish" => holder.id \in Sessions
  BY MemberAssumption DEF TypeOK, RowsTypeOK, MemberTypeOK, LockTypeOK
<1>1. ~MayRelease
  BY DEF MayRelease, LeftAlone, TypeOK, BoundsOK
<1>2. ASSUME Settle PROVE holder.op = "finish" /\ Head(holder.todo) = "settle"
  BY <1>2 DEF Settle, Doing
<1>3. ASSUME Settle PROVE holder.outcome \in Terminal
  BY <1>2, <1>3 DEF LockInv, FinishLock, Outcomes, Terminal
<1>4. CASE tg'.rights = "banned" /\ BySession(s)' /\ RightsTaken
  <2>1. holder.op \in {"join", "finish"} /\ holder.id = s /\ Head(holder.todo) \in {"ban", "kickban"}
    BY <1>0, <1>4 DEF RightsTaken, BySession, Owner
  <2>2. holder.op = "finish"
    <3>1. Head(<<"restrict">>) = "restrict"
      OBVIOUS
    <3>. QED BY <2>1, <3>1 DEF LockInv, JoinLock
  <2>3. "ban" \in Ahead /\ Head(holder.todo) = "ban"
    BY <2>1, <2>2, HeadAhead DEF LockInv, FinishLock
  <2>4. holder.outcome = "expired" /\ FailAction[s] # "mute"
    BY <2>1, <2>2, <2>3 DEF BanInv
  <2>5. holder.outcome \in Outcomes(holder.status) /\ ses[s].status \in {holder.status, "releasing"}
    BY <2>1, <2>2, <2>3 DEF LockInv, FinishLock
  <2>6. ses[s].status = "expiring"
    BY <2>4, <2>5 DEF Outcomes, BanInv
  <2>. QED BY <1>4, <2>4, <2>6 DEF RightsTaken
<1>5. ASSUME tg'.rights = "banned", BySession(s)', ~RightsTaken
      PROVE  /\ tg.rights = "banned" /\ BySession(s) /\ SetBySession'
             /\ FailAction[s] # "mute"
             /\ \/ ses[s].status = "expiring"
                \/ ses[s].status = "expired" /\ FailAction[s] = "ban"
  <2>1. tg.rights = "banned" /\ BySession(s) /\ SetBySession'
    BY <1>5, RightsSteps DEF RightsRest, RightsFreed, BySession, SetBySession
  <2>. QED BY <2>1 DEF BanInv
<1>6. CASE SessionsDrift
  BY <1>1, <1>4, <1>5, <1>6 DEF SessionsDrift, Drifts, BanInv
<1>7. CASE JoinLocked
  <2>1. \/ UNCHANGED ses
        \/ \E t \in Sessions :
             /\ ses[t].status = "none"
             /\ ses' = [ses EXCEPT ![t] =
                          [NoSession EXCEPT !.status = "pending", !.created = clock]]
    BY <1>7 DEF JoinLocked, Fresh
  <2>2. ses'[s] = ses[s] \/ (ses[s].status = "none" /\ ses'[s].status = "pending")
    BY <1>0, <2>1 DEF NoSession
  <2>. QED BY <1>4, <1>5, <2>2 DEF BanInv
<1>8. CASE BeginKick
  <2>1. ses' = [ses EXCEPT ![holder.id].kickStarted =
                  ses[holder.id].kickStarted \/ ses[holder.id].status = "expiring"]
    BY <1>8 DEF BeginKick
  <2>2. ses'[s].status = ses[s].status
    BY <1>0, <2>1 DEF SessionRow
  <2>. QED BY <1>4, <1>5, <2>2 DEF BanInv
<1>9. CASE Settle
  <2>1. \/ UNCHANGED ses
        \/ /\ ses[holder.id].status = holder.status
           /\ ses' = [ses EXCEPT ![holder.id].status = holder.outcome]
    BY <1>9 DEF Settle, Settles
  <2>2. CASE ses'[s] = ses[s]
    BY <1>4, <1>5, <2>2 DEF BanInv
  <2>3. CASE ses'[s] # ses[s]
    <3>1. holder.id = s /\ ses[s].status = holder.status /\ ses'[s].status = holder.outcome
      BY <1>0, <2>1, <2>3 DEF SessionRow
    <3>2. ses'[s].status # "releasing"
      BY <1>3, <1>9, <3>1 DEF Terminal
    <3>3. ~RightsTaken
      BY <1>2, <1>9 DEF RightsTaken
    <3>4. ASSUME tg'.rights = "banned", BySession(s)'
          PROVE  ses'[s].status = "expired" /\ FailAction[s] = "ban"
      <4>1. /\ holder.status \in {"expiring", "expired"}
            /\ FailAction[s] # "mute" /\ tg.rights = "banned" /\ BySession(s)
        BY <1>5, <3>1, <3>3, <3>4
      <4>2. /\ holder.outcome # "cancelled"
            /\ holder.status = "expiring" /\ holder.outcome \in Outcomes(holder.status)
        BY <1>2, <1>9, <4>1 DEF BanInv, LockInv, FinishLock
      <4>3. holder.outcome = "expired"
        BY <4>2 DEF Outcomes
      <4>4. "unban" \notin Ahead
        <5>1. ~Before("settle", "unban")
          BY DEF Before, Place
        <5>. QED BY <1>2, <1>9, <5>1, HeadAhead
      <4>5. FailAction[s] # "kick"
        BY <1>2, <1>9, <3>1, <4>1, <4>3, <4>4 DEF KickInv, KickBan
      <4>. QED BY <1>0, <3>1, <4>1, <4>3, <4>5
    <3>. QED BY <3>2, <3>4
  <2>. QED BY <2>2, <2>3
<1>10. CASE CompletesTakeover
  <2>1. UNCHANGED ses \/ Completes
    BY <1>10 DEF CompletesTakeover, Completes
  <2>2. ~RightsTaken
    BY <1>10 DEF RightsTaken, CompletesTakeover, Doing
  <2>3. \/ ses'[s] = ses[s]
        \/ ses'[s] = SessionsTo("cancelled", Active, ses[s])
    BY <1>10 DEF CompletesTakeover
  <2>4. SessionsTo("cancelled", Active, ses[s]).status \in {"cancelled", ses[s].status}
    BY <1>0 DEF SessionsTo, SessionRow
  <2>5. (tg'.rights = "banned" /\ BySession(s)') => UNCHANGED ses
    BY <1>5, <2>1, <2>2, TakeoverClean
  <2>. QED BY <1>5, <2>2, <2>3, <2>4, <2>5 DEF BanInv
<1>11. CASE Drops
  <2>1. /\ holder.op = "release" /\ Head(holder.todo) = "drop" /\ UNCHANGED <<tg, cause>>
        /\ \/ ses'[s] = ses[s]
           \/ holder.released /\ ses'[s] = SessionsTo("cancelled", Active, ses[s])
    BY <1>11 DEF Drops, Doing
  <2>2. SessionsTo("cancelled", Active, ses[s]).status \in {"cancelled", ses[s].status}
    BY <1>0 DEF SessionsTo, SessionRow
  <2>3. "restore" \notin Ahead
    <3>1. ~Before("drop", "restore")
      BY DEF Before, Place
    <3>. QED BY <2>1, <3>1, HeadAhead
  <2>4. holder.released => ~(tg'.rights = "banned" /\ BySession(s)')
    BY <2>1, <2>3 DEF ReleaseInv, SetBySession, BySession
  <2>5. ~RightsTaken
    BY <2>1 DEF RightsTaken
  <2>. QED BY <1>5, <2>1, <2>2, <2>4, <2>5 DEF BanInv
<1>12. ASSUME NEW t \in Sessions, AnsweredRight(t)
       PROVE  \/ ses'[s] = ses[s]
              \/ ses[s].status = "pending" /\ ses'[s].status = "completing"
  BY <1>0, <1>12 DEF AnsweredRight, SessionRow
<1>13. ASSUME \/ ses'[s] = ses[s]
              \/ ses[s].status = "pending" /\ ses'[s].status = "completing"
       PROVE  /\ ses'[s].status # "releasing"
              /\ (tg'.rights = "banned" /\ BySession(s)') =>
                   /\ FailAction[s] # "mute"
                   /\ \/ ses'[s].status = "expiring"
                      \/ ses'[s].status = "expired" /\ FailAction[s] = "ban"
  BY <1>4, <1>5, <1>13 DEF BanInv
<1>. QED BY <1>6, <1>7, <1>8, <1>9, <1>10, <1>11, <1>12, <1>13, SessionSteps

LEMMA BanStep ==
  ASSUME TypeOK, LockInv, TakeoverInv, ReleaseInv, KickInv, BanInv, [Next]_vars, LeftAlone
  PROVE  BanInv'
<1>1. group'.approved /\ group'.verifying
  <2>1. ~Revoked /\ ~VerificationOff
    BY DEF Revoked, VerificationOff, LeftAlone, TypeOK, BoundsOK
  <2>. QED BY <2>1, GroupKept DEF BanInv
<1>2. ASSUME holder'.op = "finish", Head(holder'.todo) # "read"
      PROVE  /\ holder'.outcome # "cancelled"
             /\ "ban" \in Ahead' =>
                  holder'.outcome = "expired" /\ FailAction[holder'.id] # "mute"
  <2>1. CASE /\ holder.op = "finish" /\ holder'.id = holder.id
             /\ holder'.status = holder.status /\ holder'.outcome = holder.outcome
             /\ UNCHANGED holder \/ (Advances /\ CallTaken)
    <3>1. Head(holder.todo) # "read" /\ Ahead' \subseteq Ahead
      <4>1. CASE UNCHANGED holder
        BY <1>2, <4>1 DEF Ahead
      <4>2. CASE Advances
        BY <2>1, <4>2, AheadAdvances DEF LockInv, Advances
      <4>. QED BY <2>1, <4>1, <4>2
    <3>. QED BY <2>1, <3>1 DEF BanInv
  <2>2. ASSUME FinishReads, holder.op = "finish", holder'.id = holder.id,
               NEW plan \in Plans, holder'.todo = plan.steps \o <<"settle">>,
               holder'.outcome = plan.outcome
        PROVE  /\ plan.outcome # "cancelled"
               /\ "ban" \in Ahead' =>
                    plan.outcome = "expired" /\ FailAction[holder.id] # "mute"
    <3>1. Ahead' = StepsOf(plan.steps) \cup {"settle"}
      <4>1. StepsOf(plan.steps \o <<"settle">>) = StepsOf(plan.steps) \cup {"settle"}
        BY FinishPlans
      <4>. QED BY <2>2, <4>1 DEF Ahead
    <3>2. holder.status # "releasing"
      BY <2>2 DEF LockInv, FinishLock, BanInv, TypeOK, LockTypeOK
    <3>3. \/ plan = [steps |-> <<>>, outcome |-> "left"]
          \/ plan = [steps |-> <<"restore">>, outcome |-> "verified"]
          \/ plan = [steps |-> ExpiredPlan, outcome |-> "expired"]
      BY <3>2, FinishPlans DEF BanInv, LeftAlone
    <3>4. \/ plan.steps = <<>> /\ plan.outcome = "left"
          \/ plan.steps = <<"restore">> /\ plan.outcome = "verified"
          \/ plan.steps = ExpiredPlan /\ plan.outcome = "expired"
      BY <3>3
    <3>5. "ban" \in StepsOf(ExpiredPlan) => FailAction[holder.id] # "mute"
      <4> SUFFICES ASSUME FailAction[holder.id] = "mute"
                   PROVE  "ban" \notin StepsOf(ExpiredPlan)
        OBVIOUS
      <4>1. ExpiredPlan = <<>>
        BY DEF ExpiredPlan, FailsBy, KickDue
      <4>. QED BY <4>1, ShortPlans
    <3>6. /\ plan.steps = <<>> => StepsOf(plan.steps) = {}
          /\ plan.steps = <<"restore">> => StepsOf(plan.steps) = {"restore"}
      BY ShortPlans
    <3>. QED BY <3>1, <3>4, <3>5, <3>6
  <2>. QED BY <1>2, <2>1, <2>2, FinishHolder
<1>3. \A s \in Sessions :
        /\ ses'[s].status # "releasing"
        /\ (tg'.rights = "banned" /\ BySession(s)') =>
             /\ FailAction[s] # "mute"
             /\ \/ ses'[s].status = "expiring"
                \/ ses'[s].status = "expired" /\ FailAction[s] = "ban"
  BY BanSessionsStep
<1>. QED BY <1>1, <1>2, <1>3 DEF BanInv

(* No ban outlives a session that did not decide on it, in a group that is *)
(* not revoked and keeps its verification: calls that fail, lost answers,  *)
(* crashes and punishments of the same member leave none behind.  (A       *)
(* release between the halves of a kick does: run member_kick_released.)   *)
THEOREM NoBanIsOrphaned ==
  ASSUME LeftAlone
  PROVE  Spec => []NoOrphanBan
<1>1. Init => ReleaseInv /\ KickInv /\ BanInv
  BY DEF Init, ReleaseInv, KickInv, KickBan, BanInv, Free, NoPunishment, NoSession
<1>2. /\ TypeOK /\ LockInv /\ TakeoverInv /\ ReleaseInv /\ KickInv /\ BanInv /\ [Next]_vars
      => (ReleaseInv /\ KickInv /\ BanInv)'
  BY ReleaseStep, KickStep, BanStep DEF LeftAlone, OnlyMutesAreLifted
<1>3. BanInv => NoOrphanBan
  BY DEF BanInv, NoOrphanBan, Terminal
<1>. QED BY <1>1, <1>2, <1>3, TakeoverHolds, PTL DEF Spec

=============================================================================
