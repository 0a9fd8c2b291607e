------------------------------- MODULE UpgradeProofs -------------------------------
(***************************************************************************)
(* Theorems about UpgradeQueue, for any number of requests, releases and    *)
(* deaths: its types, that no command is started twice, that reports are    *)
(* true, that the mark guards the job, and that no job is forgotten.        *)
(***************************************************************************)
EXTENDS UpgradeQueue, TLAPS

-----------------------------------------------------------------------------
(* The inductive invariant.                                                *)

Phases == {"none", "queued", "running", "failed", "succeeded"}

\* A job has a number that was given out.  A queued one has not been started, and the one
\* that waits is not the one the agent has.
JobInv ==
  /\ request # NoJob =>
       /\ request.phase = "queued" /\ request.id \in 1..accepted
       /\ request.id # active.id /\ begun[request.id] = 0
  /\ active # NoJob => active.id \in 1..accepted
  /\ active.phase = "queued" => begun[active.id] = 0
  /\ \A j \in Jobs : begun[j] <= 1 /\ (j > accepted => begun[j] = 0)

\* Where the agent is tells whether there is an active job.
AgentInv ==
  /\ agent.at = "checking" => active.phase = "queued"
  /\ agent.at \in {"checking", "running", "reporting", "removing", "inherited"} => active # NoJob
  /\ agent.at \in {"waiting", "pulsing", "listing", "clearing"} => active = NoJob

\* What was reported is an outcome, and of the active job until that is removed.
ReportInv ==
  /\ agent.at = "reporting" /\ agent.verdict = "succeeded" => active.id \in ended
  /\ ReportIsTrue
  /\ status.phase \in {"none", "failed", "succeeded"}
  /\ agent.at \in {"removing", "inherited"} => status.id = active.id

\* A request that is being written has its mark to itself.
MarkInv ==
  swept \/ /\ request # NoJob \/ active # NoJob \/ agent.at = "clearing" => busy
           /\ request = NoJob \/ active = NoJob
           /\ agent.at = "clearing" => request = NoJob
           /\ \A q \in Posts : post[q].at = "marked" =>
                /\ busy /\ request = NoJob /\ active = NoJob /\ agent.at # "clearing"
                /\ \A r \in Posts : post[r].at = "marked" => r = q

UpgradeInv == TypeOK /\ JobInv /\ AgentInv /\ ReportInv /\ MarkInv

-----------------------------------------------------------------------------
(* Types.                                                                  *)

LEMMA JobTypes ==
  /\ NoJob \in Job
  /\ \A j \in Job, p \in Phases :
       /\ [j EXCEPT !.phase = p] \in Job
       /\ [j EXCEPT !.phase = p].id = j.id /\ [j EXCEPT !.phase = p].phase = p
BY UpgradeAssumption DEF Job, NoJob, Phases

LEMMA PostTypes ==
  ASSUME TypeOK, NEW q \in Posts
  PROVE  /\ \A at \in {"idle", "checked", "locked", "marked"} : PostGoes(q, at) =>
              post' \in [Posts -> [at : {"idle", "checked", "locked", "marked"},
                                   version : 0..MaxRelease]]
         /\ Answered(q) =>
              /\ post' \in [Posts -> [at : {"idle", "checked", "locked", "marked"},
                                      version : 0..MaxRelease]]
              /\ lock' \in Posts \cup {NoPost}
BY UpgradeAssumption DEF TypeOK, PostGoes, Answered, IdlePost

\* The handlers of the application.
LEMMA PostStepType ==
  ASSUME TypeOK, NEW q \in Posts, PostChecks(q) \/ PostStep(q)
  PROVE  TypeOK'
<1>1. CASE PostChecks(q)
  BY <1>1 DEF PostChecks, TypeOK, files, history
<1>2. CASE PostLocks(q)
  <2>1. lock' \in Posts \cup {NoPost}
    BY <1>2, PostTypes DEF PostLocks
  <2>. QED BY <1>2, <2>1, PostTypes DEF PostLocks, TypeOK, files, history
<1>3. CASE PostMarks(q)
  <2>1. CASE heard /\ ~busy
    BY <1>3, <2>1, PostTypes DEF PostMarks, TypeOK, history
  <2>2. CASE ~(heard /\ ~busy)
    BY <1>3, <2>2, PostTypes DEF PostMarks, TypeOK, history
  <2>. QED BY <2>1, <2>2
<1>4. CASE PostWrites(q)
  <2>1. CASE /\ accepted < MaxJobs /\ accepted' = accepted + 1
             /\ request' = [id |-> accepted + 1, version |-> post[q].version, phase |-> "queued"]
             /\ UNCHANGED busy
    <3>1. accepted' \in 0..MaxJobs /\ request' \in Job
      BY <2>1, UpgradeAssumption DEF TypeOK, Job
    <3>. QED BY <1>4, <2>1, <3>1, PostTypes DEF PostWrites, TypeOK
  <2>2. CASE busy' = FALSE /\ UNCHANGED <<request, accepted>>
    BY <1>4, <2>2, PostTypes DEF PostWrites, TypeOK
  <2>. QED BY <1>4, <2>1, <2>2 DEF PostWrites
<1>. QED BY <1>1, <1>2, <1>3, <1>4 DEF PostStep

LEMMA AgentStepType ==
  ASSUME TypeOK, JobInv, AgentInv, AgentStep
  PROVE  TypeOK'
<1>. USE DEF AgentGoes, files, history
<1>1. CASE AgentStarts
  BY <1>1 DEF AgentStarts, TypeOK
<1>2. CASE AgentInherits
  <2>0. "failed" \in Phases /\ active \in Job
    BY DEF Phases, TypeOK
  <2>3. [id |-> active.id, version |-> 0, phase |-> CutShort] \in Job
    BY <2>0, UpgradeAssumption DEF CutShort, Job
  <2>1. status' \in Job
    BY <1>2, <2>3 DEF AgentInherits, TypeOK
  <2>2. agent' = [agent EXCEPT !.at = "inherited"] \/ agent' = [agent EXCEPT !.at = "listing"]
    BY <1>2 DEF AgentInherits
  <2>. QED BY <1>2, <2>1, <2>2 DEF AgentInherits, TypeOK
<1>3. CASE AgentDrops
  BY <1>3, JobTypes DEF AgentDrops, RequestAfterStart, TypeOK
<1>4. CASE AgentSweeps
  <2>1. busy' \in BOOLEAN /\ swept' \in BOOLEAN
    BY <1>4, Zenon DEF AgentSweeps, NothingWaits
  <2>. QED BY <1>4, <2>1 DEF AgentSweeps, TypeOK
<1>5. CASE AgentPulses
  BY <1>5 DEF AgentPulses, TypeOK
<1>6. CASE AgentTakes
  BY <1>6, JobTypes DEF AgentTakes, TypeOK
<1>7. CASE AgentChecks
  <2>0. "running" \in Phases /\ active \in Job
    BY DEF Phases, TypeOK
  <2>4. [active EXCEPT !.phase = "running"] \in Job
    BY <2>0, JobTypes
  <2>1. active' \in Job
    BY <1>7, <2>0, <2>4 DEF AgentChecks
  <2>2. begun' \in [Jobs -> Nat]
    BY <1>7 DEF AgentChecks, Begins, TypeOK
  <2>3. \/ agent' = [agent EXCEPT !.at = "running"]
        \/ agent' = [at |-> "reporting", verdict |-> "failed"]
    BY <1>7 DEF AgentChecks
  <2>. QED BY <1>7, <2>1, <2>2, <2>3 DEF AgentChecks, TypeOK
<1>8. CASE AgentRuns
  <2>1. PICK well \in BOOLEAN :
          /\ agent' = [at |-> "reporting", verdict |-> Verdict(well)]
          /\ IF well
             THEN /\ current' = active.version /\ ended' = ended \cup {active.id}
                  /\ post' = [q \in Posts |-> IdlePost]
             ELSE UNCHANGED <<current, ended, post>>
    BY <1>8 DEF AgentRuns
  <2>2. active.id \in Jobs /\ active.version \in 0..MaxRelease
    BY <1>8, UpgradeAssumption DEF AgentRuns, AgentInv, JobInv, TypeOK, Job, Jobs
  <2>3. /\ current' \in 0..MaxRelease /\ ended' \subseteq Jobs
        /\ post' \in [Posts -> [at : {"idle", "checked", "locked", "marked"},
                                version : 0..MaxRelease]]
    BY <2>1, <2>2, UpgradeAssumption DEF TypeOK, IdlePost
  <2>4. agent'.at = "reporting" /\ agent' \in
          [at : {"reporting"}, verdict : {"failed", "succeeded"}]
    BY <2>1 DEF Verdict
  <2>. QED BY <1>8, <2>3, <2>4 DEF AgentRuns, TypeOK
<1>9. CASE AgentReports
  <2>1. status' \in Job
    BY <1>9, JobTypes DEF AgentReports, Phases, TypeOK
  <2>. QED BY <1>9, <2>1 DEF AgentReports, TypeOK
<1>10. CASE AgentRemoves
  BY <1>10, JobTypes DEF AgentRemoves, TypeOK
<1>11. CASE AgentClears
  <2>1. agent' = [agent EXCEPT !.at = "waiting"] \/ agent' = [agent EXCEPT !.at = "down"]
    BY <1>11 DEF AgentClears
  <2>. QED BY <1>11, <2>1 DEF AgentClears, TypeOK
<1>. QED
  BY <1>1, <1>2, <1>3, <1>4, <1>5, <1>6, <1>7, <1>8, <1>9, <1>10, <1>11 DEF AgentStep
LEMMA WorldStepType ==
  ASSUME TypeOK, LockExpires \/ AgentStops \/ AppStops \/ HeartbeatAges \/ Published
  PROVE  TypeOK'
<1>. USE DEF AgentGoes, files, history
<1>1. CASE LockExpires
  BY <1>1 DEF LockExpires, TypeOK
<1>2. CASE AgentStops
  <2>1. current' \in 0..MaxRelease
    BY <1>2 DEF AgentStops, TypeOK, Job
  <2>2. stops' \in [agent : 0..MaxAgentStops, app : 0..MaxAppStops]
    BY <1>2, UpgradeAssumption DEF AgentStops, TypeOK
  <2>. QED BY <1>2, <2>1, <2>2 DEF AgentStops, TypeOK
<1>3. CASE AppStops
  <2>1. stops' \in [agent : 0..MaxAgentStops, app : 0..MaxAppStops]
    BY <1>3, UpgradeAssumption DEF AppStops, TypeOK
  <2>. QED BY <1>3, <2>1, UpgradeAssumption DEF AppStops, TypeOK, IdlePost
<1>4. CASE HeartbeatAges
  BY <1>4 DEF HeartbeatAges, TypeOK
<1>5. CASE Published
  BY <1>5, UpgradeAssumption DEF Published, TypeOK
<1>. QED BY <1>1, <1>2, <1>3, <1>4, <1>5

LEMMA UpgradeTypeStep ==
  ASSUME TypeOK, JobInv, AgentInv, [Next]_vars
  PROVE  TypeOK'
<1>1. CASE \E q \in Posts : PostChecks(q) \/ PostStep(q)
  BY <1>1, PostStepType
<1>2. CASE AgentStep
  BY <1>2, AgentStepType
<1>3. CASE LockExpires \/ AgentStops \/ AppStops \/ HeartbeatAges \/ Published
  BY <1>3, WorldStepType
<1>4. CASE UNCHANGED vars
  BY <1>4 DEF vars, files, history, TypeOK
<1>. QED BY <1>1, <1>2, <1>3, <1>4 DEF Next

-----------------------------------------------------------------------------
(* The steps.                                                              *)

\* A request that is written has a number of its own.
LEMMA WritesJob ==
  ASSUME UpgradeInv, NEW q \in Posts, PostWrites(q)
  PROVE  JobInv'
<1>1. CASE busy' = FALSE /\ UNCHANGED <<request, accepted>>
  BY <1>1 DEF PostWrites, UpgradeInv, JobInv
<1>2. CASE /\ accepted < MaxJobs /\ accepted' = accepted + 1
           /\ request' = [id |-> accepted + 1, version |-> post[q].version, phase |-> "queued"]
           /\ UNCHANGED busy
  <2>1. /\ accepted \in Nat /\ accepted' \in 1..MaxJobs /\ request'.id = accepted'
        /\ request'.phase = "queued" /\ active' = active /\ begun' = begun
    BY <1>2, UpgradeAssumption DEF PostWrites, UpgradeInv, TypeOK
  <2>2. accepted' > accepted /\ active.id < accepted'
    BY <1>2, <2>1 DEF UpgradeInv, JobInv, TypeOK, NoJob
  <2>3. begun[accepted'] = 0
    BY <2>1, <2>2 DEF UpgradeInv, JobInv, Jobs
  <2>4. \A j \in Jobs : begun'[j] <= 1 /\ (j > accepted' => begun'[j] = 0)
    BY <2>1, <2>2 DEF UpgradeInv, JobInv, Jobs
  <2>5. active # NoJob => active.id \in 1..accepted'
    BY <2>1, <2>2 DEF UpgradeInv, JobInv
  <2>. QED BY <2>1, <2>2, <2>3, <2>4, <2>5 DEF UpgradeInv, JobInv
<1>. QED BY <1>1, <1>2 DEF PostWrites

LEMMA AgentJob ==
  ASSUME UpgradeInv, AgentStep
  PROVE  JobInv'
<1>. USE DEF AgentGoes, files, history, UpgradeInv
<1>1. CASE AgentDrops
  BY <1>1 DEF AgentDrops, RequestAfterStart, JobInv, NoJob
<1>2. CASE AgentRemoves
  BY <1>2 DEF AgentRemoves, JobInv, NoJob
<1>3. CASE AgentTakes
  <2>1. request # NoJob /\ active' = request /\ request' = NoJob /\ begun' = begun /\ accepted' = accepted
    BY <1>3 DEF AgentTakes, Takeable
  <2>. QED BY <2>1 DEF JobInv
<1>4. CASE AgentChecks
  <2>1. CASE active' = active /\ begun' = begun
    BY <1>4, <2>1 DEF AgentChecks, JobInv
  <2>2. CASE active' = [active EXCEPT !.phase = "running"] /\ Begins(active.id)
    <3>1. active.id \in 1..accepted /\ active.id \in Jobs /\ begun[active.id] = 0
      BY <1>4, UpgradeAssumption DEF AgentChecks, AgentInv, JobInv, Jobs, TypeOK
    <3>2. active'.id = active.id /\ active'.phase = "running"
      BY <2>2 DEF TypeOK, Job
    <3>3. /\ request' = request /\ accepted' = accepted
          /\ begun' = [begun EXCEPT ![active.id] = 1]
      BY <1>4, <2>2, <3>1 DEF AgentChecks, Begins, TypeOK
    <3>4. \A j \in Jobs : begun'[j] <= 1 /\ (j > accepted' => begun'[j] = 0)
      BY <3>1, <3>3 DEF JobInv, TypeOK
    <3>5. request # NoJob => begun'[request.id] = 0
      BY <3>1, <3>3 DEF JobInv, TypeOK
    <3>. QED BY <3>1, <3>2, <3>3, <3>4, <3>5 DEF JobInv
  <2>. QED BY <1>4, <2>1, <2>2 DEF AgentChecks
<1>5. CASE AgentStarts \/ AgentInherits \/ AgentSweeps \/ AgentPulses \/ AgentRuns
           \/ AgentReports \/ AgentClears
  <2>1. UNCHANGED <<request, active, accepted, begun>>
    BY <1>5 DEF AgentStarts, AgentInherits, AgentSweeps, AgentPulses, AgentRuns, AgentReports,
                AgentClears
  <2>. QED BY <2>1 DEF JobInv
<1>. QED BY <1>1, <1>2, <1>3, <1>4, <1>5 DEF AgentStep

LEMMA JobStep ==
  ASSUME UpgradeInv, [Next]_vars
  PROVE  JobInv'
<1>1. CASE \E q \in Posts : PostWrites(q)
  BY <1>1, WritesJob
<1>2. CASE \E q \in Posts : PostChecks(q) \/ PostLocks(q) \/ PostMarks(q)
  <2>1. UNCHANGED <<request, active, accepted, begun>>
    BY <1>2 DEF PostChecks, PostLocks, PostMarks, files, history
  <2>. QED BY <2>1 DEF UpgradeInv, JobInv
<1>3. CASE AgentStep
  BY <1>3, AgentJob
<1>4. CASE \/ LockExpires \/ AgentStops \/ AppStops \/ HeartbeatAges \/ Published
           \/ UNCHANGED vars
  <2>1. UNCHANGED <<request, active, accepted, begun>>
    BY <1>4 DEF LockExpires, AgentStops, AppStops, HeartbeatAges, Published, vars, files, history
  <2>. QED BY <2>1 DEF UpgradeInv, JobInv
<1>. QED BY <1>1, <1>2, <1>3, <1>4 DEF Next, PostStep

LEMMA AgentInvStep ==
  ASSUME UpgradeInv, [Next]_vars
  PROVE  AgentInv'
<1>. USE DEF AgentGoes, files, history, UpgradeInv
<1>1. CASE \E q \in Posts : PostChecks(q) \/ PostStep(q)
  <2>1. agent' = agent /\ active' = active
    BY <1>1 DEF PostChecks, PostStep, PostLocks, PostMarks, PostWrites
  <2>. QED BY <2>1 DEF AgentInv
<1>2. CASE AgentStep
  <2>1. agent \in [at : {"down", "starting", "inherited", "listing", "pulsing",
                        "waiting", "checking", "running", "reporting", "removing", "clearing"},
                  verdict : {"failed", "succeeded"}]
    BY DEF TypeOK
  <2>2. CASE AgentStarts
    BY <2>1, <2>2 DEF AgentStarts, AgentInv
  <2>3. CASE AgentInherits
    BY <2>1, <2>3 DEF AgentInherits, AgentInv
  <2>4. CASE AgentDrops
    BY <2>1, <2>4 DEF AgentDrops, AgentInv
  <2>5. CASE AgentSweeps
    BY <2>1, <2>5 DEF AgentSweeps, AgentInv
  <2>6. CASE AgentPulses
    BY <2>1, <2>6 DEF AgentPulses, AgentInv
  <2>7. CASE AgentTakes
    BY <2>1, <2>7 DEF AgentTakes, Takeable, AgentInv, JobInv
  <2>8. CASE AgentChecks
    <3>1. CASE active' = [active EXCEPT !.phase = "running"] /\ agent' = [agent EXCEPT !.at = "running"]
      <4>1. active'.phase = "running" /\ active' # NoJob
        BY <3>1 DEF TypeOK, Job, NoJob
      <4>. QED BY <2>1, <3>1, <4>1 DEF AgentInv
    <3>2. CASE agent' = [at |-> "reporting", verdict |-> "failed"] /\ UNCHANGED active
      BY <2>8, <3>2 DEF AgentChecks, AgentInv
    <3>. QED BY <2>8, <3>1, <3>2 DEF AgentChecks
  <2>9. CASE AgentRuns
    <3>1. agent'.at = "reporting" /\ active' = active /\ agent.at = "running"
      BY <2>9 DEF AgentRuns
    <3>. QED BY <3>1 DEF AgentInv
  <2>10. CASE AgentReports
    BY <2>1, <2>10 DEF AgentReports, AgentInv
  <2>11. CASE AgentRemoves
    BY <2>1, <2>11 DEF AgentRemoves, AgentInv
  <2>12. CASE AgentClears
    BY <2>1, <2>12 DEF AgentClears, AgentInv
  <2>. QED
    BY <1>2, <2>2, <2>3, <2>4, <2>5, <2>6, <2>7, <2>8, <2>9, <2>10, <2>11, <2>12 DEF AgentStep
<1>3. CASE AgentStops
  <2>1. agent'.at = "down"
    BY <1>3 DEF AgentStops, TypeOK
  <2>. QED BY <2>1 DEF AgentInv
<1>4. CASE LockExpires \/ AppStops \/ HeartbeatAges \/ Published \/ UNCHANGED vars
  <2>1. agent' = agent /\ active' = active
    BY <1>4 DEF LockExpires, AppStops, HeartbeatAges, Published, vars
  <2>. QED BY <2>1 DEF AgentInv
<1>. QED BY <1>1, <1>2, <1>3, <1>4 DEF Next

\* Reports: only the agent's own steps write them.
LEMMA ReportStep ==
  ASSUME UpgradeInv, [Next]_vars
  PROVE  ReportInv'
<1>. USE DEF AgentGoes, files, history, UpgradeInv
<1>1. CASE \E q \in Posts : PostChecks(q) \/ PostStep(q)
  <2>1. UNCHANGED <<agent, active, status, ended>>
    BY <1>1 DEF PostChecks, PostStep, PostLocks, PostMarks, PostWrites
  <2>. QED BY <2>1 DEF ReportInv, ReportIsTrue
<1>2. CASE AgentInherits
  <2>1. CASE /\ status' = [id |-> active.id, version |-> 0, phase |-> CutShort]
             /\ agent' = [agent EXCEPT !.at = "inherited"]
    <3>1. status'.phase = "failed" /\ status'.id = active.id
      BY <2>1 DEF CutShort, TypeOK, Job
    <3>2. agent'.at = "inherited" /\ active' = active /\ ended' = ended
      BY <1>2, <2>1 DEF AgentInherits, TypeOK
    <3>. QED BY <3>1, <3>2 DEF ReportInv, ReportIsTrue
  <2>2. CASE agent' = [agent EXCEPT !.at = "listing"] /\ UNCHANGED status
    <3>1. agent'.at = "listing" /\ active' = active /\ ended' = ended /\ status' = status
      BY <1>2, <2>2 DEF AgentInherits, TypeOK
    <3>. QED BY <3>1 DEF ReportInv, ReportIsTrue
  <2>. QED BY <1>2, <2>1, <2>2 DEF AgentInherits
<1>3. CASE AgentChecks
  <2>1. UNCHANGED <<status, ended>>
    BY <1>3 DEF AgentChecks
  <2>2. \/ agent'.at = "running"
        \/ agent'.at = "reporting" /\ agent'.verdict = "failed"
    BY <1>3 DEF AgentChecks, TypeOK
  <2>. QED BY <2>1, <2>2 DEF ReportInv, ReportIsTrue
<1>4. CASE AgentRuns
  <2>1. PICK well \in BOOLEAN :
          /\ agent' = [at |-> "reporting", verdict |-> Verdict(well)]
          /\ IF well
             THEN /\ current' = active.version /\ ended' = ended \cup {active.id}
                  /\ post' = [q \in Posts |-> IdlePost]
             ELSE UNCHANGED <<current, ended, post>>
    BY <1>4 DEF AgentRuns
  <2>2. active' = active /\ status' = status /\ agent'.at = "reporting" /\ agent'.verdict = Verdict(well)
    BY <1>4, <2>1 DEF AgentRuns
  <2>3. CASE well
    BY <2>1, <2>2, <2>3 DEF ReportInv, ReportIsTrue
  <2>4. CASE ~well
    BY <2>1, <2>2, <2>4 DEF Verdict, ReportInv, ReportIsTrue
  <2>. QED BY <2>3, <2>4
<1>5. CASE AgentReports
  <2>1. /\ status'.phase = agent.verdict /\ status'.id = active.id
        /\ agent'.at = "removing" /\ UNCHANGED <<active, ended>>
        /\ agent.at = "reporting" /\ agent.verdict \in {"failed", "succeeded"}
    BY <1>5 DEF AgentReports, TypeOK, Job
  <2>. QED BY <2>1 DEF ReportInv, ReportIsTrue
<1>6. CASE \/ AgentStarts \/ AgentDrops \/ AgentSweeps \/ AgentPulses
           \/ AgentTakes \/ AgentRemoves \/ AgentClears \/ AgentStops
  <2>1. UNCHANGED <<status, ended>>
    BY <1>6 DEF AgentStarts, AgentDrops, AgentSweeps, AgentPulses, AgentTakes, AgentRemoves,
                AgentClears, AgentStops
  <2>2. agent'.at \notin {"reporting", "removing", "inherited"}
    BY <1>6 DEF AgentStarts, AgentDrops, AgentSweeps, AgentPulses, AgentTakes, AgentRemoves,
                AgentClears, AgentStops, TypeOK
  <2>. QED BY <2>1, <2>2 DEF ReportInv, ReportIsTrue
<1>7. CASE LockExpires \/ AppStops \/ HeartbeatAges \/ Published \/ UNCHANGED vars
  <2>1. UNCHANGED <<agent, active, status, ended>>
    BY <1>7 DEF LockExpires, AppStops, HeartbeatAges, Published, vars
  <2>. QED BY <2>1 DEF ReportInv, ReportIsTrue
<1>. QED BY <1>1, <1>2, <1>3, <1>4, <1>5, <1>6, <1>7 DEF Next, AgentStep

-----------------------------------------------------------------------------
(* The mark.                                                               *)

\* A handler that is done, or that goes elsewhere, has no mark to itself.
LEMMA MarkOfPost ==
  ASSUME UpgradeInv, NEW q \in Posts, PostChecks(q) \/ PostStep(q)
  PROVE  MarkInv'
<1>. USE DEF files, history, UpgradeInv
<1>1. CASE PostChecks(q) \/ PostLocks(q)
  <2>1. UNCHANGED <<busy, request, active, agent, swept>>
    BY <1>1 DEF PostChecks, PostLocks
  <2>2. \A r \in Posts : post'[r].at = "marked" => post[r].at = "marked"
    BY <1>1 DEF PostChecks, PostLocks, PostGoes, Answered, IdlePost, TypeOK
  <2>. QED BY <2>1, <2>2 DEF MarkInv
<1>2. CASE PostMarks(q)
  <2>1. UNCHANGED <<request, active, agent, swept>>
    BY <1>2 DEF PostMarks
  <2>2. CASE heard /\ ~busy
    <3>1. busy' = TRUE
      BY <1>2, <2>2 DEF PostMarks
    <3>2. \A r \in Posts : post'[r].at = "marked" => r = q \/ post[r].at = "marked"
      BY <1>2, <2>2 DEF PostMarks, PostGoes, Answered, IdlePost, TypeOK
    <3>. QED BY <2>1, <2>2, <3>1, <3>2 DEF MarkInv
  <2>3. CASE ~(heard /\ ~busy)
    <3>1. busy' = busy
      BY <1>2, <2>3 DEF PostMarks
    <3>2. \A r \in Posts : post'[r].at = "marked" => post[r].at = "marked"
      BY <1>2, <2>3 DEF PostMarks, Answered, IdlePost, TypeOK
    <3>. QED BY <2>1, <3>1, <3>2 DEF MarkInv
  <2>. QED BY <2>2, <2>3
<1>3. CASE PostWrites(q)
  <2>1. SUFFICES ASSUME ~swept
                 PROVE  MarkInv'
    BY <1>3 DEF PostWrites, MarkInv
  <2>2. /\ busy /\ request = NoJob /\ active = NoJob /\ agent.at # "clearing"
        /\ \A r \in Posts : post[r].at = "marked" => r = q
    BY <1>3, <2>1 DEF PostWrites, MarkInv
  <2>3. \A r \in Posts : post'[r].at # "marked"
    BY <1>3, <2>2 DEF PostWrites, Answered, IdlePost, TypeOK
  <2>4. active' = NoJob /\ agent'.at # "clearing"
    BY <1>3, <2>2 DEF PostWrites
  <2>5. busy' = TRUE \/ request' = NoJob
    BY <1>3, <2>2 DEF PostWrites
  <2>. QED BY <2>3, <2>4, <2>5 DEF MarkInv
<1>. QED BY <1>1, <1>2, <1>3 DEF PostStep

LEMMA MarkOfAgent ==
  ASSUME UpgradeInv, AgentStep
  PROVE  MarkInv'
<1>. USE DEF AgentGoes, files, history, UpgradeInv
<1>1. CASE AgentSweeps
  <2>1. /\ request' = request /\ active' = NoJob /\ post' = post /\ agent'.at = "pulsing"
        /\ active = NoJob
    BY <1>1 DEF AgentSweeps, AgentInv, TypeOK
  <2>2. CASE request = NoJob
    <3>1. (swept' <=> swept \/ \E q \in Posts : post[q].at = "marked")
      BY <1>1, <2>2, Zenon DEF AgentSweeps, NothingWaits
    <3>. QED BY <2>1, <2>2, <3>1 DEF MarkInv
  <2>3. CASE request # NoJob
    <3>1. (swept' <=> swept) /\ (busy' <=> busy)
      BY <1>1, <2>3, Zenon DEF AgentSweeps, NothingWaits
    <3>. QED BY <2>1, <2>3, <3>1 DEF MarkInv
  <2>. QED BY <2>2, <2>3
<1>2. CASE AgentTakes
  <2>1. /\ active' = request /\ request # NoJob /\ request' = NoJob /\ agent'.at = "checking"
        /\ UNCHANGED <<busy, post, swept>>
    BY <1>2 DEF AgentTakes, Takeable, TypeOK
  <2>. QED BY <2>1 DEF MarkInv
<1>3. CASE AgentChecks
  <2>1. /\ active # NoJob /\ active' # NoJob /\ agent'.at # "clearing"
        /\ UNCHANGED <<busy, request, post, swept>>
    BY <1>3 DEF AgentChecks, AgentInv, TypeOK, Job, NoJob
  <2>. QED BY <2>1 DEF MarkInv
<1>4. CASE AgentRuns
  <2>1. /\ agent'.at # "clearing" /\ UNCHANGED <<busy, request, active, swept>>
    BY <1>4 DEF AgentRuns
  <2>2. \A r \in Posts : post'[r].at = "marked" => post[r].at = "marked"
    BY <1>4 DEF AgentRuns, IdlePost
  <2>. QED BY <2>1, <2>2 DEF MarkInv
<1>5. CASE AgentRemoves
  <2>1. /\ active # NoJob /\ active' = NoJob /\ agent'.at = "clearing"
        /\ UNCHANGED <<busy, request, post, swept>>
    BY <1>5 DEF AgentRemoves, AgentInv, TypeOK
  <2>. QED BY <2>1 DEF MarkInv
<1>6. CASE AgentClears
  <2>1. /\ active = NoJob /\ agent.at = "clearing" /\ agent'.at # "clearing"
        /\ UNCHANGED <<request, active, post, swept>>
    BY <1>6 DEF AgentClears, AgentInv, TypeOK
  <2>. QED BY <2>1 DEF MarkInv
<1>7. CASE AgentDrops
  <2>1. /\ active' = NoJob /\ request' = request /\ agent'.at # "clearing"
        /\ UNCHANGED <<busy, post, swept>>
    BY <1>7 DEF AgentDrops, RequestAfterStart, TypeOK
  <2>. QED BY <2>1 DEF MarkInv
<1>8. CASE AgentStarts \/ AgentInherits \/ AgentPulses \/ AgentReports
  <2>1. agent'.at # "clearing" /\ UNCHANGED <<busy, request, active, post, swept>>
    BY <1>8 DEF AgentStarts, AgentInherits, AgentPulses, AgentReports, TypeOK
  <2>. QED BY <2>1 DEF MarkInv
<1>. QED BY <1>1, <1>2, <1>3, <1>4, <1>5, <1>6, <1>7, <1>8 DEF AgentStep

LEMMA MarkStep ==
  ASSUME UpgradeInv, [Next]_vars
  PROVE  MarkInv'
<1>1. CASE AgentStops \/ AppStops
  <2>1. /\ UNCHANGED <<busy, request, active, swept>>
        /\ agent'.at = agent.at \/ agent'.at = "down"
    BY <1>1 DEF AgentStops, AppStops, AgentGoes, files, history, UpgradeInv, TypeOK
  <2>2. \A r \in Posts : post'[r].at = "marked" => post[r].at = "marked"
    BY <1>1 DEF AgentStops, AppStops, IdlePost
  <2>. QED BY <2>1, <2>2 DEF MarkInv, UpgradeInv
<1>2. CASE LockExpires \/ HeartbeatAges \/ Published \/ UNCHANGED vars
  <2>1. UNCHANGED <<busy, request, active, agent, post, swept>>
    BY <1>2 DEF LockExpires, HeartbeatAges, Published, vars, files, history
  <2>. QED BY <2>1 DEF MarkInv, UpgradeInv
<1>. QED BY <1>1, <1>2, MarkOfPost, MarkOfAgent DEF Next

-----------------------------------------------------------------------------
(* The theorems.                                                           *)

LEMMA UpgradeInit == Init => UpgradeInv
<1>1. Init => TypeOK
  <2>. SUFFICES ASSUME Init PROVE TypeOK
    OBVIOUS
  <2>1. request \in Job /\ active \in Job /\ status \in Job
    BY JobTypes DEF Init
  <2>2. busy \in BOOLEAN /\ heard \in BOOLEAN /\ swept \in BOOLEAN
    BY Zenon DEF Init
  <2>3. post \in [Posts -> [at : {"idle", "checked", "locked", "marked"},
                           version : 0..MaxRelease]]
    BY UpgradeAssumption DEF Init, IdlePost
  <2>4. stops \in [agent : 0..MaxAgentStops, app : 0..MaxAppStops]
    BY UpgradeAssumption DEF Init
  <2>5. /\ release \in 0..MaxRelease /\ current \in 0..MaxRelease /\ accepted \in 0..MaxJobs
        /\ begun \in [Jobs -> Nat] /\ ended \subseteq Jobs /\ lock \in Posts \cup {NoPost}
    BY UpgradeAssumption DEF Init, Jobs
  <2>6. agent \in [at : {"down"}, verdict : {"failed", "succeeded"}]
    BY DEF Init
  <2>. QED BY <2>1, <2>2, <2>3, <2>4, <2>5, <2>6 DEF TypeOK
<1>2. Init => JobInv /\ AgentInv /\ ReportInv /\ MarkInv
  BY UpgradeAssumption DEF Init, JobInv, AgentInv, ReportInv, ReportIsTrue, MarkInv, NoJob, IdlePost, Jobs
<1>. QED BY <1>1, <1>2 DEF UpgradeInv

LEMMA UpgradeInductive == Spec => []UpgradeInv
<1>1. UpgradeInv /\ [Next]_vars => UpgradeInv'
  BY UpgradeTypeStep, JobStep, AgentInvStep, ReportStep, MarkStep DEF UpgradeInv
<1>. QED BY UpgradeInit, <1>1, PTL DEF Spec

\* Every file, process and counter of an upgrade keeps its type (upgrade.go, agent.go).
THEOREM UpgradeTypeCorrect == Spec => []TypeOK
<1>1. UpgradeInv => TypeOK
  BY DEF UpgradeInv
<1>. QED BY <1>1, UpgradeInductive, PTL

\* No command of the agent is started twice for a request (agent.go:28), however often the
\* agent and the application die and whatever they were doing.
THEOREM UpgradeNeverReplayed == Spec => []NeverReplayed
<1>1. UpgradeInv => NeverReplayed
  BY DEF UpgradeInv, JobInv, NeverReplayed
<1>. QED BY <1>1, UpgradeInductive, PTL

\* "succeeded" is reported only of a request whose command ended well.
THEOREM UpgradeReportIsTrue == Spec => []ReportIsTrue
<1>1. UpgradeInv => ReportIsTrue
  BY DEF UpgradeInv, ReportInv
<1>. QED BY <1>1, UpgradeInductive, PTL

\* The busy mark keeps a second request out until the first is settled, unless a starting
\* agent took it away from a request that was being written (agent.go:36).
THEOREM UpgradeMarkGuards == Spec => []MarkGuardsJob
<1>1. UpgradeInv => MarkGuardsJob
  BY DEF UpgradeInv, MarkInv, MarkGuardsJob
<1>. QED BY <1>1, UpgradeInductive, PTL

\* The panel goes on from a job only when it has an outcome to show, with the same exception.
THEOREM UpgradeLeavesAReport == Spec => LeavesAReport
<1>1. UpgradeInv /\ UpgradeInv' /\ [Next]_vars
        => [Shown'.id # Shown.id => swept \/ Shown.phase \notin {"queued", "running"}]_vars
  <2>. SUFFICES ASSUME UpgradeInv, UpgradeInv', Next, ~swept, Shown'.id # Shown.id
                PROVE  Shown.phase \notin {"queued", "running"}
    BY DEF vars, files, history, Shown
  <2>. USE DEF AgentGoes, files, history, UpgradeInv
  <2>1. CASE \E q \in Posts : PostWrites(q)
    <3>1. active = NoJob /\ request = NoJob
      BY <2>1 DEF PostWrites, MarkInv
    <3>. QED BY <3>1 DEF Shown, ReportInv
  <2>2. CASE AgentTakes
    BY <2>2 DEF AgentTakes, Takeable, AgentInv, Shown
  <2>3. CASE AgentRemoves \/ AgentDrops
    <3>1. /\ active # NoJob /\ request = NoJob /\ request' = NoJob /\ active' = NoJob
          /\ status' = status /\ status.id = active.id
      BY <2>3 DEF AgentRemoves, AgentDrops, RequestAfterStart, AgentInv, MarkInv, ReportInv
    <3>. QED BY <3>1 DEF Shown
  <2>4. CASE AgentChecks
    <3>1. active # NoJob /\ active' # NoJob /\ active'.id = active.id
      BY <2>4 DEF AgentChecks, AgentInv, TypeOK, Job, NoJob
    <3>. QED BY <3>1 DEF Shown
  <2>5. CASE AgentInherits \/ AgentReports
    <3>1. \/ active # NoJob /\ active' = active
          \/ UNCHANGED <<active, request, status>>
      BY <2>5 DEF AgentInherits, AgentReports, AgentInv
    <3>. QED BY <3>1 DEF Shown
  <2>6. CASE \/ AgentStarts \/ AgentSweeps \/ AgentPulses \/ AgentRuns \/ AgentClears
             \/ LockExpires \/ AgentStops \/ AppStops \/ HeartbeatAges \/ Published
    <3>1. UNCHANGED <<active, request, status>>
      BY <2>6 DEF AgentStarts, AgentSweeps, AgentPulses, AgentRuns, AgentClears, LockExpires,
                  AgentStops, AppStops, HeartbeatAges, Published
    <3>. QED BY <3>1 DEF Shown
  <2>7. CASE \E q \in Posts : PostChecks(q) \/ PostLocks(q) \/ PostMarks(q)
    <3>1. UNCHANGED <<active, request, status>>
      BY <2>7 DEF PostChecks, PostLocks, PostMarks
    <3>. QED BY <3>1 DEF Shown
  <2>. QED BY <2>1, <2>2, <2>3, <2>4, <2>5, <2>6, <2>7 DEF Next, AgentStep, PostStep
<1>. QED BY <1>1, UpgradeInductive, PTL DEF Spec, LeavesAReport
=============================================================================
