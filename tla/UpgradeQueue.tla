------------------------------- MODULE UpgradeQueue -------------------------------
(***************************************************************************)
(* Upgrading from the web panel (upgrade/upgrade.go, upgrade/agent.go,      *)
(* api/upgrade.go).  The application and an agent on the host exchange      *)
(* files in .updates: request.json, which the agent renames to active.json, *)
(* status.json with the last outcome, heartbeat, and busy, the mark that    *)
(* keeps a second request out.  Each file call is a step: either process    *)
(* can die between any two of them, and the agent starts again with files   *)
(* that the application is writing.                                         *)
(***************************************************************************)
EXTENDS Naturals

CONSTANTS
  Posts,          \* requests of administrators being handled at a time
  MaxJobs,        \* bound: requests that are accepted
  MaxRelease,     \* bound: stable releases that are published
  MaxAgentStops,  \* bound: deaths of the agent
  MaxAppStops     \* bound: deaths of the application

ASSUME UpgradeAssumption ==
  /\ {MaxJobs, MaxRelease, MaxAgentStops, MaxAppStops} \subseteq Nat
  /\ 0 \notin Posts

VARIABLES
  busy, request, active, status,  \* the files
  heard,     \* heartbeat is younger than 20 s
  lock,      \* the Redis lock web:upgrade
  post,      \* post[q]: a POST /api/v1/upgrades
  agent,     \* the agent and the verdict it is about to report
  release,   \* the latest stable release, by number
  current,   \* the version that runs
  stops,     \* deaths so far, of the agent and of the application
  accepted,  \* history: requests accepted, which numbers them
  begun,     \* history: begun[j]: commands started for request j
  ended,     \* history: requests whose command ended well
  swept      \* history: a starting agent removed the mark of a request being made

files == <<busy, request, active, status>>
history == <<accepted, begun, ended, swept>>
vars == <<files, heard, lock, post, agent, release, current, stops, history>>

Jobs == 1..MaxJobs
Job == [id : 0..MaxJobs, version : 0..MaxRelease,
        phase : {"none", "queued", "running", "failed", "succeeded"}]
NoJob == [id |-> 0, version |-> 0, phase |-> "none"]
NoPost == 0

TypeOK ==
  /\ busy \in BOOLEAN /\ heard \in BOOLEAN /\ swept \in BOOLEAN
  /\ request \in Job /\ active \in Job /\ status \in Job
  /\ lock \in Posts \cup {NoPost}
  /\ post \in [Posts -> [at : {"idle", "checked", "locked", "marked"},
                         version : 0..MaxRelease]]
  /\ agent \in [at : {"down", "starting", "inherited", "listing", "pulsing",
                      "waiting", "checking", "running", "reporting", "removing", "clearing"},
                verdict : {"failed", "succeeded"}]
  /\ release \in 0..MaxRelease /\ current \in 0..MaxRelease
  /\ stops \in [agent : 0..MaxAgentStops, app : 0..MaxAppStops]
  /\ accepted \in 0..MaxJobs /\ begun \in [Jobs -> Nat] /\ ended \subseteq Jobs

IdlePost == [at |-> "idle", version |-> 0]

Init ==
  /\ busy = FALSE /\ request = NoJob /\ active = NoJob /\ status = NoJob
  /\ heard = FALSE /\ lock = NoPost /\ post = [q \in Posts |-> IdlePost]
  /\ agent = [at |-> "down", verdict |-> "failed"]
  /\ release = 0 /\ current = 0 /\ stops = [agent |-> 0, app |-> 0]
  /\ accepted = 0 /\ begun = [j \in Jobs |-> 0] /\ ended = {} /\ swept = FALSE

-----------------------------------------------------------------------------
(* POST /api/v1/upgrades.                                                  *)

Newer(next, now) == next > now

PostGoes(q, at) == post' = [post EXCEPT ![q].at = at]
\* The answer is sent, and the deferred unlock releases the lock unless it expired.
Answered(q) ==
  /\ post' = [post EXCEPT ![q] = IdlePost]
  /\ lock' = IF lock = q THEN NoPost ELSE lock

\* The release service is asked, and the agent has been heard of.
PostChecks(q) ==
  /\ post[q].at = "idle" /\ Newer(release, current) /\ heard
  /\ post' = [post EXCEPT ![q] = [at |-> "checked", version |-> release]]
  /\ UNCHANGED <<files, heard, lock, agent, release, current, stops, history>>

\* The lock is taken, unless another request holds it, and RecordUpgrade writes the
\* audit row, or its failure is answered and the lock released.
PostLocks(q) ==
  /\ post[q].at = "checked"
  /\ \/ lock = NoPost /\ lock' = q /\ PostGoes(q, "locked")
     \/ Answered(q)
  /\ UNCHANGED <<files, heard, agent, release, current, stops, history>>

\* Queue.Request: the agent is still heard of, and busy is created exclusively.  When
\* closing it fails the error is answered, and the mark stays.
PostMarks(q) ==
  /\ post[q].at = "locked"
  /\ \/ heard /\ ~busy /\ busy' = TRUE /\ PostGoes(q, "marked") /\ UNCHANGED lock
     \/ heard /\ ~busy /\ busy' = TRUE /\ Answered(q)
     \/ ~(heard /\ ~busy) /\ Answered(q) /\ UNCHANGED busy
  /\ UNCHANGED <<request, active, status, heard, agent, release, current, stops, history>>

\* request.json is replaced whole; when that fails the mark is taken back.
PostWrites(q) ==
  /\ post[q].at = "marked"
  /\ \/ /\ accepted < MaxJobs
        /\ accepted' = accepted + 1
        /\ request' = [id |-> accepted + 1, version |-> post[q].version, phase |-> "queued"]
        /\ UNCHANGED busy
     \/ busy' = FALSE /\ UNCHANGED <<request, accepted>>
  /\ Answered(q)
  /\ UNCHANGED <<active, status, heard, agent, release, current, stops, begun, ended, swept>>

\* The lock lives for 15 s, whatever its holder does.
LockExpires ==
  /\ lock # NoPost /\ lock' = NoPost
  /\ UNCHANGED <<files, heard, post, agent, release, current, stops, history>>

\* Status: what the files say to the panel.  (It opens them one after another: a job
\* moved on meanwhile may be missing in one answer, and is there in the next.)
Shown ==
  IF active # NoJob THEN active ELSE IF request # NoJob THEN request ELSE status

-----------------------------------------------------------------------------
(* The agent: RunAgent before its loop.                                     *)

AgentGoes(at) == agent' = [agent EXCEPT !.at = at]

\* Mutant: an interrupted job is queued again.
RequestResumed == [active EXCEPT !.phase = "queued"]
\* What a starting agent leaves as request.json.
RequestAfterStart == request

\* Mutant: the report of an interrupted job is written with the phase it had.
PhaseKept == active.phase
CutShort == "failed"

AgentStarts ==
  /\ agent.at = "down" /\ AgentGoes("starting")
  /\ UNCHANGED <<files, heard, lock, post, release, current, stops, history>>

\* active.json is there: its job was cut short, and a report is written that something
\* failed and names no version.
AgentInherits ==
  /\ agent.at = "starting"
  /\ IF active # NoJob
     THEN /\ status' = [id |-> active.id, version |-> 0, phase |-> CutShort]
          /\ AgentGoes("inherited")
     ELSE AgentGoes("listing") /\ UNCHANGED status
  /\ UNCHANGED <<busy, request, active, heard, lock, post, release, current, stops, history>>

AgentDrops ==
  /\ agent.at = "inherited" /\ AgentGoes("listing")
  /\ active' = NoJob /\ request' = RequestAfterStart
  /\ UNCHANGED <<busy, status, heard, lock, post, release, current, stops, history>>

\* Mutant: the mark is removed whether a request waits or not.
SweepsAlways == TRUE
\* Stat of request.json says that nothing waits.
NothingWaits == request = NoJob

\* The mark is removed, also that of a request that is just being written.  (Stat and
\* Remove are one step: a request written between them ends up as one written after.)
AgentSweeps ==
  /\ agent.at = "listing" /\ AgentGoes("pulsing")
  /\ busy' = (busy /\ ~NothingWaits)
  /\ swept' = (swept \/ (NothingWaits /\ \E q \in Posts : post[q].at = "marked"))
  /\ UNCHANGED <<request, active, status, heard, lock, post, release, current, stops,
                 accepted, begun, ended>>

AgentPulses ==
  /\ agent.at = "pulsing" /\ AgentGoes("waiting")
  /\ heard' = TRUE
  /\ UNCHANGED <<files, lock, post, release, current, stops, history>>

-----------------------------------------------------------------------------
(* The agent: its loop and process.                                        *)

\* Mutant: the loop looks for a request only while there is a mark.
TakeableMarked == request # NoJob /\ busy
Takeable == request # NoJob

AgentTakes ==
  /\ agent.at = "waiting" /\ Takeable
  /\ active' = request /\ request' = NoJob /\ AgentGoes("checking")
  /\ UNCHANGED <<busy, status, heard, lock, post, release, current, stops, history>>

Begins(j) == begun' = [begun EXCEPT ![j] = @ + 1]

\* The job is still the latest release and is run, or it has failed (also when the
\* release service does not answer).
AgentChecks ==
  /\ agent.at = "checking"
  /\ \/ /\ active.version = release
        /\ active' = [active EXCEPT !.phase = "running"]
        /\ Begins(active.id) /\ AgentGoes("running")
     \/ /\ agent' = [at |-> "reporting", verdict |-> "failed"]
        /\ UNCHANGED <<active, begun>>
  /\ UNCHANGED <<busy, request, status, heard, lock, post, release, current, stops,
                 accepted, ended, swept>>

\* Mutant: the error of the command is not looked at.
VerdictBlind(well) == "succeeded"
\* Mutant: the phase of a command that failed is not changed.
VerdictKept(well) == IF well THEN "succeeded" ELSE active.phase
Verdict(well) == IF well THEN "succeeded" ELSE "failed"

\* install.sh ends, in 20 minutes at most.  When it ends well the application has been
\* replaced, and with it the requests it was handling.
AgentRuns ==
  /\ agent.at = "running"
  /\ \E well \in BOOLEAN :
       /\ agent' = [at |-> "reporting", verdict |-> Verdict(well)]
       /\ IF well
          THEN /\ current' = active.version /\ ended' = ended \cup {active.id}
               /\ post' = [q \in Posts |-> IdlePost]
          ELSE UNCHANGED <<current, ended, post>>
  /\ UNCHANGED <<files, heard, lock, release, stops, accepted, begun, swept>>

AgentReports ==
  /\ agent.at = "reporting" /\ AgentGoes("removing")
  /\ status' = [active EXCEPT !.phase = agent.verdict]
  /\ UNCHANGED <<busy, request, active, heard, lock, post, release, current, stops, history>>

AgentRemoves ==
  /\ agent.at = "removing" /\ AgentGoes("clearing")
  /\ active' = NoJob
  /\ UNCHANGED <<busy, request, status, heard, lock, post, release, current, stops, history>>

\* Removing a mark that is gone is an error, and any error ends the agent.
AgentClears ==
  /\ agent.at = "clearing"
  /\ AgentGoes(IF busy THEN "waiting" ELSE "down")
  /\ busy' = FALSE
  /\ UNCHANGED <<request, active, status, heard, lock, post, release, current, stops, history>>

-----------------------------------------------------------------------------
(* The world.                                                              *)

\* The agent dies, of an error or with its service; a command it runs dies with it and
\* leaves either version.
AgentStops ==
  /\ agent.at # "down" /\ stops.agent < MaxAgentStops
  /\ stops' = [stops EXCEPT !.agent = @ + 1]
  /\ AgentGoes("down")
  /\ current' \in IF agent.at = "running" THEN {current, active.version} ELSE {current}
  /\ UNCHANGED <<files, heard, lock, post, release, history>>

AppStops ==
  /\ stops.app < MaxAppStops
  /\ stops' = [stops EXCEPT !.app = @ + 1]
  /\ post' = [q \in Posts |-> IdlePost]
  /\ UNCHANGED <<files, heard, lock, agent, release, current, history>>

\* 20 s pass without a heartbeat.
HeartbeatAges ==
  /\ heard /\ agent.at \in {"down", "starting", "inherited", "listing", "pulsing"}
  /\ heard' = FALSE
  /\ UNCHANGED <<files, lock, post, agent, release, current, stops, history>>

Published ==
  /\ release < MaxRelease /\ release' = release + 1
  /\ UNCHANGED <<files, heard, lock, post, agent, current, stops, history>>

-----------------------------------------------------------------------------
PostStep(q) == PostLocks(q) \/ PostMarks(q) \/ PostWrites(q)

AgentStep ==
  \/ AgentStarts \/ AgentInherits \/ AgentDrops \/ AgentSweeps \/ AgentPulses
  \/ AgentTakes \/ AgentChecks \/ AgentRuns \/ AgentReports \/ AgentRemoves \/ AgentClears

Next ==
  \/ \E q \in Posts : PostChecks(q) \/ PostStep(q)
  \/ LockExpires \/ AgentStep \/ AgentStops \/ AppStops \/ HeartbeatAges \/ Published

Spec == Init /\ [][Next]_vars

\* systemd starts the agent again, and its loop and the handlers go on while they live.
FairSpec == Spec /\ WF_vars(AgentStep) /\ \A q \in Posts : WF_vars(PostStep(q))

-----------------------------------------------------------------------------
(* Properties.                                                             *)

IsOpen(j) == request.id = j \/ active.id = j

\* The effect of an interrupted command is unknown, so it is never started a second
\* time, wherever the agent dies and starts again.
NeverReplayed == \A j \in Jobs : begun[j] <= 1

\* "succeeded" is reported of a request whose command ended well, and of no other.
ReportIsTrue == status.phase = "succeeded" => status.id \in ended

\* While a request is queued or runs, the mark keeps others out, and there is one such
\* request; the one exception is an agent that started while a request was being made.
MarkGuardsJob ==
  swept \/ /\ (request # NoJob \/ active # NoJob) => busy
           /\ request = NoJob \/ active = NoJob

\* A request that was accepted is not forgotten: the files show it to the panel until they
\* can show its outcome, before anything else (with the same exception: then it can be
\* overwritten).
LeavesAReport ==
  [][Shown'.id # Shown.id => swept \/ Shown.phase \notin {"queued", "running"}]_vars

\* Every accepted request is settled: the agent takes it, and gets done with it.
JobsSettle == \A j \in Jobs : IsOpen(j) ~> ~IsOpen(j)

\* "Wait for it to finish" is what ErrBusy tells: the mark goes away.
MarkEnds == busy ~> ~busy
=============================================================================
